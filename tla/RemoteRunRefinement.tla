------------------------ MODULE RemoteRunRefinement ------------------------
(***************************************************************************)
(* RemoteRun implements AbstractRun: over all its attempts, one            *)
(* incarnation of a trigger, its calls and their handlers look to the task *)
(* like one run of the list.                                               *)
(***************************************************************************)
EXTENDS RemoteRun

CONSTANT Watched   \* the incarnation looked at

ASSUME WatchedAssumption == Watched \in 0 .. MaxRestarts

Assigned ==
    [size |-> N, permitted |-> {t \in Tids : Permitted(config, commands[t].cmd)}]

Times == [t \in Tids |-> Cardinality(Executions(Watched, t))]

\* The exit codes of the executions of each command that have ended.
ExitCodes ==
    [t \in Tids |-> {exits[x[1]][x[2]] :
                        x \in {y \in Executions(Watched, t) : y[2] <= Len(exits[y[1]])}}]

\* The event, as far as it is that of this incarnation.
Reported ==
    [state |-> IF inc = Watched THEN event.state ELSE "none",
     codes |-> [t \in Tids |->
                  IF inc = Watched /\ (event.state = "SUCCESS" \/ event.why = "rc")
                  THEN {event.results[t].rc} ELSE {}]]

Task == INSTANCE AbstractRun WITH
            task <- Assigned, times <- Times, codes <- ExitCodes, report <- Reported

\* Retries, lost calls, rejections and time-outs are invisible to the task: every step
\* of the composed system is a step of AbstractRun or changes nothing of it. (run(),
\* _run_stream and processStream together.)
ImplementsAbstractRun == Task!Spec
=============================================================================
