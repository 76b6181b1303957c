------------------------------ MODULE RemoteRun ------------------------------
(***************************************************************************)
(* One Airflow task against one RemSvc server: the trigger, the stream and *)
(* the handlers of every call the trigger makes, with connection loss,     *)
(* deadlines, time-outs, refused calls and triggerer deaths in any order.  *)
(***************************************************************************)
EXTENDS RemSvcTrigger, ProcessStream, FiniteSets

CONSTANTS
    Configs,           \* server configurations to consider
    AckBeforeFailure   \* see LinkReportsLoss

ASSUME RemoteRunAssumption ==
    /\ Configs \subseteq Config
    /\ AckBeforeFailure \in BOOLEAN
    /\ TransportCodes \subseteq STRING /\ {"none", "OK"} \cap TransportCodes = {}
    /\ NoResult \notin [rc : Int, out : Cmds, cmd : Cmds]

vars == <<streamVars, triggerVars, serverVars>>

Init == StreamInit /\ TriggerInit /\ ServerInit(Configs)

-----------------------------------------------------------------------------
(* The client's steps leave the server alone, and conversely.              *)

Client ==
    /\ \/ RunStep \/ FailBeforeStream \/ TimeoutStreaming \/ TimeoutStarting
       \/ TriggererRestart
       \/ \E c \in Calls : WriterStep(c) \/ ReaderStep(c)
    /\ UNCHANGED serverVars

Server ==
    /\ \E c \in Calls : RemCmdStrm(c) \/ RefuseCall(c) \/ HandlerStep(c) \/ StatusDelivered(c)
    /\ UNCHANGED triggerVars

LinkLosesCall(c) == ConnLost(c) /\ UNCHANGED <<triggerVars, serverVars>>

\* run() decides on a retry by sent_ref, which counts writes whose await has
\* returned.  A request can be on the wire, or executed, before that.  With
\* AckBeforeFailure the library reports a broken call only after every request
\* that left has been counted; without it the two events race.
LinkReportsLoss(c) ==
    /\ AckBeforeFailure => Len(c2s[c]) <= sent_ref[c]
    /\ \E code \in TransportCodes : LossReported(c, code)
    /\ UNCHANGED <<triggerVars, serverVars>>

LinkDeadline(c) == DeadlineFires(c) /\ UNCHANGED <<triggerVars, serverVars>>

Link == \E c \in Calls : LinkLosesCall(c) \/ LinkReportsLoss(c) \/ LinkDeadline(c)

\* The run is over: the event is out and nothing is left to happen.
Quiet ==
    /\ pc = "done"
    /\ \A c \in Calls : hpc[c] = "done" \/ net[c] = "idle"
    /\ UNCHANGED vars

Next == Client \/ Server \/ Link \/ Quiet

Spec == Init /\ [][Next]_vars

-----------------------------------------------------------------------------
(* Fairness.  The event loop runs every ready coroutine; the runner ends,  *)
(* because runInProcess kills the child at its time limit; gRPC delivers   *)
(* messages and statuses of an open call.  Faults, the time-out of run()   *)
(* and the report of a broken call are never forced to happen.             *)

FairSpec ==
    /\ Spec
    /\ WF_vars(RunStep /\ UNCHANGED serverVars)
    /\ \A c \in Calls :
         /\ WF_vars(WriterStep(c) /\ UNCHANGED serverVars)
         /\ WF_vars(ReaderStep(c) /\ UNCHANGED serverVars)
         /\ WF_vars(net[c] = "open" /\ RemCmdStrm(c) /\ UNCHANGED triggerVars)
         /\ WF_vars((HandlerStep(c) \/ StatusDelivered(c)) /\ UNCHANGED triggerVars)

\* gRPC fires the deadline, stream_timeout, of the calls of _run_stream.
Deadlines == \A c \in Calls : WF_vars(LinkDeadline(c))

-----------------------------------------------------------------------------
(* Types.                                                                  *)

Codes     == {"none", "OK", "PERMISSION_DENIED", "INVALID_ARGUMENT", "UNAUTHENTICATED",
              "DEADLINE_EXCEEDED", "CANCELLED", "exception"} \cup TransportCodes
Response  == [tid : Tids, rc : {0, 1}, out : Cmds, hsh : Hashes \cup {NoHash}]
Result    == [rc : {0, 1}, out : Cmds, cmd : Cmds]
ResultMap == [Tids -> Result \cup {NoResult}]
Event     == [state   : {"none", "SUCCESS", "FAILED", "CANCELLED"},
              why     : {"none", "missing", "rc", "exception", "not retried", "timeout"},
              results : ResultMap]

StreamTypeOK ==
    /\ net   \in [Calls -> {"idle", "open", "closed"}]
    /\ c2s   \in [Calls -> Seq(Request(Tids))]
    /\ half  \in [Calls -> BOOLEAN]
    /\ taken \in [Calls -> Nat]
    /\ s2c   \in [Calls -> Seq(Response)]
    /\ got   \in [Calls -> Nat]
    /\ cstat \in [Calls -> Codes]

TriggerTypeOK ==
    /\ commands \in CommandLists
    /\ inc \in 0 .. MaxRestarts /\ attempt \in 1 .. MaxAttempts
    /\ pc \in {"start", "streaming", "done"}
    /\ sent_ref \in [Calls -> Nat]
    /\ wpc \in [Calls -> {"idle", "write", "await", "done", "failed", "dead"}]
    /\ rpc \in [Calls -> {"idle", "read", "done", "failed", "dead"}]
    /\ exc \in [Calls -> Codes]
    /\ results \in [Calls -> ResultMap]
    /\ event \in Event

ServerTypeOK ==
    /\ config \in Configs
    /\ hpc   \in [Calls -> {"none", "read", "run", "write", "done"}]
    /\ hstat \in [Calls -> Codes]
    /\ exits \in [Calls -> Seq({0, 1})]
    /\ runs  \in [Calls -> Seq(Request(Tids))]
    /\ m_commandsExecuted \in Nat

Cursors == \A c \in Calls : taken[c] <= Len(c2s[c]) /\ got[c] <= Len(s2c[c])

\* Type invariant of the composed system; the cursors stay within what they
\* index, so neither the handler nor _read consumes a message nobody sent.
TypeOK == StreamTypeOK /\ TriggerTypeOK /\ ServerTypeOK /\ Cursors

-----------------------------------------------------------------------------
(* Safety.                                                                 *)

CallsOf(i) == {c \in Calls : c[1] = i}

\* The executions of command t by the calls of incarnation i.
Executions(i, t) ==
    UNION {{<<c, k>> : k \in {j \in DOMAIN runs[c] : runs[c][j].tid = t}} : c \in CallsOf(i)}

\* The retry rule of run() ("not retrying to prevent duplicate execution"): one
\* incarnation of the trigger hands no command to the runner twice, over all
\* its attempts.
AtMostOnce ==
    \A i \in 0 .. MaxRestarts : \A t \in Tids :
        \A x, y \in Executions(i, t) : x = y

\* Even when the loss report overtakes the completion of a write, sent_ref is
\* behind by at most one, so only the first command can be run again, and no
\* single call ever runs a command twice.
OnlyFirstRepeats ==
    \A i \in 0 .. MaxRestarts : \A t \in Tids :
        \A x, y \in Executions(i, t) : x # y => t = 1 /\ x[1] # y[1]

\* What processStream hands to the runner is, call by call, an initial segment
\* of the command list, each with the command of its number, and it ends before
\* the first command the documented policy forbids: a rejection stops the
\* commands behind it, whatever the connection does meanwhile.
RunsArePermittedPrefix ==
    \A c \in Calls : \A k \in DOMAIN runs[c] :
        /\ runs[c][k].tid = k /\ runs[c][k].cmd = commands[k].cmd
        /\ \A t \in 1 .. k : Permitted(config, commands[t].cmd)

\* What the event says is what happened: SUCCESS, and FAILED for a non-zero exit
\* code, are reported only after the last call ran every command once and in
\* order; each result holds the exit code and the output of its own command; and
\* it is SUCCESS exactly when every exit code is 0.
ReportIsExact ==
    event.state = "SUCCESS" \/ event.why = "rc" =>
        /\ DOMAIN runs[cur] = Tids
        /\ \A t \in Tids :
              /\ runs[cur][t].tid = t
              /\ event.results[t] = [rc  |-> exits[cur][t],
                                     out |-> runs[cur][t].cmd,
                                     cmd |-> commands[t].cmd]
              /\ event.results[t].out = event.results[t].cmd
        /\ event.state = "SUCCESS" <=> \A t \in Tids : exits[cur][t] = 0

\* With this server the "No response for tid(s)" outcome cannot happen: a
\* stream that ends with OK has answered every command, although processStream
\* ignores the result of Write and returns OK for a broken call too.
NoneMissing == event.why # "missing"

\* When the event reports success no handler of this incarnation is still
\* executing a command or holding a response.
SuccessIsQuiet ==
    event.state = "SUCCESS" => \A c \in CallsOf(inc) : hpc[c] \notin {"run", "write"}

\* The comment above gather: when _write raises, gather "cancels _read() and
\* re-raises", so no coroutine of the run survives the event.
NoCoroutineSurvives ==
    pc = "done" => \A c \in CallsOf(inc) : rpc[c] # "read"

-----------------------------------------------------------------------------
(* Steps and liveness.                                                     *)

\* "Yield exactly one TriggerEvent": once out, the event and the decision not
\* to open another call are final, even while orphaned coroutines, handlers and
\* deadlines are still at work.
EventIsFinal ==
    [][event.state # "none" =>
          event' = event /\ \A c \in Calls : net[c] = "idle" => net'[c] = "idle"]_vars

\* The trigger always reports: with the deadline every run ends, whatever breaks.
AlwaysReports == Deadlines => <>(pc = "done")

\* Every handler thread comes back, also for a call whose client raised before
\* done_writing and left the call open: the call deadline ends it.
HandlersReturn == Deadlines => \A c \in Calls : hpc[c] # "none" ~> hpc[c] = "done"

\* The connection of call c is gone and the client has not been told.
Unreported(c) == net[c] = "closed" /\ cstat[c] = "none"

\* Only a silent connection needs the deadline: otherwise the run ends by itself,
\* with the windows full, with rejections and with ill-typed commands: writer,
\* reader and handler never wait for each other in a circle.
CompletesUnaided == <>(pc = "done") \/ <>[](\E c \in Calls : Unreported(c))
=============================================================================
