--------------------------- MODULE RemSvcService ---------------------------
(***************************************************************************)
(* The unary calls Ping, GetStatus and RemCmd: the handlers of             *)
(* RemSvcServiceImpl, any number of them at once on gRPC threads, and the  *)
(* C++ client functions doPing, doGetStatus and doRemCmd, which give every *)
(* call a deadline of 30 s.  A handler does not learn that its client has  *)
(* given up.                                                               *)
(***************************************************************************)
EXTENDS CommandPolicy, FiniteSets

CONSTANTS
    Calls,      \* identities of calls
    Requests,   \* RemCmdMsg values a client may send
    Configs,    \* server configurations to consider
    MaxSeq      \* bound on the sequence numbers of pings

Tid == 0   \* unary calls are told apart by the call, not by their tid

ASSUME ServiceAssumption ==
    /\ IsFiniteSet(Calls) /\ MaxSeq \in Nat
    /\ Requests \subseteq Request({Tid}) /\ Configs \subseteq Config

VARIABLES
    config,
    method,              \* method[c]: "none", "Ping", "GetStatus" or "RemCmd"
    arg,                 \* arg[c]: the request
    pc,                  \* pc[c]: the handler: "none", "check", "run", "done"
    reply,               \* reply[c]: [code, val] once the handler has returned
    outcome,             \* outcome[c]: what the client function returned
    m_commandsExecuted,
    seen                 \* seen[c]: RemCmd calls answered when c was started (history)

vars == <<config, method, arg, pc, reply, outcome, m_commandsExecuted, seen>>

Nothing == [code |-> "none", val |-> -1]
NoArg   == [tid |-> Tid, cmd |-> CHOOSE k \in Cmds : TRUE, hsh |-> NoHash]

Init ==
    /\ config \in Configs
    /\ method  = [c \in Calls |-> "none"]
    /\ arg     = [c \in Calls |-> NoArg]
    /\ pc      = [c \in Calls |-> "none"]
    /\ reply   = [c \in Calls |-> Nothing]
    /\ outcome = [c \in Calls |-> Nothing]
    /\ m_commandsExecuted = 0
    /\ seen    = [c \in Calls |-> {}]

\* The RemCmd calls whose client has its answer.
Answered == {c \in Calls : method[c] = "RemCmd" /\ outcome[c].code = "OK"}

-----------------------------------------------------------------------------
(* The client functions.                                                   *)

Start(c, m) ==
    /\ method[c] = "none"
    /\ method' = [method EXCEPT ![c] = m]
    /\ pc'     = [pc EXCEPT ![c] = "check"]
    /\ seen'   = [seen EXCEPT ![c] = Answered]
    /\ UNCHANGED <<config, reply, outcome, m_commandsExecuted>>

doRemCmd(c, req) == Start(c, "RemCmd") /\ arg' = [arg EXCEPT ![c] = req]

doGetStatus(c) == Start(c, "GetStatus") /\ UNCHANGED arg

\* The sequence number travels in the field the model has for it.
doPing(c, seq) == Start(c, "Ping") /\ arg' = [arg EXCEPT ![c].tid = seq]

\* Mutant of OnFailure: a failed call leaves the result at zero.
FailureIsZero(c) == 0

\* What doRemCmd, doPing and doGetStatus return when the status is not OK.
OnFailure(c) == CASE method[c] = "RemCmd" -> 1 [] method[c] = "Ping" -> 0 [] OTHER -> -1

\* The reply arrives: doRemCmd returns rc, doPing the sequence number, doGetStatus
\* the message.
Receive(c) ==
    /\ reply[c].code # "none" /\ outcome[c].code = "none"
    /\ outcome' = [outcome EXCEPT ![c] =
                      [code |-> reply[c].code,
                       val  |-> IF reply[c].code = "OK" THEN reply[c].val ELSE OnFailure(c)]]
    /\ UNCHANGED <<config, method, arg, pc, reply, m_commandsExecuted, seen>>

\* The deadline passes or the connection breaks first.
GiveUp(c) ==
    /\ method[c] # "none" /\ outcome[c].code = "none"
    /\ outcome' = [outcome EXCEPT ![c] = [code |-> "DEADLINE_EXCEEDED", val |-> OnFailure(c)]]
    /\ UNCHANGED <<config, method, arg, pc, reply, m_commandsExecuted, seen>>

-----------------------------------------------------------------------------
(* The handlers.                                                           *)

Respond(c, code, val) ==
    /\ pc'    = [pc EXCEPT ![c] = "done"]
    /\ reply' = [reply EXCEPT ![c] = [code |-> code, val |-> val]]

Ping(c) ==
    /\ method[c] = "Ping" /\ pc[c] = "check"
    /\ Respond(c, "OK", arg[c].tid)
    /\ UNCHANGED <<config, method, arg, outcome, m_commandsExecuted, seen>>

\* m_commandsExecuted.load(), in the text of the message.
GetStatus(c) ==
    /\ method[c] = "GetStatus" /\ pc[c] = "check"
    /\ Respond(c, "OK", m_commandsExecuted)
    /\ UNCHANGED <<config, method, arg, outcome, m_commandsExecuted, seen>>

\* Mutant of Admit: the hash is not checked.
AdmitUnhashed(c) ==
    /\ method[c] = "RemCmd" /\ pc[c] = "check"
    /\ checkAllowed(RemSvcServiceImpl(config), arg[c].cmd)
    /\ pc' = [pc EXCEPT ![c] = "run"]
    /\ UNCHANGED <<config, method, arg, reply, outcome, m_commandsExecuted, seen>>

\* RemCmd up to m_runner.
Admit(c) ==
    /\ method[c] = "RemCmd" /\ pc[c] = "check"
    /\ Verdict(config, arg[c]) = "OK"
    /\ pc' = [pc EXCEPT ![c] = "run"]
    /\ UNCHANGED <<config, method, arg, reply, outcome, m_commandsExecuted, seen>>

\* RemCmd, the early returns.
Reject(c) ==
    /\ method[c] = "RemCmd" /\ pc[c] = "check"
    /\ Verdict(config, arg[c]) # "OK"
    /\ Respond(c, Verdict(config, arg[c]), -1)
    /\ UNCHANGED <<config, method, arg, outcome, m_commandsExecuted, seen>>

\* Mutant of Finish: the counter is not bumped.
FinishUncounted(c, rc) ==
    /\ pc[c] = "run"
    /\ Respond(c, "OK", rc)
    /\ UNCHANGED <<config, method, arg, outcome, m_commandsExecuted, seen>>

\* RemCmd from m_runner to its return.
Finish(c, rc) ==
    /\ pc[c] = "run"
    /\ m_commandsExecuted' = m_commandsExecuted + 1
    /\ Respond(c, "OK", rc)
    /\ UNCHANGED <<config, method, arg, outcome, seen>>

Handle(c) ==
    \/ Ping(c) \/ GetStatus(c) \/ Admit(c) \/ Reject(c)
    \/ \E rc \in {0, 1} : Finish(c, rc)

Over == (\A c \in Calls : pc[c] = "done" /\ outcome[c].code # "none") /\ UNCHANGED vars

Next ==
    \/ \E c \in Calls :
         \/ \E req \in Requests : doRemCmd(c, req)
         \/ \E seq \in 1 .. MaxSeq : doPing(c, seq)
         \/ doGetStatus(c)
         \/ Receive(c) \/ GiveUp(c) \/ Handle(c)
    \/ Over

Spec == Init /\ [][Next]_vars

-----------------------------------------------------------------------------
\* The RemCmd calls that reached m_runner.
Ran == {c \in Calls : method[c] = "RemCmd" /\ (pc[c] = "run" \/ reply[c].code = "OK")}

\* What GetStatus tells is never behind what its caller can know: it counts every
\* command that was answered before the call, and never one that has not run,
\* while other handlers run, finish, or are abandoned by their clients.
StatusIsCurrent ==
    \A c \in Calls : method[c] = "GetStatus" /\ reply[c].code = "OK" =>
        /\ Cardinality(seen[c]) <= reply[c].val
        /\ reply[c].val <= Cardinality(Ran)

\* Only what the documented policy permits, and whose hash is absent or right,
\* reaches the runner, however many requests are checked at the same time.
OnlyAdmittedRuns ==
    \A c \in Ran : Permitted(config, arg[c].cmd) /\ arg[c].hsh \in {NoHash, Crc[arg[c].cmd]}

\* doRemCmd returns 0 only for a command that ran and ended with 0; a rejection
\* says that the command did not run and never will; a deadline says nothing:
\* the command may be running, and will be counted.
OutcomeIsHonest ==
    \A c \in Calls : method[c] = "RemCmd" =>
        /\ outcome[c].val = 0 => c \in Ran /\ reply[c].val = 0
        /\ outcome[c].code \in {"PERMISSION_DENIED", "INVALID_ARGUMENT"} => c \notin Ran
=============================================================================
