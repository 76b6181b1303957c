--------------------------- MODULE ProcessStream ---------------------------
(***************************************************************************)
(* The server side of RemCmdStrm: RemSvcServiceImpl::processStream, one    *)
(* handler thread per call, behind the authentication interceptor.         *)
(* The loop is Read, admission check, run, count, Write; the first         *)
(* rejected command ends the whole stream.                                 *)
(***************************************************************************)
EXTENDS CommandPolicy, GrpcStream

VARIABLES
    config,              \* the regex lists the server was started with
    hpc,                 \* hpc[c]: where the handler of call c is
    hstat,               \* hstat[c]: the status it returned, "none" before that
    exits,               \* exits[c]: what m_runner returned so far; the last one is rc
    runs,                \* runs[c]: requests handed to m_runner so far (history)
    m_commandsExecuted   \* the counter GetStatus reports

handlerVars == <<hpc, hstat, exits, runs, m_commandsExecuted>>
serverVars  == <<config, hpc, hstat, exits, runs, m_commandsExecuted>>

ServerInit(Configs) ==
    /\ config \in Configs
    /\ hpc   = [c \in Calls |-> "none"]
    /\ hstat = [c \in Calls |-> "none"]
    /\ exits = [c \in Calls |-> <<>>]
    /\ runs  = [c \in Calls |-> <<>>]
    /\ m_commandsExecuted = 0

\* The request the handler read last (req in the code).
req(c) == c2s[c][taken[c]]

\* Mutant of RemResMsg: set_rc is missing.
RemResMsgWithoutRc(c) == [tid |-> req(c).tid, rc |-> 0, out |-> req(c).cmd, hsh |-> req(c).hsh]

\* The reply to it.  out stands for whatever the command printed; tid and hsh
\* are echoed.
RemResMsg(c) == [tid |-> req(c).tid, rc |-> exits[c][Len(exits[c])], out |-> req(c).cmd, hsh |-> req(c).hsh]

-----------------------------------------------------------------------------
\* gRPC hands the call to a handler thread.  A call that broke on the way may
\* still be handed over.
RemCmdStrm(c) ==
    /\ net[c] # "idle" /\ hpc[c] = "none"
    /\ hpc' = [hpc EXCEPT ![c] = "read"]
    /\ UNCHANGED <<streamVars, config, hstat, exits, runs, m_commandsExecuted>>

\* TokenAuthProcessor::Process refuses the call: no handler ever runs.
RefuseCall(c) ==
    /\ net[c] # "idle" /\ hpc[c] = "none"
    /\ hpc'   = [hpc EXCEPT ![c] = "done"]
    /\ hstat' = [hstat EXCEPT ![c] = "UNAUTHENTICATED"]
    /\ UNCHANGED <<streamVars, config, exits, runs, m_commandsExecuted>>

\* Read returns a request that passes both checks; m_runner is entered.
RunRequest(c) ==
    /\ hpc[c] = "read" /\ RequestReady(c)
    /\ TakeRequest(c)
    /\ Verdict(config, c2s[c][taken[c] + 1]) = "OK"
    /\ runs' = [runs EXCEPT ![c] = Append(@, c2s[c][taken[c] + 1])]
    /\ hpc'  = [hpc EXCEPT ![c] = "run"]
    /\ UNCHANGED <<net, c2s, half, s2c, got, cstat, config, hstat, exits, m_commandsExecuted>>

\* Mutant of RejectRequest: a rejected command is skipped, the loop goes on.
SkipRequest(c) ==
    /\ hpc[c] = "read" /\ RequestReady(c)
    /\ TakeRequest(c)
    /\ Verdict(config, c2s[c][taken[c] + 1]) # "OK"
    /\ UNCHANGED <<net, c2s, half, s2c, got, cstat, config, hpc, hstat, exits, runs, m_commandsExecuted>>

\* Read returns a request that fails a check: the handler returns its status.
RejectRequest(c) ==
    /\ hpc[c] = "read" /\ RequestReady(c)
    /\ TakeRequest(c)
    /\ Verdict(config, c2s[c][taken[c] + 1]) # "OK"
    /\ hstat' = [hstat EXCEPT ![c] = Verdict(config, c2s[c][taken[c] + 1])]
    /\ hpc'   = [hpc EXCEPT ![c] = "done"]
    /\ UNCHANGED <<net, c2s, half, s2c, got, cstat, config, exits, runs, m_commandsExecuted>>

\* Mutant of ReadEnds: the loop waits for the half-close, a broken call is not seen.
ReadEndsAtHalfClose(c) ==
    /\ hpc[c] = "read" /\ half[c] /\ ~RequestReady(c)
    /\ hstat' = [hstat EXCEPT ![c] = "OK"]
    /\ hpc'   = [hpc EXCEPT ![c] = "done"]
    /\ UNCHANGED <<streamVars, config, exits, runs, m_commandsExecuted>>

\* Read returns false: the handler returns OK, whatever the reason was.
ReadEnds(c) ==
    /\ hpc[c] = "read" /\ ReadReturnsFalse(c)
    /\ hstat' = [hstat EXCEPT ![c] = "OK"]
    /\ hpc'   = [hpc EXCEPT ![c] = "done"]
    /\ UNCHANGED <<streamVars, config, exits, runs, m_commandsExecuted>>

\* m_runner returns rc; the counter is bumped and the output truncated.
RunnerReturns(c, rc) ==
    /\ hpc[c] = "run"
    /\ exits' = [exits EXCEPT ![c] = Append(@, rc)]
    /\ m_commandsExecuted' = m_commandsExecuted + 1
    /\ hpc' = [hpc EXCEPT ![c] = "write"]
    /\ UNCHANGED <<streamVars, config, hstat, runs>>

\* stream.Write(res): its result is ignored and the loop goes on.
WriteResponse(c) ==
    /\ hpc[c] = "write"
    /\ PutResponse(c, RemResMsg(c))
    /\ hpc' = [hpc EXCEPT ![c] = "read"]
    /\ UNCHANGED <<net, c2s, half, taken, got, cstat, config, hstat, exits, runs, m_commandsExecuted>>

\* The trailers with the handler's status reach the client, after every
\* response written before them.
StatusDelivered(c) ==
    /\ hstat[c] # "none" /\ net[c] = "open"
    /\ CloseCall(c, hstat[c])
    /\ UNCHANGED <<c2s, half, taken, s2c, got, serverVars>>

HandlerStep(c) ==
    \/ RunRequest(c) \/ RejectRequest(c) \/ ReadEnds(c)
    \/ \E rc \in {0, 1} : RunnerReturns(c, rc)
    \/ WriteResponse(c)
=============================================================================
