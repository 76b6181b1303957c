-------------------------- MODULE RemoteRunProofs --------------------------
(***************************************************************************)
(* Theorems about RemoteRun, for every number of commands, attempts,       *)
(* restarts and configurations: type correctness, at-most-once execution   *)
(* and policy from the invariant IndInv; then what the event reports, and  *)
(* the refinement of AbstractRun, from RepInv, which follows one response  *)
(* from the runner over the wire and the results of _read into the event.  *)
(***************************************************************************)
EXTENDS RemoteRun, RemoteRunRefinement, CommandPolicyProofs, FiniteSetTheorems, TLAPS

-----------------------------------------------------------------------------
(* The inductive invariant.                                                *)

\* A handler that holds a response has read its request and has an exit code.
HandlerReady ==
    \A c \in Calls :
        /\ hpc[c] \in {"run", "write"} => taken[c] > 0
        /\ hpc[c] = "write" => Len(exits[c]) > 0

TypeInv == TypeOK /\ HandlerReady

\* A call that was not started carries nothing.
IdleIsEmpty ==
    \A c \in Calls : net[c] = "idle" =>
        c2s[c] = <<>> /\ sent_ref[c] = 0 /\ wpc[c] = "idle" /\ exc[c] = "none"
                      /\ cstat[c] = "none"

\* What is on the wire against what _write has counted: equal while the call is
\* open and the writer is between two writes, one more while it waits.
SentTracksWire ==
    \A c \in Calls :
        /\ Len(c2s[c]) <= sent_ref[c] + 1
        /\ wpc[c] = "write" => Len(c2s[c]) <= sent_ref[c]
        /\ wpc[c] = "write" /\ net[c] = "open" => Len(c2s[c]) = sent_ref[c]
        /\ wpc[c] = "await" /\ net[c] = "open" => Len(c2s[c]) = sent_ref[c] + 1
        /\ net[c] = "open" => cstat[c] = "none"

\* The k-th request on the wire is command number k.
WireInOrder ==
    \A c \in Calls : \A k \in 1 .. Len(c2s[c]) :
        k \in Tids /\ c2s[c][k] = RemCmdMsg(k)

\* The handler runs what it reads, in the order it reads it.
RunsFollowWire ==
    \A c \in Calls :
        /\ Len(runs[c]) <= taken[c]
        /\ hpc[c] # "done" => Len(runs[c]) = taken[c]
        /\ \A k \in 1 .. Len(runs[c]) : runs[c][k] = c2s[c][k]

\* Retryable codes come from the transport, never from the handler, and the
\* exception out of gather is the call's status unless it is another kind.
CodesAreHonest ==
    \A c \in Calls :
        /\ hstat[c] \notin RetryableCodes
        /\ exc[c] \in RetryableCodes => cstat[c] = exc[c]
        /\ AckBeforeFailure /\ cstat[c] \in RetryableCodes => Len(c2s[c]) <= sent_ref[c]

\* An attempt that was followed by another one is over, and it sent at most the
\* first command, none if the library reports in order.
Superseded(c) ==
    /\ cstat[c] # "none"
    /\ Len(c2s[c]) <= 1
    /\ AckBeforeFailure => Len(c2s[c]) = 0

RetriedSentNothing ==
    \A c, d \in Calls :
        c[1] = d[1] /\ c[2] < d[2] /\ (net[d] # "idle" \/ d = cur) => Superseded(c)

IndInv ==
    /\ TypeInv
    /\ IdleIsEmpty /\ SentTracksWire /\ WireInOrder /\ RunsFollowWire
    /\ CodesAreHonest /\ RetriedSentNothing

-----------------------------------------------------------------------------
(* Facts about the constants and the operators.                            *)

\* The step of the composed system, flattened: one disjunct per operation.
LEMMA NextCases ==
    ASSUME Next
    PROVE  \/ UNCHANGED serverVars
              /\ \/ OpenStream \/ Retry \/ GiveUp \/ Analyse
                 \/ FailBeforeStream \/ TimeoutStreaming \/ TimeoutStarting \/ TriggererRestart
                 \/ \E c \in Calls : \/ Transmit(c) \/ WriteCompletes(c) \/ BuildFails(c)
                                     \/ WriteFails(c) \/ WriterDone(c)
                                     \/ ReadResponse(c) \/ ReaderDone(c) \/ ReaderRaises(c)
           \/ UNCHANGED triggerVars
              /\ \E c \in Calls :
                   \/ RemCmdStrm(c) \/ RefuseCall(c) \/ RunRequest(c) \/ RejectRequest(c)
                   \/ ReadEnds(c) \/ (\E rc \in {0, 1} : RunnerReturns(c, rc))
                   \/ WriteResponse(c) \/ StatusDelivered(c)
           \/ \E c \in Calls : LinkLosesCall(c) \/ LinkReportsLoss(c) \/ LinkDeadline(c)
           \/ UNCHANGED vars
BY DEF Next, Client, Server, Link, Quiet, RunStep, WriterStep, ReaderStep, HandlerStep

\* The current call is one of the calls.
LEMMA CurIsCall == ASSUME TriggerTypeOK PROVE cur \in Calls
BY TriggerAssumption DEF TriggerTypeOK, cur

\* The message _write builds is a request.
LEMMA MessageType ==
    ASSUME commands \in CommandLists, NEW t \in Tids
    PROVE  RemCmdMsg(t) \in Request(Tids)
BY CommandListsAssumption, CrcAssumption DEF RemCmdMsg, Request

\* What Verdict returns is a status code that is never retryable.
LEMMA VerdictCodes ==
    ASSUME NEW cf, NEW r
    PROVE  Verdict(cf, r) \in {"OK", "PERMISSION_DENIED", "INVALID_ARGUMENT"}
BY DEF Verdict

\* An empty result map is a result map.
LEMMA EmptyType == Empty \in ResultMap
BY DEF Empty, ResultMap

\* Changing one value of a function.
LEMMA UpdateOne ==
    ASSUME NEW S, NEW f \in [Calls -> S], NEW c \in Calls, NEW v \in S
    PROVE  [f EXCEPT ![c] = v] \in [Calls -> S]
OBVIOUS

\* Appending to one of a family of sequences.
LEMMA AppendTo ==
    ASSUME NEW S, NEW f \in [Calls -> Seq(S)], NEW c \in Calls, NEW e \in S,
           NEW g, g = [f EXCEPT ![c] = Append(@, e)]
    PROVE  /\ g \in [Calls -> Seq(S)]
           /\ g[c] = Append(f[c], e)
           /\ Len(g[c]) = Len(f[c]) + 1 /\ Len(f[c]) \in Nat
           /\ \A k \in 1 .. Len(f[c]) : g[c][k] = f[c][k]
           /\ g[c][Len(f[c]) + 1] = e
           /\ \A d \in Calls \ {c} : g[d] = f[d]
OBVIOUS

-----------------------------------------------------------------------------
(* Type correctness.                                                       *)

LEMMA TypeInvInit == Init => TypeInv
<1> SUFFICES ASSUME Init PROVE TypeInv
    OBVIOUS
<1> USE DEF Init
<1>1. StreamTypeOK /\ Cursors
    BY DEF StreamInit, StreamTypeOK, Cursors, Codes
<1>2. NoEvent \in Event
    BY EmptyType DEF NoEvent, Event
<1>3. TriggerTypeOK
    BY <1>2, TriggerAssumption, EmptyType DEF TriggerInit, TriggerTypeOK, Codes
<1>4. ServerTypeOK /\ HandlerReady
    BY DEF ServerInit, ServerTypeOK, HandlerReady, Codes
<1> QED
    BY <1>1, <1>3, <1>4 DEF TypeInv, TypeOK

\* The response a handler is about to write.
LEMMA ResponseType ==
    ASSUME TypeInv, NEW c \in Calls, hpc[c] = "write"
    PROVE  RemResMsg(c) \in Response
<1>1. req(c) \in Request(Tids)
    BY DEF TypeInv, TypeOK, StreamTypeOK, Cursors, HandlerReady, req
<1>2. exits[c][Len(exits[c])] \in {0, 1}
    BY DEF TypeInv, TypeOK, ServerTypeOK, HandlerReady
<1> QED
    BY <1>1, <1>2 DEF RemResMsg, Response, Request

LEMMA StreamTyped == TypeInv /\ Next => StreamTypeOK'
<1> SUFFICES ASSUME TypeInv, Next PROVE StreamTypeOK'
    OBVIOUS
<1>c. cur \in Calls
    BY CurIsCall DEF TypeInv, TypeOK
<1>t. StreamTypeOK
    BY DEF TypeInv, TypeOK
<1>1. CASE OpenStream
    BY <1>c, <1>t, <1>1 DEF OpenStream, OpenCall, StreamTypeOK
<1>2. CASE TimeoutStreaming
    BY <1>c, <1>t, <1>2 DEF TimeoutStreaming, CloseCall, StreamTypeOK, Codes
<1>3. CASE TriggererRestart
    BY <1>t, <1>3 DEF TriggererRestart, StreamTypeOK
<1>4. ASSUME NEW c \in Calls, Transmit(c) PROVE StreamTypeOK'
  <2> DEFINE r == RemCmdMsg(next(c))
             R == Request(Tids)
  <2>1. r \in R
      BY <1>4, MessageType DEF Transmit, TypeInv, TypeOK, TriggerTypeOK
  <2>2. c2s' = c2s \/ c2s' = [c2s EXCEPT ![c] = Append(@, r)]
      BY <1>4 DEF Transmit, PutRequest
  <2>3. c2s \in [Calls -> Seq(R)]
      BY <1>t DEF StreamTypeOK
  <2> HIDE DEF r, R
  <2>4. c2s' \in [Calls -> Seq(R)]
      BY <2>1, <2>2, <2>3, AppendTo
  <2> USE DEF R
  <2> QED
      BY <1>t, <1>4, <2>4 DEF Transmit, StreamTypeOK
<1>5. ASSUME NEW c \in Calls, WriterDone(c) PROVE StreamTypeOK'
  <2> DEFINE b == half[c] \/ net[c] = "open"
  <2>1. half \in [Calls -> BOOLEAN] /\ half' = [half EXCEPT ![c] = b]
      BY <1>t, <1>5 DEF WriterDone, HalfClose, StreamTypeOK
  <2>b. b \in BOOLEAN
      BY Zenon
  <2>2. half' \in [Calls -> BOOLEAN]
      BY <2>1, <2>b, UpdateOne
  <2> QED
      BY <1>t, <1>5, <2>2 DEF WriterDone, StreamTypeOK
<1>6. ASSUME NEW c \in Calls, ReadResponse(c) PROVE StreamTypeOK'
    BY <1>t, <1>6 DEF ReadResponse, TakeResponse, StreamTypeOK
<1>7. ASSUME NEW c \in Calls, RunRequest(c) \/ RejectRequest(c) PROVE StreamTypeOK'
  <2>1. TakeRequest(c) /\ UNCHANGED <<net, c2s, half, s2c, got, cstat>>
      BY <1>7 DEF RunRequest, RejectRequest
  <2> QED
      BY <1>t, <2>1 DEF TakeRequest, StreamTypeOK
<1>8. ASSUME NEW c \in Calls, WriteResponse(c) PROVE StreamTypeOK'
  <2> DEFINE r == RemResMsg(c)
  <2>1. r \in Response
      BY <1>8, ResponseType DEF WriteResponse
  <2>2. s2c' = s2c \/ s2c' = [s2c EXCEPT ![c] = Append(@, r)]
      BY <1>8 DEF WriteResponse, PutResponse
  <2>3. s2c \in [Calls -> Seq(Response)]
      BY <1>t DEF StreamTypeOK
  <2> HIDE DEF r
  <2>4. s2c' \in [Calls -> Seq(Response)]
      BY <2>1, <2>2, <2>3, AppendTo
  <2> QED
      BY <1>t, <1>8, <2>4 DEF WriteResponse, StreamTypeOK
<1>9. ASSUME NEW c \in Calls, StatusDelivered(c) PROVE StreamTypeOK'
    BY <1>t, <1>9 DEF StatusDelivered, CloseCall, StreamTypeOK, TypeInv, TypeOK, ServerTypeOK
<1>10. ASSUME NEW c \in Calls, LinkLosesCall(c) \/ LinkReportsLoss(c) \/ LinkDeadline(c)
       PROVE  StreamTypeOK'
    BY <1>t, <1>10 DEF LinkLosesCall, LinkReportsLoss, LinkDeadline, ConnLost, LossReported,
                       DeadlineFires, CloseCall, StreamTypeOK, Codes
<1>11. ASSUME UNCHANGED streamVars PROVE StreamTypeOK'
    BY <1>t, <1>11 DEF streamVars, StreamTypeOK
<1>12. \/ OpenStream \/ TimeoutStreaming \/ TriggererRestart \/ UNCHANGED streamVars
       \/ \E c \in Calls : \/ Transmit(c) \/ WriterDone(c) \/ ReadResponse(c)
                           \/ RunRequest(c) \/ RejectRequest(c) \/ WriteResponse(c)
                           \/ StatusDelivered(c)
                           \/ LinkLosesCall(c) \/ LinkReportsLoss(c) \/ LinkDeadline(c)
    BY NextCases DEF Retry, GiveUp, Analyse, FailBeforeStream, TimeoutStarting, WriteCompletes,
                     BuildFails, WriteFails, WriterRaises, ReaderDone, ReaderRaises,
                     RemCmdStrm, RefuseCall, ReadEnds, RunnerReturns, vars
<1> QED
    BY <1>1, <1>2, <1>3, <1>4, <1>5, <1>6, <1>7, <1>8, <1>9, <1>10, <1>11, <1>12

\* Yield produces an event, whatever its arguments from these sets.
LEMMA YieldType ==
    ASSUME NEW st \in {"SUCCESS", "FAILED", "CANCELLED"},
           NEW why \in {"none", "missing", "rc", "exception", "not retried", "timeout"},
           NEW res \in ResultMap, Yield(st, why, res)
    PROVE  event' \in Event /\ pc' = "done"
BY DEF Yield, Event

\* A response read by _read becomes a well-typed entry of the results.
LEMMA ResultsTyped ==
    ASSUME TypeInv, NEW c \in Calls, ReadResponse(c)
    PROVE  results' \in [Calls -> ResultMap]
<1> DEFINE r == s2c[c][got[c] + 1]
           e == [rc |-> r.rc, out |-> r.out, cmd |-> commands[r.tid].cmd]
<1>1. r \in Response
    BY DEF TypeInv, TypeOK, StreamTypeOK, Cursors, ReadResponse, ResponseReady
<1>2. r.tid \in Tids
    BY <1>1 DEF Response
<1>3. commands[r.tid].cmd \in Cmds
    BY <1>2, CommandListsAssumption DEF TypeInv, TypeOK, TriggerTypeOK
<1>4. e \in Result
    BY <1>1, <1>3 DEF Response, Result
<1>5. results' = [results EXCEPT ![c][r.tid] = e]
    BY DEF ReadResponse
<1> HIDE DEF r, e
<1> QED
    BY <1>2, <1>4, <1>5 DEF TypeInv, TypeOK, TriggerTypeOK, ResultMap

LEMMA TriggerTyped == TypeInv /\ Next => TriggerTypeOK'
<1> SUFFICES ASSUME TypeInv, Next PROVE TriggerTypeOK'
    OBVIOUS
<1>t. TriggerTypeOK /\ cstat \in [Calls -> Codes]
    BY DEF TypeInv, TypeOK, StreamTypeOK
<1>c. cur \in Calls /\ results[cur] \in ResultMap
    BY <1>t, CurIsCall DEF TriggerTypeOK
<1>1. CASE OpenStream
    BY <1>t, <1>c, <1>1 DEF OpenStream, TriggerTypeOK
<1>2. CASE Retry
    BY <1>t, <1>2, TriggerAssumption DEF Retry, TriggerTypeOK, coroVars
<1>3. CASE GiveUp
  <2>1. event' \in Event /\ pc' = "done"
      BY <1>3, EmptyType, YieldType DEF GiveUp
  <2> QED
      BY <1>t, <1>3, <2>1 DEF GiveUp, TriggerTypeOK, coroVars
<1>4. CASE Analyse
  <2>1. event' \in Event /\ pc' = "done"
      BY <1>c, <1>4, YieldType DEF Analyse
  <2> QED
      BY <1>t, <1>4, <2>1 DEF Analyse, TriggerTypeOK, coroVars
<1>5. CASE FailBeforeStream \/ TimeoutStarting
  <2>1. event' \in Event /\ pc' = "done"
      BY <1>5, EmptyType, YieldType DEF FailBeforeStream, TimeoutStarting
  <2> QED
      BY <1>t, <1>5, <2>1 DEF FailBeforeStream, TimeoutStarting, TriggerTypeOK, coroVars
<1>6. CASE TimeoutStreaming
  <2>1. event' \in Event /\ pc' = "done"
      BY <1>6, EmptyType, YieldType DEF TimeoutStreaming
  <2> QED
      BY <1>t, <1>c, <1>6, <2>1 DEF TimeoutStreaming, TriggerTypeOK
<1>7. CASE TriggererRestart
    BY <1>t, <1>7, TriggerAssumption DEF TriggererRestart, TriggerTypeOK
<1>8. ASSUME NEW c \in Calls, Transmit(c) \/ WriterDone(c) PROVE TriggerTypeOK'
  <2>1. /\ wpc' = [wpc EXCEPT ![c] = "await"] \/ wpc' = [wpc EXCEPT ![c] = "done"]
        /\ UNCHANGED <<runVars, sent_ref, rpc, exc, results>>
      BY <1>8 DEF Transmit, WriterDone
  <2> QED
      BY <1>t, <2>1 DEF TriggerTypeOK, runVars
<1>9. ASSUME NEW c \in Calls, WriteCompletes(c) PROVE TriggerTypeOK'
    BY <1>t, <1>9 DEF WriteCompletes, TriggerTypeOK, runVars
<1>10. ASSUME NEW c \in Calls, BuildFails(c) \/ WriteFails(c) PROVE TriggerTypeOK'
  <2>1. PICK e \in Codes : WriterRaises(c, e)
      BY <1>t, <1>10 DEF BuildFails, WriteFails, Codes
  <2> QED
      BY <1>t, <2>1 DEF WriterRaises, TriggerTypeOK, runVars
<1>11. ASSUME NEW c \in Calls, ReadResponse(c) PROVE TriggerTypeOK'
  <2>1. results' \in [Calls -> ResultMap]
      BY <1>11, ResultsTyped
  <2>2. UNCHANGED <<runVars, sent_ref, wpc, rpc, exc>>
      BY <1>11 DEF ReadResponse
  <2> QED
      BY <1>t, <2>1, <2>2 DEF TriggerTypeOK, runVars
<1>12. ASSUME NEW c \in Calls, ReaderDone(c) \/ ReaderRaises(c) PROVE TriggerTypeOK'
    BY <1>t, <1>12 DEF ReaderDone, ReaderRaises, TriggerTypeOK, runVars
<1>13. ASSUME UNCHANGED triggerVars PROVE TriggerTypeOK'
    BY <1>t, <1>13 DEF triggerVars, TriggerTypeOK
<1>14. UNCHANGED triggerVars
       \/ \/ OpenStream \/ Retry \/ GiveUp \/ Analyse
          \/ FailBeforeStream \/ TimeoutStreaming \/ TimeoutStarting \/ TriggererRestart
       \/ \E c \in Calls : \/ Transmit(c) \/ WriteCompletes(c) \/ BuildFails(c)
                           \/ WriteFails(c) \/ WriterDone(c)
                           \/ ReadResponse(c) \/ ReaderDone(c) \/ ReaderRaises(c)
    BY NextCases DEF LinkLosesCall, LinkReportsLoss, LinkDeadline, vars
<1> QED
    BY <1>1, <1>2, <1>3, <1>4, <1>5, <1>6, <1>7, <1>8, <1>9, <1>10, <1>11, <1>12, <1>13, <1>14

\* Which steps move the server's own variables.
LEMMA ServerCases ==
    ASSUME Next
    PROVE  \/ UNCHANGED serverVars
           \/ \E c \in Calls : \/ RemCmdStrm(c) \/ RefuseCall(c) \/ RunRequest(c)
                               \/ RejectRequest(c) \/ ReadEnds(c) \/ WriteResponse(c)
                               \/ \E rc \in {0, 1} : RunnerReturns(c, rc)
BY NextCases DEF LinkLosesCall, LinkReportsLoss, LinkDeadline, StatusDelivered, vars

LEMMA ServerTyped == TypeInv /\ Next => ServerTypeOK'
<1> SUFFICES ASSUME TypeInv, Next PROVE ServerTypeOK'
    OBVIOUS
<1>t. ServerTypeOK
    BY DEF TypeInv, TypeOK
<1>1. ASSUME NEW c \in Calls, RemCmdStrm(c) \/ RefuseCall(c) \/ ReadEnds(c) PROVE ServerTypeOK'
    BY <1>t, <1>1 DEF RemCmdStrm, RefuseCall, ReadEnds, ServerTypeOK, Codes
<1>2. ASSUME NEW c \in Calls, RunRequest(c) PROVE ServerTypeOK'
  <2> DEFINE r == c2s[c][taken[c] + 1]
             R == Request(Tids)
  <2>1. r \in R
      BY <1>2 DEF TypeInv, TypeOK, StreamTypeOK, Cursors, RunRequest, RequestReady
  <2>2. runs \in [Calls -> Seq(R)] /\ runs' = [runs EXCEPT ![c] = Append(@, r)]
      BY <1>t, <1>2 DEF RunRequest, ServerTypeOK
  <2>3. hpc' = [hpc EXCEPT ![c] = "run"] /\ UNCHANGED <<config, hstat, exits, m_commandsExecuted>>
      BY <1>2 DEF RunRequest
  <2> HIDE DEF r, R
  <2>4. runs' \in [Calls -> Seq(R)]
      BY <2>1, <2>2, AppendTo
  <2> USE DEF R
  <2> QED
      BY <1>t, <2>3, <2>4 DEF ServerTypeOK
<1>3. ASSUME NEW c \in Calls, RejectRequest(c) PROVE ServerTypeOK'
  <2>1. PICK v \in Codes : hstat' = [hstat EXCEPT ![c] = v]
      BY <1>3, VerdictCodes DEF RejectRequest, Codes
  <2>2. hpc' = [hpc EXCEPT ![c] = "done"] /\ UNCHANGED <<config, exits, runs, m_commandsExecuted>>
      BY <1>3 DEF RejectRequest
  <2> QED
      BY <1>t, <2>1, <2>2 DEF ServerTypeOK
<1>4. ASSUME NEW c \in Calls, NEW rc \in {0, 1}, RunnerReturns(c, rc) PROVE ServerTypeOK'
  <2>1. exits \in [Calls -> Seq({0, 1})] /\ exits' = [exits EXCEPT ![c] = Append(@, rc)]
      BY <1>t, <1>4 DEF RunnerReturns, ServerTypeOK
  <2>2. exits' \in [Calls -> Seq({0, 1})]
      BY <2>1, AppendTo
  <2> QED
      BY <1>t, <1>4, <2>2 DEF RunnerReturns, ServerTypeOK
<1>5. ASSUME NEW c \in Calls, WriteResponse(c) PROVE ServerTypeOK'
  <2>1. hpc' = [hpc EXCEPT ![c] = "read"] /\ UNCHANGED <<config, hstat, exits, runs, m_commandsExecuted>>
      BY <1>5 DEF WriteResponse
  <2> QED
      BY <1>t, <2>1 DEF ServerTypeOK
<1>6. ASSUME UNCHANGED serverVars PROVE ServerTypeOK'
    BY <1>t, <1>6 DEF serverVars, ServerTypeOK
<1> QED
    BY <1>1, <1>2, <1>3, <1>4, <1>5, <1>6, ServerCases

\* Which steps move a queue or a cursor, and how.
LEMMA QueueCases ==
    ASSUME Next
    PROVE  \/ UNCHANGED <<c2s, s2c, taken, got>>
           \/ \E c \in Calls :
                \/ Transmit(c) /\ c2s' = [c2s EXCEPT ![c] = Append(@, RemCmdMsg(next(c)))]
                               /\ net[c] = "open" /\ UNCHANGED <<s2c, taken, got>>
                \/ WriteResponse(c) /\ s2c' = [s2c EXCEPT ![c] = Append(@, RemResMsg(c))]
                                    /\ UNCHANGED <<c2s, taken, got>>
                \/ (RunRequest(c) \/ RejectRequest(c)) /\ UNCHANGED <<c2s, s2c, got>>
                \/ ReadResponse(c) /\ UNCHANGED <<c2s, s2c, taken>>
<1> USE DEF streamVars
<1>1. ASSUME NEW c \in Calls, Transmit(c)
      PROVE  \/ UNCHANGED <<c2s, s2c, taken, got>>
             \/ c2s' = [c2s EXCEPT ![c] = Append(@, RemCmdMsg(next(c)))]
                /\ net[c] = "open" /\ UNCHANGED <<s2c, taken, got>>
    BY <1>1 DEF Transmit, PutRequest
<1>2. ASSUME NEW c \in Calls, WriteResponse(c)
      PROVE  \/ UNCHANGED <<c2s, s2c, taken, got>>
             \/ s2c' = [s2c EXCEPT ![c] = Append(@, RemResMsg(c))] /\ UNCHANGED <<c2s, taken, got>>
    BY <1>2 DEF WriteResponse, PutResponse
<1>3. ASSUME NEW c \in Calls, RunRequest(c) \/ RejectRequest(c) PROVE UNCHANGED <<c2s, s2c, got>>
    BY <1>3 DEF RunRequest, RejectRequest
<1>4. ASSUME NEW c \in Calls, ReadResponse(c) PROVE UNCHANGED <<c2s, s2c, taken>>
    BY <1>4 DEF ReadResponse
<1>5. CASE \/ OpenStream \/ Retry \/ GiveUp \/ Analyse
           \/ FailBeforeStream \/ TimeoutStreaming \/ TimeoutStarting \/ TriggererRestart
           \/ \E c \in Calls : \/ WriteCompletes(c) \/ BuildFails(c) \/ WriteFails(c)
                               \/ WriterDone(c) \/ ReaderDone(c) \/ ReaderRaises(c)
           \/ UNCHANGED vars
    BY <1>5 DEF OpenStream, Retry, GiveUp, Analyse, FailBeforeStream, TimeoutStreaming,
                TimeoutStarting, TriggererRestart, WriteCompletes, BuildFails, WriteFails,
                WriterRaises, WriterDone, ReaderDone, ReaderRaises, vars
<1>6. CASE \E c \in Calls : \/ RemCmdStrm(c) \/ RefuseCall(c) \/ ReadEnds(c)
                            \/ (\E rc \in {0, 1} : RunnerReturns(c, rc)) \/ StatusDelivered(c)
                            \/ LinkLosesCall(c) \/ LinkReportsLoss(c) \/ LinkDeadline(c)
    BY <1>6 DEF RemCmdStrm, RefuseCall, ReadEnds, RunnerReturns, StatusDelivered,
                LinkLosesCall, LinkReportsLoss, LinkDeadline, ConnLost, LossReported, DeadlineFires
<1> QED
    BY <1>1, <1>2, <1>3, <1>4, <1>5, <1>6, NextCases

LEMMA CursorsKept == TypeInv /\ Next => Cursors'
<1> SUFFICES ASSUME TypeInv, Next, NEW d \in Calls
             PROVE  (taken[d] <= Len(c2s[d]) /\ got[d] <= Len(s2c[d]))'
    BY DEF Cursors
<1> DEFINE R == Request(Tids)
<1>t. /\ taken \in [Calls -> Nat] /\ got \in [Calls -> Nat]
      /\ c2s \in [Calls -> Seq(R)] /\ s2c \in [Calls -> Seq(Response)]
      /\ taken[d] <= Len(c2s[d]) /\ got[d] <= Len(s2c[d])
    BY DEF TypeInv, TypeOK, StreamTypeOK, Cursors
<1> HIDE DEF R
<1>1. CASE UNCHANGED <<c2s, s2c, taken, got>>
    BY <1>t, <1>1
<1>2. ASSUME NEW c \in Calls, Transmit(c), UNCHANGED <<s2c, taken, got>>,
             c2s' = [c2s EXCEPT ![c] = Append(@, RemCmdMsg(next(c)))]
      PROVE  (taken[d] <= Len(c2s[d]) /\ got[d] <= Len(s2c[d]))'
  <2> DEFINE r == RemCmdMsg(next(c))
  <2>1. r \in R
      BY <1>2, MessageType DEF Transmit, TypeInv, TypeOK, TriggerTypeOK, R
  <2> HIDE DEF r
  <2>2. c2s' = [c2s EXCEPT ![c] = Append(@, r)]
      BY <1>2 DEF r
  <2>3. Len(c2s'[c]) = Len(c2s[c]) + 1 /\ (d # c => c2s'[d] = c2s[d]) /\ Len(c2s[c]) \in Nat
      BY <1>t, <2>1, <2>2, AppendTo
  <2> QED
      BY <1>t, <1>2, <2>3
<1>3. ASSUME NEW c \in Calls, WriteResponse(c), UNCHANGED <<c2s, taken, got>>,
             s2c' = [s2c EXCEPT ![c] = Append(@, RemResMsg(c))]
      PROVE  (taken[d] <= Len(c2s[d]) /\ got[d] <= Len(s2c[d]))'
  <2> DEFINE r == RemResMsg(c)
  <2>1. r \in Response
      BY <1>3, ResponseType DEF WriteResponse
  <2> HIDE DEF r
  <2>2. s2c' = [s2c EXCEPT ![c] = Append(@, r)]
      BY <1>3 DEF r
  <2>3. Len(s2c'[c]) = Len(s2c[c]) + 1 /\ (d # c => s2c'[d] = s2c[d]) /\ Len(s2c[c]) \in Nat
      BY <1>t, <2>1, <2>2, AppendTo
  <2> QED
      BY <1>t, <1>3, <2>3
<1>4. ASSUME NEW c \in Calls, RunRequest(c) \/ RejectRequest(c), UNCHANGED <<c2s, s2c, got>>
      PROVE  (taken[d] <= Len(c2s[d]) /\ got[d] <= Len(s2c[d]))'
  <2>1. taken' = [taken EXCEPT ![c] = @ + 1] /\ taken[c] < Len(c2s[c])
      BY <1>4 DEF RunRequest, RejectRequest, TakeRequest, RequestReady
  <2>2. Len(c2s[c]) \in Nat
      BY <1>t
  <2> QED
      BY <1>t, <1>4, <2>1, <2>2
<1>5. ASSUME NEW c \in Calls, ReadResponse(c), UNCHANGED <<c2s, s2c, taken>>
      PROVE  (taken[d] <= Len(c2s[d]) /\ got[d] <= Len(s2c[d]))'
  <2>1. got' = [got EXCEPT ![c] = @ + 1] /\ got[c] < Len(s2c[c])
      BY <1>5 DEF ReadResponse, TakeResponse, ResponseReady
  <2>2. Len(s2c[c]) \in Nat
      BY <1>t
  <2> QED
      BY <1>t, <1>5, <2>1, <2>2
<1> QED
    BY <1>1, <1>2, <1>3, <1>4, <1>5, QueueCases

LEMMA HandlerReadyKept == TypeInv /\ Next => HandlerReady'
<1> SUFFICES ASSUME TypeInv, Next, NEW d \in Calls
             PROVE  /\ hpc'[d] \in {"run", "write"} => taken'[d] > 0
                    /\ hpc'[d] = "write" => Len(exits'[d]) > 0
    BY DEF HandlerReady
<1>t. /\ taken \in [Calls -> Nat] /\ exits \in [Calls -> Seq({0, 1})]
      /\ hpc \in [Calls -> {"none", "read", "run", "write", "done"}]
      /\ hpc[d] \in {"run", "write"} => taken[d] > 0
      /\ hpc[d] = "write" => Len(exits[d]) > 0
    BY DEF TypeInv, TypeOK, StreamTypeOK, ServerTypeOK, HandlerReady
<1>2. taken'[d] \in Nat /\ taken'[d] >= taken[d]
  <2>1. UNCHANGED taken \/ \E c \in Calls : taken' = [taken EXCEPT ![c] = @ + 1]
      BY QueueCases DEF RunRequest, RejectRequest, TakeRequest
  <2>2. taken \in [Calls -> Nat]
      BY <1>t
  <2> QED
      BY <2>1, <2>2
<1>3. CASE UNCHANGED serverVars
    BY <1>t, <1>2, <1>3 DEF serverVars
<1>4. ASSUME NEW c \in Calls,
             \/ RemCmdStrm(c) \/ RefuseCall(c) \/ RejectRequest(c) \/ ReadEnds(c) \/ WriteResponse(c)
      PROVE  /\ hpc'[d] \in {"run", "write"} => taken'[d] > 0
             /\ hpc'[d] = "write" => Len(exits'[d]) > 0
  <2>1. /\ hpc' = [hpc EXCEPT ![c] = "read"] \/ hpc' = [hpc EXCEPT ![c] = "done"]
        /\ UNCHANGED exits
      BY <1>4 DEF RemCmdStrm, RefuseCall, RejectRequest, ReadEnds, WriteResponse
  <2> QED
      BY <1>t, <1>2, <2>1
<1>5. ASSUME NEW c \in Calls, RunRequest(c)
      PROVE  /\ hpc'[d] \in {"run", "write"} => taken'[d] > 0
             /\ hpc'[d] = "write" => Len(exits'[d]) > 0
  <2>1. /\ hpc' = [hpc EXCEPT ![c] = "run"] /\ UNCHANGED exits
        /\ taken' = [taken EXCEPT ![c] = @ + 1]
      BY <1>5 DEF RunRequest, TakeRequest
  <2> QED
      BY <1>t, <1>2, <2>1
<1>6. ASSUME NEW c \in Calls, NEW rc \in {0, 1}, RunnerReturns(c, rc)
      PROVE  /\ hpc'[d] \in {"run", "write"} => taken'[d] > 0
             /\ hpc'[d] = "write" => Len(exits'[d]) > 0
  <2>1. /\ hpc[c] = "run" /\ hpc' = [hpc EXCEPT ![c] = "write"]
        /\ exits' = [exits EXCEPT ![c] = Append(@, rc)]
      BY <1>6 DEF RunnerReturns
  <2>2. Len(exits'[c]) = Len(exits[c]) + 1 /\ Len(exits[c]) \in Nat
        /\ (d # c => exits'[d] = exits[d])
      BY <1>t, <2>1, AppendTo
  <2> QED
      BY <1>t, <1>2, <2>1, <2>2
<1> QED
    BY <1>3, <1>4, <1>5, <1>6, ServerCases

LEMMA TypeInvStep == TypeInv /\ [Next]_vars => TypeInv'
<1>1. TypeInv /\ Next => TypeInv'
    BY StreamTyped, TriggerTyped, ServerTyped, CursorsKept, HandlerReadyKept DEF TypeInv, TypeOK
<1>2. TypeInv /\ UNCHANGED vars => TypeInv'
  <2> SUFFICES ASSUME TypeInv, UNCHANGED vars PROVE TypeInv'
      OBVIOUS
  <2>1. StreamTypeOK' /\ Cursors'
      BY DEF TypeInv, TypeOK, vars, streamVars, StreamTypeOK, Cursors
  <2>2. TriggerTypeOK'
      BY DEF TypeInv, TypeOK, vars, triggerVars, TriggerTypeOK
  <2>3. ServerTypeOK' /\ HandlerReady'
      BY DEF TypeInv, TypeOK, vars, streamVars, serverVars, ServerTypeOK, HandlerReady
  <2> QED
      BY <2>1, <2>2, <2>3 DEF TypeInv, TypeOK
<1> QED
    BY <1>1, <1>2

\* Every reachable state of the composed system is well typed, and no cursor
\* overtakes the messages it indexes.
THEOREM Typing == Spec => []TypeOK
<1>1. TypeInv => TypeOK
    BY DEF TypeInv
<1> QED
    BY TypeInvInit, TypeInvStep, <1>1, PTL DEF Spec

-----------------------------------------------------------------------------
(* How a step of the system moves the variables that say what was sent:    *)
(* seven effects cover every action.                                       *)

wireVars == <<net, c2s, cstat, sent_ref, wpc, exc>>

WOpen(c) ==
    /\ c = cur /\ net[c] = "idle"
    /\ net' = [net EXCEPT ![c] = "open"] /\ wpc' = [wpc EXCEPT ![c] = "write"]
    /\ UNCHANGED <<c2s, cstat, sent_ref, exc>>

WClose(c) ==
    /\ net[c] # "idle" \/ c = cur
    /\ net' = [net EXCEPT ![c] = "closed"]
    /\ \E code \in Codes :
         /\ cstat' = [cstat EXCEPT ![c] = code]
         /\ cstat[c] # "none" => code = cstat[c]
         /\ AckBeforeFailure /\ code \in RetryableCodes => Len(c2s[c]) <= sent_ref[c]
    /\ \E w \in {wpc[c], "dead"} : wpc' = [wpc EXCEPT ![c] = w]
    /\ UNCHANGED <<c2s, sent_ref, exc>>

WDie ==
    /\ \A c \in Calls : /\ net[c] = "idle" => net'[c] = "idle"
                        /\ net[c] # "idle" => net'[c] = "closed"
                        /\ wpc'[c] \in {wpc[c], "dead"}
                        /\ wpc[c] = "idle" => wpc'[c] = "idle"
    /\ UNCHANGED <<c2s, cstat, sent_ref, exc>>

WSend(c) ==
    /\ wpc[c] = "write" /\ next(c) \in Tids /\ cstat[c] = "none"
    /\ \/ net[c] = "open" /\ c2s' = [c2s EXCEPT ![c] = Append(@, RemCmdMsg(next(c)))]
       \/ net[c] = "closed" /\ UNCHANGED c2s
    /\ wpc' = [wpc EXCEPT ![c] = "await"]
    /\ UNCHANGED <<net, cstat, sent_ref, exc>>

WCount(c) ==
    /\ wpc[c] = "await"
    /\ sent_ref' = [sent_ref EXCEPT ![c] = @ + 1] /\ wpc' = [wpc EXCEPT ![c] = "write"]
    /\ UNCHANGED <<net, c2s, cstat, exc>>

WRaise(c) ==
    /\ wpc[c] # "idle" \/ cstat[c] # "none"
    /\ \E w \in {wpc[c], "failed"} : wpc' = [wpc EXCEPT ![c] = w]
    /\ \E e \in Codes : /\ exc' = [exc EXCEPT ![c] = e]
                        /\ e \in RetryableCodes => cstat[c] = e
    /\ UNCHANGED <<net, c2s, cstat, sent_ref>>

WDone(c) ==
    /\ wpc[c] = "write" /\ wpc' = [wpc EXCEPT ![c] = "done"]
    /\ UNCHANGED <<net, c2s, cstat, sent_ref, exc>>

WEffect(c) == WOpen(c) \/ WClose(c) \/ WSend(c) \/ WCount(c) \/ WRaise(c) \/ WDone(c)

LEMMA WireSteps ==
    ASSUME TypeInv, CodesAreHonest, Next
    PROVE  UNCHANGED wireVars \/ WDie \/ \E c \in Calls : WEffect(c)
<1>t. /\ net \in [Calls -> {"idle", "open", "closed"}] /\ cstat \in [Calls -> Codes]
      /\ wpc \in [Calls -> {"idle", "write", "await", "done", "failed", "dead"}]
      /\ exc \in [Calls -> Codes] /\ hstat \in [Calls -> Codes] /\ sent_ref \in [Calls -> Nat]
    BY DEF TypeInv, TypeOK, StreamTypeOK, TriggerTypeOK, ServerTypeOK
<1>c. cur \in Calls
    BY CurIsCall DEF TypeInv, TypeOK
<1>h. \A c \in Calls :
        /\ hstat[c] \notin RetryableCodes
        /\ exc[c] \in RetryableCodes => cstat[c] = exc[c]
        /\ AckBeforeFailure /\ cstat[c] \in RetryableCodes => Len(c2s[c]) <= sent_ref[c]
    BY DEF CodesAreHonest
<1>1. CASE OpenStream
  <2>1. WOpen(cur)
      BY <1>1 DEF OpenStream, OpenCall, WOpen
  <2> QED
      BY <1>c, <2>1 DEF WEffect
<1>2. CASE TimeoutStreaming
  <2>1. CASE exc[cur] # "none"
      BY <1>2, <2>1 DEF TimeoutStreaming, wireVars
  <2>2. CASE exc[cur] = "none"
    <3> DEFINE code == IF cstat[cur] = "none" THEN "CANCELLED" ELSE cstat[cur]
               w == IF wpc[cur] \in Unfinished THEN "dead" ELSE wpc[cur]
    <3>1. /\ net' = [net EXCEPT ![cur] = "closed"] /\ cstat' = [cstat EXCEPT ![cur] = code]
          /\ wpc' = [wpc EXCEPT ![cur] = w] /\ UNCHANGED <<c2s, sent_ref, exc>>
        BY <1>2, <2>2 DEF TimeoutStreaming, CloseCall
    <3>2. code \in Codes /\ (cstat[cur] # "none" => code = cstat[cur])
          /\ (code \in RetryableCodes => code = cstat[cur]) /\ w \in {wpc[cur], "dead"}
        BY <1>c, <1>t DEF Codes, RetryableCodes
    <3> HIDE DEF code, w
    <3>3. AckBeforeFailure /\ code \in RetryableCodes => Len(c2s[cur]) <= sent_ref[cur]
        BY <1>h, <1>c, <3>2
    <3>4. WClose(cur)
        BY <3>1, <3>2, <3>3 DEF WClose
    <3> QED
        BY <1>c, <3>4 DEF WEffect
  <2> QED
      BY <2>1, <2>2
<1>3. CASE TriggererRestart
  <2>1. WDie
      BY <1>3, <1>t DEF TriggererRestart, WDie, Unfinished
  <2> QED
      BY <2>1
<1>4. ASSUME NEW c \in Calls, Transmit(c) PROVE WEffect(c)
    BY <1>4 DEF Transmit, PutRequest, WSend, WEffect
<1>5. ASSUME NEW c \in Calls, WriteCompletes(c) PROVE WEffect(c)
    BY <1>5 DEF WriteCompletes, streamVars, WCount, WEffect
<1>6. ASSUME NEW c \in Calls, BuildFails(c) \/ WriteFails(c) PROVE WEffect(c)
  <2>1. PICK e \in Codes : WriterRaises(c, e) /\ (e = "exception" \/ e = cstat[c]) /\ wpc[c] # "idle"
      BY <1>t, <1>6 DEF BuildFails, WriteFails, Codes
  <2> DEFINE x == IF exc[c] = "none" THEN e ELSE exc[c]
  <2>2. x \in Codes /\ (x \in RetryableCodes => cstat[c] = x)
      BY <1>t, <1>h, <2>1 DEF RetryableCodes
  <2>3. /\ exc' = [exc EXCEPT ![c] = x] /\ wpc' = [wpc EXCEPT ![c] = "failed"]
        /\ UNCHANGED <<net, c2s, cstat, sent_ref>>
      BY <2>1 DEF WriterRaises, streamVars
  <2> HIDE DEF x
  <2>4. WRaise(c)
      BY <2>1, <2>2, <2>3 DEF WRaise
  <2> QED
      BY <2>4 DEF WEffect
<1>7. ASSUME NEW c \in Calls, WriterDone(c) PROVE WEffect(c)
    BY <1>7 DEF WriterDone, WDone, WEffect
<1>8. ASSUME NEW c \in Calls, ReaderRaises(c) PROVE WEffect(c)
  <2> DEFINE x == IF exc[c] = "none" THEN cstat[c] ELSE exc[c]
  <2>1. x \in Codes /\ (x \in RetryableCodes => cstat[c] = x)
      BY <1>t, <1>h DEF RetryableCodes
  <2>2. /\ exc' = [exc EXCEPT ![c] = x] /\ wpc' = wpc /\ cstat[c] # "none"
        /\ UNCHANGED <<net, c2s, cstat, sent_ref>>
      BY <1>8 DEF ReaderRaises, streamVars
  <2> HIDE DEF x
  <2>3. wpc' = [wpc EXCEPT ![c] = wpc[c]]
      BY <1>t, <2>2
  <2>4. WRaise(c)
      BY <2>1, <2>2, <2>3 DEF WRaise
  <2> QED
      BY <2>4 DEF WEffect
<1>9. ASSUME NEW c \in Calls, NEW code \in Codes, net[c] # "idle", cstat[c] = "none",
             net' = [net EXCEPT ![c] = "closed"], cstat' = [cstat EXCEPT ![c] = code],
             AckBeforeFailure /\ code \in RetryableCodes => Len(c2s[c]) <= sent_ref[c],
             UNCHANGED <<c2s, sent_ref, wpc, exc>>
      PROVE  WEffect(c)
  <2>1. wpc' = [wpc EXCEPT ![c] = wpc[c]]
      BY <1>t, <1>9
  <2>2. WClose(c)
      BY <1>9, <2>1 DEF WClose
  <2> QED
      BY <2>2 DEF WEffect
<1>10. ASSUME NEW c \in Calls, StatusDelivered(c), UNCHANGED triggerVars
       PROVE  WEffect(c)
  <2> DEFINE code == IF cstat[c] = "none" THEN hstat[c] ELSE cstat[c]
  <2>1. /\ net[c] = "open" /\ net' = [net EXCEPT ![c] = "closed"]
        /\ cstat' = [cstat EXCEPT ![c] = code] /\ UNCHANGED <<c2s, sent_ref, wpc, exc>>
      BY <1>10 DEF StatusDelivered, CloseCall, triggerVars
  <2>2. code \in Codes /\ (cstat[c] # "none" => code = cstat[c])
        /\ (code \in RetryableCodes => code = cstat[c])
      BY <1>t, <1>h
  <2> HIDE DEF code
  <2>3. AckBeforeFailure /\ code \in RetryableCodes => Len(c2s[c]) <= sent_ref[c]
      BY <1>h, <2>2
  <2>4. wpc' = [wpc EXCEPT ![c] = wpc[c]]
      BY <1>t, <2>1
  <2>5. WClose(c)
      BY <2>1, <2>2, <2>3, <2>4 DEF WClose
  <2> QED
      BY <2>5 DEF WEffect
<1>11. ASSUME NEW c \in Calls, LinkLosesCall(c) PROVE WEffect(c)
  <2>1. /\ net[c] = "open" /\ net' = [net EXCEPT ![c] = "closed"]
        /\ UNCHANGED <<c2s, sent_ref, wpc, exc, cstat>>
      BY <1>11 DEF LinkLosesCall, ConnLost, triggerVars
  <2>2. wpc' = [wpc EXCEPT ![c] = wpc[c]] /\ cstat' = [cstat EXCEPT ![c] = cstat[c]]
      BY <1>t, <2>1
  <2>3. cstat[c] \in Codes
      BY <1>t
  <2>4. WClose(c)
      BY <2>1, <2>2, <2>3, <1>h DEF WClose
  <2> QED
      BY <2>4 DEF WEffect
<1>12. ASSUME NEW c \in Calls, LinkReportsLoss(c) PROVE WEffect(c)
  <2>1. PICK code \in TransportCodes : LossReported(c, code)
      BY <1>12 DEF LinkReportsLoss
  <2>2. net' = [net EXCEPT ![c] = "closed"]
      BY <1>t, <2>1 DEF LossReported
  <2>3. /\ net[c] # "idle" /\ cstat[c] = "none" /\ cstat' = [cstat EXCEPT ![c] = code]
        /\ AckBeforeFailure => Len(c2s[c]) <= sent_ref[c]
        /\ UNCHANGED <<c2s, sent_ref, wpc, exc>>
      BY <1>12, <2>1 DEF LinkReportsLoss, LossReported, triggerVars
  <2> QED
      BY <1>9, <2>2, <2>3 DEF Codes
<1>13. ASSUME NEW c \in Calls, LinkDeadline(c) PROVE WEffect(c)
  <2>1. /\ net[c] # "idle" /\ cstat[c] = "none" /\ net' = [net EXCEPT ![c] = "closed"]
        /\ cstat' = [cstat EXCEPT ![c] = "DEADLINE_EXCEEDED"]
        /\ UNCHANGED <<c2s, sent_ref, wpc, exc>>
      BY <1>13 DEF LinkDeadline, DeadlineFires, CloseCall, triggerVars
  <2> QED
      BY <1>9, <2>1 DEF Codes, RetryableCodes
<1>14. CASE \/ Retry \/ GiveUp \/ Analyse \/ FailBeforeStream \/ TimeoutStarting
            \/ \E c \in Calls : ReadResponse(c) \/ ReaderDone(c)
            \/ UNCHANGED vars
    BY <1>14 DEF Retry, GiveUp, Analyse, FailBeforeStream, TimeoutStarting, ReadResponse,
                 ReaderDone, vars, wireVars, streamVars, coroVars, triggerVars
<1>15. ASSUME NEW c \in Calls, UNCHANGED triggerVars,
              \/ RemCmdStrm(c) \/ RefuseCall(c) \/ RunRequest(c) \/ RejectRequest(c)
              \/ ReadEnds(c) \/ (\E rc \in {0, 1} : RunnerReturns(c, rc)) \/ WriteResponse(c)
       PROVE  UNCHANGED wireVars
    BY <1>15 DEF RemCmdStrm, RefuseCall, RunRequest, RejectRequest, ReadEnds, RunnerReturns,
                 WriteResponse, wireVars, streamVars, triggerVars
<1> QED
    BY <1>1, <1>2, <1>3, <1>4, <1>5, <1>6, <1>7, <1>8, <1>10, <1>11, <1>12, <1>13, <1>14, <1>15,
       NextCases

-----------------------------------------------------------------------------
(* The inductive step, one lemma per conjunct.                             *)

LEMMA IndInvInit == Init => IndInv
<1> SUFFICES ASSUME Init PROVE IndInv
    OBVIOUS
<1>1. TypeInv
    BY TypeInvInit
<1>2. IdleIsEmpty /\ SentTracksWire /\ WireInOrder
    BY DEF Init, StreamInit, TriggerInit, IdleIsEmpty, SentTracksWire, WireInOrder
<1>3. RunsFollowWire /\ CodesAreHonest
    BY DEF Init, StreamInit, TriggerInit, ServerInit, RunsFollowWire, CodesAreHonest, RetryableCodes
<1>4. RetriedSentNothing
  <2> SUFFICES ASSUME NEW c \in Calls, NEW d \in Calls, c[2] < d[2], net[d] # "idle" \/ d = cur
               PROVE  FALSE
      BY DEF RetriedSentNothing
  <2>1. d[2] = 1
      BY DEF Init, StreamInit, TriggerInit, cur
  <2>2. c[2] \in 1 .. MaxAttempts
      BY TriggerAssumption
  <2> QED
      BY <2>1, <2>2, TriggerAssumption
<1> QED
    BY <1>1, <1>2, <1>3, <1>4 DEF IndInv

LEMMA IdleIsEmptyKept == IndInv /\ Next => IdleIsEmpty'
<1> SUFFICES ASSUME IndInv, Next, NEW d \in Calls, net'[d] = "idle"
             PROVE  (c2s[d] = <<>> /\ sent_ref[d] = 0 /\ wpc[d] = "idle" /\ exc[d] = "none"
                                   /\ cstat[d] = "none")'
    BY DEF IdleIsEmpty
<1>t. /\ net \in [Calls -> {"idle", "open", "closed"}] /\ cstat \in [Calls -> Codes]
      /\ wpc \in [Calls -> {"idle", "write", "await", "done", "failed", "dead"}]
      /\ exc \in [Calls -> Codes] /\ sent_ref \in [Calls -> Nat]
      /\ c2s \in [Calls -> Seq(Request(Tids))]
    BY DEF IndInv, TypeInv, TypeOK, StreamTypeOK, TriggerTypeOK
<1>i. net[d] = "idle" => c2s[d] = <<>> /\ sent_ref[d] = 0 /\ wpc[d] = "idle" /\ exc[d] = "none"
                                       /\ cstat[d] = "none"
    BY DEF IndInv, IdleIsEmpty
<1>1. CASE UNCHANGED wireVars
    BY <1>1, <1>i DEF wireVars
<1>2. CASE WDie
  <2>1. net[d] = "idle" /\ wpc'[d] = "idle"
      BY <1>2, <1>i DEF WDie
  <2> QED
      BY <1>2, <1>i, <2>1 DEF WDie
<1>3. ASSUME NEW c \in Calls, WEffect(c)
      PROVE  (c2s[d] = <<>> /\ sent_ref[d] = 0 /\ wpc[d] = "idle" /\ exc[d] = "none"
                            /\ cstat[d] = "none")'
  <2>1. c # d /\ net[d] = "idle"
      BY <1>3, <1>t, <1>i DEF WEffect, WOpen, WClose, WSend, WCount, WRaise, WDone
  <2> QED
      BY <1>3, <1>t, <1>i, <2>1 DEF WEffect, WOpen, WClose, WSend, WCount, WRaise, WDone
<1> QED
    BY <1>1, <1>2, <1>3, WireSteps DEF IndInv

LEMMA SentTracksWireKept == IndInv /\ Next => SentTracksWire'
<1> DEFINE P(d) == /\ Len(c2s[d]) <= sent_ref[d] + 1
                   /\ wpc[d] = "write" => Len(c2s[d]) <= sent_ref[d]
                   /\ wpc[d] = "write" /\ net[d] = "open" => Len(c2s[d]) = sent_ref[d]
                   /\ wpc[d] = "await" /\ net[d] = "open" => Len(c2s[d]) = sent_ref[d] + 1
                   /\ net[d] = "open" => cstat[d] = "none"
<1> SUFFICES ASSUME IndInv, Next, NEW d \in Calls PROVE P(d)'
    BY DEF SentTracksWire
<1> DEFINE R == Request(Tids)
<1>t. /\ net \in [Calls -> {"idle", "open", "closed"}] /\ cstat \in [Calls -> Codes]
      /\ wpc \in [Calls -> {"idle", "write", "await", "done", "failed", "dead"}]
      /\ sent_ref \in [Calls -> Nat] /\ c2s \in [Calls -> Seq(R)]
    BY DEF IndInv, TypeInv, TypeOK, StreamTypeOK, TriggerTypeOK
<1>l. sent_ref[d] \in Nat /\ Len(c2s[d]) \in Nat
    BY <1>t
<1>i. P(d)
    BY DEF IndInv, SentTracksWire
<1>e. net[d] = "idle" => Len(c2s[d]) = 0 /\ sent_ref[d] = 0 /\ cstat[d] = "none"
    BY DEF IndInv, IdleIsEmpty
<1> HIDE DEF R
<1>1. CASE UNCHANGED wireVars
    BY <1>1, <1>i DEF wireVars
<1>2. CASE WDie
    BY <1>2, <1>t, <1>i, <1>l DEF WDie
<1>3. ASSUME NEW c \in Calls, WOpen(c) PROVE P(d)'
    BY <1>3, <1>t, <1>i, <1>l, <1>e DEF WOpen
<1>4. ASSUME NEW c \in Calls, WClose(c) PROVE P(d)'
    BY <1>4, <1>t, <1>i, <1>l DEF WClose
<1>5. ASSUME NEW c \in Calls, WSend(c) PROVE P(d)'
  <2> DEFINE r == RemCmdMsg(next(c))
  <2>1. r \in R
      BY <1>5, MessageType DEF WSend, R, IndInv, TypeInv, TypeOK, TriggerTypeOK
  <2>2. \/ net[c] = "open" /\ c2s' = [c2s EXCEPT ![c] = Append(@, r)]
        \/ net[c] = "closed" /\ c2s' = c2s
      BY <1>5 DEF WSend
  <2>3. /\ wpc[c] = "write" /\ wpc' = [wpc EXCEPT ![c] = "await"]
        /\ UNCHANGED <<net, cstat, sent_ref>>
      BY <1>5 DEF WSend
  <2> HIDE DEF r
  <2>4. d # c => c2s'[d] = c2s[d] /\ wpc'[d] = wpc[d]
      BY <1>t, <2>1, <2>2, <2>3, AppendTo
  <2>5. CASE d # c
      BY <1>i, <2>3, <2>4, <2>5
  <2>6. CASE d = c
    <3>1. wpc'[d] = "await"
        BY <1>t, <2>3, <2>6
    <3>2. \/ net[d] = "open" /\ Len(c2s'[d]) = Len(c2s[d]) + 1
          \/ net[d] = "closed" /\ c2s'[d] = c2s[d]
        BY <1>t, <2>1, <2>2, <2>6, AppendTo
    <3> QED
        BY <1>i, <1>l, <2>3, <2>6, <3>1, <3>2
  <2> QED
      BY <2>5, <2>6
<1>6. ASSUME NEW c \in Calls, WCount(c) PROVE P(d)'
  <2>1. CASE d # c
      BY <1>6, <1>t, <1>i, <2>1 DEF WCount
  <2>2. CASE d = c
    <3>1. wpc'[d] = "write" /\ sent_ref'[d] = sent_ref[d] + 1 /\ wpc[d] = "await"
          /\ c2s'[d] = c2s[d] /\ net'[d] = net[d] /\ cstat'[d] = cstat[d]
        BY <1>6, <1>t, <2>2 DEF WCount
    <3> QED
        BY <1>i, <1>l, <3>1
  <2> QED
      BY <2>1, <2>2
<1>7. ASSUME NEW c \in Calls, WRaise(c) \/ WDone(c) PROVE P(d)'
    BY <1>7, <1>t, <1>i DEF WRaise, WDone
<1> QED
    BY <1>1, <1>2, <1>3, <1>4, <1>5, <1>6, <1>7, WireSteps DEF IndInv, WEffect

LEMMA WireInOrderKept == IndInv /\ Next => WireInOrder'
<1> SUFFICES ASSUME IndInv, Next, NEW d \in Calls, NEW k \in 1 .. Len(c2s'[d])
             PROVE  k \in Tids /\ c2s'[d][k] = RemCmdMsg(k)'
    BY DEF WireInOrder
<1> DEFINE R == Request(Tids)
<1>t. c2s \in [Calls -> Seq(R)] /\ sent_ref \in [Calls -> Nat]
    BY DEF IndInv, TypeInv, TypeOK, StreamTypeOK, TriggerTypeOK
<1>m. RemCmdMsg(k)' = RemCmdMsg(k)
  <2>1. commands' = commands
      BY NextCases DEF OpenStream, Retry, GiveUp, Analyse, FailBeforeStream, TimeoutStreaming,
         TimeoutStarting, TriggererRestart, Transmit, WriteCompletes, BuildFails, WriteFails,
         WriterRaises, WriterDone, ReadResponse, ReaderDone, ReaderRaises, LinkLosesCall,
         LinkReportsLoss, LinkDeadline, runVars, triggerVars, vars
  <2> QED
      BY <2>1 DEF RemCmdMsg
<1>i. \A j \in 1 .. Len(c2s[d]) : j \in Tids /\ c2s[d][j] = RemCmdMsg(j)
    BY DEF IndInv, WireInOrder
<1> HIDE DEF R
<1>1. CASE c2s'[d] = c2s[d]
    BY <1>1, <1>i, <1>m
<1>2. CASE WSend(d) /\ net[d] = "open" /\ c2s' = [c2s EXCEPT ![d] = Append(@, RemCmdMsg(next(d)))]
  <2> DEFINE r == RemCmdMsg(next(d))
  <2>1. r \in R /\ next(d) \in Tids
      BY <1>2, MessageType DEF WSend, R, IndInv, TypeInv, TypeOK, TriggerTypeOK
  <2>2. Len(c2s[d]) + 1 = next(d)
      BY <1>2 DEF WSend, IndInv, SentTracksWire, next
  <2>3. c2s' = [c2s EXCEPT ![d] = Append(@, r)]
      BY <1>2
  <2> HIDE DEF r
  <2>4. /\ Len(c2s'[d]) = Len(c2s[d]) + 1 /\ Len(c2s[d]) \in Nat
        /\ \A j \in 1 .. Len(c2s[d]) : c2s'[d][j] = c2s[d][j]
        /\ c2s'[d][Len(c2s[d]) + 1] = r
      BY <1>t, <2>1, <2>3, AppendTo
  <2>5. CASE k \in 1 .. Len(c2s[d])
      BY <1>i, <1>m, <2>4, <2>5
  <2>6. CASE k = Len(c2s[d]) + 1
      BY <1>m, <2>1, <2>2, <2>4, <2>6 DEF r
  <2> QED
      BY <2>4, <2>5, <2>6
<1>3. c2s' = c2s \/ \E c \in Calls : WSend(c) /\ net[c] = "open"
                      /\ c2s' = [c2s EXCEPT ![c] = Append(@, RemCmdMsg(next(c)))]
    BY WireSteps DEF IndInv, WEffect, WOpen, WClose, WSend, WCount, WRaise, WDone, WDie, wireVars
<1>4. \A c \in Calls : c # d /\ c2s' = [c2s EXCEPT ![c] = Append(@, RemCmdMsg(next(c)))]
                         => c2s'[d] = c2s[d]
    BY <1>t
<1> QED
    BY <1>1, <1>2, <1>3, <1>4

LEMMA CodesAreHonestKept == IndInv /\ Next => CodesAreHonest'
<1> SUFFICES ASSUME IndInv, Next, NEW d \in Calls
             PROVE  /\ hstat'[d] \notin RetryableCodes
                    /\ exc'[d] \in RetryableCodes => cstat'[d] = exc'[d]
                    /\ AckBeforeFailure /\ cstat'[d] \in RetryableCodes
                          => Len(c2s'[d]) <= sent_ref'[d]
    BY DEF CodesAreHonest
<1> DEFINE P == /\ exc'[d] \in RetryableCodes => cstat'[d] = exc'[d]
                /\ AckBeforeFailure /\ cstat'[d] \in RetryableCodes
                      => Len(c2s'[d]) <= sent_ref'[d]
<1>t. /\ cstat \in [Calls -> Codes] /\ exc \in [Calls -> Codes] /\ hstat \in [Calls -> Codes]
      /\ sent_ref \in [Calls -> Nat] /\ c2s \in [Calls -> Seq(Request(Tids))]
    BY DEF IndInv, TypeInv, TypeOK, StreamTypeOK, TriggerTypeOK, ServerTypeOK
<1>l. sent_ref[d] \in Nat /\ Len(c2s[d]) \in Nat
    BY <1>t
<1>i. /\ hstat[d] \notin RetryableCodes
      /\ exc[d] \in RetryableCodes => cstat[d] = exc[d]
      /\ AckBeforeFailure /\ cstat[d] \in RetryableCodes => Len(c2s[d]) <= sent_ref[d]
    BY DEF IndInv, CodesAreHonest
<1>n. "none" \notin RetryableCodes
    BY DEF RetryableCodes
<1>1. hstat'[d] \notin RetryableCodes
  <2>1. hstat' = hstat \/ \E c \in Calls :
            \E v \in {"OK", "UNAUTHENTICATED", "PERMISSION_DENIED", "INVALID_ARGUMENT"} :
                hstat' = [hstat EXCEPT ![c] = v]
      BY ServerCases, VerdictCodes DEF RemCmdStrm, RefuseCall, RunRequest, RejectRequest,
         ReadEnds, WriteResponse, RunnerReturns, serverVars
  <2> QED
      BY <1>t, <1>i, <2>1 DEF RetryableCodes
<1>2. CASE UNCHANGED wireVars
    BY <1>1, <1>2, <1>i DEF wireVars
<1>3. CASE WDie
    BY <1>1, <1>3, <1>i DEF WDie
<1>4. ASSUME NEW c \in Calls, WOpen(c) \/ WDone(c) PROVE P
    BY <1>4, <1>i DEF WOpen, WDone
<1>5. ASSUME NEW c \in Calls, WClose(c) PROVE P
    BY <1>5, <1>t, <1>i, <1>n DEF WClose
<1>6. ASSUME NEW c \in Calls, WSend(c) PROVE P
  <2>1. /\ cstat[c] = "none" /\ UNCHANGED <<cstat, exc, sent_ref>>
        /\ c2s' = c2s \/ c2s' = [c2s EXCEPT ![c] = Append(@, RemCmdMsg(next(c)))]
      BY <1>6 DEF WSend
  <2>2. d # c => c2s'[d] = c2s[d]
      BY <1>t, <2>1
  <2> QED
      BY <1>i, <1>n, <2>1, <2>2
<1>7. ASSUME NEW c \in Calls, WCount(c) PROVE P
    BY <1>7, <1>t, <1>l, <1>i DEF WCount
<1>8. ASSUME NEW c \in Calls, WRaise(c) PROVE P
    BY <1>8, <1>t, <1>i DEF WRaise
<1> QED
    BY <1>1, <1>2, <1>3, <1>4, <1>5, <1>6, <1>7, <1>8, WireSteps DEF IndInv, WEffect

LEMMA RunsFollowWireKept == IndInv /\ Next => RunsFollowWire'
<1> DEFINE P(d) == /\ Len(runs[d]) <= taken[d]
                   /\ hpc[d] # "done" => Len(runs[d]) = taken[d]
                   /\ \A k \in 1 .. Len(runs[d]) : runs[d][k] = c2s[d][k]
<1> SUFFICES ASSUME IndInv, Next, NEW d \in Calls PROVE P(d)'
    BY DEF RunsFollowWire
<1> DEFINE R == Request(Tids)
<1>t. /\ c2s \in [Calls -> Seq(R)] /\ runs \in [Calls -> Seq(R)] /\ taken \in [Calls -> Nat]
      /\ hpc \in [Calls -> {"none", "read", "run", "write", "done"}]
      /\ taken[d] <= Len(c2s[d])
    BY DEF IndInv, TypeInv, TypeOK, StreamTypeOK, ServerTypeOK, Cursors
<1>l. Len(runs[d]) \in Nat /\ taken[d] \in Nat /\ Len(c2s[d]) \in Nat
    BY <1>t
<1>i. P(d)
    BY DEF IndInv, RunsFollowWire
<1>g. \A k \in 1 .. Len(c2s[d]) : c2s'[d][k] = c2s[d][k]
  <2>1. c2s' = c2s \/ \E c \in Calls : Transmit(c)
                        /\ c2s' = [c2s EXCEPT ![c] = Append(@, RemCmdMsg(next(c)))]
      BY QueueCases
  <2>2. ASSUME NEW c \in Calls, Transmit(c),
               c2s' = [c2s EXCEPT ![c] = Append(@, RemCmdMsg(next(c)))]
        PROVE  \A k \in 1 .. Len(c2s[d]) : c2s'[d][k] = c2s[d][k]
    <3> DEFINE r == RemCmdMsg(next(c))
    <3>1. r \in R
        BY <2>2, MessageType DEF Transmit, R, IndInv, TypeInv, TypeOK, TriggerTypeOK
    <3>2. c2s' = [c2s EXCEPT ![c] = Append(@, r)]
        BY <2>2
    <3> HIDE DEF r, R
    <3> QED
        BY <1>t, <3>1, <3>2, AppendTo
  <2> QED
      BY <2>1, <2>2
<1>r. ASSUME runs'[d] = runs[d]
      PROVE  \A k \in 1 .. Len(runs'[d]) : runs'[d][k] = c2s'[d][k]
  <2> SUFFICES ASSUME NEW k \in 1 .. Len(runs[d]) PROVE runs[d][k] = c2s'[d][k]
      BY <1>r
  <2>1. k \in 1 .. Len(c2s[d]) /\ runs[d][k] = c2s[d][k]
      BY <1>i, <1>l, <1>t
  <2> QED
      BY <1>g, <2>1
<1>j. Len(runs[d]) <= taken[d] /\ (hpc[d] # "done" => Len(runs[d]) = taken[d])
    BY <1>i
<1> HIDE DEF R
<1>1. CASE UNCHANGED serverVars
  <2>1. hpc' = hpc /\ runs' = runs
      BY <1>1 DEF serverVars
  <2>2. CASE taken' = taken
      BY <1>r, <1>j, <1>l, <2>1, <2>2
  <2>3. ASSUME NEW c \in Calls, RunRequest(c) \/ RejectRequest(c) PROVE FALSE
    <3>1. hpc' = [hpc EXCEPT ![c] = "run"] \/ hpc' = [hpc EXCEPT ![c] = "done"]
        BY <2>3 DEF RunRequest, RejectRequest
    <3>2. hpc[c] = "read"
        BY <2>3 DEF RunRequest, RejectRequest
    <3> QED
        BY <1>t, <2>1, <3>1, <3>2
  <2> QED
      BY <2>2, <2>3, QueueCases
<1>2. ASSUME NEW c \in Calls,
             \/ RemCmdStrm(c) \/ RefuseCall(c) \/ ReadEnds(c) \/ WriteResponse(c)
             \/ \E rc \in {0, 1} : RunnerReturns(c, rc)
      PROVE  P(d)'
  <2>1. /\ runs' = runs /\ taken' = taken /\ hpc[c] # "done"
        /\ \E h \in {"read", "write", "done"} : hpc' = [hpc EXCEPT ![c] = h]
      BY <1>2 DEF RemCmdStrm, RefuseCall, ReadEnds, WriteResponse, RunnerReturns, streamVars
  <2>2. hpc'[d] # "done" => hpc[d] # "done"
      BY <1>t, <2>1
  <2> QED
      BY <1>r, <1>j, <1>l, <2>1, <2>2
<1>3. ASSUME NEW c \in Calls, RunRequest(c) PROVE P(d)'
  <2> DEFINE r == c2s[c][taken[c] + 1]
  <2>1. /\ hpc[c] = "read" /\ hpc' = [hpc EXCEPT ![c] = "run"]
        /\ taken' = [taken EXCEPT ![c] = @ + 1] /\ taken[c] < Len(c2s[c])
        /\ runs' = [runs EXCEPT ![c] = Append(@, r)]
      BY <1>3 DEF RunRequest, TakeRequest, RequestReady
  <2>2. r \in R
      BY <1>t, <2>1
  <2>3. r = c2s[c][taken[c] + 1]
      OBVIOUS
  <2> HIDE DEF r
  <2>4. CASE d # c
    <3>1. runs'[d] = runs[d] /\ taken'[d] = taken[d] /\ hpc'[d] = hpc[d]
        BY <1>t, <2>1, <2>2, <2>4, AppendTo
    <3> QED
        BY <1>r, <1>j, <1>l, <3>1
  <2>5. CASE d = c
    <3>1. /\ Len(runs'[d]) = Len(runs[d]) + 1 /\ taken'[d] = taken[d] + 1 /\ hpc[d] = "read"
          /\ \A k \in 1 .. Len(runs[d]) : runs'[d][k] = runs[d][k]
          /\ runs'[d][Len(runs[d]) + 1] = r
        BY <1>t, <2>1, <2>2, <2>5, AppendTo
    <3>2. Len(runs[d]) = taken[d]
        BY <1>i, <3>1
    <3>3. ASSUME NEW k \in 1 .. Len(runs'[d]) PROVE runs'[d][k] = c2s'[d][k]
      <4>1. CASE k \in 1 .. Len(runs[d])
          BY <1>g, <1>i, <1>l, <1>t, <3>1, <3>2, <4>1
      <4>2. CASE k = Len(runs[d]) + 1
        <5>1. k \in 1 .. Len(c2s[d])
            BY <1>l, <2>1, <2>5, <3>2, <4>2
        <5> QED
            BY <1>g, <2>3, <2>5, <3>1, <3>2, <4>2, <5>1
      <4> QED
          BY <1>l, <3>1, <4>1, <4>2
    <3> QED
        BY <1>l, <3>1, <3>2, <3>3
  <2> QED
      BY <2>4, <2>5
<1>4. ASSUME NEW c \in Calls, RejectRequest(c) PROVE P(d)'
  <2>1. /\ hpc' = [hpc EXCEPT ![c] = "done"] /\ runs' = runs
        /\ taken' = [taken EXCEPT ![c] = @ + 1]
      BY <1>4 DEF RejectRequest, TakeRequest
  <2>2. CASE d # c
    <3>1. taken'[d] = taken[d] /\ hpc'[d] = hpc[d]
        BY <1>t, <2>1, <2>2
    <3> QED
        BY <1>r, <1>j, <1>l, <2>1, <3>1
  <2>3. CASE d = c
    <3>1. taken'[d] = taken[d] + 1 /\ hpc'[d] = "done"
        BY <1>t, <2>1, <2>3
    <3> QED
        BY <1>r, <1>j, <1>l, <2>1, <3>1
  <2> QED
      BY <2>2, <2>3
<1> QED
    BY <1>1, <1>2, <1>3, <1>4, ServerCases

\* A call that was superseded stays as it is.
LEMMA SupersededStays ==
    ASSUME IndInv, Next, NEW c \in Calls, Superseded(c)
    PROVE  Superseded(c)'
<1>t. cstat \in [Calls -> Codes] /\ c2s \in [Calls -> Seq(Request(Tids))]
    BY DEF IndInv, TypeInv, TypeOK, StreamTypeOK
<1>1. cstat'[c] = cstat[c] /\ c2s'[c] = c2s[c]
  <2>1. CASE UNCHANGED wireVars \/ WDie
      BY <2>1 DEF wireVars, WDie
  <2>2. ASSUME NEW d \in Calls, WOpen(d) \/ WCount(d) \/ WRaise(d) \/ WDone(d)
        PROVE  cstat'[c] = cstat[c] /\ c2s'[c] = c2s[c]
      BY <2>2 DEF WOpen, WCount, WRaise, WDone
  <2>3. ASSUME NEW d \in Calls, WClose(d) PROVE cstat'[c] = cstat[c] /\ c2s'[c] = c2s[c]
      BY <1>t, <2>3 DEF WClose, Superseded
  <2>4. ASSUME NEW d \in Calls, WSend(d) PROVE cstat'[c] = cstat[c] /\ c2s'[c] = c2s[c]
    <3>1. d # c
        BY <2>4 DEF WSend, Superseded
    <3> QED
        BY <1>t, <2>4, <3>1 DEF WSend
  <2> QED
      BY <2>1, <2>2, <2>3, <2>4, WireSteps DEF IndInv, WEffect
<1> QED
    BY <1>1 DEF Superseded

LEMMA RetriedSentNothingKept == IndInv /\ Next => RetriedSentNothing'
<1> SUFFICES ASSUME IndInv, Next, NEW c \in Calls, NEW d \in Calls,
                    c[1] = d[1], c[2] < d[2], net'[d] # "idle" \/ d = cur'
             PROVE  Superseded(c)'
    BY DEF RetriedSentNothing
<1>i. net[d] # "idle" \/ d = cur => Superseded(c)
    BY DEF IndInv, RetriedSentNothing
<1>t. net \in [Calls -> {"idle", "open", "closed"}] /\ inc \in Nat /\ attempt \in Nat
    BY TriggerAssumption DEF IndInv, TypeInv, TypeOK, StreamTypeOK, TriggerTypeOK
<1>p. c \in (0 .. MaxRestarts) \X (1 .. MaxAttempts) /\ d \in (0 .. MaxRestarts) \X (1 .. MaxAttempts)
    BY TriggerAssumption
<1>1. CASE net[d] # "idle" \/ d = cur
    BY <1>1, <1>i, SupersededStays
<1>2. CASE net[d] = "idle" /\ d # cur
  <2>1. net'[d] = "idle"
    <3>1. ASSUME NEW e \in Calls, WEffect(e) PROVE net'[d] = "idle"
        BY <1>2, <1>t, <3>1 DEF WEffect, WOpen, WClose, WSend, WCount, WRaise, WDone
    <3>2. CASE UNCHANGED wireVars \/ WDie
        BY <1>2, <3>2 DEF wireVars, WDie
    <3> QED
        BY <3>1, <3>2, WireSteps DEF IndInv
  <2>2. d = cur' /\ cur' # cur
      BY <1>2, <2>1
  <2>3. Retry \/ TriggererRestart
    <3>1. CASE UNCHANGED <<inc, attempt>>
        BY <2>2, <3>1 DEF cur
    <3>2. Retry \/ TriggererRestart \/ UNCHANGED <<inc, attempt>>
        BY NextCases DEF OpenStream, GiveUp, Analyse, FailBeforeStream, TimeoutStreaming,
           TimeoutStarting, Transmit, WriteCompletes, BuildFails, WriteFails,
           WriterRaises, WriterDone, ReadResponse, ReaderDone, ReaderRaises, LinkLosesCall,
           LinkReportsLoss, LinkDeadline, runVars, triggerVars, vars
    <3> QED
        BY <3>1, <3>2
  <2>4. CASE TriggererRestart
    <3>1. d[2] = 1
        BY <2>2, <2>4 DEF TriggererRestart, cur
    <3> QED
        BY <1>p, <3>1
  <2>5. CASE Retry
    <3>1. d[1] = inc /\ d[2] = attempt + 1
        BY <2>2, <2>5 DEF Retry, cur
    <3>2. CASE c = cur
      <4>1. exc[c] \in RetryableCodes /\ sent_ref[c] = 0
          BY <2>5, <3>2 DEF Retry
      <4>2. Len(c2s[c]) <= 1
          BY <4>1 DEF IndInv, SentTracksWire
      <4>3. cstat[c] \in RetryableCodes
          BY <4>1 DEF IndInv, CodesAreHonest
      <4>4. AckBeforeFailure => Len(c2s[c]) <= 0
          BY <4>1, <4>3 DEF IndInv, CodesAreHonest
      <4>5. Len(c2s[c]) \in Nat
          BY DEF IndInv, TypeInv, TypeOK, StreamTypeOK
      <4>6. Superseded(c)
          BY <4>2, <4>3, <4>4, <4>5 DEF Superseded, RetryableCodes
      <4> QED
          BY <4>6, SupersededStays
    <3>3. CASE c # cur
      <4>1. c[1] = cur[1] /\ c[2] < cur[2] /\ cur \in Calls
          BY <1>p, <1>t, <3>1, <3>3, CurIsCall DEF cur, IndInv, TypeInv, TypeOK
      <4>2. Superseded(c)
          BY <4>1 DEF IndInv, RetriedSentNothing
      <4> QED
          BY <4>2, SupersededStays
    <3> QED
        BY <3>2, <3>3
  <2> QED
      BY <2>3, <2>4, <2>5
<1> QED
    BY <1>1, <1>2

LEMMA IndInvStep == IndInv /\ [Next]_vars => IndInv'
<1>1. IndInv /\ Next => IndInv'
  <2>1. IndInv /\ Next => TypeInv'
      BY TypeInvStep DEF IndInv
  <2> QED
      BY <2>1, IdleIsEmptyKept, SentTracksWireKept, WireInOrderKept, RunsFollowWireKept,
         CodesAreHonestKept, RetriedSentNothingKept DEF IndInv
<1>2. IndInv /\ UNCHANGED vars => IndInv'
  <2> SUFFICES ASSUME IndInv, UNCHANGED vars PROVE IndInv'
      OBVIOUS
  <2> USE DEF IndInv
  <2>1. TypeInv'
      BY TypeInvStep
  <2>2. IdleIsEmpty' /\ SentTracksWire'
      BY DEF vars, streamVars, triggerVars, IdleIsEmpty, SentTracksWire
  <2>3. WireInOrder'
      BY DEF vars, streamVars, triggerVars, WireInOrder, RemCmdMsg
  <2>4. RunsFollowWire' /\ CodesAreHonest'
      BY DEF vars, streamVars, triggerVars, serverVars, RunsFollowWire, CodesAreHonest
  <2>5. RetriedSentNothing'
      BY DEF vars, streamVars, triggerVars, RetriedSentNothing, Superseded, cur
  <2> QED
      BY <2>1, <2>2, <2>3, <2>4, <2>5
<1> QED
    BY <1>1, <1>2

LEMMA Invariance == Spec => []IndInv
BY IndInvInit, IndInvStep, PTL DEF Spec

-----------------------------------------------------------------------------
(* The safety theorems.                                                    *)

\* An execution is <<call, k>> for the k-th request of that call, and it is an
\* execution of command number k.
LEMMA ExecutionShape ==
    ASSUME IndInv, NEW i, NEW t, NEW x \in Executions(i, t)
    PROVE  \E c \in Calls : /\ c[1] = i /\ x = <<c, t>>
                            /\ t \in 1 .. Len(c2s[c]) /\ net[c] # "idle"
<1>1. PICK c \in CallsOf(i) : \E k \in DOMAIN runs[c] : runs[c][k].tid = t /\ x = <<c, k>>
    BY DEF Executions
<1>2. c \in Calls /\ c[1] = i
    BY <1>1 DEF CallsOf
<1>3. PICK k \in DOMAIN runs[c] : runs[c][k].tid = t /\ x = <<c, k>>
    BY <1>1
<1>4. /\ runs[c] \in Seq(Request(Tids)) /\ c2s[c] \in Seq(Request(Tids))
      /\ taken[c] \in Nat /\ taken[c] <= Len(c2s[c])
    BY <1>2 DEF IndInv, TypeInv, TypeOK, StreamTypeOK, ServerTypeOK, Cursors
<1>5. k \in 1 .. Len(runs[c])
    BY <1>3, <1>4
<1>6. runs[c][k] = c2s[c][k] /\ Len(runs[c]) <= taken[c]
    BY <1>2, <1>5 DEF IndInv, RunsFollowWire
<1>7. k \in 1 .. Len(c2s[c])
    BY <1>4, <1>5, <1>6
<1>8. c2s[c][k] = RemCmdMsg(k)
    BY <1>2, <1>7 DEF IndInv, WireInOrder
<1>9. k = t
    BY <1>3, <1>6, <1>8 DEF RemCmdMsg
<1>10. net[c] # "idle"
    BY <1>2, <1>4, <1>7 DEF IndInv, IdleIsEmpty
<1> QED
    BY <1>2, <1>3, <1>7, <1>9, <1>10

\* Two executions of one command are the same, or belong to two attempts of which
\* the earlier one was superseded.
LEMMA TwoExecutions ==
    ASSUME IndInv, NEW i, NEW t, NEW x \in Executions(i, t), NEW y \in Executions(i, t), x # y
    PROVE  /\ x[1] # y[1]
           /\ \E c \in Calls : Superseded(c) /\ t \in 1 .. Len(c2s[c])
<1>1. PICK c \in Calls : c[1] = i /\ x = <<c, t>> /\ t \in 1 .. Len(c2s[c]) /\ net[c] # "idle"
    BY ExecutionShape
<1>2. PICK d \in Calls : d[1] = i /\ y = <<d, t>> /\ t \in 1 .. Len(c2s[d]) /\ net[d] # "idle"
    BY ExecutionShape
<1>3. c # d
    BY <1>1, <1>2
<1>4. c[2] < d[2] \/ d[2] < c[2]
  <2>1. c \in (0 .. MaxRestarts) \X (1 .. MaxAttempts)
        /\ d \in (0 .. MaxRestarts) \X (1 .. MaxAttempts)
      BY TriggerAssumption
  <2>2. c[2] # d[2] /\ c[2] \in Int /\ d[2] \in Int
      BY <1>1, <1>2, <1>3, <2>1
  <2> QED
      BY <2>2
<1>5. Superseded(c) \/ Superseded(d)
    BY <1>1, <1>2, <1>4 DEF IndInv, RetriedSentNothing
<1> QED
    BY <1>1, <1>2, <1>3, <1>5

\* run() never makes the server execute a command twice in one incarnation of the
\* trigger, whatever the number of attempts, provided that a completed write is
\* seen before the failure of its call is.
THEOREM NoDuplicateExecution == Spec => [](AckBeforeFailure => AtMostOnce)
<1>1. IndInv => (AckBeforeFailure => AtMostOnce)
  <2> SUFFICES ASSUME IndInv, AckBeforeFailure, NEW i \in 0 .. MaxRestarts, NEW t \in Tids,
                      NEW x \in Executions(i, t), NEW y \in Executions(i, t), x # y
               PROVE  FALSE
      BY DEF AtMostOnce
  <2>1. PICK c \in Calls : Superseded(c) /\ t \in 1 .. Len(c2s[c])
      BY TwoExecutions
  <2> QED
      BY <2>1 DEF Superseded
<1> QED
    BY Invariance, <1>1, PTL

\* Without that proviso the damage is bounded: only command number 1 can be
\* executed again, and only by another attempt.
THEOREM DuplicationIsBounded == Spec => []OnlyFirstRepeats
<1>1. IndInv => OnlyFirstRepeats
  <2> SUFFICES ASSUME IndInv, NEW i \in 0 .. MaxRestarts, NEW t \in Tids,
                      NEW x \in Executions(i, t), NEW y \in Executions(i, t), x # y
               PROVE  t = 1 /\ x[1] # y[1]
      BY DEF OnlyFirstRepeats
  <2>1. PICK c \in Calls : Superseded(c) /\ t \in 1 .. Len(c2s[c])
      BY TwoExecutions
  <2>2. x[1] # y[1]
      BY TwoExecutions
  <2>3. Len(c2s[c]) \in Nat /\ Len(c2s[c]) <= 1
      BY <2>1 DEF IndInv, TypeInv, TypeOK, StreamTypeOK, Superseded
  <2> QED
      BY <2>1, <2>2, <2>3
<1> QED
    BY Invariance, <1>1, PTL

-----------------------------------------------------------------------------
(* Admission control.                                                      *)

\* Everything that was run was admitted.
RunsAdmitted == \A c \in Calls : \A k \in 1 .. Len(runs[c]) : Verdict(config, runs[c][k]) = "OK"

LEMMA RunsAdmittedStep == TypeInv /\ RunsAdmitted /\ [Next]_vars => RunsAdmitted'
<1> SUFFICES ASSUME TypeInv, RunsAdmitted, [Next]_vars, NEW d \in Calls,
                    NEW k \in 1 .. Len(runs'[d])
             PROVE  Verdict(config, runs[d][k])'
                      = "OK"
    BY DEF RunsAdmitted
<1> DEFINE R == Request(Tids)
<1>t. runs \in [Calls -> Seq(R)] /\ c2s \in [Calls -> Seq(R)] /\ taken \in [Calls -> Nat]
    BY DEF TypeInv, TypeOK, StreamTypeOK, ServerTypeOK
<1>i. \A j \in 1 .. Len(runs[d]) : Verdict(config, runs[d][j]) = "OK"
    BY DEF RunsAdmitted
<1>v. ASSUME NEW r, config' = config PROVE Verdict(config', r) = Verdict(config, r)
    BY <1>v
<1> HIDE DEF R
<1>1. CASE config' = config /\ runs'[d] = runs[d]
    BY <1>1, <1>i, <1>v
<1>2. ASSUME NEW c \in Calls, RunRequest(c) PROVE Verdict(config, runs[d][k])' = "OK"
  <2> DEFINE r == c2s[c][taken[c] + 1]
  <2>1. /\ config' = config /\ runs' = [runs EXCEPT ![c] = Append(@, r)]
        /\ Verdict(config, r) = "OK" /\ taken[c] < Len(c2s[c])
      BY <1>2 DEF RunRequest, RequestReady
  <2>2. r \in R
      BY <1>t, <2>1
  <2> HIDE DEF r
  <2>3. CASE d # c
    <3>1. runs'[d] = runs[d]
        BY <1>t, <2>1, <2>2, <2>3, AppendTo
    <3> QED
        BY <1>1, <2>1, <3>1
  <2>4. CASE d = c
    <3>1. /\ Len(runs'[d]) = Len(runs[d]) + 1 /\ Len(runs[d]) \in Nat
          /\ \A j \in 1 .. Len(runs[d]) : runs'[d][j] = runs[d][j]
          /\ runs'[d][Len(runs[d]) + 1] = r
        BY <1>t, <2>1, <2>2, <2>4, AppendTo
    <3>2. Verdict(config, runs'[d][k]) = "OK"
        BY <1>i, <2>1, <3>1
    <3> QED
        BY <1>v, <2>1, <3>2
  <2> QED
      BY <2>3, <2>4
<1>3. UNCHANGED <<config, runs>> \/ \E c \in Calls : RunRequest(c)
    BY ServerCases DEF RemCmdStrm, RefuseCall, RejectRequest, ReadEnds, WriteResponse,
                       RunnerReturns, serverVars, vars
<1> QED
    BY <1>1, <1>2, <1>3

\* Whatever breaks, retries or restarts, the server runs an initial segment of the
\* command list and stops before the first command its policy forbids.
THEOREM PolicyHolds == Spec => []RunsArePermittedPrefix
<1>1. Init => RunsAdmitted
    BY DEF Init, ServerInit, RunsAdmitted
<1>2. Spec => []RunsAdmitted
    BY <1>1, TypeInvInit, TypeInvStep, RunsAdmittedStep, PTL DEF Spec
<1>3. IndInv /\ RunsAdmitted => RunsArePermittedPrefix
  <2> SUFFICES ASSUME IndInv, RunsAdmitted, NEW c \in Calls, NEW k \in DOMAIN runs[c]
               PROVE  /\ runs[c][k].tid = k /\ runs[c][k].cmd = commands[k].cmd
                      /\ \A t \in 1 .. k : Permitted(config, commands[t].cmd)
      BY DEF RunsArePermittedPrefix
  <2>1. /\ runs[c] \in Seq(Request(Tids)) /\ c2s[c] \in Seq(Request(Tids))
        /\ taken[c] \in Nat /\ taken[c] <= Len(c2s[c]) /\ config \in Config
      BY RemoteRunAssumption DEF IndInv, TypeInv, TypeOK, StreamTypeOK, ServerTypeOK, Cursors
  <2>2. k \in 1 .. Len(runs[c])
      BY <2>1
  <2>3. ASSUME NEW j \in 1 .. k PROVE runs[c][j] = RemCmdMsg(j) /\ j \in 1 .. Len(runs[c])
    <3>1. j \in 1 .. Len(runs[c])
        BY <2>1, <2>2
    <3>2. runs[c][j] = c2s[c][j] /\ Len(runs[c]) <= taken[c]
        BY <3>1 DEF IndInv, RunsFollowWire
    <3>3. j \in 1 .. Len(c2s[c])
        BY <2>1, <3>1, <3>2
    <3> QED
        BY <3>1, <3>2, <3>3 DEF IndInv, WireInOrder
  <2>4. ASSUME NEW t \in 1 .. k PROVE Permitted(config, commands[t].cmd)
    <3>1. Verdict(config, RemCmdMsg(t)) = "OK"
        BY <2>3 DEF RunsAdmitted
    <3>2. RemCmdMsg(t).cmd = commands[t].cmd
        BY DEF RemCmdMsg
    <3> QED
        BY <2>1, <3>1, <3>2, VerdictFollowsPolicy
  <2>5. k \in 1 .. k
      BY <2>1, <2>2
  <2>6. runs[c][k] = RemCmdMsg(k)
      BY <2>3, <2>5
  <2>7. runs[c][k].tid = k /\ runs[c][k].cmd = commands[k].cmd
      BY <2>6 DEF RemCmdMsg
  <2> QED
      BY <2>4, <2>7
<1> QED
    BY <1>2, <1>3, Invariance, PTL

-----------------------------------------------------------------------------
(* What is reported: the inductive invariant, on top of IndInv.            *)

\* done_writing reaches the server only after the whole list.
HalfMeansAll ==
    \A c \in Calls : half[c] => wpc[c] = "done" /\ Len(c2s[c]) = N

\* One exit code per command handed to the runner, but for the one running.
ExitsTrackRuns ==
    \A c \in Calls : /\ hpc[c] # "run" => Len(runs[c]) = Len(exits[c])
                     /\ hpc[c] = "run" => Len(runs[c]) = Len(exits[c]) + 1

\* The k-th response on the wire is the one to the k-th request, and on a call
\* that is not broken only the response in the handler's hand is missing.
AnswersFollowRuns ==
    \A c \in Calls :
        /\ Len(s2c[c]) <= Len(exits[c])
        /\ net[c] # "closed" /\ hpc[c] # "write" => Len(exits[c]) = Len(s2c[c])
        /\ net[c] # "closed" /\ hpc[c] = "write" => Len(exits[c]) = Len(s2c[c]) + 1
        /\ \A k \in 1 .. Len(s2c[c]) :
              /\ s2c[c][k].tid = k /\ s2c[c][k].rc = exits[c][k]
              /\ s2c[c][k].out = runs[c][k].cmd

\* _read has filed the responses it took, each under its own number.
FiledFollowsAnswers ==
    \A c \in Calls : \A t \in 1 .. got[c] :
        results[c][t] = [rc |-> exits[c][t], out |-> runs[c][t].cmd, cmd |-> commands[t].cmd]

\* Everything was run and answered, and the handler has returned.
Answered(c) == hpc[c] = "done" /\ Len(runs[c]) = N /\ Len(s2c[c]) = N

\* processStream returns OK for a broken call too, but then the status does not
\* arrive: a client that sees OK has been answered in full.
OKMeansAnswered ==
    \A c \in Calls :
        /\ net[c] = "idle" => hpc[c] = "none"
        /\ hstat[c] # "none" => hpc[c] = "done"
        /\ hstat[c] = "OK" /\ net[c] = "open" => Answered(c)
        /\ cstat[c] = "OK" => Answered(c) /\ net[c] = "closed"
        /\ rpc[c] = "done" => cstat[c] = "OK" /\ got[c] = Len(s2c[c])

\* The event is the last thing run() does, and an event that is not about a
\* failure of the call holds the results of the current one.
EventFollowsResults ==
    /\ event.state # "none" => pc = "done"
    /\ event.state = "none" => event.why = "none"
    /\ event.state = "SUCCESS" \/ event.why \in {"missing", "rc"} =>
          /\ rpc[cur] = "done" /\ event.results = results[cur]
          /\ event.why = "missing" => Missing(cur) # {}
          /\ event.why # "missing" => Missing(cur) = {}
          /\ event.state = "SUCCESS" <=> Missing(cur) = {} /\ Failed(cur) = {}

\* Attempts that were not made yet have no call.
FutureIsIdle ==
    \A c \in Calls : c[1] > inc \/ (c[1] = inc /\ c[2] > attempt) => net[c] = "idle"

RepInv ==
    /\ HalfMeansAll /\ ExitsTrackRuns /\ AnswersFollowRuns /\ FiledFollowsAnswers
    /\ OKMeansAnswered /\ EventFollowsResults /\ FutureIsIdle

-----------------------------------------------------------------------------
(* What one step does to one call, variable group by variable group.       *)

\* The values of call d that only its handler changes.
handlerOf(d) == <<hpc[d], hstat[d], exits[d], runs[d], taken[d], s2c[d]>>

\* What a step of a handler leaves to the others.
restVars == <<net, c2s, half, got, cstat, triggerVars>>

HEnter(d) ==
    /\ hpc[d] = "none" /\ net[d] # "idle" /\ UNCHANGED <<exits[d], runs[d], taken[d], s2c[d]>>
    /\ \/ hpc'[d] = "read" /\ hstat'[d] = hstat[d]
       \/ hpc'[d] = "done" /\ hstat'[d] = "UNAUTHENTICATED"

HRun(d) ==
    /\ hpc[d] = "read" /\ hpc'[d] = "run" /\ UNCHANGED <<hstat[d], exits[d], s2c[d]>>
    /\ taken'[d] = taken[d] + 1
    /\ Len(runs'[d]) = Len(runs[d]) + 1
    /\ \A k \in 1 .. Len(runs[d]) : runs'[d][k] = runs[d][k]

HReject(d) ==
    /\ hpc[d] = "read" /\ hpc'[d] = "done" /\ UNCHANGED <<exits[d], runs[d], s2c[d]>>
    /\ hstat'[d] # "OK"

HEnd(d) ==
    /\ hpc[d] = "read" /\ hpc'[d] = "done" /\ hstat'[d] = "OK"
    /\ net[d] = "closed" \/ (half[d] /\ taken[d] >= Len(c2s[d]))
    /\ UNCHANGED <<exits[d], runs[d], taken[d], s2c[d]>>

HReturn(d) ==
    /\ hpc[d] = "run" /\ hpc'[d] = "write" /\ UNCHANGED <<hstat[d], runs[d], taken[d], s2c[d]>>
    /\ Len(exits'[d]) = Len(exits[d]) + 1
    /\ \A k \in 1 .. Len(exits[d]) : exits'[d][k] = exits[d][k]

HWrite(d) ==
    /\ hpc[d] = "write" /\ hpc'[d] = "read" /\ UNCHANGED <<hstat[d], exits[d], runs[d], taken[d]>>
    /\ \/ net[d] = "closed" /\ UNCHANGED s2c[d]
       \/ /\ net[d] = "open" /\ Len(s2c'[d]) = Len(s2c[d]) + 1
          /\ \A k \in 1 .. Len(s2c[d]) : s2c'[d][k] = s2c[d][k]
          /\ s2c'[d][Len(s2c[d]) + 1] = RemResMsg(d)

HEffect(d) == HEnter(d) \/ HRun(d) \/ HReject(d) \/ HEnd(d) \/ HReturn(d) \/ HWrite(d)

LEMMA HandlerSteps ==
    ASSUME TypeInv, Next, NEW d \in Calls
    PROVE  UNCHANGED handlerOf(d) \/ (HEffect(d) /\ UNCHANGED restVars)
<1> DEFINE R == Request(Tids)
<1>t. /\ hpc \in [Calls -> {"none", "read", "run", "write", "done"}]
      /\ hstat \in [Calls -> Codes] /\ exits \in [Calls -> Seq({0, 1})]
      /\ runs \in [Calls -> Seq(R)] /\ taken \in [Calls -> Nat]
      /\ s2c \in [Calls -> Seq(Response)] /\ c2s \in [Calls -> Seq(R)]
    BY DEF TypeInv, TypeOK, StreamTypeOK, ServerTypeOK
<1> HIDE DEF R
<1>1. ASSUME NEW c \in Calls, RemCmdStrm(c) \/ RefuseCall(c), UNCHANGED triggerVars
      PROVE  UNCHANGED handlerOf(d) \/ (HEffect(d) /\ UNCHANGED restVars)
  <2>1. /\ UNCHANGED restVars /\ UNCHANGED <<exits, runs, taken, s2c>>
        /\ hpc[c] = "none" /\ net[c] # "idle"
      BY <1>1 DEF RemCmdStrm, RefuseCall, streamVars, restVars
  <2>2. \/ hpc' = [hpc EXCEPT ![c] = "read"] /\ hstat' = hstat
        \/ hpc' = [hpc EXCEPT ![c] = "done"] /\ hstat' = [hstat EXCEPT ![c] = "UNAUTHENTICATED"]
      BY <1>1 DEF RemCmdStrm, RefuseCall
  <2>3. CASE c = d
      BY <1>t, <2>1, <2>2, <2>3 DEF HEnter, HEffect
  <2>4. CASE c # d
      BY <1>t, <2>1, <2>2, <2>4 DEF handlerOf
  <2> QED
      BY <2>3, <2>4
<1>2. ASSUME NEW c \in Calls, RunRequest(c), UNCHANGED triggerVars
      PROVE  UNCHANGED handlerOf(d) \/ (HEffect(d) /\ UNCHANGED restVars)
  <2> DEFINE r == c2s[c][taken[c] + 1]
  <2>1. /\ UNCHANGED restVars /\ UNCHANGED <<hstat, exits, s2c>> /\ hpc[c] = "read"
        /\ hpc' = [hpc EXCEPT ![c] = "run"] /\ taken' = [taken EXCEPT ![c] = @ + 1]
        /\ runs' = [runs EXCEPT ![c] = Append(@, r)] /\ taken[c] < Len(c2s[c])
      BY <1>2 DEF RunRequest, TakeRequest, RequestReady, restVars
  <2>2. r \in R
      BY <1>t, <2>1
  <2> HIDE DEF r
  <2>3. CASE c = d
    <3>1. /\ Len(runs'[d]) = Len(runs[d]) + 1
          /\ \A k \in 1 .. Len(runs[d]) : runs'[d][k] = runs[d][k]
        BY <1>t, <2>1, <2>2, <2>3, AppendTo
    <3> QED
        BY <1>t, <2>1, <2>3, <3>1 DEF HRun, HEffect
  <2>4. CASE c # d
    <3>1. runs'[d] = runs[d]
        BY <1>t, <2>1, <2>2, <2>4, AppendTo
    <3> QED
        BY <1>t, <2>1, <2>4, <3>1 DEF handlerOf
  <2> QED
      BY <2>3, <2>4
<1>3. ASSUME NEW c \in Calls, RejectRequest(c), UNCHANGED triggerVars
      PROVE  UNCHANGED handlerOf(d) \/ (HEffect(d) /\ UNCHANGED restVars)
  <2>1. PICK v : /\ v # "OK" /\ hstat' = [hstat EXCEPT ![c] = v]
                 /\ UNCHANGED restVars /\ UNCHANGED <<exits, runs, s2c>> /\ hpc[c] = "read"
                 /\ hpc' = [hpc EXCEPT ![c] = "done"] /\ taken' = [taken EXCEPT ![c] = @ + 1]
      BY <1>3 DEF RejectRequest, TakeRequest, restVars
  <2>2. CASE c = d
      BY <1>t, <2>1, <2>2 DEF HReject, HEffect
  <2>3. CASE c # d
      BY <1>t, <2>1, <2>3 DEF handlerOf
  <2> QED
      BY <2>2, <2>3
<1>4. ASSUME NEW c \in Calls, ReadEnds(c), UNCHANGED triggerVars
      PROVE  UNCHANGED handlerOf(d) \/ (HEffect(d) /\ UNCHANGED restVars)
  <2>1. /\ UNCHANGED restVars /\ UNCHANGED <<exits, runs, taken, s2c>> /\ hpc[c] = "read"
        /\ hpc' = [hpc EXCEPT ![c] = "done"] /\ hstat' = [hstat EXCEPT ![c] = "OK"]
        /\ net[c] = "closed" \/ (half[c] /\ ~(taken[c] < Len(c2s[c])))
      BY <1>4 DEF ReadEnds, ReadReturnsFalse, RequestReady, streamVars, restVars
  <2>2. CASE c = d
    <3>1. taken[c] \in Nat /\ Len(c2s[c]) \in Nat
        BY <1>t
    <3>2. ~(taken[c] < Len(c2s[c])) => taken[c] >= Len(c2s[c])
        BY <3>1
    <3> QED
        BY <1>t, <2>1, <2>2, <3>2 DEF HEnd, HEffect
  <2>3. CASE c # d
      BY <1>t, <2>1, <2>3 DEF handlerOf
  <2> QED
      BY <2>2, <2>3
<1>5. ASSUME NEW c \in Calls, NEW rc \in {0, 1}, RunnerReturns(c, rc), UNCHANGED triggerVars
      PROVE  UNCHANGED handlerOf(d) \/ (HEffect(d) /\ UNCHANGED restVars)
  <2>1. /\ UNCHANGED restVars /\ UNCHANGED <<hstat, runs, taken, s2c>> /\ hpc[c] = "run"
        /\ hpc' = [hpc EXCEPT ![c] = "write"] /\ exits' = [exits EXCEPT ![c] = Append(@, rc)]
      BY <1>5 DEF RunnerReturns, streamVars, restVars
  <2>2. CASE c = d
    <3>1. /\ Len(exits'[d]) = Len(exits[d]) + 1
          /\ \A k \in 1 .. Len(exits[d]) : exits'[d][k] = exits[d][k]
        BY <1>t, <2>1, <2>2, AppendTo
    <3> QED
        BY <1>t, <2>1, <2>2, <3>1 DEF HReturn, HEffect
  <2>3. CASE c # d
    <3>1. exits'[d] = exits[d]
        BY <1>t, <2>1, <2>3, AppendTo
    <3> QED
        BY <1>t, <2>1, <2>3, <3>1 DEF handlerOf
  <2> QED
      BY <2>2, <2>3
<1>6. ASSUME NEW c \in Calls, WriteResponse(c), UNCHANGED triggerVars
      PROVE  UNCHANGED handlerOf(d) \/ (HEffect(d) /\ UNCHANGED restVars)
  <2> DEFINE m == RemResMsg(c)
  <2>1. /\ UNCHANGED restVars /\ UNCHANGED <<hstat, exits, runs, taken>> /\ hpc[c] = "write"
        /\ hpc' = [hpc EXCEPT ![c] = "read"]
        /\ \/ net[c] = "closed" /\ s2c' = s2c
           \/ net[c] = "open" /\ s2c' = [s2c EXCEPT ![c] = Append(@, m)]
      BY <1>6 DEF WriteResponse, PutResponse, restVars
  <2>2. m \in Response /\ m = RemResMsg(c)
      BY <2>1, ResponseType
  <2> HIDE DEF m
  <2>3. CASE c = d
    <3>1. \/ net[d] = "closed" /\ s2c'[d] = s2c[d]
          \/ /\ net[d] = "open" /\ Len(s2c'[d]) = Len(s2c[d]) + 1
             /\ \A k \in 1 .. Len(s2c[d]) : s2c'[d][k] = s2c[d][k]
             /\ s2c'[d][Len(s2c[d]) + 1] = RemResMsg(d)
      <4>1. m = RemResMsg(d)
          BY <2>2, <2>3
      <4>2. CASE net[c] = "open" /\ s2c' = [s2c EXCEPT ![c] = Append(@, m)]
        <5>1. /\ Len(s2c'[d]) = Len(s2c[d]) + 1
              /\ \A k \in 1 .. Len(s2c[d]) : s2c'[d][k] = s2c[d][k]
              /\ s2c'[d][Len(s2c[d]) + 1] = m
            BY <1>t, <2>2, <2>3, <4>2, AppendTo
        <5> QED
            BY <2>3, <4>1, <4>2, <5>1
      <4> QED
          BY <2>1, <2>3, <4>2
    <3> QED
        BY <1>t, <2>1, <2>3, <3>1 DEF HWrite, HEffect
  <2>4. CASE c # d
    <3>1. s2c'[d] = s2c[d]
        BY <1>t, <2>1, <2>2, <2>4, AppendTo
    <3> QED
        BY <1>t, <2>1, <2>4, <3>1 DEF handlerOf
  <2> QED
      BY <2>3, <2>4
<1>7. CASE UNCHANGED <<serverVars, taken, s2c>>
    BY <1>7 DEF serverVars, handlerOf
<1>8. \/ UNCHANGED <<serverVars, taken, s2c>>
      \/ UNCHANGED triggerVars
         /\ \E c \in Calls : \/ RemCmdStrm(c) \/ RefuseCall(c) \/ RunRequest(c)
                              \/ RejectRequest(c) \/ ReadEnds(c) \/ WriteResponse(c)
                              \/ \E rc \in {0, 1} : RunnerReturns(c, rc)
    BY NextCases DEF OpenStream, Retry, GiveUp, Analyse, FailBeforeStream, TimeoutStreaming,
       TimeoutStarting, TriggererRestart, Transmit, WriteCompletes, BuildFails, WriteFails,
       WriterRaises, WriterDone, ReadResponse, ReaderDone, ReaderRaises, StatusDelivered,
       LinkLosesCall, LinkReportsLoss, LinkDeadline, ConnLost, LossReported, DeadlineFires,
       streamVars, vars
<1> QED
    BY <1>1, <1>2, <1>3, <1>4, <1>5, <1>6, <1>7, <1>8

\* A call that is closed stays closed, a status stays, and OK comes only from a
\* handler that returned OK on an open call.
LEMMA StatusSteps ==
    ASSUME IndInv, Next, NEW d \in Calls
    PROVE  /\ net[d] = "closed" => net'[d] = "closed"
           /\ net[d] # "idle" => net'[d] # "idle"
           /\ cstat[d] = "OK" => cstat'[d] = "OK"
           /\ cstat[d] # "OK" /\ cstat'[d] = "OK" =>
                 hstat[d] = "OK" /\ net[d] = "open" /\ net'[d] = "closed"
<1> DEFINE P == /\ net[d] = "closed" => net'[d] = "closed"
                /\ net[d] # "idle" => net'[d] # "idle"
                /\ cstat[d] = "OK" => cstat'[d] = "OK"
                /\ cstat[d] # "OK" /\ cstat'[d] = "OK" =>
                      hstat[d] = "OK" /\ net[d] = "open" /\ net'[d] = "closed"
<1>t. net \in [Calls -> {"idle", "open", "closed"}] /\ cstat \in [Calls -> Codes] /\ cur \in Calls
    BY CurIsCall DEF IndInv, TypeInv, TypeOK, StreamTypeOK
<1>1. CASE OpenStream
    BY <1>1, <1>t DEF OpenStream, OpenCall
<1>2. CASE TimeoutStreaming
    BY <1>2, <1>t DEF TimeoutStreaming, CloseCall
<1>3. CASE TriggererRestart
    BY <1>3, <1>t DEF TriggererRestart
<1>4. ASSUME NEW c \in Calls, StatusDelivered(c) PROVE P
    BY <1>4, <1>t DEF StatusDelivered, CloseCall
<1>5. ASSUME NEW c \in Calls, LinkLosesCall(c) \/ LinkDeadline(c) PROVE P
    BY <1>5, <1>t DEF LinkLosesCall, ConnLost, LinkDeadline, DeadlineFires, CloseCall
<1>6. ASSUME NEW c \in Calls, LinkReportsLoss(c) PROVE P
  <2>1. PICK code \in TransportCodes : LossReported(c, code)
      BY <1>6 DEF LinkReportsLoss
  <2>2. code # "OK"
      BY RemoteRunAssumption
  <2> QED
      BY <1>t, <2>1, <2>2 DEF LossReported
<1>7. CASE UNCHANGED <<net, cstat>>
    BY <1>7
<1>8. \/ UNCHANGED <<net, cstat>> \/ OpenStream \/ TimeoutStreaming \/ TriggererRestart
      \/ \E c \in Calls : \/ StatusDelivered(c) \/ LinkLosesCall(c) \/ LinkDeadline(c)
                          \/ LinkReportsLoss(c)
    BY NextCases DEF Retry, GiveUp, Analyse, FailBeforeStream, TimeoutStarting, Transmit,
       WriteCompletes, BuildFails, WriteFails, WriterRaises, WriterDone, ReadResponse, ReaderDone,
       ReaderRaises, RemCmdStrm, RefuseCall, RunRequest, RejectRequest, ReadEnds, RunnerReturns,
       WriteResponse, streamVars, vars
<1> QED
    BY <1>1, <1>2, <1>3, <1>4, <1>5, <1>6, <1>7, <1>8

\* The half-close is sent by a writer at the end of the list, on an open call,
\* and a writer that is done sends nothing more.
LEMMA HalfSteps ==
    ASSUME IndInv, Next, NEW d \in Calls
    PROVE  /\ wpc[d] = "done" => wpc'[d] = "done" /\ c2s'[d] = c2s[d]
           /\ half'[d] => \/ half[d]
                          \/ /\ wpc[d] = "write" /\ next(d) \notin Tids /\ net[d] = "open"
                             /\ wpc'[d] = "done" /\ c2s' = c2s
<1> DEFINE P == /\ wpc[d] = "done" => wpc'[d] = "done" /\ c2s'[d] = c2s[d]
                /\ half'[d] => \/ half[d]
                               \/ /\ wpc[d] = "write" /\ next(d) \notin Tids /\ net[d] = "open"
                                  /\ wpc'[d] = "done" /\ c2s' = c2s
<1>t. /\ wpc \in [Calls -> {"idle", "write", "await", "done", "failed", "dead"}]
      /\ half \in [Calls -> BOOLEAN] /\ c2s \in [Calls -> Seq(Request(Tids))] /\ cur \in Calls
    BY CurIsCall DEF IndInv, TypeInv, TypeOK, StreamTypeOK, TriggerTypeOK
<1>1. CASE OpenStream
  <2>1. net[cur] = "idle" /\ wpc' = [wpc EXCEPT ![cur] = "write"] /\ UNCHANGED <<c2s, half>>
      BY <1>1 DEF OpenStream, OpenCall
  <2>2. wpc[cur] = "idle"
      BY <1>t, <2>1 DEF IndInv, IdleIsEmpty
  <2> QED
      BY <1>t, <2>1, <2>2
<1>2. CASE TimeoutStreaming
    BY <1>2, <1>t DEF TimeoutStreaming, Unfinished
<1>3. CASE TriggererRestart
    BY <1>3, <1>t DEF TriggererRestart, Unfinished
<1>4. ASSUME NEW c \in Calls, Transmit(c) PROVE P
  <2>1. /\ wpc[c] = "write" /\ wpc' = [wpc EXCEPT ![c] = "await"] /\ half' = half
        /\ c2s' = c2s \/ c2s' = [c2s EXCEPT ![c] = Append(@, RemCmdMsg(next(c)))]
      BY <1>4 DEF Transmit, PutRequest
  <2> QED
      BY <1>t, <2>1
<1>5. ASSUME NEW c \in Calls, WriteCompletes(c) \/ BuildFails(c) \/ WriteFails(c) PROVE P
  <2>1. /\ wpc[c] \in {"write", "await"} /\ UNCHANGED <<c2s, half>>
        /\ \E w \in {"write", "failed"} : wpc' = [wpc EXCEPT ![c] = w]
      BY <1>5 DEF WriteCompletes, BuildFails, WriteFails, WriterRaises, streamVars
  <2> QED
      BY <1>t, <2>1
<1>6. ASSUME NEW c \in Calls, WriterDone(c) PROVE P
  <2>1. /\ wpc[c] = "write" /\ next(c) \notin Tids /\ c2s' = c2s
        /\ half' = [half EXCEPT ![c] = @ \/ net[c] = "open"]
        /\ wpc' = [wpc EXCEPT ![c] = "done"]
      BY <1>6 DEF WriterDone, HalfClose
  <2>2. CASE c = d
    <3>1. half'[d] => half[d] \/ net[d] = "open"
        BY <1>t, <2>1, <2>2, Zenon
    <3>2. wpc'[d] = "done" /\ wpc[d] = "write"
        BY <1>t, <2>1, <2>2
    <3>3. next(d) \notin Tids
        BY <2>1, <2>2
    <3> QED
        BY <2>1, <3>1, <3>2, <3>3
  <2>3. CASE c # d
    <3>1. half'[d] = half[d]
        BY <1>t, <2>1, <2>3, Zenon
    <3> QED
        BY <1>t, <2>1, <2>3, <3>1
  <2> QED
      BY <2>2, <2>3
<1>7. CASE UNCHANGED <<wpc, c2s, half>>
    BY <1>7
<1>8. \/ UNCHANGED <<wpc, c2s, half>> \/ OpenStream \/ TimeoutStreaming \/ TriggererRestart
      \/ \E c \in Calls : \/ Transmit(c) \/ WriteCompletes(c) \/ BuildFails(c) \/ WriteFails(c)
                          \/ WriterDone(c)
    BY NextCases DEF Retry, GiveUp, Analyse, FailBeforeStream, TimeoutStarting, ReadResponse,
       ReaderDone, ReaderRaises, RemCmdStrm, RefuseCall, RunRequest, RejectRequest, ReadEnds,
       RunnerReturns, WriteResponse, StatusDelivered, LinkLosesCall, LinkReportsLoss, LinkDeadline,
       ConnLost, LossReported, DeadlineFires, streamVars, triggerVars, coroVars, vars
<1> QED
    BY <1>1, <1>2, <1>3, <1>4, <1>5, <1>6, <1>7, <1>8

\* _read takes the responses one by one while it reads, and it is done when the
\* stream has ended with OK and nothing is left.
LEMMA ReadSteps ==
    ASSUME IndInv, Next, NEW d \in Calls
    PROVE  /\ rpc'[d] = "done" => rpc[d] = "done" \/ (cstat[d] = "OK" /\ got[d] >= Len(s2c[d]))
           /\ rpc[d] = "done" => rpc'[d] = "done" \/ net[d] = "idle"
           /\ \/ got'[d] = got[d] /\ results'[d] = results[d]
              \/ /\ rpc[d] = "read" /\ rpc'[d] = "read" /\ got[d] < Len(s2c[d])
                 /\ got'[d] = got[d] + 1
                 /\ UNCHANGED <<s2c, serverVars>>
                 /\ LET r == s2c[d][got[d] + 1] IN
                    results'[d] = [results[d] EXCEPT ![r.tid] =
                                     [rc |-> r.rc, out |-> r.out, cmd |-> commands[r.tid].cmd]]
<1> DEFINE r(c) == s2c[c][got[c] + 1]
           e(c) == [rc |-> r(c).rc, out |-> r(c).out, cmd |-> commands[r(c).tid].cmd]
           Q == /\ rpc'[d] = "done" => rpc[d] = "done" \/ (cstat[d] = "OK" /\ got[d] >= Len(s2c[d]))
                /\ rpc[d] = "done" => rpc'[d] = "done" \/ net[d] = "idle"
           U == got'[d] = got[d] /\ results'[d] = results[d]
           T == /\ rpc[d] = "read" /\ rpc'[d] = "read" /\ got[d] < Len(s2c[d])
                /\ got'[d] = got[d] + 1 /\ UNCHANGED <<s2c, serverVars>>
                /\ results'[d] = [results[d] EXCEPT ![r(d).tid] = e(d)]
<1> SUFFICES Q /\ (U \/ T)
    BY Zenon
<1>t. /\ rpc \in [Calls -> {"idle", "read", "done", "failed", "dead"}]
      /\ got \in [Calls -> Nat] /\ results \in [Calls -> ResultMap]
      /\ s2c \in [Calls -> Seq(Response)] /\ cur \in Calls
    BY CurIsCall DEF IndInv, TypeInv, TypeOK, StreamTypeOK, TriggerTypeOK
<1>1. CASE OpenStream
    BY <1>1, <1>t DEF OpenStream, OpenCall
<1>2. CASE TimeoutStreaming
    BY <1>2, <1>t DEF TimeoutStreaming, Unfinished
<1>3. CASE TriggererRestart
    BY <1>3, <1>t DEF TriggererRestart, Unfinished
<1>4. ASSUME NEW c \in Calls, ReaderDone(c) PROVE Q /\ U
  <2>1. /\ rpc[c] = "read" /\ ~(got[c] < Len(s2c[c])) /\ cstat[c] = "OK"
        /\ rpc' = [rpc EXCEPT ![c] = "done"] /\ UNCHANGED <<got, results>>
      BY <1>4 DEF ReaderDone, ResponseReady, streamVars
  <2>2. got[c] \in Nat /\ Len(s2c[c]) \in Nat
      BY <1>t
  <2>3. got[c] >= Len(s2c[c])
      BY <2>1, <2>2
  <2> QED
      BY <1>t, <2>1, <2>3
<1>5. ASSUME NEW c \in Calls, ReaderRaises(c) PROVE Q /\ U
  <2>1. rpc[c] = "read" /\ rpc' = [rpc EXCEPT ![c] = "failed"] /\ UNCHANGED <<got, results>>
      BY <1>5 DEF ReaderRaises, streamVars
  <2> QED
      BY <1>t, <2>1
<1>6. ASSUME NEW c \in Calls, ReadResponse(c), UNCHANGED serverVars PROVE Q /\ (U \/ T)
  <2>1. /\ rpc[c] = "read" /\ rpc' = rpc /\ got[c] < Len(s2c[c])
        /\ got' = [got EXCEPT ![c] = @ + 1] /\ UNCHANGED <<s2c, serverVars>>
        /\ results' = [results EXCEPT ![c][r(c).tid] = e(c)]
      BY <1>6 DEF ReadResponse, TakeResponse, ResponseReady
  <2> HIDE DEF r, e
  <2>2. Q
      BY <2>1
  <2>3. CASE c = d
    <3>1. got'[d] = got[d] + 1 /\ results'[d] = [results[d] EXCEPT ![r(c).tid] = e(c)]
        BY <1>t, <2>1, <2>3
    <3>2. T
        BY <2>1, <2>3, <3>1 DEF r, e
    <3> QED
        BY <2>2, <3>2
  <2>4. CASE c # d
      BY <1>t, <2>1, <2>2, <2>4
  <2> QED
      BY <2>3, <2>4
<1> HIDE DEF r, e
<1>7. CASE UNCHANGED <<rpc, got, results>>
    BY <1>7
<1>8. \/ UNCHANGED <<rpc, got, results>> \/ OpenStream \/ TimeoutStreaming \/ TriggererRestart
      \/ \E c \in Calls : \/ ReaderDone(c) \/ ReaderRaises(c)
                          \/ ReadResponse(c) /\ UNCHANGED serverVars
    BY NextCases DEF Retry, GiveUp, Analyse, FailBeforeStream, TimeoutStarting, Transmit,
       WriteCompletes, BuildFails, WriteFails, WriterRaises, WriterDone, RemCmdStrm, RefuseCall,
       RunRequest, RejectRequest, ReadEnds, RunnerReturns, WriteResponse, StatusDelivered,
       LinkLosesCall, LinkReportsLoss, LinkDeadline, ConnLost, LossReported, DeadlineFires,
       streamVars, triggerVars, coroVars, vars
<1> QED
    BY <1>1, <1>2, <1>3, <1>4, <1>5, <1>6, <1>7, <1>8

LEMMA CommandsKept == Next => commands' = commands
BY NextCases DEF OpenStream, Retry, GiveUp, Analyse, FailBeforeStream, TimeoutStreaming,
   TimeoutStarting, TriggererRestart, Transmit, WriteCompletes, BuildFails, WriteFails,
   WriterRaises, WriterDone, ReadResponse, ReaderDone, ReaderRaises, LinkLosesCall,
   LinkReportsLoss, LinkDeadline, runVars, triggerVars, vars

-----------------------------------------------------------------------------
(* The inductive step, one lemma per conjunct.                             *)

\* The lengths are natural numbers.
LEMMA Lengths ==
    ASSUME TypeInv, NEW c \in Calls
    PROVE  /\ Len(c2s[c]) \in Nat /\ Len(s2c[c]) \in Nat /\ Len(runs[c]) \in Nat
           /\ Len(exits[c]) \in Nat /\ taken[c] \in Nat /\ got[c] \in Nat
           /\ taken[c] <= Len(c2s[c]) /\ got[c] <= Len(s2c[c])
BY DEF TypeInv, TypeOK, StreamTypeOK, ServerTypeOK, Cursors

LEMMA HalfMeansAllKept == IndInv /\ HalfMeansAll /\ Next => HalfMeansAll'
<1> SUFFICES ASSUME IndInv, HalfMeansAll, Next, NEW d \in Calls, half'[d]
             PROVE  wpc'[d] = "done" /\ Len(c2s'[d]) = N
    BY DEF HalfMeansAll
<1>1. CASE half[d]
    BY <1>1, HalfSteps DEF HalfMeansAll
<1>2. CASE ~half[d]
  <2>1. /\ wpc[d] = "write" /\ next(d) \notin Tids /\ net[d] = "open" /\ wpc'[d] = "done"
        /\ c2s' = c2s
      BY <1>2, HalfSteps
  <2>2. Len(c2s[d]) = sent_ref[d]
      BY <2>1 DEF IndInv, SentTracksWire
  <2>3. sent_ref[d] \in Nat
      BY DEF IndInv, TypeInv, TypeOK, TriggerTypeOK
  <2>4. sent_ref[d] >= N
      BY <2>1, <2>3, TriggerAssumption DEF next, Tids
  <2>5. Len(c2s[d]) > 0 => Len(c2s[d]) \in Tids
      BY <2>2, <2>3 DEF IndInv, WireInOrder
  <2> QED
      BY <2>1, <2>2, <2>3, <2>4, <2>5, TriggerAssumption DEF Tids
<1> QED
    BY <1>1, <1>2

LEMMA ExitsTrackRunsKept == IndInv /\ ExitsTrackRuns /\ Next => ExitsTrackRuns'
<1> DEFINE P(d) == /\ hpc[d] # "run" => Len(runs[d]) = Len(exits[d])
                   /\ hpc[d] = "run" => Len(runs[d]) = Len(exits[d]) + 1
<1> SUFFICES ASSUME IndInv, ExitsTrackRuns, Next, NEW d \in Calls PROVE P(d)'
    BY DEF ExitsTrackRuns
<1>i. P(d)
    BY DEF ExitsTrackRuns
<1>l. Len(runs[d]) \in Nat /\ Len(exits[d]) \in Nat
    BY Lengths DEF IndInv
<1>1. CASE UNCHANGED handlerOf(d)
    BY <1>1, <1>i DEF handlerOf
<1>2. CASE HEffect(d)
    BY <1>2, <1>i, <1>l DEF HEffect, HEnter, HRun, HReject, HEnd, HReturn, HWrite
<1> QED
    BY <1>1, <1>2, HandlerSteps DEF IndInv

\* What is in the response that the handler of call d holds.
LEMMA ResponseInHand ==
    ASSUME IndInv, ExitsTrackRuns, NEW d \in Calls, hpc[d] = "write"
    PROVE  /\ Len(exits[d]) = Len(runs[d]) /\ RemResMsg(d).tid = Len(exits[d])
           /\ RemResMsg(d).rc = exits[d][Len(exits[d])]
           /\ RemResMsg(d).out = runs[d][Len(exits[d])].cmd
<1>1. Len(exits[d]) \in Nat /\ Len(runs[d]) \in Nat
    BY Lengths DEF IndInv
<1>2. Len(exits[d]) = Len(runs[d])
    BY <1>1 DEF ExitsTrackRuns
<1>3. taken[d] > 0 /\ taken[d] \in Nat /\ Len(c2s[d]) \in Nat /\ taken[d] <= Len(c2s[d])
    BY Lengths DEF IndInv, TypeInv, HandlerReady
<1>4. Len(runs[d]) = taken[d]
    BY DEF IndInv, RunsFollowWire
<1>5. runs[d][taken[d]] = c2s[d][taken[d]]
    BY <1>3, <1>4 DEF IndInv, RunsFollowWire
<1>6. c2s[d][taken[d]] = RemCmdMsg(taken[d])
    BY <1>3 DEF IndInv, WireInOrder
<1>7. req(d) = c2s[d][taken[d]] /\ req(d).tid = taken[d]
    BY <1>6 DEF req, RemCmdMsg
<1> QED
    BY <1>2, <1>4, <1>5, <1>7 DEF RemResMsg

LEMMA AnswersFollowRunsKept ==
    IndInv /\ ExitsTrackRuns /\ AnswersFollowRuns /\ Next => AnswersFollowRuns'
<1> DEFINE L(d) == /\ Len(s2c[d]) <= Len(exits[d])
                   /\ net[d] # "closed" /\ hpc[d] # "write" => Len(exits[d]) = Len(s2c[d])
                   /\ net[d] # "closed" /\ hpc[d] = "write" => Len(exits[d]) = Len(s2c[d]) + 1
           A(d, k) == /\ s2c[d][k].tid = k /\ s2c[d][k].rc = exits[d][k]
                      /\ s2c[d][k].out = runs[d][k].cmd
<1> SUFFICES ASSUME IndInv, ExitsTrackRuns, AnswersFollowRuns, Next, NEW d \in Calls
             PROVE  L(d)' /\ \A k \in 1 .. Len(s2c'[d]) : A(d, k)'
    BY DEF AnswersFollowRuns
<1>i. L(d) /\ \A k \in 1 .. Len(s2c[d]) : A(d, k)
    BY DEF AnswersFollowRuns
<1>l. Len(runs[d]) \in Nat /\ Len(exits[d]) \in Nat /\ Len(s2c[d]) \in Nat
    BY Lengths DEF IndInv
<1>r. Len(runs[d]) >= Len(exits[d])
    BY <1>l DEF ExitsTrackRuns
<1>n. net'[d] # "closed" => net[d] # "closed"
    BY StatusSteps
<1>1. CASE UNCHANGED handlerOf(d)
  <2>1. /\ hpc'[d] = hpc[d] /\ exits'[d] = exits[d] /\ runs'[d] = runs[d] /\ s2c'[d] = s2c[d]
      BY <1>1 DEF handlerOf
  <2>2. L(d)'
      BY <1>i, <1>n, <2>1
  <2> QED
      BY <1>i, <2>1, <2>2
<1>2. CASE HEnter(d) \/ HReject(d) \/ HEnd(d)
  <2>1. /\ exits'[d] = exits[d] /\ runs'[d] = runs[d] /\ s2c'[d] = s2c[d]
        /\ hpc[d] # "write" /\ hpc'[d] # "write"
      BY <1>2 DEF HEnter, HReject, HEnd
  <2>2. L(d)'
      BY <1>i, <1>n, <2>1
  <2> QED
      BY <1>i, <2>1, <2>2
<1>3. CASE HRun(d)
  <2>1. /\ exits'[d] = exits[d] /\ s2c'[d] = s2c[d] /\ hpc[d] # "write" /\ hpc'[d] # "write"
        /\ \A k \in 1 .. Len(runs[d]) : runs'[d][k] = runs[d][k]
      BY <1>3 DEF HRun
  <2>2. L(d)'
      BY <1>i, <1>n, <2>1
  <2>3. \A k \in 1 .. Len(s2c[d]) : k \in 1 .. Len(runs[d])
      BY <1>i, <1>l, <1>r
  <2> QED
      BY <1>i, <2>1, <2>2, <2>3
<1>4. CASE HReturn(d)
  <2>1. /\ runs'[d] = runs[d] /\ s2c'[d] = s2c[d] /\ hpc[d] = "run" /\ hpc'[d] = "write"
        /\ Len(exits'[d]) = Len(exits[d]) + 1
        /\ \A k \in 1 .. Len(exits[d]) : exits'[d][k] = exits[d][k]
      BY <1>4 DEF HReturn
  <2>2. L(d)'
      BY <1>i, <1>l, <1>n, <2>1
  <2>3. \A k \in 1 .. Len(s2c[d]) : k \in 1 .. Len(exits[d])
      BY <1>i, <1>l
  <2> QED
      BY <1>i, <2>1, <2>2, <2>3
<1>5. CASE HWrite(d) /\ UNCHANGED restVars
  <2>1. /\ runs'[d] = runs[d] /\ exits'[d] = exits[d] /\ hpc[d] = "write" /\ hpc'[d] = "read"
        /\ net' = net
      BY <1>5 DEF HWrite, restVars
  <2>2. CASE net[d] = "closed" /\ s2c'[d] = s2c[d]
    <3>1. L(d)'
        BY <1>i, <2>1, <2>2
    <3> QED
        BY <1>i, <2>1, <2>2, <3>1
  <2>3. CASE /\ net[d] = "open" /\ Len(s2c'[d]) = Len(s2c[d]) + 1
             /\ \A k \in 1 .. Len(s2c[d]) : s2c'[d][k] = s2c[d][k]
             /\ s2c'[d][Len(s2c[d]) + 1] = RemResMsg(d)
    <3>1. Len(exits[d]) = Len(s2c[d]) + 1
        BY <1>i, <2>1, <2>3
    <3>2. L(d)'
        BY <1>l, <2>1, <2>3, <3>1
    <3>3. ASSUME NEW k, k = Len(s2c[d]) + 1 PROVE A(d, k)'
      <4>1. s2c'[d][k] = RemResMsg(d) /\ k = Len(exits[d])
          BY <2>3, <3>1, <3>3
      <4> QED
          BY <2>1, <4>1, ResponseInHand
    <3>4. \A k \in 1 .. Len(s2c[d]) : A(d, k)'
        BY <1>i, <2>1, <2>3
    <3>5. \A k \in 1 .. Len(s2c'[d]) : k \in 1 .. Len(s2c[d]) \/ k = Len(s2c[d]) + 1
        BY <1>l, <2>3
    <3> HIDE DEF A
    <3> QED
        BY <3>2, <3>3, <3>4, <3>5
  <2> QED
      BY <1>5, <2>2, <2>3 DEF HWrite
<1> QED
    BY <1>1, <1>2, <1>3, <1>4, <1>5, HandlerSteps DEF IndInv, HEffect

\* What a call has run and answered is never rewritten.
LEMMA HistoryKept ==
    ASSUME TypeInv, Next, NEW d \in Calls
    PROVE  /\ \A k \in 1 .. Len(runs[d]) : runs'[d][k] = runs[d][k]
           /\ \A k \in 1 .. Len(exits[d]) : exits'[d][k] = exits[d][k]
<1>1. CASE UNCHANGED handlerOf(d)
    BY <1>1 DEF handlerOf
<1>2. CASE HEffect(d)
    BY <1>2 DEF HEffect, HEnter, HRun, HReject, HEnd, HReturn, HWrite
<1> QED
    BY <1>1, <1>2, HandlerSteps

LEMMA FiledFollowsAnswersKept ==
    IndInv /\ ExitsTrackRuns /\ AnswersFollowRuns /\ FiledFollowsAnswers /\ Next
        => FiledFollowsAnswers'
<1> DEFINE F(d, t) == [rc |-> exits[d][t], out |-> runs[d][t].cmd, cmd |-> commands[t].cmd]
<1> SUFFICES ASSUME IndInv, ExitsTrackRuns, AnswersFollowRuns, FiledFollowsAnswers, Next,
                    NEW d \in Calls, NEW t \in 1 .. got'[d]
             PROVE  results'[d][t] = F(d, t)'
    BY DEF FiledFollowsAnswers
<1>l. /\ Len(runs[d]) \in Nat /\ Len(exits[d]) \in Nat /\ Len(s2c[d]) \in Nat /\ got[d] \in Nat
      /\ got[d] <= Len(s2c[d])
    BY Lengths DEF IndInv
<1>r. Len(s2c[d]) <= Len(exits[d]) /\ Len(exits[d]) <= Len(runs[d])
    BY <1>l DEF ExitsTrackRuns, AnswersFollowRuns
<1>f. ASSUME t <= Len(s2c[d]) PROVE F(d, t)' = F(d, t)
  <2>0. t \in Nat /\ t >= 1
      BY <1>l, ReadSteps
  <2>1. t \in 1 .. Len(runs[d]) /\ t \in 1 .. Len(exits[d])
      BY <1>l, <1>r, <1>f, <2>0
  <2>2. runs'[d][t] = runs[d][t] /\ exits'[d][t] = exits[d][t]
      BY <2>1, HistoryKept DEF IndInv
  <2> QED
      BY <2>2, CommandsKept
<1>1. CASE got'[d] = got[d] /\ results'[d] = results[d]
  <2>1. results[d][t] = F(d, t)
      BY <1>1 DEF FiledFollowsAnswers
  <2> QED
      BY <1>1, <1>l, <1>f, <2>1
<1>2. CASE ~(got'[d] = got[d] /\ results'[d] = results[d])
  <2> DEFINE r == s2c[d][got[d] + 1]
             e == [rc |-> r.rc, out |-> r.out, cmd |-> commands[r.tid].cmd]
  <2>1. /\ got[d] < Len(s2c[d]) /\ got'[d] = got[d] + 1
        /\ results'[d] = [results[d] EXCEPT ![r.tid] = e]
      BY <1>2, ReadSteps
  <2>2. got[d] + 1 \in 1 .. Len(s2c[d])
      BY <1>l, <2>1
  <2>3. /\ r.tid = got[d] + 1 /\ r.rc = exits[d][got[d] + 1] /\ r.out = runs[d][got[d] + 1].cmd
      BY <2>2 DEF AnswersFollowRuns
  <2>4. e = F(d, got[d] + 1)
      BY <2>3
  <2>5. s2c[d] \in Seq(Response) /\ results[d] \in ResultMap
      BY DEF IndInv, TypeInv, TypeOK, StreamTypeOK, TriggerTypeOK
  <2>6. r \in Response
      BY <2>2, <2>5
  <2>7. r.tid \in Tids
      BY <2>6 DEF Response
  <2> HIDE DEF r, e
  <2>8. DOMAIN results[d] = Tids
      BY <2>5 DEF ResultMap
  <2>9. CASE t = got[d] + 1
    <3>1. results'[d][t] = e
        BY <2>1, <2>3, <2>7, <2>8, <2>9
    <3> QED
        BY <1>f, <1>l, <2>1, <2>4, <2>9, <3>1
  <2>10. CASE t \in 1 .. got[d]
    <3>1. t # r.tid /\ t <= Len(s2c[d])
        BY <1>l, <2>3, <2>10
    <3>2. t \in Tids
      <4>1. t \in 1 .. Len(s2c[d])
          BY <1>l, <2>10
      <4>2. s2c[d][t].tid = t
          BY <4>1 DEF AnswersFollowRuns
      <4>3. s2c[d][t] \in Response
          BY <2>5, <4>1
      <4> QED
          BY <4>2, <4>3 DEF Response
    <3>3. results'[d][t] = results[d][t]
        BY <2>1, <2>8, <3>1, <3>2
    <3>4. results[d][t] = F(d, t)
        BY <2>10 DEF FiledFollowsAnswers
    <3> QED
        BY <1>f, <3>1, <3>3, <3>4
  <2> QED
      BY <1>l, <2>1, <2>9, <2>10
<1> QED
    BY <1>1, <1>2

LEMMA OKMeansAnsweredKept ==
    IndInv /\ HalfMeansAll /\ ExitsTrackRuns /\ AnswersFollowRuns /\ OKMeansAnswered /\ Next
        => OKMeansAnswered'
<1> SUFFICES ASSUME IndInv, HalfMeansAll, ExitsTrackRuns, AnswersFollowRuns, OKMeansAnswered, Next,
                    NEW d \in Calls
             PROVE  /\ net'[d] = "idle" => hpc'[d] = "none"
                    /\ hstat'[d] # "none" => hpc'[d] = "done"
                    /\ hstat'[d] = "OK" /\ net'[d] = "open" => Answered(d)'
                    /\ cstat'[d] = "OK" => Answered(d)' /\ net'[d] = "closed"
                    /\ rpc'[d] = "done" => cstat'[d] = "OK" /\ got'[d] = Len(s2c'[d])
    BY DEF OKMeansAnswered
<1>i. /\ net[d] = "idle" => hpc[d] = "none"
      /\ hstat[d] # "none" => hpc[d] = "done"
      /\ hstat[d] = "OK" /\ net[d] = "open" => Answered(d)
      /\ cstat[d] = "OK" => Answered(d) /\ net[d] = "closed"
      /\ rpc[d] = "done" => cstat[d] = "OK" /\ got[d] = Len(s2c[d])
    BY DEF OKMeansAnswered
<1>h. UNCHANGED handlerOf(d) \/ (HEffect(d) /\ UNCHANGED restVars)
    BY HandlerSteps DEF IndInv
<1>d. hpc[d] = "done" => UNCHANGED handlerOf(d)
    BY <1>h DEF HEffect, HEnter, HRun, HReject, HEnd, HReturn, HWrite
<1>a. Answered(d) => Answered(d)'
    BY <1>d DEF Answered, handlerOf
<1>n. net'[d] = "idle" => net[d] = "idle"
    BY StatusSteps
<1>t. net \in [Calls -> {"idle", "open", "closed"}]
    BY DEF IndInv, TypeInv, TypeOK, StreamTypeOK
<1>1. net'[d] = "idle" => hpc'[d] = "none"
    BY <1>h, <1>i, <1>n DEF handlerOf, HEffect, HEnter, HRun, HReject, HEnd, HReturn, HWrite
<1>2. hstat'[d] # "none" => hpc'[d] = "done"
    BY <1>h, <1>i DEF handlerOf, HEffect, HEnter, HRun, HReject, HEnd, HReturn, HWrite
<1>3. ASSUME hstat'[d] = "OK", net'[d] = "open" PROVE Answered(d)'
  <2>1. CASE UNCHANGED handlerOf(d)
    <3>1. hstat[d] = "OK"
        BY <1>3, <2>1 DEF handlerOf
    <3>2. net[d] = "open"
        BY <1>3, <1>i, <1>t, <3>1, StatusSteps
    <3> QED
        BY <1>a, <1>i, <3>1, <3>2
  <2>2. CASE HEnd(d) /\ UNCHANGED restVars
    <3>1. /\ half[d] /\ taken[d] >= Len(c2s[d]) /\ hpc[d] = "read" /\ hpc'[d] = "done"
          /\ net[d] = "open" /\ UNCHANGED <<runs[d], s2c[d]>>
        BY <1>3, <2>2 DEF HEnd, restVars
    <3>2. Len(c2s[d]) = N
        BY <3>1 DEF HalfMeansAll
    <3>3. Len(runs[d]) = taken[d]
        BY <3>1 DEF IndInv, RunsFollowWire
    <3>4. Len(exits[d]) = Len(runs[d])
        BY <3>1 DEF ExitsTrackRuns
    <3>5. Len(s2c[d]) = Len(exits[d])
        BY <3>1 DEF AnswersFollowRuns
    <3>6. taken[d] = Len(c2s[d])
        BY <3>1, Lengths DEF IndInv
    <3> QED
        BY <3>1, <3>2, <3>3, <3>4, <3>5, <3>6 DEF Answered
  <2>3. CASE HEnter(d) \/ HRun(d) \/ HReject(d) \/ HReturn(d) \/ HWrite(d)
      BY <1>3, <1>i, <2>3 DEF HEnter, HRun, HReject, HReturn, HWrite
  <2> QED
      BY <1>h, <2>1, <2>2, <2>3 DEF HEffect
<1>4. cstat'[d] = "OK" => Answered(d)' /\ net'[d] = "closed"
    BY <1>a, <1>i, StatusSteps
<1>5. ASSUME rpc'[d] = "done" PROVE cstat'[d] = "OK" /\ got'[d] = Len(s2c'[d])
  <2>1. got'[d] = got[d]
      BY <1>5, ReadSteps
  <2>2. cstat[d] = "OK" /\ got[d] >= Len(s2c[d])
    <3>1. CASE rpc[d] = "done"
        BY <1>i, <3>1, Lengths DEF IndInv
    <3>2. CASE rpc[d] # "done"
        BY <1>5, <3>2, ReadSteps
    <3> QED
        BY <3>1, <3>2
  <2>3. got[d] = Len(s2c[d])
      BY <2>2, Lengths DEF IndInv
  <2>4. s2c'[d] = s2c[d]
      BY <1>d, <1>i, <2>2 DEF Answered, handlerOf
  <2> QED
      BY <2>1, <2>2, <2>3, <2>4, StatusSteps
<1> QED
    BY <1>1, <1>2, <1>3, <1>4, <1>5

\* Once run() is done it stays done; before that it yields either after the
\* analysis or an event without results.
LEMMA EventSteps ==
    ASSUME Next
    PROVE  \/ event' = event /\ (pc = "done" => UNCHANGED <<pc, inc, attempt>>)
           \/ Analyse
           \/ /\ pc # "done"
              /\ \E st \in {"FAILED", "CANCELLED"}, why \in {"exception", "not retried", "timeout"} :
                    Yield(st, why, Empty)
<1>1. CASE FailBeforeStream \/ TimeoutStarting \/ TimeoutStreaming
    BY <1>1 DEF FailBeforeStream, TimeoutStarting, TimeoutStreaming
<1>2. CASE GiveUp
  <2>1. pc # "done" /\ (Yield("FAILED", "not retried", Empty) \/ Yield("FAILED", "exception", Empty))
      BY <1>2 DEF GiveUp
  <2> QED
      BY <2>1
<1>3. CASE OpenStream \/ Retry \/ TriggererRestart
    BY <1>3 DEF OpenStream, Retry, TriggererRestart
<1>4. CASE UNCHANGED runVars
    BY <1>4 DEF runVars
<1>5. \/ FailBeforeStream \/ TimeoutStarting \/ TimeoutStreaming \/ GiveUp \/ OpenStream \/ Retry
      \/ TriggererRestart \/ Analyse \/ UNCHANGED runVars
    BY NextCases DEF Transmit, WriteCompletes, BuildFails, WriteFails, WriterRaises, WriterDone,
       ReadResponse, ReaderDone, ReaderRaises, LinkLosesCall, LinkReportsLoss, LinkDeadline,
       runVars, triggerVars, vars
<1> QED
    BY <1>1, <1>2, <1>3, <1>4, <1>5

LEMMA EventFollowsResultsKept ==
    IndInv /\ OKMeansAnswered /\ EventFollowsResults /\ Next => EventFollowsResults'
<1> SUFFICES ASSUME IndInv, OKMeansAnswered, EventFollowsResults, Next PROVE EventFollowsResults'
    OBVIOUS
<1>c. cur \in Calls
    BY CurIsCall DEF IndInv, TypeInv, TypeOK
<1>1. CASE event' = event /\ (pc = "done" => UNCHANGED <<pc, inc, attempt>>)
  <2>1. CASE event.state = "none"
    <3>1. event.why = "none"
        BY <2>1 DEF EventFollowsResults
    <3> QED
        BY <1>1, <2>1, <3>1 DEF EventFollowsResults
  <2>2. CASE event.state # "none"
    <3>1. pc = "done" /\ pc' = "done" /\ cur' = cur
        BY <1>1, <2>2 DEF EventFollowsResults, cur
    <3>2. CASE ~(event.state = "SUCCESS" \/ event.why \in {"missing", "rc"})
        BY <1>1, <2>2, <3>1, <3>2 DEF EventFollowsResults
    <3>3. CASE event.state = "SUCCESS" \/ event.why \in {"missing", "rc"}
      <4>1. /\ rpc[cur] = "done" /\ event.results = results[cur]
            /\ event.why = "missing" => Missing(cur) # {}
            /\ event.why # "missing" => Missing(cur) = {}
            /\ event.state = "SUCCESS" <=> Missing(cur) = {} /\ Failed(cur) = {}
          BY <3>3 DEF EventFollowsResults
      <4>2. net[cur] = "closed"
          BY <1>c, <4>1 DEF OKMeansAnswered
      <4>3. rpc'[cur] = "done" /\ results'[cur] = results[cur]
          BY <1>c, <4>1, <4>2, ReadSteps
      <4>4. Missing(cur)' = Missing(cur) /\ Failed(cur)' = Failed(cur)
          BY <3>1, <4>3 DEF Missing, Failed
      <4> QED
          BY <1>1, <2>2, <3>1, <4>1, <4>3, <4>4 DEF EventFollowsResults
    <3> QED
        BY <3>2, <3>3
  <2> QED
      BY <2>1, <2>2
<1>2. CASE Analyse
  <2>1. /\ rpc[cur] = "done" /\ UNCHANGED <<inc, attempt, rpc, results>> /\ pc' = "done"
        /\ event'.results = results[cur]
        /\ Missing(cur) # {} => event'.state = "FAILED" /\ event'.why = "missing"
        /\ Missing(cur) = {} /\ Failed(cur) # {} => event'.state = "FAILED" /\ event'.why = "rc"
        /\ Missing(cur) = {} /\ Failed(cur) = {} => event'.state = "SUCCESS" /\ event'.why = "none"
      BY <1>2 DEF Analyse, Yield, coroVars
  <2>2. cur' = cur
      BY <2>1 DEF cur
  <2>3. Missing(cur)' = Missing(cur) /\ Failed(cur)' = Failed(cur)
      BY <2>1, <2>2 DEF Missing, Failed
  <2> QED
      BY <2>1, <2>2, <2>3 DEF EventFollowsResults
<1>3. CASE \E st \in {"FAILED", "CANCELLED"}, why \in {"exception", "not retried", "timeout"} :
             Yield(st, why, Empty)
  <2>1. PICK st \in {"FAILED", "CANCELLED"}, why \in {"exception", "not retried", "timeout"} :
          Yield(st, why, Empty)
      BY <1>3
  <2>2. event'.state = st /\ event'.why = why /\ pc' = "done"
      BY <2>1 DEF Yield
  <2>3. ~(event'.state = "SUCCESS" \/ event'.why \in {"missing", "rc"}) /\ event'.state # "none"
      BY <2>2
  <2> QED
      BY <2>2, <2>3 DEF EventFollowsResults
<1> QED
    BY <1>1, <1>2, <1>3, EventSteps

LEMMA FutureIsIdleKept == IndInv /\ FutureIsIdle /\ Next => FutureIsIdle'
<1> DEFINE Later(d) == d[1] > inc \/ (d[1] = inc /\ d[2] > attempt)
<1> SUFFICES ASSUME IndInv, FutureIsIdle, Next, NEW d \in Calls, Later(d)' PROVE net'[d] = "idle"
    BY DEF FutureIsIdle
<1>i. Later(d) => net[d] = "idle"
    BY DEF FutureIsIdle
<1>t. /\ inc \in Nat /\ attempt \in Nat /\ cur \in Calls
      /\ net \in [Calls -> {"idle", "open", "closed"}]
    BY CurIsCall, TriggerAssumption DEF IndInv, TypeInv, TypeOK, TriggerTypeOK, StreamTypeOK
<1>p. d[1] \in Nat /\ d[2] \in Nat
    BY TriggerAssumption
<1>1. \/ UNCHANGED <<inc, attempt>>
      \/ Retry \/ TriggererRestart
    BY NextCases DEF OpenStream, GiveUp, Analyse, FailBeforeStream, TimeoutStreaming,
       TimeoutStarting, Transmit, WriteCompletes, BuildFails, WriteFails,
       WriterRaises, WriterDone, ReadResponse, ReaderDone, ReaderRaises, LinkLosesCall,
       LinkReportsLoss, LinkDeadline, runVars, triggerVars, vars
<1>2. Later(d)
  <2>1. CASE UNCHANGED <<inc, attempt>>
      BY <2>1
  <2>2. CASE Retry
    <3>1. inc' = inc /\ attempt' = attempt + 1
        BY <2>2 DEF Retry
    <3> QED
        BY <1>p, <1>t, <3>1
  <2>3. CASE TriggererRestart
    <3>1. inc' = inc + 1 /\ attempt' = 1
        BY <2>3 DEF TriggererRestart
    <3> QED
        BY <1>p, <1>t, <3>1
  <2> QED
      BY <1>1, <2>1, <2>2, <2>3
<1>3. net[d] = "idle" /\ d # cur
    BY <1>2, <1>i, <1>p, <1>t DEF cur
<1> HIDE DEF Later
<1>4. ASSUME NEW e \in Calls, WEffect(e) PROVE net'[d] = "idle"
    BY <1>3, <1>t, <1>4 DEF WEffect, WOpen, WClose, WSend, WCount, WRaise, WDone
<1>5. CASE UNCHANGED wireVars \/ WDie
    BY <1>3, <1>5 DEF wireVars, WDie
<1> QED
    BY <1>4, <1>5, WireSteps DEF IndInv

LEMMA RepInvInit == Init => RepInv
<1> SUFFICES ASSUME Init PROVE RepInv
    OBVIOUS
<1>1. HalfMeansAll /\ ExitsTrackRuns /\ AnswersFollowRuns
    BY DEF Init, StreamInit, TriggerInit, ServerInit, HalfMeansAll, ExitsTrackRuns, AnswersFollowRuns
<1>2. FiledFollowsAnswers
    BY DEF Init, StreamInit, FiledFollowsAnswers
<1>3. OKMeansAnswered
    BY DEF Init, StreamInit, TriggerInit, ServerInit, OKMeansAnswered
<1>4. NoEvent.state = "none" /\ NoEvent.why = "none"
    BY DEF NoEvent
<1>5. EventFollowsResults /\ FutureIsIdle
    BY <1>4 DEF Init, StreamInit, TriggerInit, EventFollowsResults, FutureIsIdle
<1> QED
    BY <1>1, <1>2, <1>3, <1>5 DEF RepInv

LEMMA RepInvStep == IndInv /\ RepInv /\ [Next]_vars => RepInv'
<1>1. IndInv /\ RepInv /\ Next => RepInv'
    BY HalfMeansAllKept, ExitsTrackRunsKept, AnswersFollowRunsKept, FiledFollowsAnswersKept,
       OKMeansAnsweredKept, EventFollowsResultsKept, FutureIsIdleKept DEF RepInv
<1>2. RepInv /\ UNCHANGED vars => RepInv'
  <2> SUFFICES ASSUME RepInv, UNCHANGED vars PROVE RepInv'
      OBVIOUS
  <2> USE DEF RepInv, vars, streamVars, triggerVars, serverVars
  <2>1. HalfMeansAll' /\ ExitsTrackRuns' /\ AnswersFollowRuns' /\ FiledFollowsAnswers'
      BY DEF HalfMeansAll, ExitsTrackRuns, AnswersFollowRuns, FiledFollowsAnswers
  <2>2. OKMeansAnswered' /\ FutureIsIdle'
      BY DEF OKMeansAnswered, Answered, FutureIsIdle
  <2>3. EventFollowsResults'
      BY DEF EventFollowsResults, Missing, Failed, cur
  <2> QED
      BY <2>1, <2>2, <2>3
<1> QED
    BY <1>1, <1>2

LEMMA ReportInvariance == Spec => [](IndInv /\ RepInv)
<1>1. Init => IndInv /\ RepInv
    BY IndInvInit, RepInvInit
<1>2. IndInv /\ RepInv /\ [Next]_vars => (IndInv /\ RepInv)'
    BY IndInvStep, RepInvStep
<1> QED
    BY <1>1, <1>2, PTL DEF Spec

-----------------------------------------------------------------------------
(* The theorems.                                                           *)

\* When _read is done, the call ran the whole list, and the results hold the
\* exit code and the output of every command under its own number.
LEMMA DoneIsFiled ==
    ASSUME IndInv, RepInv, NEW c \in Calls, rpc[c] = "done"
    PROVE  /\ DOMAIN runs[c] = Tids /\ hpc[c] = "done"
           /\ \A t \in Tids :
                 /\ runs[c][t] = RemCmdMsg(t)
                 /\ results[c][t] = [rc |-> exits[c][t], out |-> runs[c][t].cmd,
                                    cmd |-> commands[t].cmd]
                 /\ results[c][t] # NoResult
<1>1. cstat[c] = "OK" /\ got[c] = Len(s2c[c])
    BY DEF RepInv, OKMeansAnswered
<1>2. hpc[c] = "done" /\ Len(runs[c]) = N /\ Len(s2c[c]) = N
    BY <1>1 DEF RepInv, OKMeansAnswered, Answered
<1>3. Len(exits[c]) = N
    BY <1>2, Lengths DEF RepInv, ExitsTrackRuns, IndInv
<1>4. runs[c] \in Seq(Request(Tids)) /\ exits[c] \in Seq({0, 1})
    BY DEF IndInv, TypeInv, TypeOK, ServerTypeOK
<1>5. DOMAIN runs[c] = Tids
    BY <1>2, <1>4 DEF Tids
<1>6. ASSUME NEW t \in Tids
      PROVE  /\ runs[c][t] = RemCmdMsg(t)
             /\ results[c][t] = [rc |-> exits[c][t], out |-> runs[c][t].cmd,
                                cmd |-> commands[t].cmd]
             /\ results[c][t] # NoResult
  <2>1. t \in 1 .. Len(runs[c]) /\ t \in 1 .. got[c]
      BY <1>1, <1>2 DEF Tids
  <2>2. runs[c][t] = c2s[c][t]
      BY <2>1 DEF IndInv, RunsFollowWire
  <2>3. t \in 1 .. Len(c2s[c])
      BY <2>1, Lengths DEF IndInv, RunsFollowWire
  <2>4. runs[c][t] = RemCmdMsg(t)
      BY <2>2, <2>3 DEF IndInv, WireInOrder
  <2>5. results[c][t] = [rc |-> exits[c][t], out |-> runs[c][t].cmd, cmd |-> commands[t].cmd]
      BY <2>1 DEF RepInv, FiledFollowsAnswers
  <2>6. commands[t].cmd \in Cmds
      BY CommandListsAssumption DEF IndInv, TypeInv, TypeOK, TriggerTypeOK
  <2>7. runs[c][t].cmd \in Cmds
      BY <2>4, <2>6 DEF RemCmdMsg
  <2>8. exits[c][t] \in Int
      BY <1>3, <1>4 DEF Tids
  <2>9. results[c][t] \in [rc : Int, out : Cmds, cmd : Cmds]
      BY <2>5, <2>6, <2>7, <2>8
  <2> QED
      BY <2>4, <2>5, <2>9, RemoteRunAssumption
<1> QED
    BY <1>2, <1>5, <1>6

\* A report with results is exact: SUCCESS, and FAILED for an exit code, come
\* only after the last call ran the whole list, every result is that of its own
\* command, and it is SUCCESS exactly when every exit code is 0.
THEOREM ReportsAreExact == Spec => []ReportIsExact
<1>1. IndInv /\ RepInv => ReportIsExact
  <2> SUFFICES ASSUME IndInv, RepInv, event.state = "SUCCESS" \/ event.why = "rc"
               PROVE  /\ DOMAIN runs[cur] = Tids
                      /\ \A t \in Tids :
                            /\ runs[cur][t].tid = t
                            /\ event.results[t] = [rc  |-> exits[cur][t],
                                                   out |-> runs[cur][t].cmd,
                                                   cmd |-> commands[t].cmd]
                            /\ event.results[t].out = event.results[t].cmd
                      /\ event.state = "SUCCESS" <=> \A t \in Tids : exits[cur][t] = 0
      BY DEF ReportIsExact
  <2>1. cur \in Calls
      BY CurIsCall DEF IndInv, TypeInv, TypeOK
  <2>2. /\ rpc[cur] = "done" /\ event.results = results[cur]
        /\ event.state = "SUCCESS" <=> Missing(cur) = {} /\ Failed(cur) = {}
      BY DEF RepInv, EventFollowsResults
  <2>3. /\ DOMAIN runs[cur] = Tids
        /\ \A t \in Tids :
              /\ runs[cur][t] = RemCmdMsg(t)
              /\ results[cur][t] = [rc |-> exits[cur][t], out |-> runs[cur][t].cmd,
                                   cmd |-> commands[t].cmd]
              /\ results[cur][t] # NoResult
      BY <2>1, <2>2, DoneIsFiled
  <2>4. ASSUME NEW t \in Tids
        PROVE  runs[cur][t].tid = t /\ runs[cur][t].cmd = commands[t].cmd
    <3>1. runs[cur][t] = RemCmdMsg(t)
        BY <2>3
    <3> QED
        BY <3>1 DEF RemCmdMsg
  <2>5. Missing(cur) = {}
      BY <2>3 DEF Missing
  <2>6. Failed(cur) = {t \in Tids : exits[cur][t] # 0}
    <3>1. ASSUME NEW t \in Tids PROVE results[cur][t].rc = exits[cur][t]
      <4>1. results[cur][t] = [rc |-> exits[cur][t], out |-> runs[cur][t].cmd,
                               cmd |-> commands[t].cmd]
          BY <2>3
      <4> QED
          BY <4>1
    <3> QED
        BY <2>5, <3>1 DEF Failed
  <2> QED
      BY <2>2, <2>3, <2>4, <2>5, <2>6
<1> QED
    BY <1>1, ReportInvariance, PTL

\* "No response for tid(s)" is dead code against this server: a stream that ends
\* with OK has answered the whole list.
THEOREM NoResponseIsMissing == Spec => []NoneMissing
<1>1. IndInv /\ RepInv => NoneMissing
  <2> SUFFICES ASSUME IndInv, RepInv, event.why = "missing" PROVE FALSE
      BY DEF NoneMissing
  <2>1. cur \in Calls
      BY CurIsCall DEF IndInv, TypeInv, TypeOK
  <2>2. rpc[cur] = "done" /\ Missing(cur) # {}
      BY DEF RepInv, EventFollowsResults
  <2>3. \A t \in Tids : results[cur][t] # NoResult
      BY <2>1, <2>2, DoneIsFiled
  <2> QED
      BY <2>2, <2>3 DEF Missing
<1> QED
    BY <1>1, ReportInvariance, PTL

\* If the library reports losses in order, no handler of a successful trigger is
\* still at work when the event goes out: the retried attempts sent nothing.
THEOREM SuccessLeavesNothingRunning == Spec => [](AckBeforeFailure => SuccessIsQuiet)
<1>1. IndInv /\ RepInv => (AckBeforeFailure => SuccessIsQuiet)
  <2> SUFFICES ASSUME IndInv, RepInv, AckBeforeFailure, event.state = "SUCCESS",
                      NEW c \in CallsOf(inc)
               PROVE  hpc[c] \notin {"run", "write"}
      BY DEF SuccessIsQuiet
  <2>1. cur \in Calls /\ c \in Calls /\ c[1] = inc
      BY CurIsCall DEF IndInv, TypeInv, TypeOK, CallsOf
  <2>2. c[2] \in Nat /\ attempt \in Nat /\ (c[2] = attempt => c = cur)
      BY <2>1, TriggerAssumption DEF cur, IndInv, TypeInv, TypeOK, TriggerTypeOK
  <2>3. CASE c = cur
    <3>1. rpc[cur] = "done"
        BY DEF RepInv, EventFollowsResults
    <3>2. hpc[cur] = "done"
        BY <2>1, <3>1, DoneIsFiled
    <3> QED
        BY <2>3, <3>2
  <2>4. CASE c[2] < attempt
    <3>1. cur[1] = inc /\ cur[2] = attempt
        BY DEF cur
    <3>2. Superseded(c)
        BY <2>1, <2>4, <3>1 DEF IndInv, RetriedSentNothing
    <3>3. Len(c2s[c]) = 0
        BY <3>2 DEF Superseded
    <3>4. ~(taken[c] > 0)
        BY <2>1, <3>3, Lengths DEF IndInv
    <3> QED
        BY <2>1, <3>4 DEF IndInv, TypeInv, HandlerReady
  <2>5. CASE c[2] > attempt
    <3>1. net[c] = "idle"
        BY <2>1, <2>5 DEF RepInv, FutureIsIdle
    <3> QED
        BY <2>1, <3>1 DEF RepInv, OKMeansAnswered
  <2> QED
      BY <2>2, <2>3, <2>4, <2>5
<1> QED
    BY <1>1, ReportInvariance, PTL

\* "Yield exactly one TriggerEvent": no step changes an event that is out, and
\* none opens a call after it.
THEOREM EventsAreFinal == Spec => EventIsFinal
<1> DEFINE A == event.state # "none" =>
                  event' = event /\ \A c \in Calls : net[c] = "idle" => net'[c] = "idle"
<1>1. (IndInv /\ RepInv) /\ [Next]_vars => [A]_vars
  <2> SUFFICES ASSUME IndInv, RepInv, Next, event.state # "none" PROVE A
      BY Zenon
  <2>1. pc = "done"
      BY DEF RepInv, EventFollowsResults
  <2>2. event' = event
      BY <2>1, EventSteps DEF Analyse
  <2>3. ASSUME NEW c \in Calls, net[c] = "idle" PROVE net'[c] = "idle"
    <3>t. net \in [Calls -> {"idle", "open", "closed"}]
        BY DEF IndInv, TypeInv, TypeOK, StreamTypeOK
    <3>1. ASSUME NEW e \in Calls, StatusDelivered(e) \/ LinkLosesCall(e) \/ LinkDeadline(e)
          PROVE  net'[c] = "idle"
        BY <2>3, <3>t, <3>1 DEF StatusDelivered, LinkLosesCall, ConnLost, LinkDeadline,
                                DeadlineFires, CloseCall
    <3>2. \/ net' = net
          \/ \E e \in Calls : StatusDelivered(e) \/ LinkLosesCall(e) \/ LinkDeadline(e)
        BY <2>1, NextCases DEF OpenStream, TimeoutStreaming, TriggererRestart, Retry, GiveUp, Analyse,
           FailBeforeStream, TimeoutStarting, Transmit, WriteCompletes, BuildFails, WriteFails,
           WriterRaises, WriterDone, ReadResponse, ReaderDone, ReaderRaises, RemCmdStrm, RefuseCall,
           RunRequest, RejectRequest, ReadEnds, RunnerReturns, WriteResponse, LinkReportsLoss,
           LossReported, streamVars, vars
    <3> QED
        BY <2>3, <3>1, <3>2
  <2> QED
      BY <2>2, <2>3
<1> QED
    BY <1>1, ReportInvariance, PTL DEF Spec, EventIsFinal

-----------------------------------------------------------------------------
(* The refinement: every incarnation of the trigger implements AbstractRun *)
(* if the library reports losses in order.                                 *)

\* Of the attempts of one incarnation only one puts anything on the wire.
LEMMA OneCallSends ==
    ASSUME IndInv, AckBeforeFailure, NEW c \in Calls, NEW d \in Calls, c[1] = d[1],
           Len(c2s[c]) > 0, Len(c2s[d]) > 0
    PROVE  c = d
<1> SUFFICES ASSUME c # d PROVE FALSE
    OBVIOUS
<1>1. net[c] # "idle" /\ net[d] # "idle"
  <2>1. c2s[c] # <<>> /\ c2s[d] # <<>>
      OBVIOUS
  <2> QED
      BY <2>1 DEF IndInv, IdleIsEmpty
<1>2. c[2] \in Int /\ d[2] \in Int /\ c[2] # d[2]
    BY TriggerAssumption
<1>3. Superseded(c) \/ Superseded(d)
    BY <1>1, <1>2 DEF IndInv, RetriedSentNothing
<1> QED
    BY <1>3 DEF Superseded

\* The state of the abstract run, read off the calls of the incarnation.
TaskState ==
    \A t \in Tids :
        /\ \A c \in CallsOf(Watched) : t <= Len(runs[c]) => Times[t] = 1
        /\ (\A c \in CallsOf(Watched) : ~(t <= Len(runs[c]))) => Times[t] = 0
        /\ \A c \in CallsOf(Watched) : t <= Len(exits[c]) => ExitCodes[t] = {exits[c][t]}
        /\ (\A c \in CallsOf(Watched) : ~(t <= Len(exits[c]))) => ExitCodes[t] = {}

LEMMA TaskStateIs == AckBeforeFailure /\ IndInv /\ RepInv => TaskState
<1> SUFFICES ASSUME AckBeforeFailure, IndInv, RepInv, NEW t \in Tids
             PROVE  /\ \A c \in CallsOf(Watched) : t <= Len(runs[c]) => Times[t] = 1
                    /\ (\A c \in CallsOf(Watched) : ~(t <= Len(runs[c]))) => Times[t] = 0
                    /\ \A c \in CallsOf(Watched) : t <= Len(exits[c]) => ExitCodes[t] = {exits[c][t]}
                    /\ (\A c \in CallsOf(Watched) : ~(t <= Len(exits[c]))) => ExitCodes[t] = {}
    BY DEF TaskState
<1> DEFINE E == Executions(Watched, t)
           C == CallsOf(Watched)
<1>t. t \in Nat /\ t >= 1
    BY TriggerAssumption DEF Tids
<1>c. \A c \in C : c \in Calls /\ c[1] = Watched
    BY DEF CallsOf
<1>l. ASSUME NEW c \in C
      PROVE  /\ Len(runs[c]) \in Nat /\ Len(exits[c]) \in Nat /\ Len(exits[c]) <= Len(runs[c])
             /\ Len(runs[c]) <= Len(c2s[c]) /\ Len(c2s[c]) \in Nat
  <2>1. /\ Len(runs[c]) \in Nat /\ Len(exits[c]) \in Nat /\ Len(c2s[c]) \in Nat
        /\ taken[c] \in Nat /\ taken[c] <= Len(c2s[c])
      BY <1>c, Lengths DEF IndInv
  <2>2. Len(runs[c]) <= taken[c]
      BY <1>c DEF IndInv, RunsFollowWire
  <2>3. Len(exits[c]) <= Len(runs[c])
      BY <1>c, <2>1 DEF RepInv, ExitsTrackRuns
  <2> QED
      BY <2>1, <2>2, <2>3
<1>1. \A x : x \in E <=> \E c \in C : x = <<c, t>> /\ t <= Len(runs[c])
  <2>1. ASSUME NEW x \in E PROVE \E c \in C : x = <<c, t>> /\ t <= Len(runs[c])
    <3>1. PICK c \in C : \E k \in DOMAIN runs[c] : runs[c][k].tid = t /\ x = <<c, k>>
        BY DEF Executions
    <3>2. PICK k \in DOMAIN runs[c] : runs[c][k].tid = t /\ x = <<c, k>>
        BY <3>1
    <3>3. runs[c] \in Seq(Request(Tids))
        BY <1>c DEF IndInv, TypeInv, TypeOK, ServerTypeOK
    <3>4. k \in 1 .. Len(runs[c])
        BY <3>2, <3>3
    <3>5. k = t
      <4>1. \E d \in Calls : x = <<d, t>>
          BY ExecutionShape
      <4> QED
          BY <3>2, <4>1
    <3> QED
        BY <3>2, <3>4, <3>5
  <2>2. ASSUME NEW c \in C, t <= Len(runs[c]) PROVE <<c, t>> \in E
    <3>1. t \in 1 .. Len(runs[c]) /\ t \in 1 .. Len(c2s[c])
        BY <1>t, <1>l, <2>2
    <3>2. runs[c][t] = c2s[c][t] /\ c2s[c][t] = RemCmdMsg(t)
        BY <1>c, <3>1 DEF IndInv, RunsFollowWire, WireInOrder
    <3>3. runs[c][t].tid = t
        BY <3>2 DEF RemCmdMsg
    <3>4. runs[c] \in Seq(Request(Tids))
        BY <1>c DEF IndInv, TypeInv, TypeOK, ServerTypeOK
    <3>5. t \in DOMAIN runs[c]
        BY <3>1, <3>4
    <3> QED
        BY <3>3, <3>5 DEF Executions
  <2> QED
      BY <2>1, <2>2
<1> DEFINE X == {exits[x[1]][x[2]] : x \in {y \in E : y[2] <= Len(exits[y[1]])}}
<1>2. Times[t] = Cardinality(E) /\ ExitCodes[t] = X
    BY DEF Times, ExitCodes
<1> HIDE DEF E, C
<1>3. ASSUME NEW c \in C, t <= Len(runs[c]) PROVE E = {<<c, t>>}
  <2>1. ASSUME NEW d \in C, t <= Len(runs[d]) PROVE d = c
    <3>1. Len(c2s[c]) > 0 /\ Len(c2s[d]) > 0
        BY <1>l, <1>t, <1>3, <2>1
    <3> QED
        BY <1>c, <3>1, OneCallSends
  <2> QED
      BY <1>1, <1>3, <2>1
<1>4. (\A c \in C : ~(t <= Len(runs[c]))) => E = {}
    BY <1>1
<1>5. ASSUME NEW c \in C, t <= Len(exits[c]) PROVE X = {exits[c][t]}
  <2>1. E = {<<c, t>>}
      BY <1>3, <1>5, <1>l, <1>t
  <2>2. {y \in E : y[2] <= Len(exits[y[1]])} = {<<c, t>>}
      BY <1>5, <2>1
  <2>3. <<c, t>>[1] = c /\ <<c, t>>[2] = t
      OBVIOUS
  <2>4. X = {exits[x[1]][x[2]] : x \in {<<c, t>>}}
      BY <2>2, Zenon
  <2>5. X = {exits[<<c, t>>[1]][<<c, t>>[2]]}
      BY <2>4
  <2> QED
      BY <2>3, <2>5
<1>6. ASSUME \A c \in C : ~(t <= Len(exits[c])) PROVE X = {}
  <2>1. ASSUME NEW y \in E PROVE ~(y[2] <= Len(exits[y[1]]))
    <3>1. PICK c \in C : y = <<c, t>>
        BY <1>1
    <3>2. y[1] = c /\ y[2] = t
        BY <3>1
    <3> QED
        BY <1>6, <3>2
  <2> QED
      BY <2>1
<1> HIDE DEF X
<1>7. \A c \in C : t <= Len(runs[c]) => Times[t] = 1
    BY <1>2, <1>3, FS_Singleton
<1>8. (\A c \in C : ~(t <= Len(runs[c]))) => Times[t] = 0
    BY <1>2, <1>4, FS_EmptySet
<1>9. \A c \in C : t <= Len(exits[c]) => ExitCodes[t] = {exits[c][t]}
    BY <1>2, <1>5
<1>10. (\A c \in C : ~(t <= Len(exits[c]))) => ExitCodes[t] = {}
    BY <1>2, <1>6
<1> QED
    BY <1>7, <1>8, <1>9, <1>10 DEF C

RefInv == IndInv /\ RepInv /\ RunsArePermittedPrefix /\ NoneMissing

LEMMA TaskFunctions == /\ Times = [t \in Tids |-> Times[t]]
                       /\ ExitCodes = [t \in Tids |-> ExitCodes[t]]
BY DEF Times, ExitCodes

\* The policy and the list are those of the start.
LEMMA AssignedKept == [Next]_vars => Assigned' = Assigned
<1> SUFFICES ASSUME [Next]_vars PROVE Assigned' = Assigned
    OBVIOUS
<1>1. commands' = commands
    BY CommandsKept DEF vars, triggerVars
<1>2. config' = config
    BY ServerCases DEF RemCmdStrm, RefuseCall, RunRequest, RejectRequest, ReadEnds, WriteResponse,
                       RunnerReturns, serverVars, vars
<1>3. \A t : Permitted(config', commands'[t].cmd) <=> Permitted(config, commands[t].cmd)
    BY <1>1, <1>2
<1> QED
    BY <1>1, <1>2, <1>3 DEF Assigned

\* Steps of other incarnations, and steps that neither start nor end a command,
\* change nothing of the run itself.
LEMMA QuietStep ==
    ASSUME TaskState, TaskState',
           \A c \in CallsOf(Watched) : runs'[c] = runs[c] /\ exits'[c] = exits[c]
    PROVE  Times' = Times /\ ExitCodes' = ExitCodes
<1>1. ASSUME NEW t \in Tids PROVE Times'[t] = Times[t]
  <2>1. /\ \A c \in CallsOf(Watched) : t <= Len(runs'[c]) => Times'[t] = 1
        /\ (\A c \in CallsOf(Watched) : ~(t <= Len(runs'[c]))) => Times'[t] = 0
      BY DEF TaskState
  <2> QED
      BY <2>1 DEF TaskState
<1>2. ASSUME NEW t \in Tids PROVE ExitCodes'[t] = ExitCodes[t]
  <2>1. /\ \A c \in CallsOf(Watched) : t <= Len(exits'[c]) => ExitCodes'[t] = {exits'[c][t]}
        /\ (\A c \in CallsOf(Watched) : ~(t <= Len(exits'[c]))) => ExitCodes'[t] = {}
      BY DEF TaskState
  <2>2. CASE \A c \in CallsOf(Watched) : ~(t <= Len(exits[c]))
    <3>1. ExitCodes[t] = {}
        BY <2>2 DEF TaskState
    <3> QED
        BY <2>1, <2>2, <3>1
  <2>3. CASE \E c \in CallsOf(Watched) : t <= Len(exits[c])
    <3>1. PICK c \in CallsOf(Watched) : t <= Len(exits[c])
        BY <2>3
    <3>2. ExitCodes[t] = {exits[c][t]}
        BY <3>1 DEF TaskState
    <3>3. ExitCodes'[t] = {exits'[c][t]} /\ exits'[c] = exits[c]
        BY <2>1, <3>1
    <3> QED
        BY <3>2, <3>3
  <2> QED
      BY <2>2, <2>3
<1>3. Times' = [t \in Tids |-> Times'[t]] /\ ExitCodes' = [t \in Tids |-> ExitCodes'[t]]
    BY DEF Times, ExitCodes
<1> QED
    BY <1>1, <1>2, <1>3, TaskFunctions

\* The other attempts of the incarnation of a call that sends have run nothing.
LEMMA OthersRanNothing ==
    ASSUME RefInv, AckBeforeFailure, NEW c \in CallsOf(Watched), Len(c2s[c]) > 0,
           NEW d \in CallsOf(Watched), d # c
    PROVE  Len(runs[d]) = 0 /\ Len(exits[d]) = 0
<1>1. c \in Calls /\ d \in Calls /\ c[1] = d[1]
    BY DEF CallsOf
<1>2. /\ Len(runs[d]) \in Nat /\ Len(exits[d]) \in Nat /\ Len(c2s[d]) \in Nat /\ taken[d] \in Nat
      /\ taken[d] <= Len(c2s[d])
    BY <1>1, Lengths DEF RefInv, IndInv
<1>3. ~(Len(c2s[d]) > 0)
    BY <1>1, OneCallSends DEF RefInv
<1>4. Len(runs[d]) <= taken[d]
    BY <1>1 DEF RefInv, IndInv, RunsFollowWire
<1>5. Len(exits[d]) <= Len(runs[d])
    BY <1>1, <1>2 DEF RefInv, RepInv, ExitsTrackRuns
<1> QED
    BY <1>2, <1>3, <1>4, <1>5

\* A handler that enters the runner starts the next command of the task.
LEMMA BeginStep ==
    ASSUME RefInv, RefInv', TaskState, TaskState', AckBeforeFailure, Next,
           NEW c \in CallsOf(Watched), RunRequest(c), UNCHANGED triggerVars
    PROVE  \E t \in Tids : Task!Begin(t)
<1> DEFINE R == Request(Tids)
           r == c2s[c][taken[c] + 1]
           u == Len(runs[c]) + 1
<1>c. c \in Calls
    BY DEF CallsOf
<1>t. runs \in [Calls -> Seq(R)] /\ c2s \in [Calls -> Seq(R)] /\ taken \in [Calls -> Nat]
    BY DEF RefInv, IndInv, TypeInv, TypeOK, StreamTypeOK, ServerTypeOK
<1>l. /\ Len(runs[c]) \in Nat /\ Len(exits[c]) \in Nat /\ Len(c2s[c]) \in Nat /\ taken[c] \in Nat
    BY <1>c, Lengths DEF RefInv, IndInv
<1>1. /\ hpc[c] = "read" /\ taken[c] < Len(c2s[c]) /\ exits' = exits
      /\ runs' = [runs EXCEPT ![c] = Append(@, r)]
    BY DEF RunRequest, RequestReady
<1>2. r \in R
    BY <1>c, <1>t, <1>1
<1> HIDE DEF R, r
<1>3. /\ Len(runs'[c]) = Len(runs[c]) + 1
      /\ \A d \in Calls \ {c} : runs'[d] = runs[d]
    BY <1>c, <1>t, <1>1, <1>2, AppendTo
<1>4. Len(runs[c]) = taken[c] /\ Len(exits[c]) = Len(runs[c])
    BY <1>c, <1>1 DEF RefInv, IndInv, RunsFollowWire, RepInv, ExitsTrackRuns
<1>5. u \in Tids /\ u \in Nat
  <2>1. u \in 1 .. Len(c2s[c])
      BY <1>1, <1>4, <1>l
  <2> QED
      BY <1>c, <1>l, <2>1 DEF RefInv, IndInv, WireInOrder
<1>6. \A d \in CallsOf(Watched) \ {c} :
        Len(runs[d]) = 0 /\ Len(exits[d]) = 0 /\ runs'[d] = runs[d]
  <2>1. Len(c2s[c]) > 0
      BY <1>1, <1>l
  <2> QED
      BY <1>3, <2>1, OthersRanNothing DEF CallsOf
<1>7. 1 .. u \subseteq Assigned.permitted
  <2>1. \A t \in 1 .. u : Permitted(config', commands'[t].cmd)
    <3>1. runs'[c] \in Seq(R)
        BY <1>c DEF RefInv, IndInv, TypeInv, TypeOK, ServerTypeOK, R
    <3>2. u \in DOMAIN runs'[c]
        BY <1>3, <1>5, <1>l, <3>1
    <3> QED
        BY <1>c, <3>2 DEF RefInv, RunsArePermittedPrefix
  <2>2. 1 .. u \subseteq Tids
      BY <1>5, TriggerAssumption DEF Tids
  <2>3. 1 .. u \subseteq Assigned'.permitted
      BY <2>1, <2>2 DEF Assigned
  <2> QED
      BY <2>3, AssignedKept
<1> HIDE DEF u
<1>u. u = Len(runs[c]) + 1
    BY DEF u
<1>8. Times[u] = 0
  <2>1. \A d \in CallsOf(Watched) : ~(u <= Len(runs[d]))
      BY <1>6, <1>l, <1>u
  <2> QED
      BY <1>5, <2>1 DEF TaskState
<1>9. ASSUME NEW t \in 1 .. u - 1 PROVE Times[t] = 1 /\ ExitCodes[t] # {}
  <2>1. t \in Tids /\ t <= Len(runs[c]) /\ t <= Len(exits[c])
      BY <1>4, <1>5, <1>l, <1>u, TriggerAssumption DEF Tids
  <2>2. Times[t] = 1 /\ ExitCodes[t] = {exits[c][t]}
      BY <2>1 DEF TaskState
  <2> QED
      BY <2>2
<1>10. Times' = [Times EXCEPT ![u] = 1]
  <2>1. ASSUME NEW t \in Tids PROVE Times'[t] = IF t = u THEN 1 ELSE Times[t]
    <3>1. /\ \A d \in CallsOf(Watched) : t <= Len(runs'[d]) => Times'[t] = 1
          /\ (\A d \in CallsOf(Watched) : ~(t <= Len(runs'[d]))) => Times'[t] = 0
        BY DEF TaskState
    <3>n. t \in Nat /\ t >= 1
        BY TriggerAssumption DEF Tids
    <3>2. CASE t <= Len(runs'[c])
      <4>1. Times'[t] = 1
          BY <3>1, <3>2
      <4>2. CASE t # u
        <5>1. t <= Len(runs[c])
            BY <1>3, <1>l, <1>u, <3>2, <3>n, <4>2
        <5>2. Times[t] = 1
            BY <5>1 DEF TaskState
        <5> QED
            BY <4>1, <4>2, <5>2
      <4> QED
          BY <4>1, <4>2
    <3>3. CASE ~(t <= Len(runs'[c]))
      <4>1. \A d \in CallsOf(Watched) : ~(t <= Len(runs'[d])) /\ ~(t <= Len(runs[d]))
          BY <1>3, <1>6, <1>l, <3>3, <3>n
      <4>2. Times'[t] = 0
          BY <3>1, <4>1
      <4>3. Times[t] = 0
          BY <4>1 DEF TaskState
      <4>4. t # u
          BY <1>3, <1>u, <1>l, <3>3
      <4> QED
          BY <4>2, <4>3, <4>4
    <3> QED
        BY <3>2, <3>3
  <2>2. Times' = [t \in Tids |-> Times'[t]]
      BY DEF Times
  <2> QED
      BY <1>5, <2>1, <2>2, TaskFunctions
<1>11. ExitCodes' = ExitCodes
  <2>1. ASSUME NEW t \in Tids PROVE ExitCodes'[t] = ExitCodes[t]
    <3>1. /\ \A d \in CallsOf(Watched) : t <= Len(exits[d]) => ExitCodes'[t] = {exits[d][t]}
          /\ (\A d \in CallsOf(Watched) : ~(t <= Len(exits[d]))) => ExitCodes'[t] = {}
        BY <1>1 DEF TaskState
    <3>2. /\ \A d \in CallsOf(Watched) : t <= Len(exits[d]) => ExitCodes[t] = {exits[d][t]}
          /\ (\A d \in CallsOf(Watched) : ~(t <= Len(exits[d]))) => ExitCodes[t] = {}
        BY DEF TaskState
    <3> QED
        BY <3>1, <3>2
  <2>2. ExitCodes' = [t \in Tids |-> ExitCodes'[t]]
      BY DEF ExitCodes
  <2> QED
      BY <2>1, <2>2, TaskFunctions
<1>12. Reported' = Reported
    BY DEF triggerVars, Reported
<1>13. Task!Begin(u)
    BY <1>7, <1>8, <1>9, <1>10, <1>11, <1>12, AssignedKept DEF Task!Begin
<1> QED
    BY <1>5, <1>13

\* The runner's return ends the command that was running.
LEMMA EndStep ==
    ASSUME RefInv, RefInv', TaskState, TaskState', AckBeforeFailure, Next,
           NEW c \in CallsOf(Watched), NEW rc \in {0, 1}, RunnerReturns(c, rc), UNCHANGED triggerVars
    PROVE  \E t \in Tids : Task!End(t, rc)
<1> DEFINE u == Len(runs[c])
<1>c. c \in Calls
    BY DEF CallsOf
<1>t. exits \in [Calls -> Seq({0, 1})]
    BY DEF RefInv, IndInv, TypeInv, TypeOK, ServerTypeOK
<1>l. /\ Len(runs[c]) \in Nat /\ Len(exits[c]) \in Nat /\ Len(c2s[c]) \in Nat /\ taken[c] \in Nat
      /\ taken[c] <= Len(c2s[c])
    BY <1>c, Lengths DEF RefInv, IndInv
<1>1. hpc[c] = "run" /\ runs' = runs /\ exits' = [exits EXCEPT ![c] = Append(@, rc)]
    BY DEF RunnerReturns
<1>2. /\ Len(exits'[c]) = Len(exits[c]) + 1
      /\ \A k \in 1 .. Len(exits[c]) : exits'[c][k] = exits[c][k]
      /\ exits'[c][Len(exits[c]) + 1] = rc
      /\ \A d \in Calls \ {c} : exits'[d] = exits[d]
    BY <1>c, <1>t, <1>1, AppendTo
<1>3. u = Len(exits[c]) + 1 /\ u = taken[c]
    BY <1>c, <1>1 DEF RefInv, IndInv, RunsFollowWire, RepInv, ExitsTrackRuns
<1>4. u \in Tids /\ u \in Nat /\ Len(c2s[c]) > 0
  <2>1. u \in 1 .. Len(c2s[c])
      BY <1>3, <1>l
  <2> QED
      BY <1>c, <1>l, <2>1 DEF RefInv, IndInv, WireInOrder
<1>5. \A d \in CallsOf(Watched) \ {c} :
        Len(runs[d]) = 0 /\ Len(exits[d]) = 0 /\ exits'[d] = exits[d]
    BY <1>2, <1>4, OthersRanNothing DEF CallsOf
<1>6. Times[u] = 1
  <2>1. u <= Len(runs[c])
      BY <1>l
  <2> QED
      BY <1>4, <2>1 DEF TaskState
<1> HIDE DEF u
<1>7. ExitCodes[u] = {}
  <2>1. \A d \in CallsOf(Watched) : ~(u <= Len(exits[d]))
      BY <1>3, <1>4, <1>5, <1>l
  <2> QED
      BY <1>4, <2>1 DEF TaskState
<1>8. Times' = Times
    BY <1>1 DEF Times, Executions, CallsOf
<1>9. ExitCodes' = [ExitCodes EXCEPT ![u] = {rc}]
  <2>1. ASSUME NEW t \in Tids PROVE ExitCodes'[t] = IF t = u THEN {rc} ELSE ExitCodes[t]
    <3>1. /\ \A d \in CallsOf(Watched) : t <= Len(exits'[d]) => ExitCodes'[t] = {exits'[d][t]}
          /\ (\A d \in CallsOf(Watched) : ~(t <= Len(exits'[d]))) => ExitCodes'[t] = {}
        BY DEF TaskState
    <3>n. t \in Nat /\ t >= 1
        BY TriggerAssumption DEF Tids
    <3>2. CASE t = u
      <4>1. t <= Len(exits'[c]) /\ exits'[c][t] = rc
          BY <1>2, <1>3, <1>l, <3>2
      <4> QED
          BY <3>1, <3>2, <4>1
    <3>3. CASE t <= Len(exits[c])
      <4>1. t <= Len(exits'[c]) /\ exits'[c][t] = exits[c][t] /\ t # u
          BY <1>2, <1>3, <1>l, <3>3, <3>n
      <4>2. ExitCodes[t] = {exits[c][t]}
          BY <3>3 DEF TaskState
      <4> QED
          BY <3>1, <4>1, <4>2
    <3>4. CASE t # u /\ ~(t <= Len(exits[c]))
      <4>1. \A d \in CallsOf(Watched) : ~(t <= Len(exits'[d])) /\ ~(t <= Len(exits[d]))
          BY <1>2, <1>3, <1>5, <1>l, <3>4, <3>n
      <4>2. ExitCodes[t] = {}
          BY <4>1 DEF TaskState
      <4> QED
          BY <3>1, <3>4, <4>1, <4>2
    <3> QED
        BY <3>2, <3>3, <3>4
  <2>2. ExitCodes' = [t \in Tids |-> ExitCodes'[t]]
      BY DEF ExitCodes
  <2> QED
      BY <1>4, <2>1, <2>2, TaskFunctions
<1>10. Reported' = Reported
    BY DEF triggerVars, Reported
<1>11. Task!End(u, rc)
    BY <1>6, <1>7, <1>8, <1>9, <1>10, AssignedKept DEF Task!End
<1> QED
    BY <1>4, <1>11

\* Without an event of this incarnation there is no report.
LEMMA NothingReported ==
    RepInv /\ (event.state = "none" \/ inc # Watched) => Reported = Task!NoReport
<1> SUFFICES ASSUME RepInv, event.state = "none" \/ inc # Watched
             PROVE  Reported = Task!NoReport
    OBVIOUS
<1>1. event.state = "none" => event.why = "none"
    BY DEF RepInv, EventFollowsResults
<1>2. Reported = [state |-> "none", codes |-> [t \in Tids |-> {}]]
    BY <1>1 DEF Reported
<1>3. Assigned.size = N
    BY DEF Assigned
<1> QED
    BY <1>2, <1>3 DEF Task!NoReport, Task!NoCodes, Task!Numbers, Tids

\* The analysis of run() reports what the runs of the task ended with.
LEMMA AnalyseStep ==
    ASSUME RefInv, RefInv', TaskState, AckBeforeFailure, Analyse, inc = Watched,
           event.state = "none", Times' = Times, ExitCodes' = ExitCodes, Assigned' = Assigned
    PROVE  Task!ReportResults
<1>1. /\ rpc[cur] = "done" /\ UNCHANGED <<inc, attempt>>
      /\ event'.results = results[cur]
      /\ Missing(cur) # {} => event'.why = "missing"
      /\ Missing(cur) = {} /\ Failed(cur) # {} => event'.state = "FAILED" /\ event'.why = "rc"
      /\ Missing(cur) = {} /\ Failed(cur) = {} => event'.state = "SUCCESS"
    BY DEF Analyse, Yield
<1>2. cur \in Calls /\ cur \in CallsOf(Watched)
    BY CurIsCall DEF RefInv, IndInv, TypeInv, TypeOK, CallsOf, cur
<1>3. Missing(cur) = {}
    BY <1>1 DEF RefInv, NoneMissing
<1>4. /\ DOMAIN runs[cur] = Tids /\ hpc[cur] = "done"
      /\ \A t \in Tids : results[cur][t] = [rc |-> exits[cur][t], out |-> runs[cur][t].cmd,
                                            cmd |-> commands[t].cmd]
    BY <1>1, <1>2, DoneIsFiled DEF RefInv
<1>5. Len(runs[cur]) = N /\ Len(exits[cur]) = N
    BY <1>1, <1>2, <1>4 DEF RefInv, RepInv, OKMeansAnswered, Answered, ExitsTrackRuns
<1>6. ASSUME NEW t \in Tids
      PROVE  Times[t] = 1 /\ ExitCodes[t] = {exits[cur][t]} /\ results[cur][t].rc = exits[cur][t]
  <2>1. t <= N
      BY TriggerAssumption DEF Tids
  <2>2. Times[t] = 1 /\ ExitCodes[t] = {exits[cur][t]}
      BY <1>2, <1>5, <2>1 DEF TaskState
  <2>3. results[cur][t] = [rc |-> exits[cur][t], out |-> runs[cur][t].cmd, cmd |-> commands[t].cmd]
      BY <1>4
  <2>4. results[cur][t].rc = exits[cur][t]
      BY <2>3
  <2> QED
      BY <2>2, <2>4
<1>7. Failed(cur) = {} <=> \A t \in Tids : ExitCodes[t] = {0}
  <2>1. Failed(cur) = {t \in Tids : exits[cur][t] # 0}
      BY <1>3, <1>6 DEF Failed
  <2>2. \A t \in Tids : ExitCodes[t] = {0} <=> exits[cur][t] = 0
      BY <1>6
  <2> QED
      BY <2>1, <2>2
<1>8. event'.state = IF \A t \in Tids : ExitCodes[t] = {0} THEN "SUCCESS" ELSE "FAILED"
    BY <1>1, <1>3, <1>7
<1>9. event'.state = "SUCCESS" \/ event'.why = "rc"
    BY <1>1, <1>3
<1>10. \A t \in Tids : {event'.results[t].rc} = ExitCodes[t]
    BY <1>1, <1>6
<1>11. Reported' = [state |-> event'.state, codes |-> [t \in Tids |-> {event'.results[t].rc}]]
    BY <1>1, <1>9 DEF Reported
<1>12. ExitCodes = [t \in Tids |-> {event'.results[t].rc}]
    BY <1>10, TaskFunctions
<1>13. Reported' = [state |-> IF \A t \in Tids : ExitCodes[t] = {0} THEN "SUCCESS" ELSE "FAILED",
                    codes |-> ExitCodes]
    BY <1>8, <1>11, <1>12
<1>14. Reported = Task!NoReport
    BY NothingReported DEF RefInv
<1>15. Task!Numbers = Tids
    BY DEF Task!Numbers, Assigned, Tids
<1> QED
    BY <1>6, <1>13, <1>14, <1>15 DEF Task!ReportResults

LEMMA RefinementInit == AckBeforeFailure /\ Init => Task!Init
<1> SUFFICES ASSUME AckBeforeFailure, Init PROVE Task!Init
    OBVIOUS
<1>1. TaskState /\ RepInv
    BY IndInvInit, RepInvInit, TaskStateIs
<1>2. \A c \in CallsOf(Watched) : Len(runs[c]) = 0 /\ Len(exits[c]) = 0
    BY DEF Init, ServerInit, CallsOf
<1>3. ASSUME NEW t \in Tids PROVE Times[t] = 0 /\ ExitCodes[t] = {}
  <2>1. t \in Nat /\ t >= 1
      BY TriggerAssumption DEF Tids
  <2>2. \A c \in CallsOf(Watched) : ~(t <= Len(runs[c])) /\ ~(t <= Len(exits[c]))
      BY <1>2, <2>1
  <2> QED
      BY <1>1, <2>2 DEF TaskState
<1>4. Times = [t \in Tids |-> 0] /\ ExitCodes = [t \in Tids |-> {}]
    BY <1>3, TaskFunctions
<1>5. event.state = "none"
    BY DEF Init, TriggerInit, NoEvent
<1>6. Reported = Task!NoReport
    BY <1>1, <1>5, NothingReported
<1>7. Assigned.size = N /\ Assigned.permitted \subseteq Tids /\ N \in Nat
    BY TriggerAssumption DEF Assigned
<1>8. Task!Numbers = Tids /\ Task!NoCodes = [t \in Tids |-> {}]
    BY <1>7 DEF Task!Numbers, Task!NoCodes, Tids
<1> QED
    BY <1>4, <1>6, <1>7, <1>8 DEF Task!Init

\* A step that leaves the runs of the incarnation alone makes at most a report.
LEMMA ReportStep ==
    ASSUME RefInv, RefInv', TaskState, AckBeforeFailure, Next,
           Times' = Times, ExitCodes' = ExitCodes, Assigned' = Assigned
    PROVE  Task!ReportResults \/ Task!ReportFailure \/ Reported' = Reported
<1>1. inc' = inc \/ (TriggererRestart /\ event' = event /\ pc # "done" /\ pc' = "start")
    BY NextCases DEF OpenStream, Retry, GiveUp, Analyse, FailBeforeStream, TimeoutStreaming,
       TimeoutStarting, TriggererRestart, Transmit, WriteCompletes, BuildFails, WriteFails,
       WriterRaises, WriterDone, ReadResponse, ReaderDone, ReaderRaises, LinkLosesCall,
       LinkReportsLoss, LinkDeadline, runVars, triggerVars, vars
<1>2. pc # "done" => event.state = "none" /\ Reported = Task!NoReport
    BY NothingReported DEF RefInv, RepInv, EventFollowsResults
<1>3. event'.state = "none" \/ inc' # Watched => Reported' = Task!NoReport'
  <2>1. (RepInv /\ (event.state = "none" \/ inc # Watched) => Reported = Task!NoReport)'
      BY NothingReported, PTL
  <2> QED
      BY <2>1 DEF RefInv
<1>4. Task!NoCodes' = Task!NoCodes /\ Task!NoReport' = Task!NoReport
    BY DEF Task!NoCodes, Task!NoReport, Task!Numbers
<1>5. CASE event' = event /\ inc' = inc
    BY <1>5 DEF Reported
<1>6. CASE event' = event /\ pc # "done"
    BY <1>2, <1>3, <1>4, <1>6
<1>7. CASE Analyse
  <2>1. pc # "done" /\ pc' = "done"
      BY <1>7 DEF Analyse, Yield
  <2>2. inc' = inc /\ event.state = "none"
      BY <1>1, <1>2, <2>1
  <2>3. CASE inc = Watched
      BY <1>7, <2>2, <2>3, AnalyseStep
  <2>4. CASE inc # Watched
      BY <1>2, <1>3, <1>4, <2>1, <2>2, <2>4
  <2> QED
      BY <2>3, <2>4
<1>8. ASSUME pc # "done", NEW st \in {"FAILED", "CANCELLED"},
             NEW why \in {"exception", "not retried", "timeout"}, Yield(st, why, Empty)
      PROVE  Task!ReportFailure \/ Reported' = Reported
  <2>1. event'.state = st /\ event'.why = why /\ pc' = "done"
      BY <1>8 DEF Yield
  <2>2. inc' = inc
      BY <1>1, <2>1
  <2>3. CASE inc = Watched
    <3>1. Reported' = [state |-> st, codes |-> [t \in Tids |-> {}]]
        BY <2>1, <2>2, <2>3 DEF Reported
    <3>2. Task!NoCodes = [t \in Tids |-> {}]
        BY DEF Task!NoCodes, Task!Numbers, Assigned, Tids
    <3> QED
        BY <1>2, <1>8, <3>1, <3>2 DEF Task!ReportFailure
  <2>4. CASE inc # Watched
      BY <1>2, <1>3, <1>4, <1>8, <2>2, <2>4
  <2> QED
      BY <2>3, <2>4
<1> QED
    BY <1>1, <1>5, <1>6, <1>7, <1>8, EventSteps

LEMMA RefinementStep ==
    ASSUME AckBeforeFailure
    PROVE  RefInv /\ RefInv' /\ TaskState /\ TaskState' /\ [Next]_vars => [Task!Next]_(Task!vars)
<1> SUFFICES ASSUME RefInv, RefInv', TaskState, TaskState', [Next]_vars
             PROVE  [Task!Next]_(Task!vars)
    OBVIOUS
<1>a. Assigned' = Assigned
    BY AssignedKept
<1>n. Task!Numbers = Tids
    BY DEF Task!Numbers, Assigned, Tids
<1>1. CASE UNCHANGED vars
  <2>1. Times' = Times /\ ExitCodes' = ExitCodes
      BY <1>1, QuietStep DEF vars, serverVars
  <2>2. Reported' = Reported
      BY <1>1 DEF vars, triggerVars, Reported
  <2> QED
      BY <1>a, <2>1, <2>2 DEF Task!vars
<1>2. ASSUME Next, NEW c \in CallsOf(Watched), RunRequest(c), UNCHANGED triggerVars
      PROVE  Task!Next
    BY <1>2, <1>n, BeginStep DEF Task!Next
<1>3. ASSUME Next, NEW c \in CallsOf(Watched), NEW rc \in {0, 1}, RunnerReturns(c, rc),
             UNCHANGED triggerVars
      PROVE  Task!Next
    BY <1>3, <1>n, EndStep DEF Task!Next
<1>4. ASSUME Next, \A c \in CallsOf(Watched) : runs'[c] = runs[c] /\ exits'[c] = exits[c]
      PROVE  [Task!Next]_(Task!vars)
  <2>1. Times' = Times /\ ExitCodes' = ExitCodes
      BY <1>4, QuietStep
  <2>2. Task!ReportResults \/ Task!ReportFailure \/ Reported' = Reported
      BY <1>4, <1>a, <2>1, ReportStep
  <2> QED
      BY <1>a, <2>1, <2>2 DEF Task!Next, Task!vars
<1>5. ASSUME Next
      PROVE  \/ \A c \in CallsOf(Watched) : runs'[c] = runs[c] /\ exits'[c] = exits[c]
             \/ /\ UNCHANGED triggerVars
                /\ \E c \in CallsOf(Watched) :
                      RunRequest(c) \/ \E rc \in {0, 1} : RunnerReturns(c, rc)
  <2>1. \/ UNCHANGED <<runs, exits>>
        \/ UNCHANGED triggerVars
           /\ \E c \in Calls : RunRequest(c) \/ \E rc \in {0, 1} : RunnerReturns(c, rc)
      BY <1>5, NextCases DEF RemCmdStrm, RefuseCall, RejectRequest, ReadEnds, WriteResponse,
         StatusDelivered, LinkLosesCall, LinkReportsLoss, LinkDeadline, serverVars, vars
  <2>t. runs \in [Calls -> Seq(Request(Tids))] /\ exits \in [Calls -> Seq({0, 1})]
      BY DEF RefInv, IndInv, TypeInv, TypeOK, ServerTypeOK
  <2>2. ASSUME NEW c \in Calls, c \notin CallsOf(Watched), RunRequest(c)
        PROVE  \A d \in CallsOf(Watched) : runs'[d] = runs[d] /\ exits'[d] = exits[d]
    <3>1. exits' = exits /\ runs' = [runs EXCEPT ![c] = Append(@, c2s[c][taken[c] + 1])]
        BY <2>2 DEF RunRequest
    <3> QED
        BY <2>t, <2>2, <3>1 DEF CallsOf
  <2>3. ASSUME NEW c \in Calls, c \notin CallsOf(Watched), NEW rc \in {0, 1}, RunnerReturns(c, rc)
        PROVE  \A d \in CallsOf(Watched) : runs'[d] = runs[d] /\ exits'[d] = exits[d]
    <3>1. runs' = runs /\ exits' = [exits EXCEPT ![c] = Append(@, rc)]
        BY <2>3 DEF RunnerReturns
    <3> QED
        BY <2>t, <2>3, <3>1 DEF CallsOf
  <2> QED
      BY <2>1, <2>2, <2>3
<1> QED
    BY <1>1, <1>2, <1>3, <1>4, <1>5

\* Seen by the task, every incarnation of the trigger is one run of the list: no
\* attempt, loss, rejection or time-out shows, for every number of commands and
\* attempts, if the library reports a broken call only after the writes that left.
THEOREM Refinement ==
    ASSUME AckBeforeFailure
    PROVE  Spec => ImplementsAbstractRun
<1>1. Spec => [](RefInv /\ TaskState)
  <2>1. IndInv /\ RepInv => TaskState
      BY TaskStateIs
  <2> QED
      BY <2>1, ReportInvariance, PolicyHolds, NoResponseIsMissing, PTL DEF RefInv
<1>2. Init => Task!Init
    BY RefinementInit
<1>3. (RefInv /\ TaskState) /\ (RefInv /\ TaskState)' /\ [Next]_vars => [Task!Next]_(Task!vars)
    BY RefinementStep
<1> QED
    BY <1>1, <1>2, <1>3, PTL DEF Spec, Task!Spec, ImplementsAbstractRun
=============================================================================
