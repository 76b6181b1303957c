--------------------------- MODULE RemSvcTrigger ---------------------------
(***************************************************************************)
(* The Airflow trigger (prv/remsvc_provider/triggers/remsvc.py): run(),    *)
(* which makes up to _MAX_ATTEMPTS attempts and yields exactly one event,  *)
(* and _run_stream(), which opens RemCmdStrm and runs the coroutines       *)
(* _write and _read side by side under asyncio.gather.                     *)
(*                                                                         *)
(* A call is identified by <<incarnation, attempt>>: the triggerer process *)
(* may die, and Airflow then rebuilds the trigger from serialize() in      *)
(* another one, which starts run() again from the first attempt.           *)
(***************************************************************************)
EXTENDS CommandPolicy, GrpcStream

CONSTANTS
    N,             \* number of commands in the list
    CommandLists,  \* the lists a task may be given
    MaxAttempts,   \* _MAX_ATTEMPTS
    MaxRestarts,   \* bound on triggerer deaths
    NoResult       \* results[tid] absent

ASSUME TriggerAssumption ==
    /\ N \in Nat /\ MaxAttempts \in Nat \ {0} /\ MaxRestarts \in Nat
    /\ Calls = (0 .. MaxRestarts) \X (1 .. MaxAttempts)

Tids == 1 .. N

\* wellTyped: protobuf accepts the field values.  commands is a template field,
\* so a rendered cmdtyp may be a string, and building the message then raises.
ASSUME CommandListsAssumption ==
    CommandLists \subseteq [Tids -> [cmd : Cmds, wellTyped : BOOLEAN]]

RetryableCodes == {"UNAVAILABLE", "RESOURCE_EXHAUSTED"}

VARIABLES
    commands,   \* self.commands, as rendered
    inc,        \* incarnation of the trigger
    attempt,    \* loop variable of run()
    pc,         \* run(): "start" (before the stream exists), "streaming", "done"
    sent_ref,   \* sent_ref[c]: writes that _write has seen complete
    wpc,        \* wpc[c]: the _write coroutine
    rpc,        \* rpc[c]: the _read coroutine
    exc,        \* exc[c]: first exception out of gather, "none" if there is none
    results,    \* results[c]: the dict filled by _read
    event       \* the event yielded

runVars     == <<commands, inc, attempt, pc, event>>
coroVars    == <<sent_ref, wpc, rpc, exc, results>>
triggerVars == <<commands, inc, attempt, pc, sent_ref, wpc, rpc, exc, results, event>>

cur == <<inc, attempt>>

Empty == [t \in Tids |-> NoResult]

NoEvent == [state |-> "none", why |-> "none", results |-> Empty]

TriggerInit ==
    /\ commands \in CommandLists
    /\ inc = 0 /\ attempt = 1 /\ pc = "start"
    /\ sent_ref = [c \in Calls |-> 0]
    /\ wpc = [c \in Calls |-> "idle"]
    /\ rpc = [c \in Calls |-> "idle"]
    /\ exc = [c \in Calls |-> "none"]
    /\ results = [c \in Calls |-> Empty]
    /\ event = NoEvent

-----------------------------------------------------------------------------
(* run(): the attempt loop.                                                *)

Yield(state, why, res) ==
    /\ event' = [state |-> state, why |-> why, results |-> res]
    /\ pc' = "done"

\* The proto stubs are missing, or the hook raises while it resolves the
\* connection, reads the CA file or builds the metadata.
FailBeforeStream ==
    /\ pc = "start"
    /\ Yield("FAILED", "exception", Empty)
    /\ UNCHANGED <<streamVars, commands, inc, attempt, coroVars>>

\* _run_stream up to gather: the call is started, the coroutines scheduled.
OpenStream ==
    /\ pc = "start"
    /\ OpenCall(cur)
    /\ pc'  = "streaming"
    /\ wpc' = [wpc EXCEPT ![cur] = "write"]
    /\ rpc' = [rpc EXCEPT ![cur] = "read"]
    /\ UNCHANGED <<c2s, half, taken, s2c, got, cstat, commands, inc, attempt, event,
                   sent_ref, exc, results>>

\* Mutant of Retry: the sent_ref test is missing.
RetryAfterWrites ==
    /\ pc = "streaming"
    /\ exc[cur] \in RetryableCodes
    /\ attempt < MaxAttempts
    /\ attempt' = attempt + 1
    /\ pc' = "start"
    /\ UNCHANGED <<streamVars, commands, inc, event, coroVars>>

\* Mutant of Retry: the sent_ref test is off by one.
RetryAfterFirst ==
    /\ pc = "streaming"
    /\ exc[cur] \in RetryableCodes
    /\ attempt < MaxAttempts
    /\ sent_ref[cur] <= 1
    /\ attempt' = attempt + 1
    /\ pc' = "start"
    /\ UNCHANGED <<streamVars, commands, inc, event, coroVars>>

\* AioRpcError with a retryable code, attempts left and no write completed:
\* back off, then next attempt.  The coroutines of this attempt are not touched.
Retry ==
    /\ pc = "streaming"
    /\ exc[cur] \in RetryableCodes
    /\ attempt < MaxAttempts
    /\ sent_ref[cur] = 0
    /\ attempt' = attempt + 1
    /\ pc' = "start"
    /\ UNCHANGED <<streamVars, commands, inc, event, coroVars>>

\* Mutant of GiveUp: the return after the yield is missing, so the loop goes on.
GiveUpAndLoop ==
    /\ pc = "streaming"
    /\ exc[cur] # "none"
    /\ exc[cur] \notin RetryableCodes \/ attempt = MaxAttempts \/ sent_ref[cur] > 0
    /\ event' = [state |-> "FAILED", why |-> "exception", results |-> Empty]
    /\ IF attempt < MaxAttempts THEN attempt' = attempt + 1 /\ pc' = "start"
                                ELSE attempt' = attempt /\ pc' = "done"
    /\ UNCHANGED <<streamVars, commands, inc, coroVars>>

\* The except clauses that give up; the partial results are discarded.
GiveUp ==
    /\ pc = "streaming"
    /\ exc[cur] # "none"
    /\ \/ exc[cur] \notin RetryableCodes
       \/ attempt = MaxAttempts
       \/ sent_ref[cur] > 0
    /\ Yield("FAILED", IF exc[cur] \in RetryableCodes /\ attempt < MaxAttempts
                       THEN "not retried" ELSE "exception", Empty)
    /\ UNCHANGED <<streamVars, commands, inc, attempt, coroVars>>

Unfinished == {"write", "await", "read"}

\* wait_for expires: _run_stream is cancelled, even if gather is already done
\* and _run_stream has not been resumed.  A pending gather cancels both
\* coroutines, and the one suspended in the call cancels the call; a gather that
\* has raised cancels nothing.
TimeoutStreaming ==
    /\ pc = "streaming"
    /\ Yield("CANCELLED", "timeout", Empty)
    /\ \/ /\ exc[cur] = "none"
          /\ wpc' = [wpc EXCEPT ![cur] = IF @ \in Unfinished THEN "dead" ELSE @]
          /\ rpc' = [rpc EXCEPT ![cur] = IF @ \in Unfinished THEN "dead" ELSE @]
          /\ CloseCall(cur, "CANCELLED")
       \/ /\ exc[cur] # "none"
          /\ UNCHANGED <<wpc, rpc, net, cstat>>
    /\ UNCHANGED <<c2s, half, taken, s2c, got, commands, inc, attempt, sent_ref, exc, results>>

\* wait_for expires while the hook still resolves the connection.
TimeoutStarting ==
    /\ pc = "start"
    /\ Yield("CANCELLED", "timeout", Empty)
    /\ UNCHANGED <<streamVars, commands, inc, attempt, coroVars>>

Missing(c) == {t \in Tids : results[c][t] = NoResult}
Failed(c)  == {t \in Tids \ Missing(c) : results[c][t].rc # 0}

\* gather returned: the analysis after the stream, and the event.
Analyse ==
    /\ pc = "streaming"
    /\ wpc[cur] = "done" /\ rpc[cur] = "done"
    /\ LET why == IF Missing(cur) # {} THEN "missing"
                  ELSE IF Failed(cur) # {} THEN "rc" ELSE "none"
       IN  Yield(IF why = "none" THEN "SUCCESS" ELSE "FAILED", why, results[cur])
    /\ UNCHANGED <<streamVars, commands, inc, attempt, coroVars>>

-----------------------------------------------------------------------------
(* _write.  The command about to be written is number sent_ref[c] + 1.     *)

next(c) == sent_ref[c] + 1

RemCmdMsg(t) == [tid |-> t, cmd |-> commands[t].cmd, hsh |-> Crc[commands[t].cmd]]

\* stream.write(msg) puts the message on the wire, or, on a call that broke
\* without the library knowing yet, nowhere; the coroutine waits either way.
Transmit(c) ==
    /\ wpc[c] = "write" /\ next(c) \in Tids /\ cstat[c] = "none"
    /\ commands[next(c)].wellTyped
    /\ \/ PutRequest(c, RemCmdMsg(next(c)))
       \/ net[c] = "closed" /\ UNCHANGED c2s
    /\ wpc' = [wpc EXCEPT ![c] = "await"]
    /\ UNCHANGED <<net, half, taken, s2c, got, cstat, runVars, sent_ref, rpc, exc, results>>

\* The await returns; only now is the write counted.
WriteCompletes(c) ==
    /\ wpc[c] = "await"
    /\ sent_ref' = [sent_ref EXCEPT ![c] = @ + 1]
    /\ wpc' = [wpc EXCEPT ![c] = "write"]
    /\ UNCHANGED <<streamVars, runVars, rpc, exc, results>>

WriterRaises(c, e) ==
    /\ wpc' = [wpc EXCEPT ![c] = "failed"]
    /\ exc' = [exc EXCEPT ![c] = IF @ = "none" THEN e ELSE @]
    /\ UNCHANGED <<streamVars, runVars, sent_ref, rpc, results>>

\* pb2.RemCmdMsg(...) raises TypeError.
BuildFails(c) ==
    /\ wpc[c] = "write" /\ next(c) \in Tids
    /\ ~commands[next(c)].wellTyped
    /\ WriterRaises(c, "exception")

\* write() or done_writing() on a call that has ended: AioRpcError with the
\* call's status, or InvalidStateError when the call object is already done.
WriteFails(c) ==
    /\ wpc[c] \in {"write", "await"}
    /\ wpc[c] = "write" /\ next(c) \in Tids => commands[next(c)].wellTyped
    /\ cstat[c] \notin {"none", "OK"}
    /\ \E e \in {cstat[c], "exception"} : WriterRaises(c, e)

\* stream.done_writing(): no effect and no error on a call that has ended.
WriterDone(c) ==
    /\ wpc[c] = "write" /\ next(c) \notin Tids
    /\ HalfClose(c)
    /\ wpc' = [wpc EXCEPT ![c] = "done"]
    /\ UNCHANGED <<net, c2s, taken, s2c, got, cstat, runVars, sent_ref, rpc, exc, results>>

-----------------------------------------------------------------------------
(* _read.                                                                  *)

\* Mutant of ReadResponse: responses are read after all writes, as one task would.
ReadAfterWrites(c) ==
    /\ rpc[c] = "read" /\ ResponseReady(c) /\ wpc[c] \notin {"write", "await"}
    /\ TakeResponse(c)
    /\ LET res == s2c[c][got[c] + 1] IN
       results' = [results EXCEPT ![c][res.tid] =
                      [rc |-> res.rc, out |-> res.out, cmd |-> commands[res.tid].cmd]]
    /\ UNCHANGED <<net, c2s, half, taken, s2c, cstat, runVars, sent_ref, wpc, rpc, exc>>

\* One response is filed under its tid, next to the command of that number.
ReadResponse(c) ==
    /\ rpc[c] = "read" /\ ResponseReady(c)
    /\ TakeResponse(c)
    /\ LET res == s2c[c][got[c] + 1] IN
       results' = [results EXCEPT ![c][res.tid] =
                      [rc |-> res.rc, out |-> res.out, cmd |-> commands[res.tid].cmd]]
    /\ UNCHANGED <<net, c2s, half, taken, s2c, cstat, runVars, sent_ref, wpc, rpc, exc>>

\* Mutant of ReaderDone: the status ends the loop with responses unread.
ReaderStopsAtStatus(c) ==
    /\ rpc[c] = "read" /\ cstat[c] = "OK"
    /\ rpc' = [rpc EXCEPT ![c] = "done"]
    /\ UNCHANGED <<streamVars, runVars, sent_ref, wpc, exc, results>>

\* The stream ends with OK after the last response.
ReaderDone(c) ==
    /\ rpc[c] = "read" /\ ~ResponseReady(c) /\ cstat[c] = "OK"
    /\ rpc' = [rpc EXCEPT ![c] = "done"]
    /\ UNCHANGED <<streamVars, runVars, sent_ref, wpc, exc, results>>

\* Mutant of ReaderRaises: the error is logged and swallowed.
ReaderSwallows(c) ==
    /\ rpc[c] = "read" /\ cstat[c] \notin {"none", "OK"}
    /\ rpc' = [rpc EXCEPT ![c] = "failed"]
    /\ UNCHANGED <<streamVars, runVars, sent_ref, wpc, exc, results>>

\* The stream ends with another status: AioRpcError.  Responses not yet read
\* may be lost.
ReaderRaises(c) ==
    /\ rpc[c] = "read" /\ cstat[c] \notin {"none", "OK"}
    /\ rpc' = [rpc EXCEPT ![c] = "failed"]
    /\ exc' = [exc EXCEPT ![c] = IF @ = "none" THEN cstat[c] ELSE @]
    /\ UNCHANGED <<streamVars, runVars, sent_ref, wpc, results>>

-----------------------------------------------------------------------------
\* External: Airflow, and the death of a process.  The coroutines are gone, the
\* sockets are closed, and Airflow rebuilds the trigger from serialize() in
\* another triggerer, unless it has had the trigger's event.
TriggererRestart ==
    /\ pc # "done" /\ inc < MaxRestarts
    /\ inc' = inc + 1 /\ attempt' = 1 /\ pc' = "start"
    /\ wpc' = [c \in Calls |-> IF wpc[c] \in Unfinished THEN "dead" ELSE wpc[c]]
    /\ rpc' = [c \in Calls |-> IF rpc[c] \in Unfinished THEN "dead" ELSE rpc[c]]
    /\ net' = [c \in Calls |-> IF net[c] = "open" THEN "closed" ELSE net[c]]
    /\ UNCHANGED <<c2s, half, taken, s2c, got, cstat, commands, event, sent_ref, exc, results>>

WriterStep(c) ==
    Transmit(c) \/ WriteCompletes(c) \/ BuildFails(c) \/ WriteFails(c) \/ WriterDone(c)

ReaderStep(c) == ReadResponse(c) \/ ReaderDone(c) \/ ReaderRaises(c)

RunStep == OpenStream \/ Retry \/ GiveUp \/ Analyse
=============================================================================
