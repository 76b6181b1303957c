----------------------------- MODULE CliStream -----------------------------
(***************************************************************************)
(* The two command-line clients on RemCmdStrm, against the server of       *)
(* ProcessStream.                                                          *)
(*   "cpp": RemSvcClient::doRemCmdStrm is one thread; it writes every      *)
(*          command, half-closes and only then reads.                      *)
(*   "py":  doCmdStream of RemSvc_client.py reads in a task of its own     *)
(*          while it writes, and gives the call no deadline.               *)
(***************************************************************************)
EXTENDS ProcessStream

CONSTANTS
    Call,           \* the only call
    Clients,        \* the clients to consider: "cpp", "py"
    CommandLists,   \* the lists of commands they may be given
    Configs         \* server configurations to consider

ASSUME CliAssumption ==
    /\ Calls = {Call} /\ Clients \subseteq {"cpp", "py"}
    /\ CommandLists \subseteq Seq(Cmds) /\ Configs \subseteq Config
    /\ TransportCodes \cap {"none", "OK"} = {}

VARIABLES
    client,    \* which client runs
    commands,  \* the commands given, in order
    calm,      \* no fault happens and no timer expires
    cpc,     \* the client: "start", "write", "read" (half-closed), "finish", "done"
    reader,  \* "py": the task readResponses, "running" or "over"
    garbled, \* a response could not be parsed
    sent,    \* commands written
    rv       \* "cpp": the value returned, -1 before that

N == Len(commands)

given   == <<client, commands, calm>>
cliVars == <<cpc, reader, garbled, sent, rv, given>>
vars == <<streamVars, serverVars, cliVars>>

Init ==
    /\ StreamInit /\ ServerInit(Configs)
    /\ client \in Clients /\ commands \in CommandLists /\ calm \in BOOLEAN
    /\ cpc = "start" /\ reader = "running" /\ garbled = FALSE /\ sent = 0 /\ rv = -1

RemCmdMsg(t) == [tid |-> t, cmd |-> commands[t], hsh |-> Crc[commands[t]]]

Broken == cstat[Call] \notin {"none", "OK"}

-----------------------------------------------------------------------------
OpenStream ==
    /\ cpc = "start" /\ OpenCall(Call) /\ cpc' = "write"
    /\ UNCHANGED <<c2s, half, taken, s2c, got, cstat, serverVars, reader, garbled, sent, rv, given>>

\* Write returns true when the message is on its way, which on a call that has
\* just broken is nowhere.
WriteNext ==
    /\ cpc = "write" /\ sent < N /\ cstat[Call] = "none"
    /\ \/ PutRequest(Call, RemCmdMsg(sent + 1))
       \/ net[Call] = "closed" /\ UNCHANGED c2s
    /\ sent' = sent + 1
    /\ UNCHANGED <<net, half, taken, s2c, got, cstat, serverVars, cpc, reader, garbled, rv, given>>

\* "cpp": Write returns false, the loop is left and WritesDone has no effect.
WriteRefused ==
    /\ client = "cpp" /\ cpc = "write" /\ sent < N /\ cstat[Call] # "none"
    /\ cpc' = "read"
    /\ UNCHANGED <<streamVars, serverVars, reader, garbled, sent, rv, given>>

\* "py": stream.write raises; nothing catches it and the client dies with it.
WriteRaises ==
    /\ client = "py" /\ cpc = "write" /\ sent < N /\ Broken
    /\ cpc' = "done"
    /\ UNCHANGED <<streamVars, serverVars, reader, garbled, sent, rv, given>>

\* WritesDone() / done_writing().
HalfCloseAll ==
    /\ cpc = "write" /\ sent = N
    /\ HalfClose(Call) /\ cpc' = "read"
    /\ UNCHANGED <<net, c2s, taken, s2c, got, cstat, serverVars, reader, garbled, sent, rv, given>>

\* Mutant of Reading: the C++ client reads while it writes.
ReadingEarly == cpc \in {"write", "read"}

\* When the client reads: after its writes, or in its own task.
Reading ==
    \/ client = "cpp" /\ cpc = "read"
    \/ client = "py"  /\ cpc \in {"write", "read"} /\ reader = "running"

\* Mutant of ReadOne: the Python client, too, reads only after its writes.
ReadOneLate ==
    /\ Reading /\ cpc = "read" /\ ResponseReady(Call) /\ TakeResponse(Call)
    /\ UNCHANGED <<net, c2s, half, taken, s2c, cstat, serverVars, cliVars>>

\* One response is read and logged; its exit code is not looked at.
ReadOne ==
    /\ Reading /\ ResponseReady(Call) /\ TakeResponse(Call)
    /\ UNCHANGED <<net, c2s, half, taken, s2c, cstat, serverVars, cliVars>>

\* Mutant of FinishCall: the status is taken for granted.
FinishIgnored ==
    /\ client = "cpp" /\ Reading
    /\ Broken \/ (cstat[Call] = "OK" /\ ~ResponseReady(Call))
    /\ rv' = 0
    /\ cpc' = "done"
    /\ UNCHANGED <<streamVars, serverVars, reader, garbled, sent, given>>

\* "cpp": Read returns false, and Finish yields the status of the call.  The
\* responses of a call that was torn down may be lost.
FinishCall ==
    /\ client = "cpp" /\ Reading
    /\ Broken \/ (cstat[Call] = "OK" /\ ~ResponseReady(Call))
    /\ rv' = IF Broken THEN 1 ELSE 0
    /\ cpc' = "done"
    /\ UNCHANGED <<streamVars, serverVars, reader, garbled, sent, given>>

\* "py": the stream ends, or AioRpcError is caught and printed.
ReaderEnds ==
    /\ client = "py" /\ Reading
    /\ Broken \/ (cstat[Call] = "OK" /\ ~ResponseReady(Call))
    /\ reader' = "over"
    /\ UNCHANGED <<streamVars, serverVars, cpc, garbled, sent, rv, given>>

\* A response that protobuf cannot parse, because a command printed text that is
\* not UTF-8.  "cpp": Read returns false before the end of the stream.  "py": the
\* iterator yields None, and the loop's body raises; the task keeps the exception.
ReadGarbled ==
    /\ Reading /\ ResponseReady(Call) /\ TakeResponse(Call)
    /\ garbled' = TRUE
    /\ \/ client = "cpp" /\ cpc' = "finish" /\ UNCHANGED reader
       \/ client = "py" /\ reader' = "over" /\ UNCHANGED cpc
    /\ UNCHANGED <<net, c2s, half, taken, s2c, cstat, serverVars, sent, rv, given>>

\* "cpp": Finish then waits for the status.  While responses are left unread,
\* gRPC may have the status or wait for the deadline.
FinishGarbled ==
    /\ client = "cpp" /\ cpc = "finish" /\ cstat[Call] # "none"
    /\ cpc' = "done" /\ rv' \in {0, 1}
    /\ Broken => rv' = 1
    /\ ~Broken /\ ~ResponseReady(Call) => rv' = 0
    /\ UNCHANGED <<streamVars, serverVars, reader, garbled, sent, given>>

\* "py": await reader_task returns, or raises what the task has kept.
AwaitReader ==
    /\ client = "py" /\ cpc = "read" /\ reader = "over"
    /\ cpc' = "done"
    /\ UNCHANGED <<streamVars, serverVars, reader, garbled, sent, rv, given>>

CliWriter == OpenStream \/ WriteNext \/ WriteRefused \/ WriteRaises \/ HalfCloseAll
CliReader ==
    ReadOne \/ FinishCall \/ ReaderEnds \/ AwaitReader \/ ReadGarbled \/ FinishGarbled

Server ==
    /\ RemCmdStrm(Call) \/ HandlerStep(Call) \/ StatusDelivered(Call)
    /\ UNCHANGED cliVars

\* set_deadline(30 s), which only the C++ client does.
CliDeadline ==
    /\ ~calm /\ client = "cpp" /\ cpc # "done"
    /\ DeadlineFires(Call) /\ UNCHANGED <<serverVars, cliVars>>

LinkLoses == ~calm /\ ConnLost(Call) /\ UNCHANGED <<serverVars, cliVars>>

LinkReports ==
    /\ \E code \in TransportCodes : LossReported(Call, code)
    /\ UNCHANGED <<serverVars, cliVars>>

\* The client is gone and the handler has returned.
Over == cpc = "done" /\ hpc[Call] = "done" /\ UNCHANGED vars

Next == CliWriter \/ CliReader \/ Server \/ CliDeadline \/ LinkLoses \/ LinkReports \/ Over

Spec == Init /\ [][Next]_vars

\* Threads and the event loop run, gRPC delivers, and the deadline fires where
\* there is one.  Nothing makes the library report a broken call, and no response
\* has to be one that cannot be parsed.
FairSpec ==
    /\ Spec /\ WF_vars(CliWriter) /\ WF_vars(CliReader /\ UNCHANGED garbled) /\ WF_vars(Server)
    /\ WF_vars(CliDeadline)

-----------------------------------------------------------------------------
\* doRemCmdStrm returns 0 only when every command has been run, in order, and
\* every response has been read, up to one that cannot be parsed: a write cut
\* short, a rejection or a broken call never look like success, although Write's
\* failure is only logged.
ZeroMeansAllAnswered ==
    rv = 0 =>
        /\ sent = N /\ Len(exits[Call]) = N
        /\ \A t \in 1 .. N : runs[Call][t] = RemCmdMsg(t)
        /\ garbled \/ got[Call] = N

\* Requests in flight, one response in the handler's hand, responses in flight:
\* what fits between a client that does not read and a server that does not stop.
Capacity == 2 * Window + 1

\* The client has more commands than fit, and the server takes as many as it can:
\* it answers Window of them, and has one more answer in hand.
Stalls ==
    /\ client = "cpp" /\ N > Capacity
    /\ \A t \in 1 .. Window + 1 : Permitted(config, commands[t])

\* The C++ client with one command too many waits for the server, which waits for
\* the client: without the deadline the call never ends.
StallsBeyondCapacity == calm /\ Stalls => cpc # "done"

\* The connection is gone and the client is not told.
LostSilently == net[Call] = "closed" /\ cstat[Call] = "none"

\* When every response can be parsed both clients end: without any timer when
\* nothing breaks and the commands fit, or the client reads while it writes.  With
\* faults the C++ client ends by its deadline, also when it stalls, cannot parse a
\* response or is never told that the connection is gone; the Python client has
\* no deadline, and ends unless the loss is silent.  The handler thread of the
\* call comes back where no fault happens or the client's deadline reaches it.
AlwaysEnds ==
    \/ calm /\ (Stalls \/ <>garbled)
    \/ client = "py" /\ (<>[]LostSilently \/ <>garbled)
    \/ /\ <>(cpc = "done")
       /\ (calm \/ client = "cpp") /\ hpc[Call] # "none" ~> hpc[Call] = "done"
=============================================================================
