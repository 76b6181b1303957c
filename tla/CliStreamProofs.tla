-------------------------- MODULE CliStreamProofs --------------------------
(***************************************************************************)
(* Theorems about CliStream, for every list of commands, window and server *)
(* configuration.  The counts of messages at each stage of the call are    *)
(* compared with one another; what a stage holds follows from its count.   *)
(***************************************************************************)
EXTENDS CliStream, CommandPolicyProofs, TLAPS

-----------------------------------------------------------------------------
(* The stages of the call, and how far each has come.                      *)

Net       == net[Call]
Requested == Len(c2s[Call])     \* requests on the wire
Closed    == half[Call]
Taken     == taken[Call]        \* requests the handler has read
Ran       == Len(runs[Call])    \* commands handed to the runner
Exited    == Len(exits[Call])   \* commands that ended
Answered  == Len(s2c[Call])     \* responses on the wire
Got       == got[Call]          \* responses the client has read
Status    == cstat[Call]
Handler   == hpc[Call]
Result    == hstat[Call]

\* The parts of the state a step concerns.
wire    == <<Net, Requested, Closed, Taken, Answered, Got, Status>>
handler == <<Handler, Result, Ran, Exited>>
program == <<cpc, garbled, sent, rv, client, commands, calm, config>>

-----------------------------------------------------------------------------
(* The inductive invariant.                                                *)

Message   == Request(Nat)
Response  == [tid : Nat, rc : {0, 1}, out : Cmds, hsh : Hashes \cup {NoHash}]
Verdicts  == {"OK", "PERMISSION_DENIED", "INVALID_ARGUMENT"}
AllCodes  == Verdicts \cup {"none", "DEADLINE_EXCEEDED"} \cup TransportCodes

Types ==
    /\ net   \in [Calls -> {"idle", "open", "closed"}]
    /\ c2s   \in [Calls -> Seq(Message)]
    /\ half  \in [Calls -> BOOLEAN]
    /\ taken \in [Calls -> Nat]
    /\ s2c   \in [Calls -> Seq(Response)]
    /\ got   \in [Calls -> Nat]
    /\ cstat \in [Calls -> AllCodes]
    /\ config \in Configs
    /\ hpc   \in [Calls -> {"none", "read", "run", "write", "done"}]
    /\ hstat \in [Calls -> Verdicts \cup {"none"}]
    /\ exits \in [Calls -> Seq({0, 1})]
    /\ runs  \in [Calls -> Seq(Message)]
    /\ client \in Clients /\ commands \in CommandLists
    /\ cpc \in {"start", "write", "read", "finish", "done"} /\ garbled \in BOOLEAN /\ sent \in Nat /\ rv \in {-1, 0, 1}

\* The client has counted what it wrote; what it wrote is on the wire unless the
\* call broke, and the half-close comes after the last command.
ClientCounts ==
    /\ Net = "idle" <=> cpc = "start"
    /\ Net = "idle" => sent = 0 /\ Requested = 0 /\ Handler = "none"
    /\ Net # "closed" => Status = "none"
    /\ Requested <= sent /\ sent <= N
    /\ Net = "open" => Requested = sent
    /\ Closed => Requested = N /\ sent = N /\ cpc \in {"read", "finish", "done"}

\* The handler runs what it reads, and has one command or one answer in hand.
HandlerCounts ==
    /\ Taken <= Requested /\ Ran <= Taken
    /\ Handler # "done" => Ran = Taken /\ Result = "none"
    /\ Handler = "none" => Taken = 0
    /\ Handler = "run" => Exited + 1 = Ran
    /\ Handler # "run" => Exited = Ran
    /\ Handler = "write" => Exited > 0
    /\ Got <= Answered /\ Answered <= Exited
    /\ Net # "closed" /\ Handler = "write" => Answered + 1 = Exited
    /\ Net # "closed" /\ Handler # "write" => Answered = Exited

\* A handler returns OK on a live call only at the end of the stream, so a client
\* that sees OK has an answer to every command on the wire, or waiting for it.
OKMeansAll ==
    /\ Net # "closed" /\ Result = "OK" => Closed /\ Ran = Requested
    /\ Status = "OK" => /\ Closed /\ Handler = "done"
                        /\ Ran = N /\ Exited = N /\ Answered = N
    /\ cpc = "finish" => garbled
    /\ rv = 0 => client = "cpp" /\ cpc = "done" /\ Status = "OK" /\ (garbled \/ Got = N)

Counts == ClientCounts /\ HandlerCounts /\ OKMeansAll

\* The k-th request is command number k, and it is the k-th to run.
InOrder ==
    /\ \A k \in 1 .. Requested : c2s[Call][k] = RemCmdMsg(k)
    /\ \A k \in 1 .. Ran : runs[Call][k] = c2s[Call][k]

\* A client that does not read leaves the server room for Window answers and one
\* in hand, and the server leaves the client room for Window requests.
Stuck ==
    /\ cpc \in {"start", "write"} /\ Net # "closed"
    /\ Handler # "done" /\ Got = 0
    /\ Answered <= Window /\ Taken <= Window + 1
    /\ Requested <= Taken + Window

StallInv == calm /\ Stalls => Stuck

Inv == Types /\ Counts /\ InOrder /\ StallInv

-----------------------------------------------------------------------------
(* Facts about the state functions.                                        *)

\* There is one call.
LEMMA OneCall == Call \in Calls
BY CliAssumption

\* The counts are numbers.
LEMMA CountTypes ==
    ASSUME Types
    PROVE  /\ Net \in {"idle", "open", "closed"} /\ Closed \in BOOLEAN
           /\ Requested \in Nat /\ Taken \in Nat /\ Ran \in Nat /\ Exited \in Nat
           /\ Answered \in Nat /\ Got \in Nat /\ sent \in Nat
           /\ Handler \in {"none", "read", "run", "write", "done"}
           /\ N \in Nat /\ Window \in Nat /\ Window > 0
<1>1. Net \in {"idle", "open", "closed"} /\ Closed \in BOOLEAN /\ Taken \in Nat /\ Got \in Nat
      /\ Handler \in {"none", "read", "run", "write", "done"} /\ sent \in Nat
    BY OneCall DEF Types, Net, Closed, Taken, Got, Handler
<1>2. /\ c2s[Call] \in Seq(Message) /\ runs[Call] \in Seq(Message)
      /\ exits[Call] \in Seq({0, 1}) /\ s2c[Call] \in Seq(Response)
    BY OneCall DEF Types
<1>3. Requested \in Nat /\ Ran \in Nat /\ Exited \in Nat /\ Answered \in Nat
    BY <1>2 DEF Requested, Ran, Exited, Answered
<1>4. commands \in Seq(Cmds)
    BY CliAssumption DEF Types
<1> QED
    BY <1>1, <1>3, <1>4, WindowAssumption DEF N

\* The message that carries command t.
LEMMA MessageType ==
    ASSUME Types, NEW t \in 1 .. N
    PROVE  RemCmdMsg(t) \in Message
<1>1. commands \in Seq(Cmds) /\ N = Len(commands)
    BY CliAssumption DEF Types, N
<1>2. commands[t] \in Cmds /\ t \in Nat
    BY <1>1
<1>3. Crc[commands[t]] \in Hashes
    BY <1>2, CrcAssumption
<1> QED
    BY <1>2, <1>3 DEF RemCmdMsg, Message, Request

\* A verdict is one of three.
LEMMA VerdictCodes == ASSUME NEW cf, NEW r PROVE Verdict(cf, r) \in Verdicts
BY DEF Verdict, Verdicts

\* The commands that may not be turned away are not.
LEMMA StallFacts ==
    ASSUME Types, Stalls
    PROVE  /\ client = "cpp" /\ N > 2 * Window + 1
           /\ \A t \in 1 .. Window + 1 : Verdict(config, RemCmdMsg(t)) = "OK"
<1>1. client = "cpp" /\ N > 2 * Window + 1
    BY DEF Stalls, Capacity
<1>2. ASSUME NEW t \in 1 .. Window + 1 PROVE Verdict(config, RemCmdMsg(t)) = "OK"
  <2> DEFINE r == RemCmdMsg(t)
  <2>1. r.cmd = commands[t] /\ r.hsh = Crc[commands[t]]
      BY DEF RemCmdMsg
  <2>2. Permitted(config, r.cmd) /\ hashMatches(r)
      BY <2>1 DEF Stalls, hashMatches
  <2>3. config \in Config
      BY CliAssumption DEF Types
  <2> HIDE DEF r
  <2>4. Verdict(config, r) = "OK"
      BY <2>2, <2>3, PolicyIsNotNarrowed
  <2> QED
      BY <2>4 DEF r
<1> QED
    BY <1>1, <1>2

\* What was given does not change.
LEMMA GivenKept ==
    ASSUME UNCHANGED <<client, commands, calm, config>>
    PROVE  N' = N /\ (calm /\ Stalls)' = (calm /\ Stalls) /\ \A t : RemCmdMsg(t)' = RemCmdMsg(t)
BY DEF N, Stalls, Capacity, RemCmdMsg

\* The order is untouched by a step that puts no request and runs no command.
LEMMA OrderKept ==
    ASSUME InOrder, UNCHANGED <<client, commands, calm, config>>,
           c2s'[Call] = c2s[Call], runs'[Call] = runs[Call]
    PROVE  InOrder'
BY GivenKept DEF InOrder, Requested, Ran

-----------------------------------------------------------------------------
(* The steps of the client.                                                *)

\* A step of the client that touches neither the wire nor the handler.
LEMMA ProgramStep ==
    ASSUME Inv, UNCHANGED <<streamVars, serverVars, garbled, client, commands, calm>>,
           Net # "idle", cpc # "start", cpc' \in {"write", "read", "done"},
           sent' \in Nat, sent <= sent', sent' <= N, Net = "open" => sent' = sent,
           cpc' = "write" => cpc = "write",
           rv' \in {-1, 0, 1},
           rv' = 0 => client = "cpp" /\ cpc' = "done" /\ Status = "OK" /\ (garbled \/ Got = N),
           calm /\ Stalls => cpc' = "write"
    PROVE  Inv'
<1>1. UNCHANGED <<wire, handler, garbled, client, commands, calm, config>>
    BY DEF streamVars, serverVars, wire, handler, Net, Requested, Closed, Taken, Answered,
           Got, Status, Handler, Result, Ran, Exited
<1>2. Types'
    BY DEF Inv, Types, streamVars, serverVars
<1>3. Counts'
    BY <1>1, GivenKept, CountTypes
    DEF Inv, Counts, ClientCounts, HandlerCounts, OKMeansAll, wire, handler
<1>4. InOrder'
    BY <1>1, OrderKept DEF Inv, streamVars, serverVars
<1>5. StallInv'
    BY <1>1, GivenKept DEF Inv, StallInv, Stuck, wire, handler
<1> QED
    BY <1>2, <1>3, <1>4, <1>5 DEF Inv

\* The call is opened.
LEMMA OpenStep == ASSUME Inv, OpenStream PROVE Inv'
<1>1. /\ net' = [net EXCEPT ![Call] = "open"] /\ net[Call] = "idle"
      /\ cpc = "start" /\ cpc' = "write"
      /\ UNCHANGED <<c2s, half, taken, s2c, got, cstat, serverVars, reader, garbled, sent, rv, given>>
    BY DEF OpenStream, OpenCall
<1>2. /\ Net = "idle" /\ Net' = "open"
      /\ UNCHANGED <<Requested, Closed, Taken, Answered, Got, Status, handler>>
      /\ UNCHANGED <<garbled, sent, rv, client, commands, calm, config>>
    BY <1>1, OneCall DEF Inv, Types, given, serverVars, handler, Net, Requested, Closed, Taken,
           Answered, Got, Status, Handler, Result, Ran, Exited
<1>3. Types'
    BY <1>1 DEF Inv, Types, serverVars, given
<1>4. Counts'
    BY <1>1, <1>2, GivenKept, CountTypes
    DEF Inv, Counts, ClientCounts, HandlerCounts, OKMeansAll, handler
<1>5. InOrder'
    BY <1>1, <1>2, OrderKept DEF Inv, serverVars
<1>6. StallInv'
    BY <1>1, <1>2, GivenKept DEF Inv, StallInv, Stuck, handler
<1> QED
    BY <1>3, <1>4, <1>5, <1>6 DEF Inv

\* The client writes the next command.
LEMMA WriteStep == ASSUME Inv, WriteNext PROVE Inv'
<1> DEFINE m == RemCmdMsg(sent + 1)
<1>1. /\ cpc = "write" /\ sent < N /\ sent' = sent + 1
      /\ UNCHANGED <<net, half, taken, s2c, got, cstat, serverVars, cpc, reader, garbled, rv, given>>
    BY DEF WriteNext
<1>2. sent \in Nat /\ N \in Nat /\ sent + 1 \in 1 .. N
    BY <1>1, CountTypes DEF Inv
<1>3. CASE net[Call] = "closed" /\ UNCHANGED c2s
  <2>1. Net = "closed" /\ UNCHANGED <<streamVars, serverVars, garbled, client, commands, calm>>
      BY <1>1, <1>3 DEF Net, streamVars, given
  <2>2. ~(calm /\ Stalls)
      BY <2>1 DEF Inv, StallInv, Stuck
  <2>3. rv # 0 /\ rv \in {-1, 0, 1}
      BY <1>1 DEF Inv, Types, Counts, OKMeansAll
  <2> QED
      BY <1>1, <1>2, <2>1, <2>2, <2>3, ProgramStep
<1>4. CASE PutRequest(Call, m)
  <2>1. /\ net[Call] = "open" /\ Len(c2s[Call]) - taken[Call] < Window
        /\ c2s' = [c2s EXCEPT ![Call] = Append(c2s[Call], m)]
      BY <1>4 DEF PutRequest
  <2>2. m \in Message /\ c2s[Call] \in Seq(Message)
      BY <1>2, MessageType, OneCall DEF Inv, Types
  <2> HIDE DEF m
  <2>3. c2s' \in [Calls -> Seq(Message)] /\ c2s'[Call] = Append(c2s[Call], m)
      BY <2>1, <2>2, OneCall DEF Inv, Types
  <2>4. /\ Requested' = Requested + 1 /\ c2s'[Call][Requested + 1] = m
        /\ \A k \in 1 .. Requested : c2s'[Call][k] = c2s[Call][k]
      BY <2>2, <2>3 DEF Requested
  <2>5. /\ Net = "open" /\ Requested - Taken < Window
        /\ UNCHANGED <<Net, Closed, Taken, Answered, Got, Status, handler>>
        /\ UNCHANGED <<cpc, garbled, rv, client, commands, calm, config>>
      BY <1>1, <2>1 DEF given, serverVars, handler, Net, Requested, Closed, Taken,
             Answered, Got, Status, Handler, Result, Ran, Exited
  <2>6. Types'
      BY <1>1, <1>2, <2>3 DEF Inv, Types, serverVars, given
  <2>7. Counts'
      BY <1>1, <1>2, <2>4, <2>5, GivenKept, CountTypes
      DEF Inv, Counts, ClientCounts, HandlerCounts, OKMeansAll, handler
  <2>8. InOrder'
    <3>1. Requested = sent /\ Requested \in Nat /\ Ran \in Nat /\ Ran <= Requested
        BY <2>5, CountTypes DEF Inv, Counts, ClientCounts, HandlerCounts, Types
    <3>2. ASSUME NEW k \in 1 .. Requested' PROVE c2s'[Call][k] = RemCmdMsg(k)
      <4>1. k \in 1 .. Requested \/ k = sent + 1
          BY <2>4, <3>1
      <4> QED
          BY <2>4, <3>1, <4>1 DEF Inv, InOrder, m
    <3>3. Ran' = Ran /\ runs' = runs
        BY <1>1, <2>5 DEF serverVars, handler
    <3>4. ASSUME NEW k \in 1 .. Ran PROVE runs[Call][k] = c2s'[Call][k]
        BY <2>4, <3>1 DEF Inv, InOrder
    <3>5. \A k : RemCmdMsg(k)' = RemCmdMsg(k)
        BY <2>5, GivenKept
    <3> QED
        BY <3>2, <3>3, <3>4, <3>5 DEF InOrder
  <2>9. StallInv'
      BY <1>1, <1>2, <2>4, <2>5, GivenKept, CountTypes DEF Inv, StallInv, Stuck, handler
  <2> QED
      BY <2>6, <2>7, <2>8, <2>9 DEF Inv
<1> QED
    BY <1>3, <1>4 DEF WriteNext

\* The client has written everything and half-closes.
LEMMA HalfCloseStep == ASSUME Inv, HalfCloseAll PROVE Inv'
<1>1. /\ cpc = "write" /\ sent = N /\ cpc' = "read"
      /\ half' = [half EXCEPT ![Call] = half[Call] \/ net[Call] = "open"]
      /\ UNCHANGED <<net, c2s, taken, s2c, got, cstat, serverVars, reader, garbled, sent, rv, given>>
    BY DEF HalfCloseAll, HalfClose
<1>2. Closed' = (Closed \/ Net = "open")
    BY <1>1, OneCall DEF Inv, Types, Closed, Net
<1>3. /\ UNCHANGED <<Net, Requested, Taken, Answered, Got, Status, handler>>
      /\ UNCHANGED <<garbled, sent, rv, client, commands, calm, config>>
    BY <1>1 DEF given, serverVars, handler, Net, Requested, Taken,
           Answered, Got, Status, Handler, Result, Ran, Exited
<1>4. Types'
  <2>1. half' \in [Calls -> BOOLEAN]
      BY <1>1, OneCall DEF Inv, Types
  <2> QED
      BY <1>1, <2>1 DEF Inv, Types, serverVars, given
<1>5. ClientCounts' /\ OKMeansAll'
    BY <1>1, <1>2, <1>3, GivenKept, CountTypes
    DEF Inv, Counts, ClientCounts, OKMeansAll, handler
<1>6. HandlerCounts'
    BY <1>3 DEF Inv, Counts, HandlerCounts, handler
<1>7. InOrder'
    BY <1>1, <1>3, OrderKept DEF Inv, serverVars
<1>8. ~(calm /\ Stalls)
  <2> SUFFICES ASSUME calm, Stalls PROVE FALSE
      OBVIOUS
  <2>1. Stuck /\ N > 2 * Window + 1
      BY StallFacts DEF Inv, StallInv
  <2>2. Net = "open"
      BY <1>1, <2>1, CountTypes DEF Inv, Counts, ClientCounts, Stuck
  <2>3. Requested = N
      BY <1>1, <2>2 DEF Inv, Counts, ClientCounts
  <2> QED
      BY <2>1, <2>3, CountTypes DEF Inv, Stuck
<1>9. StallInv'
    BY <1>3, <1>8, GivenKept DEF StallInv
<1> QED
    BY <1>4, <1>5, <1>6, <1>7, <1>9 DEF Inv, Counts

\* The client reads a response, one that it can parse or one that it cannot.
LEMMA ReadStep == ASSUME Inv, ReadOne \/ ReadGarbled PROVE Inv'
<1>1. /\ Reading /\ got[Call] < Len(s2c[Call]) /\ got' = [got EXCEPT ![Call] = got[Call] + 1]
      /\ UNCHANGED <<net, c2s, half, taken, s2c, cstat, serverVars, sent, rv, given>>
    BY DEF ReadOne, ReadGarbled, ResponseReady, TakeResponse, cliVars
<1>2. /\ Got < Answered /\ Got' = Got + 1
      /\ UNCHANGED <<Net, Requested, Closed, Taken, Answered, Status, handler>>
      /\ UNCHANGED <<sent, rv, client, commands, calm, config>>
    BY <1>1, OneCall DEF Inv, Types, given, serverVars, handler, Net, Requested,
           Closed, Taken, Answered, Got, Status, Handler, Result, Ran, Exited
<1>3. /\ cpc # "start" /\ garbled' \in BOOLEAN
      /\ \/ cpc' = cpc /\ (cpc = "finish" => garbled')
         \/ cpc = "read" /\ cpc' = "finish" /\ garbled'
    BY DEF ReadOne, ReadGarbled, Reading, cliVars, Inv, Types, Counts, OKMeansAll
<1>4. Types'
  <2>1. got' \in [Calls -> Nat]
      BY <1>1, OneCall DEF Inv, Types
  <2>2. cpc' \in {"start", "write", "read", "finish", "done"}
      BY <1>3 DEF Inv, Types
  <2> QED
      BY <1>1, <1>3, <2>1, <2>2 DEF Inv, Types, serverVars, given
<1>5. ClientCounts' /\ HandlerCounts'
    BY <1>2, <1>3, GivenKept, CountTypes DEF Inv, Counts, ClientCounts, HandlerCounts, handler
<1>6. rv # 0
    BY <1>1 DEF Reading, Inv, Counts, OKMeansAll
<1>7. OKMeansAll'
    BY <1>2, <1>3, <1>6, GivenKept DEF Inv, Counts, OKMeansAll, handler
<1>8. InOrder'
    BY <1>1, <1>2, OrderKept DEF Inv, serverVars
<1>9. ~(calm /\ Stalls)
    BY <1>1, StallFacts DEF Inv, StallInv, Stuck, Reading
<1>10. StallInv'
    BY <1>2, <1>9, GivenKept DEF StallInv
<1> QED
    BY <1>4, <1>5, <1>7, <1>8, <1>10 DEF Inv, Counts

\* The client leaves its loop, or its call.
LEMMA LeaveStep ==
    ASSUME Inv, \/ WriteRefused \/ WriteRaises \/ FinishCall
                \/ FinishGarbled \/ ReaderEnds \/ AwaitReader
    PROVE  Inv'
<1>1. UNCHANGED <<streamVars, serverVars, garbled, client, commands, calm, sent>>
    BY DEF WriteRefused, WriteRaises, FinishCall, FinishGarbled, ReaderEnds, AwaitReader, given
<1>2. sent \in Nat /\ sent <= N /\ N \in Nat /\ rv \in {-1, 0, 1}
    BY CountTypes DEF Inv, Types, Counts, ClientCounts
<1>3. cpc # "start" /\ Net # "idle"
    BY DEF WriteRefused, WriteRaises, FinishCall, FinishGarbled, ReaderEnds, AwaitReader, Reading,
           Inv, Counts, ClientCounts
<1>4. cpc' \in {"write", "read", "done"} /\ (cpc' = "write" => cpc = "write")
    BY DEF WriteRefused, WriteRaises, FinishCall, FinishGarbled, ReaderEnds, AwaitReader, Reading
<1>5. calm /\ Stalls => FALSE
  <2> SUFFICES ASSUME calm, Stalls PROVE FALSE
      OBVIOUS
  <2>1. Stuck /\ client = "cpp" /\ Status = "none"
      BY StallFacts DEF Inv, StallInv, Stuck, Counts, ClientCounts
  <2> QED
      BY <2>1 DEF Stuck, WriteRefused, WriteRaises, FinishCall, FinishGarbled, ReaderEnds, AwaitReader, Reading,
             Status
<1>6. CASE FinishCall
  <2>1. /\ client = "cpp" /\ cpc' = "done" /\ rv' = IF Broken THEN 1 ELSE 0
        /\ Broken \/ (cstat[Call] = "OK" /\ ~ResponseReady(Call))
      BY <1>6 DEF FinishCall
  <2>2. ASSUME rv' = 0 PROVE Status = "OK" /\ Got = N
    <3>1. Status = "OK" /\ ~(Got < Answered)
        BY <2>1, <2>2 DEF Status, ResponseReady, Got, Answered
    <3> QED
        BY <3>1, CountTypes DEF Inv, Counts, HandlerCounts, OKMeansAll
  <2> QED
      BY <1>1, <1>2, <1>3, <1>4, <1>5, <2>1, <2>2, ProgramStep
<1>7. CASE FinishGarbled
  <2>1. /\ client = "cpp" /\ cpc = "finish" /\ cpc' = "done" /\ rv' \in {0, 1}
        /\ cstat[Call] # "none" /\ (Broken => rv' = 1)
      BY <1>7 DEF FinishGarbled
  <2>2. garbled
      BY <2>1 DEF Inv, Counts, OKMeansAll
  <2>3. rv' = 0 => Status = "OK"
      BY <2>1 DEF Broken, Status
  <2> QED
      BY <1>1, <1>2, <1>3, <1>4, <1>5, <2>1, <2>2, <2>3, ProgramStep
<1>8. CASE ~FinishCall /\ ~FinishGarbled
  <2>1. rv' = rv
      BY <1>8 DEF WriteRefused, WriteRaises, ReaderEnds, AwaitReader
  <2>2. rv # 0
      BY <1>8 DEF WriteRefused, WriteRaises, ReaderEnds, AwaitReader, Inv, Counts, OKMeansAll
  <2> QED
      BY <1>1, <1>2, <1>3, <1>4, <1>5, <2>1, <2>2, ProgramStep
<1> QED
    BY <1>6, <1>7, <1>8

-----------------------------------------------------------------------------
(* The steps of the handler.                                               *)

\* A step of the handler that moves no message: it starts, or returns status k.
LEMMA HandlerMoves ==
    ASSUME Inv, NEW h \in {"read", "done"}, NEW k \in Verdicts \cup {"none"},
           NEW n \in Nat, n = taken[Call] \/ (n = taken[Call] + 1 /\ h = "done"),
           n <= Requested,
           Net # "idle", Handler \in {"none", "read"},
           h = "done" <=> k # "none", h = "read" => Handler = "none",
           k = "OK" => n = taken[Call] /\ (Net = "closed" \/ (Closed /\ n = Requested)),
           calm /\ Stalls => h # "done",
           hpc' = [hpc EXCEPT ![Call] = h], hstat' = [hstat EXCEPT ![Call] = k],
           taken' = [taken EXCEPT ![Call] = n],
           UNCHANGED <<net, c2s, half, s2c, got, cstat, config, exits, runs, cliVars>>
    PROVE  Inv'
<1>1. /\ Handler' = h /\ Result' = k /\ Taken' = n
      /\ UNCHANGED <<Net, Requested, Closed, Answered, Got, Status, Ran, Exited, program>>
    BY OneCall DEF Inv, Types, cliVars, given, program, Net, Requested,
           Closed, Taken, Answered, Got, Status, Handler, Result, Ran, Exited
<1>2. Types'
    BY OneCall DEF Inv, Types, cliVars, given
<1>3. n = Taken \/ (n = Taken + 1 /\ h = "done")
    BY DEF Taken
<1>4. Counts'
  <2>1. ClientCounts'
      BY <1>1, GivenKept DEF Inv, Counts, ClientCounts, program
  <2>2. HandlerCounts'
      BY <1>1, <1>3, CountTypes DEF Inv, Counts, HandlerCounts
  <2>3. OKMeansAll'
      BY <1>1, <1>3, GivenKept, CountTypes DEF Inv, Counts, OKMeansAll, HandlerCounts, program, Taken
  <2> QED
      BY <2>1, <2>2, <2>3 DEF Counts
<1>5. InOrder'
    BY <1>1, OrderKept DEF Inv, program
<1>6. StallInv'
    BY <1>1, <1>3, GivenKept DEF Inv, StallInv, Stuck, program
<1> QED
    BY <1>2, <1>4, <1>5, <1>6 DEF Inv

\* The next request is the command after those that ran.
LEMMA NextRequest ==
    ASSUME Inv, Handler = "read", RequestReady(Call)
    PROVE  /\ taken[Call] = Ran /\ taken[Call] \in Nat
           /\ taken[Call] + 1 \in 1 .. Requested
           /\ c2s[Call][taken[Call] + 1] = RemCmdMsg(taken[Call] + 1)
           /\ c2s[Call][taken[Call] + 1] \in Message
<1>1. taken[Call] = Ran /\ taken[Call] \in Nat /\ taken[Call] < Requested /\ Requested \in Nat
    BY CountTypes DEF Inv, Counts, HandlerCounts, RequestReady, Taken, Requested
<1>2. taken[Call] + 1 \in 1 .. Requested
    BY <1>1
<1>3. c2s[Call][taken[Call] + 1] = RemCmdMsg(taken[Call] + 1)
    BY <1>2 DEF Inv, InOrder
<1>4. c2s[Call] \in Seq(Message)
    BY OneCall DEF Inv, Types
<1> QED
    BY <1>1, <1>2, <1>3, <1>4 DEF Requested

\* The handler is started; it rejects a request; it finds the end of the stream.
LEMMA QuietHandlerStep ==
    ASSUME Inv, RemCmdStrm(Call) \/ RejectRequest(Call) \/ ReadEnds(Call), UNCHANGED cliVars
    PROVE  Inv'
<1>0. /\ hpc[Call] = Handler /\ net[Call] = Net /\ taken[Call] = Taken /\ Taken \in Nat
      /\ taken \in [Calls -> Nat] /\ hstat \in [Calls -> Verdicts \cup {"none"}]
      /\ "none" \notin Verdicts /\ "OK" \in Verdicts
    BY CountTypes DEF Inv, Types, Handler, Net, Taken, Verdicts
<1>1. CASE RemCmdStrm(Call)
  <2>1. /\ Net # "idle" /\ Handler = "none" /\ hpc' = [hpc EXCEPT ![Call] = "read"]
        /\ UNCHANGED <<net, c2s, half, taken, s2c, got, cstat, config, hstat, exits, runs>>
      BY <1>0, <1>1 DEF RemCmdStrm, streamVars
  <2>2. hstat[Call] = "none" /\ Taken <= Requested
      BY <2>1 DEF Inv, Counts, HandlerCounts, Result
  <2>3. taken' = [taken EXCEPT ![Call] = Taken]
      BY <1>0, <2>1
  <2>4. hstat' = [hstat EXCEPT ![Call] = "none"]
      BY <1>0, <2>1, <2>2
  <2> QED
      BY <1>0, <2>1, <2>2, <2>3, <2>4, HandlerMoves
<1>2. CASE RejectRequest(Call)
  <2> DEFINE k == Verdict(config, c2s[Call][taken[Call] + 1])
  <2>1. /\ Handler = "read" /\ RequestReady(Call) /\ k # "OK"
        /\ hpc' = [hpc EXCEPT ![Call] = "done"] /\ hstat' = [hstat EXCEPT ![Call] = k]
        /\ taken' = [taken EXCEPT ![Call] = Taken + 1]
        /\ UNCHANGED <<net, c2s, half, s2c, got, cstat, config, exits, runs>>
      BY <1>0, <1>2 DEF RejectRequest, TakeRequest
  <2>2. k \in Verdicts
      BY VerdictCodes
  <2>3. /\ Taken + 1 \in 1 .. Requested /\ Requested \in Nat
        /\ c2s[Call][taken[Call] + 1] = RemCmdMsg(Taken + 1)
      BY <1>0, <2>1, NextRequest, CountTypes DEF Inv
  <2>4. Net # "idle"
      BY <2>1 DEF Inv, Counts, ClientCounts
  <2>5. ~(calm /\ Stalls)
    <3> SUFFICES ASSUME calm, Stalls PROVE FALSE
        OBVIOUS
    <3>1. Stuck
        BY DEF Inv, StallInv
    <3>2. Taken = Answered
        BY <2>1, <3>1 DEF Inv, Counts, HandlerCounts, Stuck
    <3>3. Taken + 1 \in 1 .. Window + 1
        BY <3>1, <3>2, <1>0, CountTypes DEF Inv, Stuck
    <3> QED
        BY <2>1, <2>3, <3>3, StallFacts DEF Inv
  <2> HIDE DEF k
  <2>6. Taken + 1 \in Nat /\ Taken + 1 <= Requested
      BY <1>0, <2>3
  <2> QED
      BY <1>0, <2>1, <2>2, <2>4, <2>5, <2>6, HandlerMoves
<1>3. CASE ReadEnds(Call)
  <2>1. /\ Handler = "read" /\ ReadReturnsFalse(Call)
        /\ hpc' = [hpc EXCEPT ![Call] = "done"] /\ hstat' = [hstat EXCEPT ![Call] = "OK"]
        /\ UNCHANGED <<net, c2s, half, taken, s2c, got, cstat, config, exits, runs>>
      BY <1>0, <1>3 DEF ReadEnds, streamVars
  <2>2. Taken <= Requested /\ Net # "idle" /\ Requested \in Nat
      BY <2>1, CountTypes DEF Inv, Counts, HandlerCounts, ClientCounts
  <2>3. Net = "closed" \/ (Closed /\ Taken = Requested)
      BY <1>0, <2>1, <2>2 DEF ReadReturnsFalse, RequestReady, Closed, Requested
  <2>4. ~(calm /\ Stalls)
    <3> SUFFICES ASSUME calm, Stalls PROVE FALSE
        OBVIOUS
    <3>1. Stuck
        BY DEF Inv, StallInv
    <3> QED
        BY <2>3, <3>1 DEF Inv, Counts, ClientCounts, Stuck
  <2>5. taken' = [taken EXCEPT ![Call] = Taken]
      BY <1>0, <2>1
  <2> QED
      BY <1>0, <2>1, <2>2, <2>3, <2>4, <2>5, HandlerMoves
<1> QED
    BY <1>1, <1>2, <1>3

\* The handler reads a request and hands it to the runner.
LEMMA RunStep == ASSUME Inv, RunRequest(Call), UNCHANGED cliVars PROVE Inv'
<1> DEFINE m == c2s[Call][taken[Call] + 1]
<1>1. /\ hpc[Call] = "read" /\ RequestReady(Call)
      /\ hpc' = [hpc EXCEPT ![Call] = "run"] /\ taken' = [taken EXCEPT ![Call] = taken[Call] + 1]
      /\ runs' = [runs EXCEPT ![Call] = Append(runs[Call], m)]
      /\ UNCHANGED <<net, c2s, half, s2c, got, cstat, config, hstat, exits, cliVars>>
    BY DEF RunRequest, TakeRequest
<1>2. Handler = "read" /\ taken[Call] = Taken
    BY <1>1 DEF Handler, Taken
<1>3. Taken = Ran /\ Taken \in Nat /\ Taken + 1 \in 1 .. Requested /\ m \in Message
    BY <1>1, <1>2, NextRequest
<1> HIDE DEF m
<1>4. runs[Call] \in Seq(Message) /\ Requested \in Nat
    BY OneCall, CountTypes DEF Inv, Types
<1>5. runs' \in [Calls -> Seq(Message)] /\ runs'[Call] = Append(runs[Call], m)
    BY <1>1, <1>3, <1>4, OneCall DEF Inv, Types
<1>6. /\ Ran' = Ran + 1 /\ runs'[Call][Ran + 1] = m
      /\ \A k \in 1 .. Ran : runs'[Call][k] = runs[Call][k]
    BY <1>4, <1>5 DEF Ran
<1>7. /\ Handler' = "run" /\ Taken' = Taken + 1
      /\ UNCHANGED <<Net, Requested, Closed, Answered, Got, Status, Result, Exited, program>>
    BY <1>1, OneCall DEF Inv, Types, cliVars, given, program, Net, Requested,
           Closed, Taken, Answered, Got, Status, Handler, Result, Exited
<1>8. Types'
  <2>1. taken' \in [Calls -> Nat] /\ hpc' \in [Calls -> {"none", "read", "run", "write", "done"}]
      BY <1>1, <1>2, <1>3, OneCall DEF Inv, Types
  <2> QED
      BY <1>1, <1>5, <2>1 DEF Inv, Types, cliVars, given
<1>9. ClientCounts'
    BY <1>2, <1>7, GivenKept DEF Inv, Counts, ClientCounts, program
<1>10. HandlerCounts'
    BY <1>2, <1>3, <1>4, <1>6, <1>7, CountTypes DEF Inv, Counts, HandlerCounts
<1>11. OKMeansAll'
    BY <1>2, <1>7, GivenKept DEF Inv, Counts, HandlerCounts, OKMeansAll, program
<1>12. InOrder'
  <2>1. ASSUME NEW k \in 1 .. Ran' PROVE runs'[Call][k] = c2s[Call][k]
    <3>1. k \in 1 .. Ran \/ k = Ran + 1
        BY <1>3, <1>6
    <3> QED
        BY <1>2, <1>3, <1>6, <3>1 DEF Inv, InOrder, m
  <2>2. c2s' = c2s /\ Requested' = Requested /\ \A t : RemCmdMsg(t)' = RemCmdMsg(t)
      BY <1>1, <1>7, GivenKept DEF program
  <2> QED
      BY <2>1, <2>2 DEF Inv, InOrder
<1>13. StallInv'
  <2>1. calm /\ Stalls => Taken = Answered
      BY <1>2 DEF Inv, Counts, HandlerCounts, StallInv, Stuck
  <2> QED
      BY <1>3, <1>4, <1>7, <2>1, GivenKept, CountTypes DEF Inv, StallInv, Stuck, program
<1> QED
    BY <1>8, <1>9, <1>10, <1>11, <1>12, <1>13 DEF Inv, Counts

\* The command ends with rc.
LEMMA ExitStep ==
    ASSUME Inv, NEW rc \in {0, 1}, RunnerReturns(Call, rc), UNCHANGED cliVars
    PROVE  Inv'
<1>1. /\ hpc[Call] = "run" /\ hpc' = [hpc EXCEPT ![Call] = "write"]
      /\ exits' = [exits EXCEPT ![Call] = Append(exits[Call], rc)]
      /\ UNCHANGED <<net, c2s, half, taken, s2c, got, cstat, config, hstat, runs, cliVars>>
    BY DEF RunnerReturns, streamVars
<1>2. exits[Call] \in Seq({0, 1})
    BY OneCall DEF Inv, Types
<1>3. exits' \in [Calls -> Seq({0, 1})] /\ exits'[Call] = Append(exits[Call], rc)
    BY <1>1, <1>2, OneCall DEF Inv, Types
<1>4. Exited' = Exited + 1
    BY <1>2, <1>3 DEF Exited
<1>5. /\ Handler = "run" /\ Handler' = "write"
      /\ UNCHANGED <<wire, Result, Ran, program>>
    BY <1>1, OneCall DEF Inv, Types, cliVars, given, program, wire, Net, Requested,
           Closed, Taken, Answered, Got, Status, Handler, Result, Ran
<1>6. Types'
    BY <1>1, <1>3, OneCall DEF Inv, Types, cliVars, given
<1>7. Counts'
    BY <1>4, <1>5, GivenKept, CountTypes
    DEF Inv, Counts, ClientCounts, HandlerCounts, OKMeansAll, wire, program
<1>8. InOrder'
    BY <1>1, <1>5, OrderKept DEF Inv, program
<1>9. StallInv'
    BY <1>5, GivenKept DEF Inv, StallInv, Stuck, wire, program
<1> QED
    BY <1>6, <1>7, <1>8, <1>9 DEF Inv

\* The handler writes its answer, if the call is still there.
LEMMA AnswerStep == ASSUME Inv, WriteResponse(Call), UNCHANGED cliVars PROVE Inv'
<1> DEFINE r == RemResMsg(Call)
<1>1. /\ hpc[Call] = "write" /\ PutResponse(Call, r) /\ hpc' = [hpc EXCEPT ![Call] = "read"]
      /\ UNCHANGED <<net, c2s, half, taken, got, cstat, config, hstat, exits, runs, cliVars>>
    BY DEF WriteResponse
<1>2. /\ Handler = "write" /\ Handler' = "read"
      /\ UNCHANGED <<Net, Requested, Closed, Taken, Got, Status, Result, Ran, Exited, program>>
    BY <1>1, OneCall DEF Inv, Types, cliVars, given, program, Net, Requested,
           Closed, Taken, Got, Status, Handler, Result, Ran, Exited
<1>3. r \in Response
  <2>1. Taken \in 1 .. Requested /\ Exited > 0 /\ Exited \in Nat
      BY <1>2, CountTypes DEF Inv, Counts, HandlerCounts
  <2>2. c2s[Call] \in Seq(Message) /\ exits[Call] \in Seq({0, 1})
      BY OneCall DEF Inv, Types
  <2>3. req(Call) \in Message
      BY <2>1, <2>2 DEF req, Taken, Requested
  <2>4. exits[Call][Len(exits[Call])] \in {0, 1}
      BY <2>1, <2>2 DEF Exited
  <2> QED
      BY <2>3, <2>4 DEF RemResMsg, Response, Message, Request
<1> HIDE DEF r
<1>4. s2c[Call] \in Seq(Response) /\ s2c \in [Calls -> Seq(Response)]
    BY OneCall DEF Inv, Types
<1>5. /\ s2c' \in [Calls -> Seq(Response)]
      /\ \/ Net = "open" /\ Answered - Got < Window /\ Answered' = Answered + 1
         \/ Net = "closed" /\ Answered' = Answered
  <2>1. CASE net[Call] = "open" /\ Len(s2c[Call]) - got[Call] < Window
             /\ s2c' = [s2c EXCEPT ![Call] = Append(s2c[Call], r)]
    <3>1. s2c' \in [Calls -> Seq(Response)] /\ s2c'[Call] = Append(s2c[Call], r)
        BY <1>3, <1>4, <2>1, OneCall
    <3>2. Answered' = Answered + 1
        BY <1>3, <1>4, <3>1 DEF Answered
    <3> QED
        BY <2>1, <3>1, <3>2 DEF Net, Answered, Got
  <2>2. CASE net[Call] = "closed" /\ UNCHANGED s2c
      BY <1>4, <2>2 DEF Net, Answered
  <2> QED
      BY <1>1, <2>1, <2>2 DEF PutResponse
<1>6. Types'
    BY <1>1, <1>5, OneCall DEF Inv, Types, cliVars, given
<1>7. Counts'
    BY <1>2, <1>5, GivenKept, CountTypes
    DEF Inv, Counts, ClientCounts, HandlerCounts, OKMeansAll, program
<1>8. InOrder'
    BY <1>1, <1>2, OrderKept DEF Inv, program
<1>9. StallInv'
    BY <1>2, <1>5, GivenKept, CountTypes DEF Inv, StallInv, Stuck, program
<1> QED
    BY <1>6, <1>7, <1>8, <1>9 DEF Inv

-----------------------------------------------------------------------------
(* The steps of the network.                                               *)

\* The call ends with status k, or k is "none" and the client does not know yet.
LEMMA CloseStep ==
    ASSUME Inv, NEW k \in AllCodes, Net # "idle",
           Net = "closed" => Status = "none" \/ k = Status,
           Net = "open" /\ k = "OK" => Result = "OK",
           Net = "closed" /\ Status = "none" => k # "OK",
           Net = "open" => ~(calm /\ Stalls),
           net' = [net EXCEPT ![Call] = "closed"], cstat' = [cstat EXCEPT ![Call] = k],
           UNCHANGED <<c2s, half, taken, s2c, got, serverVars, cliVars>>
    PROVE  Inv'
<1>1. /\ Net' = "closed" /\ Status' = k
      /\ UNCHANGED <<Requested, Closed, Taken, Answered, Got, handler, program>>
    BY OneCall DEF Inv, Types, serverVars, cliVars, given, handler, program, Net, Requested,
           Closed, Taken, Answered, Got, Status, Handler, Result, Ran, Exited
<1>2. Types'
    BY OneCall DEF Inv, Types, serverVars, cliVars, given
<1>3. ClientCounts' /\ HandlerCounts'
    BY <1>1, GivenKept, CountTypes
    DEF Inv, Counts, ClientCounts, HandlerCounts, handler, program
<1>4. OKMeansAll'
    BY <1>1, GivenKept, CountTypes
    DEF Inv, Counts, ClientCounts, HandlerCounts, OKMeansAll, handler, program
<1>5. InOrder'
    BY <1>1, OrderKept DEF Inv, serverVars, program
<1>6. ~(calm /\ Stalls)
    BY CountTypes DEF Inv, StallInv, Stuck
<1>7. StallInv'
    BY <1>1, <1>6, GivenKept DEF StallInv, program
<1> QED
    BY <1>2, <1>3, <1>4, <1>5, <1>7 DEF Inv, Counts

\* The handler's status arrives, the deadline passes, the connection breaks and is
\* reported as broken.
LEMMA NetworkStep ==
    ASSUME Inv, \/ StatusDelivered(Call) /\ UNCHANGED cliVars
                \/ CliDeadline \/ LinkLoses \/ LinkReports
    PROVE  Inv'
<1>0. /\ net[Call] = Net /\ cstat[Call] = Status /\ hstat[Call] = Result
      /\ net \in [Calls -> {"idle", "open", "closed"}] /\ cstat \in [Calls -> AllCodes]
      /\ Net \in {"idle", "open", "closed"}
    BY CountTypes DEF Inv, Types, Net, Status, Result
<1>1. CASE StatusDelivered(Call) /\ UNCHANGED cliVars
  <2>1. /\ Result # "none" /\ Net = "open" /\ net' = [net EXCEPT ![Call] = "closed"]
        /\ cstat' = [cstat EXCEPT ![Call] = IF Status = "none" THEN Result ELSE Status]
        /\ UNCHANGED <<c2s, half, taken, s2c, got, serverVars, cliVars>>
      BY <1>0, <1>1 DEF StatusDelivered, CloseCall
  <2>2. Status = "none" /\ Result \in AllCodes
      BY <2>1, <1>0, OneCall DEF Inv, Types, Counts, ClientCounts, Result, AllCodes
  <2>3. cstat' = [cstat EXCEPT ![Call] = Result]
      BY <2>1, <2>2
  <2>4. ~(calm /\ Stalls)
      BY <2>1 DEF Inv, StallInv, Stuck, Counts, HandlerCounts
  <2> QED
      BY <2>1, <2>2, <2>3, <2>4, CloseStep
<1>2. CASE CliDeadline
  <2>1. /\ Net # "idle" /\ Status = "none" /\ ~calm /\ net' = [net EXCEPT ![Call] = "closed"]
        /\ cstat' = [cstat EXCEPT ![Call] = IF Status = "none" THEN "DEADLINE_EXCEEDED" ELSE Status]
        /\ UNCHANGED <<c2s, half, taken, s2c, got, serverVars, cliVars>>
      BY <1>0, <1>2 DEF CliDeadline, DeadlineFires, CloseCall
  <2>2. cstat' = [cstat EXCEPT ![Call] = "DEADLINE_EXCEEDED"]
      BY <2>1
  <2>3. "DEADLINE_EXCEEDED" \in AllCodes
      BY DEF AllCodes
  <2> QED
      BY <2>1, <2>2, <2>3, CloseStep
<1>3. CASE LinkLoses
  <2>1. /\ Net = "open" /\ ~calm /\ net' = [net EXCEPT ![Call] = "closed"]
        /\ UNCHANGED <<c2s, half, taken, s2c, got, cstat, serverVars, cliVars>>
      BY <1>0, <1>3 DEF LinkLoses, ConnLost
  <2>2. Status = "none" /\ "none" \in AllCodes
      BY <2>1 DEF Inv, Counts, ClientCounts, AllCodes
  <2>3. cstat' = [cstat EXCEPT ![Call] = "none"]
      BY <1>0, <2>1, <2>2
  <2> QED
      BY <2>1, <2>2, <2>3, CloseStep
<1>4. CASE LinkReports
  <2>1. PICK code \in TransportCodes : LossReported(Call, code)
      BY <1>4 DEF LinkReports
  <2>2. /\ Net = "closed" /\ Status = "none" /\ cstat' = [cstat EXCEPT ![Call] = code]
        /\ UNCHANGED <<net, c2s, half, taken, s2c, got, serverVars, cliVars>>
      BY <1>0, <1>4, <2>1 DEF LinkReports, LossReported
  <2>3. net' = [net EXCEPT ![Call] = "closed"]
      BY <1>0, <2>2
  <2>4. code \in AllCodes /\ code # "OK"
      BY CliAssumption DEF AllCodes
  <2> QED
      BY <2>2, <2>3, <2>4, CloseStep
<1> QED
    BY <1>1, <1>2, <1>3, <1>4

-----------------------------------------------------------------------------
\* Nothing has happened at the start.
LEMMA InvInit == Init => Inv
<1> SUFFICES ASSUME Init PROVE Inv
    OBVIOUS
<1>1. Types
  <2>1. garbled \in BOOLEAN
      BY DEF Init
  <2>2. cpc \in {"start", "write", "read", "finish", "done"} /\ sent \in Nat /\ rv \in {-1, 0, 1}
      BY DEF Init
  <2> QED
      BY <2>1, <2>2 DEF Init, StreamInit, ServerInit, Types, AllCodes
<1>2. /\ Net = "idle" /\ Requested = 0 /\ ~Closed /\ Taken = 0 /\ Ran = 0 /\ Exited = 0
      /\ Answered = 0 /\ Got = 0 /\ Status = "none" /\ Handler = "none" /\ Result = "none"
      /\ cpc = "start" /\ garbled = FALSE /\ sent = 0 /\ rv = -1
    BY OneCall DEF Init, StreamInit, ServerInit, Net, Requested,
           Closed, Taken, Answered, Got, Status, Handler, Result, Ran, Exited
<1>3. Counts
    BY <1>1, <1>2, CountTypes DEF Counts, ClientCounts, HandlerCounts, OKMeansAll
<1>4. InOrder
    BY <1>2 DEF InOrder
<1>5. StallInv
    BY <1>1, <1>2, CountTypes DEF StallInv, Stuck
<1> QED
    BY <1>1, <1>3, <1>4, <1>5 DEF Inv

\* Every step keeps the invariant.
LEMMA InvStep == Inv /\ [Next]_vars => Inv'
<1> SUFFICES ASSUME Inv, [Next]_vars PROVE Inv'
    OBVIOUS
<1>1. CASE CliWriter \/ CliReader
    BY <1>1, OpenStep, WriteStep, HalfCloseStep, ReadStep, LeaveStep DEF CliWriter, CliReader
<1>2. CASE Server
    BY <1>2, QuietHandlerStep, RunStep, ExitStep, AnswerStep, NetworkStep DEF Server, HandlerStep
<1>3. CASE CliDeadline \/ LinkLoses \/ LinkReports
    BY <1>3, NetworkStep
<1>4. CASE UNCHANGED vars
  <2>1. UNCHANGED <<wire, handler, program>>
      BY <1>4 DEF vars, streamVars, serverVars, cliVars, given, wire, handler, program, Net, Requested,
             Closed, Taken, Answered, Got, Status, Handler, Result, Ran, Exited
  <2>2. Types'
      BY <1>4 DEF Inv, Types, vars, streamVars, serverVars, cliVars, given
  <2>3. Counts'
      BY <2>1, GivenKept
      DEF Inv, Counts, ClientCounts, HandlerCounts, OKMeansAll, wire, handler, program
  <2>4. InOrder'
      BY <1>4, <2>1, OrderKept DEF Inv, vars, streamVars, serverVars, program
  <2>5. StallInv'
      BY <2>1, GivenKept DEF Inv, StallInv, Stuck, wire, handler, program
  <2> QED
      BY <2>2, <2>3, <2>4, <2>5 DEF Inv
<1> QED
    BY <1>1, <1>2, <1>3, <1>4 DEF Next, Over

\* Hence the invariant holds in every reachable state.
LEMMA Invariance == Spec => []Inv
BY InvInit, InvStep, PTL DEF Spec

-----------------------------------------------------------------------------
\* doRemCmdStrm returns 0 only when every command was sent, run in order and
\* answered, and every answer was read unless one could not be parsed, although it
\* ignores the result of Write, whatever broke, was rejected or ran out of time.
THEOREM ZeroIsEarned == Spec => []ZeroMeansAllAnswered
<1>1. Inv => ZeroMeansAllAnswered
  <2> SUFFICES ASSUME Inv, rv = 0
               PROVE  /\ sent = N /\ Len(exits[Call]) = N
                      /\ \A t \in 1 .. N : runs[Call][t] = RemCmdMsg(t)
                      /\ garbled \/ got[Call] = N
      BY DEF ZeroMeansAllAnswered
  <2>1. sent = N /\ (garbled \/ Got = N) /\ Exited = N /\ Ran = N /\ Requested = N
      BY DEF Inv, Counts, ClientCounts, OKMeansAll
  <2>2. ASSUME NEW t \in 1 .. N PROVE runs[Call][t] = RemCmdMsg(t)
      BY <2>1 DEF Inv, InOrder
  <2> QED
      BY <2>1, <2>2 DEF Got, Exited
<1> QED
    BY Invariance, <1>1, PTL

\* For every window: a C++ client that is given more commands than the two windows
\* and the handler's hand hold never gets to read, and without a deadline never ends.
THEOREM WriterStalls == Spec => []StallsBeyondCapacity
<1>1. Inv => StallsBeyondCapacity
    BY DEF Inv, StallInv, Stuck, StallsBeyondCapacity
<1> QED
    BY Invariance, <1>1, PTL
=============================================================================
