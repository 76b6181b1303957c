------------------------ MODULE ServerProcessProofs ------------------------
(***************************************************************************)
(* Theorems about ServerProcess, for every set of calls, time limit, kill  *)
(* delay, flow-control window and number of signals.  What they say about  *)
(* time needs a time limit, T >= 0; the types need none.                   *)
(***************************************************************************)
EXTENDS ServerProcess, TLAPS

-----------------------------------------------------------------------------
(* The inductive invariant.                                                *)

D == Limit + KillWait   \* the longest a command runs

Stopping == main \in {"shutdown", "exited"}

\* Only a shutdown cuts calls, counts time and remembers commands, and it takes
\* no more calls.
ShutdownOnly ==
    /\ Stopping => server \in {"draining", "down"}
    /\ ~Stopping => since = 0 /\ early = {} /\ \A c \in Calls : call[c] # "cut"

\* The grace runs out after Grace ticks.
GraceIsSpent == Stopping => grace >= Grace - since /\ (grace > 0 => grace = Grace - since)

\* A command that was running at stop() has run at least since then.
EarlyRuns == \A c \in early : h[c] = "run" /\ age[c] >= since

\* Past the grace only cut calls are at work.
LateIsCut == Stopping /\ since > Grace => \A c \in Busy : call[c] = "cut"

\* The commands a cut call has used up since the grace, the current one included.
Used(c) == (Window - queue[c]) * D + (IF h[c] = "run" THEN age[c] ELSE D)

CutIsPaid == \A c \in Busy : call[c] = "cut" => since <= Grace + Used(c)

\* The invariant of a server with a time limit.
Inv ==
    /\ T >= 0
    /\ TypeOK /\ ShutdownOnly /\ GraceIsSpent /\ EarlyRuns /\ LateIsCut /\ CutIsPaid
    /\ RunningIsSpared /\ ShutdownIsBounded

-----------------------------------------------------------------------------
(* Lemmas.                                                                 *)

LEMMA NextCases ==
    ASSUME [Next]_vars
    PROVE  \/ RejectConfig \/ SetupSignalHandlers \/ BuildAndStart \/ BuildFails \/ Exec
           \/ Signal \/ HandleSignal \/ Stop \/ Joined \/ CutCalls \/ Tick
           \/ \E c \in Calls, kind \in {"half", "open"} : Arrive(c, kind)
           \/ \E c \in Calls : Send(c) \/ WritesDone(c) \/ Reply(c)
           \/ \E c \in Calls : ReadAndRun(c)
           \/ \E c \in Calls : ReadEnds(c)
           \/ \E c \in Calls : RunnerReturns(c)
           \/ UNCHANGED vars
BY DEF Next, Main, Handler, Over

LEMMA Bounds ==
    /\ T \in Int /\ KillWait \in Nat /\ Window \in Nat /\ Window > 0 /\ MaxSignals \in Nat
    /\ Limit \in Nat /\ Grace \in Nat /\ Grace = 2 * Limit /\ (T >= 0 => Limit = T /\ T \in Nat)
    /\ D \in Nat /\ Longest \in Nat /\ Longest = Grace + (1 + Window) * D
    /\ Grace <= Longest
<1>1. T \in Int /\ KillWait \in Nat /\ Window \in Nat /\ Window > 0 /\ MaxSignals \in Nat
    BY ServerProcessAssumption
<1>2. Limit \in Nat /\ Grace \in Nat /\ Grace = 2 * Limit /\ (T >= 0 => Limit = T /\ T \in Nat)
    BY <1>1 DEF Limit, Grace
<1>3. D \in Nat
    BY <1>1, <1>2 DEF D
<1>4. (1 + Window) * D \in Nat
    BY <1>1, <1>3
<1>5. Longest = Grace + (1 + Window) * D
    BY DEF Longest, D
<1> QED
    BY <1>1, <1>2, <1>3, <1>4, <1>5

\* What a call that was cut has used up: at most Window + 1 commands, and
\* taking one more from the queue is paid for by the one before.
LEMMA UsedUp ==
    ASSUME NEW q \in 0 .. Window
    PROVE  /\ (Window - q) * D \in Nat /\ (Window - q) * D <= Window * D
           /\ (1 + Window) * D = Window * D + D
           /\ q > 0 => (Window - (q - 1)) * D = (Window - q) * D + D
<1>1. Window \in Nat /\ D \in Nat /\ Window - q \in Nat
    BY Bounds
<1>2. (Window - q) * D \in Nat
    BY <1>1
<1>3. (Window - q) * D <= Window * D
    BY <1>1
<1>4. (1 + Window) * D = Window * D + D
    BY <1>1
<1>5. q > 0 => (Window - (q - 1)) * D = (Window - q) * D + D
    BY <1>1
<1> QED
    BY <1>2, <1>3, <1>4, <1>5

\* The functions of the calls change at one call.
LEMMA OneCall ==
    ASSUME NEW R, NEW f \in [Calls -> R], NEW c \in Calls, NEW e
    PROVE  /\ [f EXCEPT ![c] = e][c] = e
           /\ \A d \in Calls \ {c} : [f EXCEPT ![c] = e][d] = f[d]
           /\ e \in R => [f EXCEPT ![c] = e] \in [Calls -> R]
OBVIOUS

LEMMA TypeStep == TypeOK /\ [Next]_vars => TypeOK'
<1> SUFFICES ASSUME TypeOK, [Next]_vars PROVE TypeOK'
    OBVIOUS
<1> USE DEF TypeOK, Ended
<1>0. /\ T \in Int /\ KillWait \in Nat /\ Window \in Nat /\ Window > 0 /\ MaxSignals \in Nat
      /\ Longest \in Nat /\ Limit \in Nat /\ Grace \in Nat /\ (T >= 0 => Limit = T)
    BY Bounds
<1>1. CASE RejectConfig \/ SetupSignalHandlers \/ BuildAndStart \/ BuildFails \/ Exec
    BY <1>1 DEF RejectConfig, SetupSignalHandlers, BuildAndStart, BuildFails, Exec, callVars
<1>2. CASE Signal
    BY <1>2, <1>0 DEF Signal, callVars
<1>3. CASE HandleSignal
    BY <1>3, <1>0 DEF HandleSignal, callVars
<1>4. CASE Stop
    BY <1>4, <1>0 DEF Stop, callVars
<1>5. CASE Joined
    BY <1>5 DEF Joined, callVars
<1>6. CASE CutCalls
    BY <1>6 DEF CutCalls, mainVars
<1>7. CASE Tick
  <2>1. age' \in [Calls -> 0 .. Limit + KillWait]
    <3>1. \A c \in Calls : h[c] = "run" /\ T >= 0 => age[c] # Limit + KillWait
        BY <1>7, <1>0 DEF Tick, Ready
    <3> QED
        BY <3>1, <1>7, <1>0 DEF Tick
  <2>2. grace' \in 0 .. Grace
      BY <1>7, <1>0 DEF Tick
  <2>3. since' \in 0 .. Longest + 2
      BY <1>7, <1>0 DEF Tick, Later
  <2> QED
      BY <1>7, <2>1, <2>2, <2>3 DEF Tick
<1>8. CASE \E c \in Calls, kind \in {"half", "open"} : Arrive(c, kind)
    BY <1>8, <1>0 DEF Arrive, mainVars
<1>9. CASE \E c \in Calls : Send(c) \/ WritesDone(c) \/ Reply(c)
    BY <1>9, <1>0 DEF Send, WritesDone, Reply, mainVars
<1>10. CASE \E c \in Calls : ReadAndRun(c)
    BY <1>10, <1>0 DEF ReadAndRun, mainVars
<1>11. CASE \E c \in Calls : ReadEnds(c)
    BY <1>11 DEF ReadEnds, mainVars
<1>12. CASE \E c \in Calls : RunnerReturns(c)
    BY <1>12 DEF RunnerReturns, mainVars
<1>13. CASE UNCHANGED vars
    BY <1>13 DEF vars, mainVars, callVars
<1> QED
    BY NextCases, <1>1, <1>2, <1>3, <1>4, <1>5, <1>6, <1>7, <1>8, <1>9, <1>10, <1>11, <1>12, <1>13

-----------------------------------------------------------------------------
(* Initially, and at every step.                                           *)

LEMMA TypeInit == Init => TypeOK
BY Bounds DEF Init, TypeOK

LEMMA InvInit == T >= 0 /\ Init => Inv
<1> SUFFICES ASSUME T >= 0, Init PROVE Inv
    OBVIOUS
<1> USE Bounds DEF Init
<1>1. TypeOK
    BY TypeInit
<1>2. Busy = {}
    BY DEF Busy
<1>3. ShutdownOnly /\ GraceIsSpent /\ EarlyRuns
    BY DEF ShutdownOnly, GraceIsSpent, EarlyRuns, Stopping
<1>4. LateIsCut /\ CutIsPaid /\ RunningIsSpared /\ ShutdownIsBounded
    BY <1>2 DEF LateIsCut, CutIsPaid, RunningIsSpared, ShutdownIsBounded
<1> QED
    BY <1>1, <1>3, <1>4 DEF Inv

\* main before stop(): no call is cut and no time counted.
LEMMA BeforeStop ==
    ASSUME Inv, TypeOK', UNCHANGED <<grace, since, callVars, early>>,
           (main' = main /\ server' = server) \/ (~Stopping /\ ~Stopping')
    PROVE  Inv'
<1>1. UNCHANGED <<call, queue, h, age>> /\ Busy' = Busy
    BY DEF callVars, Busy
<1>2. ShutdownOnly' /\ GraceIsSpent' /\ EarlyRuns'
    BY <1>1 DEF Inv, ShutdownOnly, GraceIsSpent, EarlyRuns, Stopping
<1>3. LateIsCut' /\ RunningIsSpared' /\ ShutdownIsBounded'
    BY <1>1, Bounds DEF Inv, ShutdownOnly, LateIsCut, RunningIsSpared,
          ShutdownIsBounded, Stopping
<1>4. CutIsPaid'
    BY <1>1 DEF Inv, CutIsPaid, Used
<1> QED
    BY <1>2, <1>3, <1>4 DEF Inv

LEMMA StopStep == ASSUME Inv, TypeOK', Stop PROVE Inv'
<1>1. /\ main = "stop" /\ main' = "shutdown" /\ server' = "draining" /\ grace' = Grace /\ since' = 0
      /\ early' = {c \in Calls : h[c] = "run"} /\ UNCHANGED <<call, queue, h, age>>
    BY DEF Stop, callVars
<1>2. Busy' = Busy /\ \A c \in Calls : call'[c] # "cut"
    BY <1>1 DEF Busy, Inv, ShutdownOnly, Stopping
<1>3. Busy \subseteq Calls /\ \A c \in Calls : age[c] \in Nat
    BY DEF Busy, Inv, TypeOK
<1>4. ShutdownOnly' /\ GraceIsSpent' /\ EarlyRuns'
    BY <1>1, <1>2, <1>3, Bounds DEF ShutdownOnly, GraceIsSpent, EarlyRuns, Stopping
<1>5. LateIsCut' /\ ShutdownIsBounded'
    BY <1>1, Bounds DEF LateIsCut, ShutdownIsBounded
<1>6. CutIsPaid' /\ RunningIsSpared'
    BY <1>1, <1>2, <1>3 DEF CutIsPaid, RunningIsSpared
<1> QED
    BY <1>4, <1>5, <1>6 DEF Inv

LEMMA JoinedStep == ASSUME Inv, TypeOK', Joined PROVE Inv'
<1>1. /\ main = "shutdown" /\ main' = "exited" /\ server' = "down" /\ Busy = {}
      /\ UNCHANGED <<grace, since, early, call, queue, h, age>>
    BY DEF Joined, callVars
<1>2. Busy' = {}
    BY <1>1 DEF Busy
<1>3. ShutdownOnly' /\ GraceIsSpent' /\ EarlyRuns'
    BY <1>1 DEF Inv, ShutdownOnly, GraceIsSpent, EarlyRuns, Stopping
<1>4. LateIsCut' /\ CutIsPaid' /\ RunningIsSpared' /\ ShutdownIsBounded'
    BY <1>1, <1>2 DEF Inv, LateIsCut, CutIsPaid, RunningIsSpared, ShutdownIsBounded
<1> QED
    BY <1>3, <1>4 DEF Inv

\* A call that is cut has used up nothing of what it was given: the grace has
\* just run out.  No early command runs any more, its time limit is shorter.
LEMMA CutStep == ASSUME Inv, TypeOK', CutCalls PROVE Inv'
<1>1. /\ main = "shutdown" /\ grace = 0
      /\ call' = [c \in Calls |-> IF c \in Busy THEN "cut" ELSE call[c]]
      /\ UNCHANGED <<queue, h, age, main, server, grace, since, early>>
    BY DEF CutCalls, Overdue, mainVars
<1>2. PICK b \in Busy : call[b] # "cut"
    BY DEF CutCalls, Overdue
<1>3. Busy' = Busy /\ Busy \subseteq Calls
    BY <1>1 DEF Busy
<1>4. since <= Grace /\ since >= Grace /\ since \in Nat
    BY <1>1, <1>2, Bounds DEF Inv, LateIsCut, GraceIsSpent, Stopping, TypeOK
<1>5. ShutdownOnly' /\ GraceIsSpent' /\ EarlyRuns'
    BY <1>1 DEF Inv, ShutdownOnly, GraceIsSpent, EarlyRuns, Stopping
<1>6. LateIsCut' /\ ShutdownIsBounded'
    BY <1>1, <1>3, Bounds DEF Inv, LateIsCut, ShutdownIsBounded
<1>7. CutIsPaid'
  <2> SUFFICES ASSUME NEW c \in Calls PROVE since <= Grace + Used(c)'
      BY <1>1, <1>3 DEF CutIsPaid
  <2>1. Used(c)' = Used(c)
      BY <1>1 DEF Used
  <2>2. Used(c) \in Nat
    <3>1. queue[c] \in 0 .. Window /\ age[c] \in Nat /\ D \in Nat
        BY Bounds DEF Inv, TypeOK
    <3>2. (Window - queue[c]) * D \in Nat
        BY <3>1, UsedUp
    <3> QED
        BY <3>1, <3>2 DEF Used
  <2> QED
      BY <1>4, <2>1, <2>2, Bounds
<1>8. RunningIsSpared'
  <2> SUFFICES ASSUME KillWait < T, NEW c \in early PROVE FALSE
      BY <1>1 DEF RunningIsSpared
  <2>1. age[c] >= since /\ age[c] \in 0 .. Limit + KillWait
      BY DEF Inv, EarlyRuns, TypeOK
  <2> QED
      BY <2>1, <1>4, Bounds
<1> QED
    BY <1>5, <1>6, <1>7, <1>8 DEF Inv

\* Time passes in a shutdown only for commands, within the grace or in calls
\* that were cut.
LEMMA TickStep == ASSUME Inv, TypeOK', Tick PROVE Inv'
<1>1. /\ \A c \in Calls : ~Ready(c)
      /\ ~Overdue
      /\ main = "shutdown" => Busy # {}
      /\ age'   = [c \in Calls |-> IF h[c] = "run" THEN age[c] + 1 ELSE age[c]]
      /\ grace' = IF main = "shutdown" /\ grace > 0 THEN grace - 1 ELSE grace
      /\ since' = IF main = "shutdown" THEN since + 1 ELSE since
      /\ main \notin Ended
      /\ UNCHANGED <<main, signals, bytes, server, call, queue, h, early>>
    BY DEF Inv, Tick, ShutdownIsBounded, Later
<1>2. Busy' = Busy /\ Busy \subseteq Calls
    BY <1>1 DEF Busy
<1>3. /\ since \in Nat /\ grace \in Nat /\ early \subseteq Calls
      /\ \A c \in Calls : age[c] \in 0 .. D /\ queue[c] \in 0 .. Window
    BY Bounds DEF Inv, TypeOK, D
<1>4. Stopping' = Stopping /\ (Stopping <=> main = "shutdown")
    BY <1>1 DEF Stopping, Ended
<1>5. ShutdownOnly' /\ GraceIsSpent'
    BY <1>1, <1>3, <1>4, Bounds DEF Inv, ShutdownOnly, GraceIsSpent
<1>6. EarlyRuns' /\ RunningIsSpared'
    BY <1>1, <1>3 DEF Inv, EarlyRuns, RunningIsSpared
<1>7. CASE main # "shutdown"
  <2>1. since' = 0 /\ \A c \in Calls : call'[c] # "cut"
      BY <1>1, <1>4, <1>7 DEF Inv, ShutdownOnly
  <2>2. LateIsCut' /\ CutIsPaid' /\ ShutdownIsBounded'
      BY <2>1, <1>2, Bounds DEF LateIsCut, CutIsPaid, ShutdownIsBounded
  <2> QED
      BY <2>2, <1>5, <1>6 DEF Inv
<1>8. CASE main = "shutdown"
  <2>1. ASSUME NEW c \in Busy, call[c] = "cut"
        PROVE  h[c] = "run" /\ age'[c] = age[c] + 1 /\ age[c] + 1 <= D
    <3>1. h[c] = "run" /\ age[c] # Limit + KillWait
        BY <1>1, <1>2, <2>1, Bounds DEF Busy, Ready, Inv
    <3> QED
        BY <3>1, <1>1, <1>2, <1>3, Bounds DEF D
  <2>2. CutIsPaid'
    <3> SUFFICES ASSUME NEW c \in Busy, call[c] = "cut" PROVE since' <= Grace + Used(c)'
        BY <1>1, <1>2 DEF CutIsPaid
    <3>1. since <= Grace + (Window - queue[c]) * D + age[c]
        <4>1. since <= Grace + Used(c) /\ Used(c) = (Window - queue[c]) * D + age[c]
            BY <2>1 DEF Inv, CutIsPaid, Used
        <4>2. (Window - queue[c]) * D \in Nat /\ age[c] \in Nat
            BY <1>2, <1>3, UsedUp
        <4> QED
            BY <4>1, <4>2, Bounds
    <3>2. Used(c)' = (Window - queue[c]) * D + (age[c] + 1)
        BY <1>1, <2>1 DEF Used, D
    <3>3. (Window - queue[c]) * D \in Nat /\ age[c] \in Nat
        BY <1>2, <1>3, UsedUp
    <3> QED
        BY <3>1, <3>2, <3>3, <1>1, <1>3, <1>8, Bounds
  <2>3. CASE grace > 0
    <3>1. since + 1 <= Grace
        BY <2>3, <1>8, <1>3, Bounds DEF Inv, GraceIsSpent, Stopping
    <3>2. LateIsCut' /\ ShutdownIsBounded'
        BY <3>1, <1>1, <1>3, <1>8, Bounds DEF LateIsCut, ShutdownIsBounded
    <3> QED
        BY <3>2, <2>2, <1>5, <1>6 DEF Inv
  <2>4. CASE grace = 0
    <3>1. \A c \in Busy : call[c] = "cut"
        BY <2>4, <1>1, <1>8 DEF Overdue
    <3>2. LateIsCut'
        BY <3>1, <1>1, <1>2 DEF LateIsCut
    <3>3. PICK c \in Busy : TRUE
        BY <1>1, <1>8
    <3>4. since' <= Grace + Used(c)' /\ Used(c)' = (Window - queue[c]) * D + (age[c] + 1) /\ age[c] + 1 <= D
        BY <2>1, <2>2, <3>1, <1>1, <1>2 DEF CutIsPaid, Used, D
    <3>5. /\ (Window - queue[c]) * D \in Nat /\ (Window - queue[c]) * D <= Window * D
          /\ (1 + Window) * D = Window * D + D /\ age[c] \in Nat
        BY <1>2, <1>3, UsedUp
    <3>6. since' \in Nat /\ Window * D \in Nat
        BY <1>1, <1>3, Bounds
    <3>7. ShutdownIsBounded'
        BY <3>4, <3>5, <3>6, Bounds DEF ShutdownIsBounded
    <3> QED
        BY <3>2, <3>7, <2>2, <1>5, <1>6 DEF Inv
  <2> QED
      BY <2>3, <2>4, <1>3
<1> QED
    BY <1>7, <1>8

\* A step of one call: it is not cut by it, becomes busy only before stop(), is
\* no early one unless its command goes on, and has used up no less.
LEMMA CallStep ==
    ASSUME Inv, TypeOK', NEW c \in Calls, main \notin Ended,
           UNCHANGED mainVars, early' \subseteq early,
           \A d \in Calls \ {c} : /\ call'[d] = call[d] /\ queue'[d] = queue[d]
                                  /\ h'[d] = h[d] /\ age'[d] = age[d],
           c \in early' => h'[c] = "run" /\ age'[c] = age[c],
           call'[c] = "cut" <=> call[c] = "cut",
           c \in Busy' => c \in Busy \/ ~Stopping,
           c \in Busy' /\ call'[c] = "cut" => Used(c)' >= Used(c)
    PROVE  Inv'
<1>1. UNCHANGED <<main, signals, bytes, server, grace, since>>
    BY DEF mainVars
<1>2. /\ Busy \subseteq Calls /\ Busy' \subseteq Calls /\ early \subseteq Calls
      /\ \A d \in Calls \ {c} : d \in Busy' <=> d \in Busy
    BY DEF Busy, Inv, TypeOK
<1>3. \A d \in Calls : call'[d] = "cut" <=> call[d] = "cut"
    BY <1>2
<1>4. ShutdownOnly' /\ GraceIsSpent'
    BY <1>1, <1>3 DEF Inv, ShutdownOnly, GraceIsSpent, Stopping
<1>5. EarlyRuns'
    BY <1>1, <1>2 DEF Inv, EarlyRuns
<1>6. LateIsCut'
    BY <1>1, <1>2, <1>3 DEF Inv, LateIsCut, Stopping
<1>7. ShutdownIsBounded'
    BY <1>1 DEF Inv, ShutdownIsBounded, Ended
<1>8. RunningIsSpared'
    BY <1>2, <1>3 DEF Inv, RunningIsSpared
<1>9. CutIsPaid'
  <2> SUFFICES ASSUME NEW d \in Busy', call'[d] = "cut" PROVE since <= Grace + Used(d)'
      BY <1>1 DEF CutIsPaid
  <2>1. call[d] = "cut" /\ d \in Busy
      BY <1>2, <1>3 DEF Inv, ShutdownOnly
  <2>2. since <= Grace + Used(d)
      BY <2>1 DEF Inv, CutIsPaid
  <2>3. CASE d = c
    <3>1. Used(c)' >= Used(c)
        BY <2>3
    <3>2. Used(c) \in Nat /\ Used(c)' \in Nat
      <4>1. /\ queue[c] \in 0 .. Window /\ age[c] \in Nat /\ D \in Nat
            /\ queue'[c] \in 0 .. Window /\ age'[c] \in Nat
          BY Bounds DEF Inv, TypeOK
      <4>2. (Window - queue[c]) * D \in Nat /\ (Window - queue'[c]) * D \in Nat
          BY <4>1, UsedUp
      <4> QED
          BY <4>1, <4>2 DEF Used, D
    <3>3. since \in Nat
        BY Bounds DEF Inv, TypeOK
    <3> QED
        BY <2>2, <2>3, <3>1, <3>2, <3>3, Bounds
  <2>4. CASE d # c
    <3>1. Used(d)' = Used(d)
        BY <1>2, <2>1, <2>4 DEF Used, D
    <3> QED
        BY <2>2, <3>1
  <2> QED
      BY <2>3, <2>4
<1> QED
    BY <1>4, <1>5, <1>6, <1>7, <1>8, <1>9 DEF Inv

LEMMA InvStep == Inv /\ [Next]_vars => Inv'
<1> SUFFICES ASSUME Inv, [Next]_vars PROVE Inv'
    OBVIOUS
<1>0. TypeOK /\ TypeOK'
    BY TypeStep DEF Inv
<1>f. /\ call \in [Calls -> {"none", "open", "half", "cut", "over"}] /\ queue \in [Calls -> 0 .. Window]
      /\ h \in [Calls -> {"none", "read", "run", "reply", "done"}] /\ age \in [Calls -> 0 .. Limit + KillWait]
    BY <1>0 DEF TypeOK
<1>1. CASE RejectConfig \/ SetupSignalHandlers \/ BuildAndStart \/ BuildFails \/ Exec \/ HandleSignal
    BY <1>0, <1>1, BeforeStop DEF RejectConfig, SetupSignalHandlers, BuildAndStart, BuildFails, Exec,
          HandleSignal, Stopping
<1>2. CASE Signal
    BY <1>0, <1>2, BeforeStop DEF Signal, Stopping
<1>3. CASE Stop
    BY <1>0, <1>3, StopStep
<1>4. CASE Joined
    BY <1>0, <1>4, JoinedStep
<1>5. CASE CutCalls
    BY <1>0, <1>5, CutStep
<1>6. CASE Tick
    BY <1>0, <1>6, TickStep
<1>7. CASE \E c \in Calls, kind \in {"half", "open"} : Arrive(c, kind)
  <2>1. PICK c \in Calls, kind \in {"half", "open"} : Arrive(c, kind)
      BY <1>7
  <2>2. /\ call[c] = "none" /\ call'[c] = kind /\ main \notin Ended /\ server = "serving"
        /\ UNCHANGED <<mainVars, early>>
        /\ \A d \in Calls \ {c} : /\ call'[d] = call[d] /\ queue'[d] = queue[d]
                                  /\ h'[d] = h[d] /\ age'[d] = age[d]
      BY <2>1, <1>f DEF Arrive
  <2>3. ~Stopping /\ early = {}
      BY <2>2 DEF Inv, ShutdownOnly
  <2> QED
      BY <2>2, <2>3, <1>0, CallStep
<1>8. CASE \E c \in Calls : Send(c) \/ WritesDone(c) \/ Reply(c)
  <2>1. PICK c \in Calls : Send(c) \/ WritesDone(c) \/ Reply(c)
      BY <1>8
  <2>2. /\ main \notin Ended /\ UNCHANGED <<mainVars, early, age>>
        /\ \A d \in Calls \ {c} : /\ call'[d] = call[d] /\ queue'[d] = queue[d]
                                  /\ h'[d] = h[d] /\ age'[d] = age[d]
        /\ call'[c] = "cut" <=> call[c] = "cut"
        /\ h'[c] = h[c] \/ (h[c] = "reply" /\ h'[c] = "read")
        /\ call'[c] = "cut" => queue'[c] = queue[c]
      BY <2>1, <1>f DEF Send, WritesDone, Reply
  <2>3. c \in early' => h'[c] = "run" /\ age'[c] = age[c]
      BY <2>2 DEF Inv, EarlyRuns
  <2>4. c \in Busy' => c \in Busy
      BY <2>2 DEF Busy
  <2>5. c \in Busy' /\ call'[c] = "cut" => Used(c)' >= Used(c)
    <3> SUFFICES ASSUME call'[c] = "cut" PROVE Used(c)' = Used(c) /\ Used(c) \in Nat
        OBVIOUS
    <3>1. Used(c)' = Used(c)
        BY <2>2 DEF Used, D
    <3>2. queue[c] \in 0 .. Window /\ age[c] \in Nat /\ D \in Nat
        BY <1>f, Bounds
    <3>3. (Window - queue[c]) * D \in Nat
        BY <3>2, UsedUp
    <3> QED
        BY <3>1, <3>2, <3>3 DEF Used
  <2> QED
      BY <2>2, <2>3, <2>4, <2>5, <1>0, CallStep
<1>9. CASE \E c \in Calls : ReadAndRun(c)
  <2>1. PICK c \in Calls : ReadAndRun(c)
      BY <1>9
  <2>2. /\ main \notin Ended /\ UNCHANGED <<mainVars, early, call>> /\ queue[c] > 0
        /\ \A d \in Calls \ {c} : /\ call'[d] = call[d] /\ queue'[d] = queue[d]
                                  /\ h'[d] = h[d] /\ age'[d] = age[d]
        /\ h[c] = "read" /\ h'[c] = "run" /\ queue'[c] = queue[c] - 1 /\ age'[c] = 0
      BY <2>1, <1>f DEF ReadAndRun
  <2>3. c \notin early' /\ c \in Busy
      BY <2>2 DEF Inv, EarlyRuns, Busy
  <2>4. Used(c)' >= Used(c)
    <3>1. queue[c] \in 0 .. Window /\ D \in Nat
        BY <1>f, Bounds
    <3>2. /\ (Window - queue[c]) * D \in Nat
          /\ (Window - (queue[c] - 1)) * D = (Window - queue[c]) * D + D
        BY <2>2, <3>1, UsedUp
    <3>3. Used(c) = (Window - queue[c]) * D + D /\ Used(c)' = (Window - (queue[c] - 1)) * D + 0
        BY <2>2 DEF Used, D
    <3> QED
        BY <3>1, <3>2, <3>3
  <2> QED
      BY <2>2, <2>3, <2>4, <1>0, CallStep
<1>10. CASE \E c \in Calls : ReadEnds(c)
  <2>1. PICK c \in Calls : ReadEnds(c)
      BY <1>10
  <2>2. /\ main \notin Ended /\ UNCHANGED <<mainVars, early>>
        /\ \A d \in Calls \ {c} : /\ call'[d] = call[d] /\ queue'[d] = queue[d]
                                  /\ h'[d] = h[d] /\ age'[d] = age[d]
        /\ h[c] = "read" /\ h'[c] = "done"
        /\ call'[c] = "cut" <=> call[c] = "cut"
      BY <2>1, <1>f DEF ReadEnds
  <2>3. c \notin early' /\ c \notin Busy'
      BY <2>2 DEF Inv, EarlyRuns, Busy
  <2> QED
      BY <2>2, <2>3, <1>0, CallStep
<1>11. CASE \E c \in Calls : RunnerReturns(c)
  <2>1. PICK c \in Calls : RunnerReturns(c)
      BY <1>11
  <2>2. /\ main \notin Ended /\ UNCHANGED <<mainVars, call>> /\ early' = early \ {c}
        /\ \A d \in Calls \ {c} : /\ call'[d] = call[d] /\ queue'[d] = queue[d]
                                  /\ h'[d] = h[d] /\ age'[d] = age[d]
        /\ h[c] = "run" /\ h'[c] = "reply" /\ queue' = queue
      BY <2>1, <1>f DEF RunnerReturns
  <2>3. c \in Busy
      BY <2>2 DEF Busy
  <2>4. Used(c)' >= Used(c)
    <3>1. queue[c] \in 0 .. Window /\ D \in Nat /\ age[c] \in 0 .. D
        BY <1>f, Bounds DEF D
    <3>2. (Window - queue[c]) * D \in Nat
        BY <3>1, UsedUp
    <3>3. Used(c) = (Window - queue[c]) * D + age[c] /\ Used(c)' = (Window - queue[c]) * D + D
        BY <2>2 DEF Used, D
    <3> QED
        BY <3>1, <3>2, <3>3
  <2> QED
      BY <2>2, <2>3, <2>4, <1>0, CallStep
<1>12. CASE UNCHANGED vars
    BY <1>0, <1>12, BeforeStop DEF vars, mainVars
<1> QED
    BY NextCases, <1>1, <1>2, <1>3, <1>4, <1>5, <1>6, <1>7, <1>8, <1>9, <1>10, <1>11, <1>12

LEMMA Invariance == T >= 0 => (Spec => []Inv)
<1> SUFFICES ASSUME T >= 0 PROVE Spec => []Inv
    OBVIOUS
<1>1. Init => Inv
    BY InvInit
<1>2. Inv /\ [Next]_vars => Inv'
    BY InvStep
<1> QED
    BY <1>1, <1>2, PTL DEF Spec

-----------------------------------------------------------------------------
(* Theorems.                                                               *)

\* Every variable of the server process has its type, with and without a time
\* limit: no queue exceeds the window, no command its time limit and kill, and
\* the self-pipe holds no more bytes than signals were sent.
THEOREM Typing == Spec => []TypeOK
<1>1. Init => TypeOK
    BY TypeInit
<1>2. TypeOK /\ [Next]_vars => TypeOK'
    BY TypeStep
<1> QED
    BY <1>1, <1>2, PTL DEF Spec

\* For every time limit, the grace of stop() is long enough for every command
\* that was running when it was called, provided a kill takes less than the limit.
THEOREM RunningCommandsAreSpared == Spec => []RunningIsSpared
<1>1. CASE T >= 0
  <2>1. Inv => RunningIsSpared
      BY DEF Inv
  <2> QED
      BY <1>1, <2>1, Invariance, PTL
<1>2. CASE ~(T >= 0)
  <2>1. RunningIsSpared
      BY <1>2, Bounds DEF RunningIsSpared
  <2> QED
      BY <2>1, PTL
<1> QED
    BY <1>1, <1>2

\* With a time limit, which may be 0, stop() returns within the grace and
\* Window + 1 commands, for every number of open streams: the handlers of streams
\* that were cut work in parallel.  A negative limit is left out by the property
\* itself: commands, and so stop(), may then take for ever.
THEOREM ShutdownsAreBounded == Spec => []ShutdownIsBounded
<1>1. CASE T >= 0
  <2>1. Inv => ShutdownIsBounded
      BY DEF Inv
  <2> QED
      BY <1>1, <2>1, Invariance, PTL
<1>2. CASE ~(T >= 0)
  <2>1. ShutdownIsBounded
      BY <1>2 DEF ShutdownIsBounded
  <2> QED
      BY <2>1, PTL
<1> QED
    BY <1>1, <1>2

=============================================================================
