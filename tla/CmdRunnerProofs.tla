-------------------------- MODULE CmdRunnerProofs --------------------------
(***************************************************************************)
(* Theorems about CmdRunner, for every program a child may run, every size *)
(* of the pipes and every time limit.                                      *)
(***************************************************************************)
EXTENDS CmdRunner, SequenceTheorems, TLAPS

-----------------------------------------------------------------------------
(* The inductive invariant.                                                *)

Running == {"started", "loop", "read", "finish"}

\* What a phase of runInProcess knows about the child, whose end it notices
\* late: a child that was seen to be gone had exited with its pipes empty.
Phases ==
    /\ pc = "call" => /\ child = "none" /\ state = "NotRunning" /\ ~expired
                      /\ at = 0 /\ pipe = None /\ buffer = None /\ all = None
    /\ pc \in Running => child \in {"running", "exited"}
    /\ pc \in {"started", "loop"} => state = "Running"
    /\ pc = "finish" => state = "NotRunning"
    /\ pc \in Running /\ state = "NotRunning" => child = "exited" /\ pipe = None
    /\ pc = "done" => child # "running"
    /\ child = "killed" => pc = "done" /\ expired

\* A child that exits with 0 has done all of its steps.
ZeroIsTheEnd == child = "exited" /\ code = 0 => at = Len(prog.steps)

Inv == TypeOK /\ Phases /\ ZeroIsTheEnd /\ NothingLost /\ ReturnIsHonest

-----------------------------------------------------------------------------
(* Sequences of chunks.                                                    *)

LEMMA NoneType == None \in Chunks /\ \A ch \in Channels : None[ch] = <<>> /\ Len(None[ch]) = 0
BY DEF None, Chunks, Channels

LEMMA StepsType ==
    ASSUME prog \in Programs
    PROVE  /\ prog.steps \in Seq(Channels \cup {"stdin"}) /\ prog.exit \in Nat
           /\ Len(prog.steps) \in Nat
BY CmdRunnerAssumption DEF Program

\* The next chunk at the end of what was listed before.
LEMMA ListsAppend ==
    ASSUME NEW s \in Seq(Nat), NEW S, NEW n \in Nat, S \subseteq 1 .. n, Lists(s, S)
    PROVE  Lists(Append(s, n + 1), S \cup {n + 1})
<1> DEFINE t == Append(s, n + 1)
<1>1. /\ t \in Seq(Nat) /\ Len(t) = Len(s) + 1 /\ Len(s) \in Nat
      /\ DOMAIN s = 1 .. Len(s) /\ DOMAIN t = 1 .. Len(s) + 1
      /\ t[Len(s) + 1] = n + 1 /\ \A i \in 1 .. Len(s) : t[i] = s[i]
    OBVIOUS
<1> HIDE DEF t
<1>2. \A i \in 1 .. Len(s) : s[i] \in S /\ s[i] \in Nat /\ s[i] < n + 1
  <2> SUFFICES ASSUME NEW i \in 1 .. Len(s) PROVE s[i] \in S /\ s[i] \in Nat /\ s[i] < n + 1
      OBVIOUS
  <2>1. s[i] \in S
      BY <1>1 DEF Lists
  <2>2. s[i] \in 1 .. n
      BY <2>1
  <2> QED
      BY <2>1, <2>2
<1>3. \A i, j \in DOMAIN t : i < j => t[i] < t[j]
  <2> SUFFICES ASSUME NEW i \in 1 .. Len(s) + 1, NEW j \in 1 .. Len(s) + 1, i < j PROVE t[i] < t[j]
      BY <1>1
  <2>1. CASE j = Len(s) + 1
      BY <2>1, <1>1, <1>2
  <2>2. CASE j # Len(s) + 1
    <3>0. Len(s) \in Nat
        BY <1>1
    <3>1. i \in 1 .. Len(s) /\ j \in 1 .. Len(s)
        BY <2>2, <3>0
    <3>2. s[i] < s[j]
        BY <3>1, <1>1 DEF Lists
    <3> QED
        BY <3>1, <3>2, <1>1
  <2> QED
      BY <2>1, <2>2
<1>4. {t[i] : i \in DOMAIN t} = {s[i] : i \in DOMAIN s} \cup {n + 1}
    BY <1>1
<1> QED
    BY <1>3, <1>4 DEF Lists, t

\* A message of runInProcess is no output of a child.
LEMMA MessageIsNoOutput ==
    ASSUME NEW s \in Seq(Nat), NEW S, NEW n \in Nat, S \subseteq 1 .. n, Lists(s, S)
    PROVE  s # Message
<1> SUFFICES ASSUME s = Message PROVE FALSE
    OBVIOUS
<1>1. 1 \in DOMAIN s /\ s[1] = 0
    BY DEF Message
<1>2. 0 \in S
    BY <1>1 DEF Lists
<1> QED
    BY <1>2

LEMMA Regroup ==
    \A a, b, p \in Seq(Nat) :
        /\ a \o (b \o p) = a \o b \o p
        /\ \A n \in Nat : a \o b \o Append(p, n) = Append(a \o b \o p, n)
<1> SUFFICES ASSUME NEW a \in Seq(Nat), NEW b \in Seq(Nat), NEW p \in Seq(Nat)
             PROVE  /\ a \o (b \o p) = a \o b \o p
                    /\ \A n \in Nat : a \o b \o Append(p, n) = Append(a \o b \o p, n)
    OBVIOUS
<1>1. a \o (b \o p) = a \o b \o p
    OBVIOUS
<1>2. ASSUME NEW n \in Nat PROVE a \o b \o Append(p, n) = Append(a \o b \o p, n)
    OBVIOUS
<1> QED
    BY <1>1, <1>2

-----------------------------------------------------------------------------
(* Initially, and at every step.                                           *)

LEMMA NextCases ==
    ASSUME [Next]_vars
    PROVE  \/ ChildWrites \/ ChildReadsStdin \/ ChildExits
           \/ RefuseToStart \/ Start \/ StartWithoutPrivilege \/ CloseWriteChannel
           \/ WaitForReadyRead \/ ReadAll \/ KillChild \/ Finish
           \/ DeadlinePasses \/ UNCHANGED vars
BY DEF Next, Child, runInProcess, Returned

LEMMA InvInit == Init => Inv
<1> SUFFICES ASSUME Init PROVE Inv
    OBVIOUS
<1>1. NoRet.rc = -1
    BY DEF NoRet
<1>2. Len(prog.steps) \in Nat
    BY StepsType DEF Init
<1>3. TypeOK
  <2>1. pipe \in Chunks /\ buffer \in Chunks /\ all \in Chunks
      BY NoneType DEF Init
  <2>2. \A ch \in Channels : Len(pipe[ch]) <= PipeSize
      BY NoneType, CmdRunnerAssumption DEF Init
  <2>3. prog \in Programs /\ limit \in Limits /\ at \in Nat /\ at <= Len(prog.steps)
      BY <1>2 DEF Init
  <2>4. ret.rc \in Int
      BY <1>1 DEF Init
  <2> QED
      BY <2>1, <2>2, <2>3, <2>4 DEF Init, TypeOK
<1>4. Phases /\ ZeroIsTheEnd /\ ReturnIsHonest
    BY DEF Init, Phases, Running, ZeroIsTheEnd, ReturnIsHonest
<1>5. NothingLost
  <2> SUFFICES ASSUME NEW ch \in Channels
               PROVE  Lists(all[ch] \o buffer[ch] \o pipe[ch], Written(ch))
      BY DEF NothingLost
  <2>1. all[ch] \o buffer[ch] \o pipe[ch] = <<>>
      BY NoneType DEF Init
  <2>2. Written(ch) = {}
      BY DEF Init, Written
  <2> QED
      BY <2>1, <2>2 DEF Lists
<1> QED
    BY <1>3, <1>4, <1>5 DEF Inv

\* What the runner moves from the pipes to its buffers, and from these to its
\* results, are sequences of chunks.
LEMMA ReceivedType ==
    ASSUME NEW f \in Chunks, NEW g \in Chunks
    PROVE  [ch \in Channels |-> f[ch] \o g[ch]] \in Chunks
BY DEF Chunks

LEMMA TypeStep == TypeOK /\ [Next]_vars => TypeOK'
<1> SUFFICES ASSUME TypeOK, [Next]_vars PROVE TypeOK'
    OBVIOUS
<1> USE DEF TypeOK
<1>0. /\ prog.steps \in Seq(Channels \cup {"stdin"}) /\ prog.exit \in Nat /\ Len(prog.steps) \in Nat
      /\ PipeSize \in Nat
    BY StepsType, CmdRunnerAssumption
<1>1. CASE ChildWrites
  <2> DEFINE ch == prog.steps[at + 1]
  <2>1. /\ ch \in Channels /\ Len(pipe[ch]) < PipeSize /\ at' = at + 1 /\ at < Len(prog.steps)
        /\ pipe' = [pipe EXCEPT ![ch] = Append(@, at + 1)]
      BY <1>1 DEF ChildWrites, Doing
  <2>2. at' \in Nat /\ at' <= Len(prog.steps)
      BY <2>1, <1>0
  <2> HIDE DEF ch
  <2>3. pipe[ch] \in Seq(Nat) /\ pipe \in [Channels -> Seq(Nat)]
      BY <2>1 DEF Chunks
  <2>4. Append(pipe[ch], at + 1) \in Seq(Nat) /\ Len(Append(pipe[ch], at + 1)) <= PipeSize
      BY <2>1, <2>3, <1>0
  <2>5. pipe' \in Chunks /\ \A d \in Channels : Len(pipe'[d]) <= PipeSize
      BY <2>1, <2>3, <2>4 DEF Chunks
  <2> QED
      BY <2>2, <2>5, <1>1 DEF ChildWrites
<1>2. CASE ChildReadsStdin
    BY <1>2, <1>0 DEF ChildReadsStdin, Doing
<1>3. CASE ChildExits
    BY <1>3, <1>0 DEF ChildExits
<1>4. CASE RefuseToStart
    BY <1>4 DEF RefuseToStart, Return, childVars
<1>5. CASE Start
    BY <1>5 DEF Start
<1>6. CASE StartWithoutPrivilege
    BY <1>6 DEF StartWithoutPrivilege
<1>7. CASE CloseWriteChannel
    BY <1>7 DEF CloseWriteChannel, childVars
<1>8. CASE WaitForReadyRead
  <2>1. buffer' \in Chunks /\ pipe' \in Chunks
      BY <1>8, ReceivedType, NoneType DEF WaitForReadyRead, Received
  <2>2. \A ch \in Channels : Len(pipe'[ch]) <= PipeSize
      BY <1>8, <1>0, NoneType DEF WaitForReadyRead
  <2> QED
      BY <1>8, <2>1, <2>2 DEF WaitForReadyRead
<1>9. CASE ReadAll
  <2>1. all' \in Chunks /\ buffer' \in Chunks
      BY <1>9, ReceivedType, NoneType DEF ReadAll
  <2> QED
      BY <1>9, <2>1 DEF ReadAll, childVars
<1>10. CASE KillChild
    BY <1>10 DEF KillChild, Return
<1>11. CASE Finish
  <2>1. all' \in Chunks /\ buffer' \in Chunks
      BY <1>11, ReceivedType, NoneType DEF Finish
  <2> QED
      BY <1>11, <2>1 DEF Finish, Return, childVars
<1>12. CASE DeadlinePasses
    BY <1>12 DEF DeadlinePasses, childVars
<1>13. CASE UNCHANGED vars
    BY <1>13 DEF vars
<1> QED
    BY NextCases, <1>1, <1>2, <1>3, <1>4, <1>5, <1>6, <1>7, <1>8, <1>9, <1>10, <1>11, <1>12, <1>13

LEMMA PhasesStep == TypeOK /\ Phases /\ [Next]_vars => Phases'
<1> SUFFICES ASSUME TypeOK, Phases, [Next]_vars PROVE Phases'
    OBVIOUS
<1> USE DEF Phases, Running
<1>0. None' = None
    BY DEF None
<1>1. CASE ChildWrites
    BY <1>0, <1>1 DEF ChildWrites, Doing, TypeOK
<1>2. CASE ChildReadsStdin
    BY <1>0, <1>2 DEF ChildReadsStdin, Doing, TypeOK
<1>3. CASE ChildExits
    BY <1>0, <1>3 DEF ChildExits, TypeOK
<1>4. CASE RefuseToStart
    BY <1>0, <1>4 DEF RefuseToStart, Return, childVars
<1>5. CASE Start
    BY <1>0, <1>5 DEF Start
<1>6. CASE StartWithoutPrivilege
    BY <1>0, <1>6 DEF StartWithoutPrivilege
<1>7. CASE CloseWriteChannel
    BY <1>0, <1>7 DEF CloseWriteChannel, childVars
<1>8. CASE WaitForReadyRead
    BY <1>0, <1>8 DEF WaitForReadyRead, TypeOK
<1>9. CASE ReadAll
    BY <1>0, <1>9 DEF ReadAll, childVars, TypeOK
<1>10. CASE KillChild
    BY <1>0, <1>10 DEF KillChild, Return
<1>11. CASE Finish
    BY <1>0, <1>11 DEF Finish, Return, childVars
<1>12. CASE DeadlinePasses
    BY <1>0, <1>12 DEF DeadlinePasses, childVars
<1>13. CASE UNCHANGED vars
    BY <1>0, <1>13 DEF vars
<1> QED
    BY NextCases, <1>1, <1>2, <1>3, <1>4, <1>5, <1>6, <1>7, <1>8, <1>9, <1>10, <1>11, <1>12, <1>13

LEMMA ZeroStep == TypeOK /\ Phases /\ ZeroIsTheEnd /\ [Next]_vars => ZeroIsTheEnd'
<1> SUFFICES ASSUME TypeOK, Phases, ZeroIsTheEnd, [Next]_vars PROVE ZeroIsTheEnd'
    OBVIOUS
<1> USE DEF ZeroIsTheEnd
<1>1. CASE ChildWrites \/ ChildReadsStdin \/ ChildExits
    BY <1>1 DEF ChildWrites, ChildReadsStdin, Doing, ChildExits
<1>2. CASE RefuseToStart \/ Start \/ StartWithoutPrivilege
    BY <1>2 DEF RefuseToStart, Start, StartWithoutPrivilege, childVars
<1>3. CASE \/ CloseWriteChannel \/ WaitForReadyRead \/ ReadAll \/ KillChild \/ Finish
           \/ DeadlinePasses \/ UNCHANGED vars
    BY <1>3 DEF CloseWriteChannel, WaitForReadyRead, ReadAll, KillChild, Finish, DeadlinePasses,
                childVars, vars
<1> QED
    BY NextCases, <1>1, <1>2, <1>3

\* A step that neither reads a chunk of the program nor moves one.
LEMMA LostStutter ==
    ASSUME NothingLost, UNCHANGED <<prog, at, all, buffer, pipe>>
    PROVE  NothingLost'
BY DEF NothingLost, Written

LEMMA LostStep == TypeOK /\ NothingLost /\ [Next]_vars => NothingLost'
<1> SUFFICES ASSUME TypeOK, NothingLost, [Next]_vars PROVE NothingLost'
    OBVIOUS
<1>1. \A ch \in Channels : all[ch] \in Seq(Nat) /\ buffer[ch] \in Seq(Nat) /\ pipe[ch] \in Seq(Nat)
    BY DEF TypeOK, Chunks
<1>2. CASE ChildWrites
  <2> DEFINE w == prog.steps[at + 1]
  <2>1. /\ w \in Channels /\ at' = at + 1 /\ at \in Nat
        /\ pipe' = [pipe EXCEPT ![w] = Append(@, at + 1)]
        /\ UNCHANGED <<prog, all, buffer>>
      BY <1>2 DEF ChildWrites, TypeOK
  <2>2. pipe \in [Channels -> Seq(Nat)]
      BY DEF TypeOK, Chunks
  <2> SUFFICES ASSUME NEW ch \in Channels
               PROVE  Lists(all[ch] \o buffer[ch] \o pipe'[ch], Written(ch)')
      BY <2>1 DEF NothingLost
  <2>3. CASE ch = w
    <3>1. Written(ch)' = Written(ch) \cup {at + 1}
        BY <2>1, <2>3 DEF Written
    <3>2. pipe'[ch] = Append(pipe[ch], at + 1)
        BY <2>1, <2>2, <2>3
    <3> HIDE DEF w
    <3>a. all[ch] \in Seq(Nat) /\ buffer[ch] \in Seq(Nat) /\ pipe[ch] \in Seq(Nat) /\ at + 1 \in Nat
        BY <1>1, <2>1
    <3>3. all[ch] \o buffer[ch] \o pipe'[ch] = Append(all[ch] \o buffer[ch] \o pipe[ch], at + 1)
      <4>1. all[ch] \o buffer[ch] \o Append(pipe[ch], at + 1) = Append(all[ch] \o buffer[ch] \o pipe[ch], at + 1)
          BY <3>a, Regroup, Zenon
      <4> QED
          BY <3>2, <4>1
    <3>4. all[ch] \o buffer[ch] \o pipe[ch] \in Seq(Nat)
        BY <1>1
    <3>5. Written(ch) \subseteq 1 .. at
        BY DEF Written
    <3>6. Lists(all[ch] \o buffer[ch] \o pipe[ch], Written(ch))
        BY DEF NothingLost
    <3> QED
        BY <3>1, <3>3, <3>4, <3>5, <3>6, <2>1, ListsAppend
  <2>4. CASE ch # w
    <3>1. Written(ch)' = Written(ch)
        BY <2>1, <2>4 DEF Written
    <3>2. pipe'[ch] = pipe[ch]
        BY <2>1, <2>2, <2>4
    <3> QED
        BY <3>1, <3>2 DEF NothingLost
  <2> QED
      BY <2>3, <2>4
<1>3. CASE ChildReadsStdin
  <2>1. at' = at + 1 /\ at \in Nat /\ UNCHANGED <<prog, all, buffer, pipe>> /\ prog.steps[at + 1] = "stdin"
      BY <1>3 DEF ChildReadsStdin, TypeOK
  <2>2. \A ch \in Channels : Written(ch)' = Written(ch)
      BY <2>1 DEF Written, Channels
  <2> QED
      BY <2>1, <2>2 DEF NothingLost
<1>4. CASE WaitForReadyRead
  <2>1. UNCHANGED <<prog, at, all>> /\ buffer' = Received /\ pipe' = None
      BY <1>4 DEF WaitForReadyRead
  <2>2. ASSUME NEW ch \in Channels
        PROVE  all'[ch] \o buffer'[ch] \o pipe'[ch] = all[ch] \o buffer[ch] \o pipe[ch]
    <3>1. buffer'[ch] = buffer[ch] \o pipe[ch] /\ pipe'[ch] = <<>>
        BY <2>1, NoneType DEF Received
    <3>a. all[ch] \in Seq(Nat) /\ buffer[ch] \in Seq(Nat) /\ pipe[ch] \in Seq(Nat)
        BY <1>1
    <3>2. all[ch] \o (buffer[ch] \o pipe[ch]) = all[ch] \o buffer[ch] \o pipe[ch]
        BY <3>a, Regroup, Zenon
    <3>3. all[ch] \o buffer[ch] \o pipe[ch] \in Seq(Nat)
        BY <1>1
    <3> QED
        BY <2>1, <3>1, <3>2, <3>3, ConcatEmptySeq
  <2>3. \A ch \in Channels : Written(ch)' = Written(ch)
      BY <2>1 DEF Written
  <2> QED
      BY <2>2, <2>3 DEF NothingLost
<1>5. CASE ReadAll \/ Finish
  <2>1. /\ UNCHANGED <<prog, at, pipe>> /\ buffer' = None
        /\ all' = [ch \in Channels |-> all[ch] \o buffer[ch]]
      BY <1>5 DEF ReadAll, Finish, childVars
  <2>2. ASSUME NEW ch \in Channels
        PROVE  all'[ch] \o buffer'[ch] \o pipe'[ch] = all[ch] \o buffer[ch] \o pipe[ch]
    <3>1. all'[ch] = all[ch] \o buffer[ch] /\ buffer'[ch] = <<>>
        BY <2>1, NoneType
    <3>2. all[ch] \o buffer[ch] \in Seq(Nat)
        BY <1>1
    <3> QED
        BY <2>1, <3>1, <3>2, ConcatEmptySeq
  <2>3. \A ch \in Channels : Written(ch)' = Written(ch)
      BY <2>1 DEF Written
  <2> QED
      BY <2>2, <2>3 DEF NothingLost
<1>6. CASE \/ ChildExits \/ RefuseToStart \/ Start \/ StartWithoutPrivilege \/ CloseWriteChannel
           \/ KillChild \/ DeadlinePasses \/ UNCHANGED vars
    BY <1>6, LostStutter DEF ChildExits, RefuseToStart, Start, StartWithoutPrivilege,
          CloseWriteChannel, KillChild, DeadlinePasses, childVars, vars
<1> QED
    BY NextCases, <1>2, <1>3, <1>4, <1>5, <1>6

\* At the return nothing is left in the pipes, so that what is returned is all
\* there was; afterwards the child is gone and nothing changes any more.
LEMMA ReturnStep == Inv /\ [Next]_vars => ReturnIsHonest'
<1> SUFFICES ASSUME Inv, [Next]_vars PROVE ReturnIsHonest'
    OBVIOUS
<1>1. CASE RefuseToStart \/ KillChild
    BY <1>1 DEF RefuseToStart, KillChild, Return, ReturnIsHonest, Message
<1>2. CASE Finish
  <2>1. /\ UNCHANGED <<prog, at, child, code, pipe>>
        /\ all' = [ch \in Channels |-> all[ch] \o buffer[ch]]
        /\ ret' = [rc |-> code, out |-> all'["out"], err |-> all'["err"]]
        /\ child = "exited" /\ pipe = None
      BY <1>2 DEF Finish, Return, childVars, Inv, Phases, Running
  <2>2. ASSUME NEW ch \in Channels PROVE Lists(all'[ch], Written(ch)')
    <3>1. all[ch] \in Seq(Nat) /\ buffer[ch] \in Seq(Nat) /\ pipe[ch] = <<>>
        BY <2>1, NoneType DEF Inv, TypeOK, Chunks
    <3>2. all[ch] \o buffer[ch] \in Seq(Nat)
        BY <3>1
    <3>3. all[ch] \o buffer[ch] \o pipe[ch] = all'[ch]
        BY <2>1, <3>1, <3>2, ConcatEmptySeq
    <3>4. Written(ch)' = Written(ch)
        BY <2>1 DEF Written
    <3> QED
        BY <3>3, <3>4 DEF Inv, NothingLost
  <2>3. Lists(all'["out"], Written("out")') /\ Lists(all'["err"], Written("err")')
      BY <2>2 DEF Channels
  <2>4. ret'.rc = code' /\ ret'.out = all'["out"] /\ ret'.err = all'["err"]
      BY <2>1
  <2>5. ret'.rc = 0 => child' = "exited" /\ code' = 0 /\ at' = Len(prog'.steps)
      BY <2>1, <2>4 DEF Inv, ZeroIsTheEnd
  <2> QED
      BY <2>1, <2>3, <2>4, <2>5 DEF ReturnIsHonest
<1>3. CASE \/ ChildWrites \/ ChildReadsStdin \/ ChildExits
    BY <1>3 DEF ChildWrites, ChildReadsStdin, ChildExits, Doing, ReturnIsHonest, Inv, Phases
<1>4. CASE \/ Start \/ StartWithoutPrivilege \/ CloseWriteChannel \/ WaitForReadyRead \/ ReadAll
           \/ DeadlinePasses
    BY <1>4 DEF Start, StartWithoutPrivilege, CloseWriteChannel, WaitForReadyRead, ReadAll,
                DeadlinePasses, ReturnIsHonest
<1>5. CASE UNCHANGED vars
    BY <1>5 DEF vars, ReturnIsHonest, Inv, Written, Message
<1> QED
    BY NextCases, <1>1, <1>2, <1>3, <1>4, <1>5

LEMMA InvStep == Inv /\ [Next]_vars => Inv'
BY TypeStep, PhasesStep, ZeroStep, LostStep, ReturnStep DEF Inv

LEMMA Invariance == Spec => []Inv
<1>1. Init => Inv
    BY InvInit
<1>2. Inv /\ [Next]_vars => Inv'
    BY InvStep
<1> QED
    BY <1>1, <1>2, PTL DEF Spec

-----------------------------------------------------------------------------
(* Theorems.                                                               *)

\* Every variable of runInProcess and of its child has its type, and no pipe
\* ever holds more than its size.
THEOREM Typing == Spec => []TypeOK
<1>1. Inv => TypeOK
    BY DEF Inv
<1> QED
    BY <1>1, Invariance, PTL

\* For every program, pipe size and interleaving of the child with the polling
\* loop of runInProcess, the chunks in outAll, the read buffer and the pipe are,
\* for each channel, what the child has written: none lost, repeated or reordered.
THEOREM OutputIsPreserved == Spec => []NothingLost
<1>1. Inv => NothingLost
    BY DEF Inv
<1> QED
    BY <1>1, Invariance, PTL

\* What runInProcess returns is the child's exit code and complete output, or an
\* error of its own; 0 means that the command ran to its end and exited with 0.
THEOREM ReturnsAreHonest == Spec => []ReturnIsHonest
<1>1. Inv => ReturnIsHonest
    BY DEF Inv
<1> QED
    BY <1>1, Invariance, PTL

\* runInProcess never returns while its child runs, and kills it only after the
\* time limit has passed.
THEOREM NoChildSurvives == Spec => []NoChildLeft
<1>1. Inv => NoChildLeft
    BY DEF Inv, Phases, NoChildLeft
<1> QED
    BY <1>1, Invariance, PTL

=============================================================================
