------------------------ MODULE RemSvcServiceProofs ------------------------
(***************************************************************************)
(* Theorems about RemSvcService and RemSvcMain, for every set of calls,    *)
(* requests, configurations and options.                                   *)
(***************************************************************************)
EXTENDS RemSvcMain, CommandPolicyProofs, FiniteSetTheorems, TLAPS

-----------------------------------------------------------------------------
(* The inductive invariant.                                                *)

Methods == {"none", "Ping", "GetStatus", "RemCmd"}
Codes   == {"none", "OK", "PERMISSION_DENIED", "INVALID_ARGUMENT", "DEADLINE_EXCEEDED"}
Replies == [code : Codes, val : Int]

Types ==
    /\ config \in Configs
    /\ method \in [Calls -> Methods]
    /\ DOMAIN arg = Calls
    /\ \A c \in Calls : /\ method[c] = "none" => arg[c] = NoArg
                        /\ method[c] = "Ping" => arg[c].tid \in Int
    /\ pc \in [Calls -> {"none", "check", "run", "done"}]
    /\ reply \in [Calls -> Replies] /\ outcome \in [Calls -> Replies]
    /\ m_commandsExecuted \in Nat

\* A handler works on a call that was made, and has replied when it is done.
HandlerOf(c) ==
    /\ method[c] = "none" => pc[c] = "none"
    /\ pc[c] = "run" => method[c] = "RemCmd"
    /\ pc[c] # "done" => reply[c] = Nothing

\* What is in the runner, or has been, was admitted.
AdmittedBefore(c) ==
    method[c] = "RemCmd" /\ (pc[c] = "run" \/ reply[c].code = "OK")
        => Verdict(config, arg[c]) = "OK"

\* A client's result is the default of its failure, or what the handler replied.
OutcomeFollows(c) ==
    /\ method[c] = "none" => outcome[c] = Nothing
    /\ outcome[c].code \in {"none", "DEADLINE_EXCEEDED"} \/ outcome[c].code = reply[c].code
    /\ method[c] = "RemCmd" /\ outcome[c].val = 0
          => pc[c] = "done" /\ reply[c].code = "OK" /\ reply[c].val = 0

Sound(c) == HandlerOf(c) /\ AdmittedBefore(c) /\ OutcomeFollows(c)

Inv == Types /\ \A c \in Calls : Sound(c)

\* No call has been made at the start.
LEMMA InvInit == Init => Inv
<1> SUFFICES ASSUME Init PROVE Inv
    OBVIOUS
<1>1. Nothing \in Replies /\ Nothing.code = "none" /\ Nothing.val = -1
    BY DEF Nothing, Replies, Codes
<1>2. Types
    BY <1>1 DEF Init, Types, Methods
<1>3. ASSUME NEW c \in Calls PROVE Sound(c)
    BY <1>1 DEF Init, Sound, HandlerOf, AdmittedBefore, OutcomeFollows
<1> QED
    BY <1>2, <1>3 DEF Inv

-----------------------------------------------------------------------------
(* Each step concerns one call.                                            *)

\* What a step leaves alone stays sound.
LEMMA Untouched ==
    ASSUME NEW d \in Calls, Sound(d), config' = config,
           method'[d] = method[d], arg'[d] = arg[d], pc'[d] = pc[d],
           reply'[d] = reply[d], outcome'[d] = outcome[d]
    PROVE  Sound(d)'
<1>1. Verdict(config, arg[d])' = Verdict(config, arg[d])
    OBVIOUS
<1> QED
    BY <1>1 DEF Sound, HandlerOf, AdmittedBefore, OutcomeFollows, Nothing

\* A client function begins.
LEMMA StartStep ==
    ASSUME Inv, NEW c \in Calls, NEW m \in {"Ping", "GetStatus", "RemCmd"}, Start(c, m),
           DOMAIN arg' = Calls, \A d \in Calls \ {c} : arg'[d] = arg[d],
           m = "Ping" => arg'[c].tid \in Int
    PROVE  Inv'
<1>1. /\ config' = config /\ reply' = reply /\ outcome' = outcome
      /\ m_commandsExecuted' = m_commandsExecuted
      /\ method' = [method EXCEPT ![c] = m] /\ pc' = [pc EXCEPT ![c] = "check"]
      /\ method[c] = "none"
    BY DEF Start
<1>2. Types'
    BY <1>1 DEF Inv, Types, Methods
<1>3. ASSUME NEW d \in Calls, d # c PROVE Sound(d)'
    BY <1>1, <1>3, Untouched DEF Inv, Types
<1>4. Sound(c)'
  <2>1. /\ pc[c] = "none" /\ reply[c] = Nothing /\ outcome[c] = Nothing
        /\ method'[c] = m /\ pc'[c] = "check"
      BY <1>1 DEF Inv, Types, Sound, HandlerOf, OutcomeFollows
  <2>2. Nothing.code = "none" /\ Nothing.val = -1 /\ Nothing' = Nothing
      BY DEF Nothing
  <2> QED
      BY <1>1, <2>1, <2>2 DEF Sound, HandlerOf, AdmittedBefore, OutcomeFollows
<1> QED
    BY <1>2, <1>3, <1>4 DEF Inv

\* doRemCmd begins, whatever it sends.
LEMMA CommandStep == ASSUME Inv, NEW c \in Calls, NEW req, doRemCmd(c, req) PROVE Inv'
<1>1. Start(c, "RemCmd") /\ arg' = [arg EXCEPT ![c] = req]
    BY DEF doRemCmd
<1>2. DOMAIN arg' = Calls /\ \A d \in Calls \ {c} : arg'[d] = arg[d]
    BY <1>1 DEF Inv, Types
<1> QED
    BY <1>1, <1>2, StartStep

\* doPing begins, whatever its number.
LEMMA PingStep == ASSUME Inv, NEW c \in Calls, NEW seq \in Int, doPing(c, seq) PROVE Inv'
<1>1. Start(c, "Ping") /\ arg' = [arg EXCEPT ![c].tid = seq]
    BY DEF doPing
<1>2. DOMAIN arg' = Calls /\ \A d \in Calls \ {c} : arg'[d] = arg[d]
    BY <1>1 DEF Inv, Types
<1>3. arg'[c].tid = seq
    BY <1>1 DEF Start, Inv, Types, NoArg
<1> QED
    BY <1>1, <1>2, <1>3, StartStep

\* A client function ends with outcome o.
LEMMA EndStep ==
    ASSUME Inv, NEW c \in Calls, NEW o \in Replies,
           method[c] # "none",
           o.code = "DEADLINE_EXCEEDED" \/ o.code = reply[c].code,
           method[c] = "RemCmd" /\ o.val = 0
               => pc[c] = "done" /\ reply[c].code = "OK" /\ reply[c].val = 0,
           outcome' = [outcome EXCEPT ![c] = o],
           UNCHANGED <<config, method, arg, pc, reply, m_commandsExecuted, seen>>
    PROVE  Inv'
<1>1. Types'
    BY DEF Inv, Types
<1>2. ASSUME NEW d \in Calls, d # c PROVE Sound(d)'
    BY <1>2, Untouched DEF Inv, Types
<1>3. Sound(c)'
  <2>1. outcome'[c] = o
      BY DEF Inv, Types
  <2>2. Verdict(config, arg[c])' = Verdict(config, arg[c]) /\ Nothing' = Nothing
      BY DEF Nothing
  <2> QED
      BY <2>1, <2>2 DEF Inv, Sound, HandlerOf, AdmittedBefore, OutcomeFollows
<1> QED
    BY <1>1, <1>2, <1>3 DEF Inv

\* A handler replies with code k and value v.
LEMMA RespondStep ==
    ASSUME Inv, NEW c \in Calls, NEW k \in Codes, NEW v \in Int, Respond(c, k, v),
           pc[c] \in {"check", "run"},
           method[c] = "RemCmd" /\ k = "OK" => Verdict(config, arg[c]) = "OK",
           m_commandsExecuted' \in Nat,
           UNCHANGED <<config, method, arg, outcome, seen>>
    PROVE  Inv'
<1>1. /\ pc' = [pc EXCEPT ![c] = "done"]
      /\ reply' = [reply EXCEPT ![c] = [code |-> k, val |-> v]]
    BY DEF Respond
<1>2. [code |-> k, val |-> v] \in Replies
    BY DEF Replies
<1>3. Types'
    BY <1>1, <1>2 DEF Inv, Types
<1>4. ASSUME NEW d \in Calls, d # c PROVE Sound(d)'
    BY <1>1, <1>4, Untouched DEF Inv, Types
<1>5. Sound(c)'
  <2>1. pc'[c] = "done" /\ reply'[c].code = k /\ reply'[c].val = v
      BY <1>1 DEF Inv, Types
  <2>2. Verdict(config, arg[c])' = Verdict(config, arg[c])
      OBVIOUS
  <2>3. Nothing' = Nothing /\ Nothing.code = "none"
      BY DEF Nothing
  <2>4. outcome[c].code \in {"none", "DEADLINE_EXCEEDED"}
      BY <2>3 DEF Inv, Sound, HandlerOf, OutcomeFollows
  <2> QED
      BY <2>1, <2>2, <2>3, <2>4 DEF Inv, Sound, HandlerOf, AdmittedBefore, OutcomeFollows
<1> QED
    BY <1>3, <1>4, <1>5 DEF Inv

\* RemCmd hands its command to the runner.
LEMMA AdmitStep == ASSUME Inv, NEW c \in Calls, Admit(c) PROVE Inv'
<1>1. /\ pc' = [pc EXCEPT ![c] = "run"] /\ pc[c] = "check" /\ method[c] = "RemCmd"
      /\ Verdict(config, arg[c]) = "OK"
      /\ UNCHANGED <<config, method, arg, reply, outcome, m_commandsExecuted, seen>>
    BY DEF Admit
<1>2. Types'
    BY <1>1 DEF Inv, Types
<1>3. ASSUME NEW d \in Calls, d # c PROVE Sound(d)'
    BY <1>1, <1>3, Untouched DEF Inv, Types
<1>4. Sound(c)'
  <2>1. pc'[c] = "run" /\ Nothing' = Nothing
      BY <1>1 DEF Inv, Types, Nothing
  <2>2. Verdict(config, arg[c])' = "OK"
      BY <1>1
  <2> QED
      BY <1>1, <2>1, <2>2 DEF Inv, Sound, HandlerOf, AdmittedBefore, OutcomeFollows
<1> QED
    BY <1>2, <1>3, <1>4 DEF Inv

\* Every step keeps the invariant.
LEMMA InvStep == Inv /\ [Next]_vars => Inv'
<1> SUFFICES ASSUME Inv, [Next]_vars PROVE Inv'
    OBVIOUS
<1>1. ASSUME NEW c \in Calls, NEW req \in Requests, doRemCmd(c, req) PROVE Inv'
    BY <1>1, CommandStep
<1>2. ASSUME NEW c \in Calls, NEW seq \in 1 .. MaxSeq, doPing(c, seq) PROVE Inv'
    BY <1>2, PingStep
<1>3. ASSUME NEW c \in Calls, doGetStatus(c) PROVE Inv'
    BY <1>3, StartStep DEF doGetStatus, Inv, Types
<1>4. ASSUME NEW c \in Calls PROVE OnFailure(c) \in Int /\ (method[c] = "RemCmd" => OnFailure(c) = 1)
    BY DEF OnFailure, Inv, Types, Methods
<1>5. ASSUME NEW c \in Calls, Receive(c) PROVE Inv'
  <2> DEFINE v == IF reply[c].code = "OK" THEN reply[c].val ELSE OnFailure(c)
             o == [code |-> reply[c].code, val |-> v]
  <2>1. /\ reply[c].code # "none" /\ outcome' = [outcome EXCEPT ![c] = o]
        /\ UNCHANGED <<config, method, arg, pc, reply, m_commandsExecuted, seen>>
      BY <1>5 DEF Receive
  <2>2. reply[c].code \in Codes /\ reply[c].val \in Int
      BY DEF Inv, Types, Replies
  <2>3. o \in Replies /\ o.code = reply[c].code /\ o.val = v
      BY <1>4, <2>2 DEF Replies
  <2>4. pc[c] = "done" /\ method[c] # "none"
      BY <2>1 DEF Inv, Sound, HandlerOf, Nothing
  <2>5. method[c] = "RemCmd" /\ v = 0 => reply[c].code = "OK" /\ reply[c].val = 0
      BY <1>4
  <2> HIDE DEF o, v
  <2> QED
      BY <2>1, <2>3, <2>4, <2>5, EndStep
<1>6. ASSUME NEW c \in Calls, GiveUp(c) PROVE Inv'
  <2> DEFINE o == [code |-> "DEADLINE_EXCEEDED", val |-> OnFailure(c)]
  <2>1. /\ method[c] # "none" /\ outcome' = [outcome EXCEPT ![c] = o]
        /\ UNCHANGED <<config, method, arg, pc, reply, m_commandsExecuted, seen>>
      BY <1>6 DEF GiveUp
  <2>2. o \in Replies /\ o.code = "DEADLINE_EXCEEDED" /\ (method[c] = "RemCmd" => o.val # 0)
      BY <1>4 DEF Replies, Codes
  <2> HIDE DEF o
  <2> QED
      BY <2>1, <2>2, EndStep
<1>7. ASSUME NEW c \in Calls, GetStatus(c) PROVE Inv'
  <2>1. m_commandsExecuted \in Int /\ m_commandsExecuted \in Nat
      BY DEF Inv, Types
  <2> QED
      BY <1>7, <2>1, RespondStep DEF GetStatus, Codes
<1>8. ASSUME NEW c \in Calls, Ping(c) PROVE Inv'
  <2>1. /\ method[c] = "Ping" /\ pc[c] = "check" /\ Respond(c, "OK", arg[c].tid)
        /\ UNCHANGED <<config, method, arg, outcome, m_commandsExecuted, seen>>
      BY <1>8 DEF Ping
  <2>2. arg[c].tid \in Int /\ m_commandsExecuted \in Nat
      BY <2>1 DEF Inv, Types
  <2> QED
      BY <2>1, <2>2, RespondStep DEF Codes
<1>9. ASSUME NEW c \in Calls, Reject(c) PROVE Inv'
  <2>1. Verdict(config, arg[c]) \in Codes
      BY DEF Verdict, Codes
  <2> QED
      BY <1>9, <2>1, RespondStep DEF Reject, Inv, Types
<1>10. ASSUME NEW c \in Calls, NEW rc \in {0, 1}, Finish(c, rc) PROVE Inv'
  <2>1. Respond(c, "OK", rc) /\ pc[c] = "run" /\ UNCHANGED <<config, method, arg, outcome, seen>>
      BY <1>10 DEF Finish
  <2>2. m_commandsExecuted' \in Nat
      BY <1>10 DEF Finish, Inv, Types
  <2>3. method[c] = "RemCmd" => Verdict(config, arg[c]) = "OK"
      BY <2>1 DEF Inv, Sound, AdmittedBefore
  <2> QED
      BY <2>1, <2>2, <2>3, RespondStep DEF Codes
<1>11. CASE UNCHANGED vars
  <2>1. Types'
      BY <1>11 DEF vars, Inv, Types
  <2>2. ASSUME NEW d \in Calls PROVE Sound(d)'
      BY <1>11, Untouched DEF vars, Inv
  <2> QED
      BY <2>1, <2>2 DEF Inv
<1> QED
    BY <1>1, <1>2, <1>3, <1>5, <1>6, <1>7, <1>8, <1>9, <1>10, <1>11, AdmitStep
    DEF Next, Handle, Over

\* Hence the invariant holds in every reachable state.
LEMMA Invariance == Spec => []Inv
BY InvInit, InvStep, PTL DEF Spec

-----------------------------------------------------------------------------
\* What was admitted is permitted.
LEMMA PolicyFollows == Inv => OnlyAdmittedRuns
<1> SUFFICES ASSUME Inv, NEW c \in Ran
             PROVE  Permitted(config, arg[c].cmd) /\ arg[c].hsh \in {NoHash, Crc[arg[c].cmd]}
    BY DEF OnlyAdmittedRuns
<1>1. c \in Calls /\ Verdict(config, arg[c]) = "OK"
    BY DEF Ran, Inv, Sound, AdmittedBefore
<1>2. config \in Config
    BY ServiceAssumption DEF Inv, Types
<1> QED
    BY <1>1, <1>2, VerdictFollowsPolicy

\* Whatever requests are checked and executed at the same time, no command reaches
\* the runner that the policy forbids or whose hash is wrong.
THEOREM OnlyAdmittedCommandsRun == Spec => []OnlyAdmittedRuns
BY Invariance, PolicyFollows, PTL

\* What the client has follows what the handler replied.
LEMMA HonestyFollows == Inv => OutcomeIsHonest
<1> SUFFICES ASSUME Inv, NEW c \in Calls, method[c] = "RemCmd"
             PROVE  /\ outcome[c].val = 0 => c \in Ran /\ reply[c].val = 0
                    /\ outcome[c].code \in {"PERMISSION_DENIED", "INVALID_ARGUMENT"} => c \notin Ran
    BY DEF OutcomeIsHonest
<1>1. outcome[c].val = 0 => c \in Ran /\ reply[c].val = 0
    BY DEF Inv, Sound, OutcomeFollows, Ran
<1>2. outcome[c].code \in {"PERMISSION_DENIED", "INVALID_ARGUMENT"} => c \notin Ran
  <2>1. Nothing.code = "none"
      BY DEF Nothing
  <2> QED
      BY <2>1 DEF Inv, Sound, HandlerOf, OutcomeFollows, Ran
<1> QED
    BY <1>1, <1>2

\* What doRemCmd returns is true of the command, whether the reply, the deadline or
\* a rejection came first: 0 means run to success, a rejection means not run.
THEOREM OutcomesAreHonest == Spec => []OutcomeIsHonest
BY Invariance, HonestyFollows, PTL

-----------------------------------------------------------------------------
(* The counter.                                                            *)

\* The RemCmd calls whose handler has run its command and replied.
Counted == {c \in Calls : method[c] = "RemCmd" /\ reply[c].code = "OK"}

\* What GetStatus replied lies between what its caller could know and what has run.
StatusOf(c) ==
    method[c] = "GetStatus" /\ reply[c].code = "OK" =>
        Cardinality(seen[c]) <= reply[c].val /\ reply[c].val <= Cardinality(Counted)

CounterInv ==
    /\ m_commandsExecuted = Cardinality(Counted)
    /\ seen \in [Calls -> SUBSET Counted]
    /\ \A c \in Calls : StatusOf(c)

\* The sets that are counted are finite, and a larger one counts more.
LEMMA CountsGrow ==
    ASSUME NEW S, NEW T, S \subseteq T, T \subseteq Calls
    PROVE  /\ IsFiniteSet(S) /\ Cardinality(S) \in Nat /\ Cardinality(T) \in Nat
           /\ Cardinality(S) <= Cardinality(T)
<1>1. IsFiniteSet(T)
    BY ServiceAssumption, FS_Subset
<1>2. IsFiniteSet(S) /\ Cardinality(S) <= Cardinality(T)
    BY <1>1, FS_Subset
<1> QED
    BY <1>1, <1>2, FS_CardinalityType

\* Nothing is counted at the start.
LEMMA CounterInit == Init => CounterInv
<1> SUFFICES ASSUME Init PROVE CounterInv
    OBVIOUS
<1>1. Counted = {}
    BY DEF Init, Counted
<1> QED
    BY <1>1, FS_EmptySet DEF Init, CounterInv, StatusOf

\* What was replied stays between its bounds while the set of counted calls grows.
LEMMA CounterKept ==
    ASSUME Inv, Inv', CounterInv, Counted \subseteq Counted',
           m_commandsExecuted' = Cardinality(Counted'),
           seen' \in [Calls -> SUBSET Counted'],
           NEW c \in Calls, StatusOf(c)',
           \A d \in Calls \ {c} : method'[d] = method[d] /\ reply'[d] = reply[d] /\ seen'[d] = seen[d]
    PROVE  CounterInv'
<1>1. ASSUME NEW d \in Calls, d # c PROVE StatusOf(d)'
  <2>1. method'[d] = method[d] /\ reply'[d] = reply[d] /\ seen'[d] = seen[d] /\ StatusOf(d)
      BY <1>1 DEF CounterInv
  <2>2. Counted' \subseteq Calls
      BY DEF Counted
  <2>3. /\ Cardinality(Counted) \in Nat /\ Cardinality(Counted') \in Nat
        /\ Cardinality(Counted) <= Cardinality(Counted')
      BY <2>2, CountsGrow
  <2>4. reply[d].val \in Int
      BY DEF Inv, Types, Replies
  <2> QED
      BY <2>1, <2>3, <2>4 DEF StatusOf
<1> QED
    BY <1>1 DEF CounterInv

\* A new call sees what was counted when it was made.
LEMMA CounterStart ==
    ASSUME Inv, Inv', CounterInv, NEW c \in Calls, NEW m \in Methods, Start(c, m)
    PROVE  CounterInv'
<1>0. Nothing.code = "none"
    BY DEF Nothing
<1>1. /\ method' = [method EXCEPT ![c] = m] /\ reply' = reply /\ method[c] = "none"
      /\ seen' = [seen EXCEPT ![c] = Answered] /\ m_commandsExecuted' = m_commandsExecuted
    BY DEF Start
<1>2. reply[c].code = "none"
    BY <1>0, <1>1 DEF Inv, Sound, HandlerOf
<1>3. Counted' = Counted
    BY <1>1, <1>2 DEF Counted, Inv, Types
<1>4. Answered \subseteq Counted
    BY DEF Answered, Counted, Inv, Sound, OutcomeFollows
<1>5. seen' \in [Calls -> SUBSET Counted']
    BY <1>1, <1>3, <1>4 DEF CounterInv
<1>6. StatusOf(c)'
    BY <1>1, <1>2 DEF StatusOf
<1>7. ASSUME NEW d \in Calls \ {c}
      PROVE  method'[d] = method[d] /\ reply'[d] = reply[d] /\ seen'[d] = seen[d]
    BY <1>1 DEF Inv, Types, CounterInv
<1>8. m_commandsExecuted' = Cardinality(Counted')
    BY <1>1, <1>3 DEF CounterInv
<1> QED
    BY <1>3, <1>5, <1>6, <1>7, <1>8, CounterKept

\* The counter is bumped before the reply, and read at once: every step keeps the
\* bounds.
LEMMA CounterStep == Inv /\ Inv' /\ CounterInv /\ [Next]_vars => CounterInv'
<1> SUFFICES ASSUME Inv, Inv', CounterInv, [Next]_vars PROVE CounterInv'
    OBVIOUS
<1>0. Nothing.code = "none"
    BY DEF Nothing
<1>1. ASSUME NEW c \in Calls, NEW m \in Methods, Start(c, m) PROVE CounterInv'
    BY <1>1, CounterStart
<1>2. ASSUME UNCHANGED <<method, reply, m_commandsExecuted, seen>> PROVE CounterInv'
  <2>1. Counted' = Counted
      BY <1>2 DEF Counted
  <2>2. ASSUME NEW c \in Calls PROVE StatusOf(c)'
      BY <1>2, <2>1 DEF CounterInv, StatusOf
  <2> QED
      BY <1>2, <2>1, <2>2 DEF CounterInv
<1>3. ASSUME NEW c \in Calls, NEW k \in Codes, NEW v \in Int, Respond(c, k, v),
             pc[c] \in {"check", "run"}, UNCHANGED <<method, m_commandsExecuted, seen>>,
             method[c] = "RemCmd" => k # "OK",
             method[c] = "GetStatus" => v = m_commandsExecuted
      PROVE  CounterInv'
  <2>1. reply' = [reply EXCEPT ![c] = [code |-> k, val |-> v]]
      BY <1>3 DEF Respond
  <2>2. reply'[c].code = k /\ reply'[c].val = v /\ reply[c].code = "none"
      BY <1>0, <1>3, <2>1 DEF Inv, Types, Sound, HandlerOf
  <2>3. \A d \in Calls \ {c} : reply'[d] = reply[d]
      BY <2>1 DEF Inv, Types
  <2>4. Counted' = Counted
      BY <1>3, <2>2, <2>3 DEF Counted
  <2>5. StatusOf(c)'
    <3>1. seen[c] \subseteq Counted /\ Counted \subseteq Calls
        BY DEF CounterInv, Counted
    <3>2. /\ Cardinality(seen[c]) <= Cardinality(Counted)
          /\ Cardinality(Counted) \in Nat
        BY <3>1, CountsGrow
    <3>3. m_commandsExecuted = Cardinality(Counted)
        BY DEF CounterInv
    <3> QED
        BY <1>3, <2>2, <2>4, <3>2, <3>3 DEF StatusOf
  <2>6. seen' \in [Calls -> SUBSET Counted'] /\ m_commandsExecuted' = Cardinality(Counted')
      BY <1>3, <2>4 DEF CounterInv
  <2> QED
      BY <1>3, <2>3, <2>4, <2>5, <2>6, CounterKept
<1>4. ASSUME NEW c \in Calls, NEW rc \in {0, 1}, Finish(c, rc) PROVE CounterInv'
  <2>1. /\ reply' = [reply EXCEPT ![c] = [code |-> "OK", val |-> rc]] /\ pc[c] = "run"
        /\ m_commandsExecuted' = m_commandsExecuted + 1 /\ UNCHANGED <<method, seen>>
      BY <1>4 DEF Finish, Respond
  <2>2. reply'[c].code = "OK" /\ reply[c].code = "none" /\ method[c] = "RemCmd"
      BY <1>0, <2>1 DEF Inv, Types, Sound, HandlerOf
  <2>3. \A d \in Calls \ {c} : reply'[d] = reply[d]
      BY <2>1 DEF Inv, Types
  <2>4. Counted' = Counted \cup {c} /\ c \notin Counted
      BY <2>1, <2>2, <2>3 DEF Counted
  <2>5. IsFiniteSet(Counted)
      BY ServiceAssumption, FS_Subset DEF Counted
  <2>6. m_commandsExecuted' = Cardinality(Counted')
      BY <2>1, <2>4, <2>5, FS_AddElement DEF CounterInv
  <2>7. seen' \in [Calls -> SUBSET Counted']
      BY <2>1, <2>4 DEF CounterInv
  <2>8. StatusOf(c)'
      BY <2>1, <2>2 DEF StatusOf
  <2> QED
      BY <2>1, <2>3, <2>4, <2>6, <2>7, <2>8, CounterKept
<1>5. ASSUME NEW c \in Calls, Ping(c) PROVE CounterInv'
  <2>1. /\ method[c] = "Ping" /\ pc[c] = "check" /\ Respond(c, "OK", arg[c].tid)
        /\ UNCHANGED <<config, method, arg, outcome, m_commandsExecuted, seen>>
      BY <1>5 DEF Ping
  <2>2. arg[c].tid \in Int /\ "OK" \in Codes
      BY <2>1 DEF Inv, Types, Codes
  <2> QED
      BY <1>3, <2>1, <2>2
<1>6. ASSUME NEW c \in Calls, GetStatus(c) PROVE CounterInv'
  <2>1. m_commandsExecuted \in Int /\ "OK" \in Codes
      BY DEF Inv, Types, Codes
  <2> QED
      BY <1>3, <1>6, <2>1 DEF GetStatus
<1>7. ASSUME NEW c \in Calls, Reject(c) PROVE CounterInv'
  <2>1. Verdict(config, arg[c]) \in Codes
      BY DEF Verdict, Codes
  <2> QED
      BY <1>3, <1>7, <2>1 DEF Reject
<1>8. ASSUME NEW c \in Calls, Receive(c) \/ GiveUp(c) \/ Admit(c) PROVE CounterInv'
    BY <1>2, <1>8 DEF Receive, GiveUp, Admit
<1>9. CASE UNCHANGED vars
    BY <1>2, <1>9 DEF vars
<1>10. ASSUME NEW c \in Calls,
              (\E req \in Requests : doRemCmd(c, req)) \/ (\E seq \in 1 .. MaxSeq : doPing(c, seq))
              \/ doGetStatus(c)
       PROVE  CounterInv'
    BY <1>1, <1>10 DEF doRemCmd, doPing, doGetStatus, Methods
<1> QED
    BY <1>4, <1>5, <1>6, <1>7, <1>8, <1>9, <1>10 DEF Next, Handle, Over

\* What GetStatus replied is within its bounds.
LEMMA StatusFollows == Inv /\ CounterInv => StatusIsCurrent
<1> SUFFICES ASSUME Inv, CounterInv, NEW c \in Calls,
                    method[c] = "GetStatus", reply[c].code = "OK"
             PROVE  /\ Cardinality(seen[c]) <= reply[c].val
                    /\ reply[c].val <= Cardinality(Ran)
    BY DEF StatusIsCurrent
<1>1. Cardinality(seen[c]) <= reply[c].val /\ reply[c].val <= Cardinality(Counted)
    BY DEF CounterInv, StatusOf
<1>2. Counted \subseteq Ran /\ Ran \subseteq Calls
    BY DEF Counted, Ran
<1>3. /\ Cardinality(Counted) <= Cardinality(Ran)
      /\ Cardinality(Counted) \in Nat /\ Cardinality(Ran) \in Nat
    BY <1>2, CountsGrow
<1>4. reply[c].val \in Int
    BY DEF Inv, Types, Replies
<1> QED
    BY <1>1, <1>3, <1>4

\* Whatever other handlers do between its start and its answer, GetStatus reports
\* every command whose answer had been received, and none that has not run.
THEOREM StatusesAreCurrent == Spec => []StatusIsCurrent
BY Invariance, CounterInit, CounterStep, StatusFollows, PTL DEF Spec

-----------------------------------------------------------------------------
(* The program RemSvcMain, one client among the others.                    *)

Asked == Option("ping", 0)

MainTypes ==
    /\ in \in MainInputs /\ cur \in MainCalls /\ ping \in Int /\ mrc \in Int
    /\ mpc \in {"options", "logging", "connect", "ping", "pinging", "running", "stop", "exited"}
    /\ DOMAIN globals = DOMAIN Globals

\* The pings made and the pings left are the pings asked for.
PingsAddUp ==
    /\ Asked > 0  => ping >= 0 /\ Cardinality(Pings) + ping = Asked
    /\ Asked <= 0 => ping = Asked /\ Pings = {}

NoCalls == Pings = {} /\ Commands = {}

\* main has done all it was asked for, and its rc is the result of the command.
Ended ==
    /\ ping <= 0 /\ PingsAddUp
    /\ \/ "cmd" \notin DOMAIN in.args /\ Commands = {} /\ mrc = 0
       \/ /\ "cmd" \in DOMAIN in.args /\ Commands = {cur}
          /\ outcome[cur].code # "none" /\ mrc = outcome[cur].val

\* main has returned before it made a call, and its logger says where.
LeftEarly ==
    /\ mrc # 0 /\ NoCalls
    /\ globals.LogFileName = <<>> \/ mrc = Aborted \/ globals.registry # NoLogger

Progress ==
    /\ mpc \in {"options", "logging", "connect"} => NoCalls
    /\ mpc \notin {"stop", "exited"} => mrc = 0
    /\ mpc = "options" => globals.LogFileName = <<>>
    /\ mpc \in {"logging", "connect"} => ping = Asked
    /\ mpc = "connect" => globals.registry # NoLogger
    /\ mpc \in {"ping", "pinging", "running"} => PingsAddUp
    /\ mpc \in {"ping", "pinging"} => Commands = {}
    /\ mpc = "running" => "cmd" \in DOMAIN in.args /\ Commands = {cur} /\ ping <= 0
    /\ mpc = "stop" => Ended
    /\ mpc = "exited" => Ended \/ LeftEarly

\* main waits for one call at a time.
OneAtATime ==
    \A c \in MainCalls : method[c] # "none" =>
        outcome[c].code # "none" \/ (c = cur /\ mpc \in {"pinging", "running"})

MainInv == MainTypes /\ Progress /\ OneAtATime

-----------------------------------------------------------------------------
(* What the common library does to its globals.                            *)

\* ConfigureCLI does not name the log file of the logger.
LEMMA ConfigureFacts ==
    ASSUME NEW g, DOMAIN g = DOMAIN Globals, NEW a, NEW D, NEW r, r = ConfigureCLI(g, a, D)
    PROVE  /\ r.rc \in {0, 1} /\ DOMAIN r.g = DOMAIN Globals
           /\ r.g.LogFileName = g.LogFileName
<1>1. "LogFileName" \in DOMAIN g
    BY DEF Globals
<1> QED
    BY <1>1 DEF ConfigureCLI

\* The level of a logger is a level.
LEMMA LevelFacts == ASSUME NEW g PROVE ChosenLevel(g, Level.info) # NoLogger
<1>1. Level.info = 2 /\ Level.debug = 1
    BY DEF Level
<1>2. StrToLogLevel(g.CliLogLevel) \in 0 .. 4
    BY <1>1 DEF StrToLogLevel, Level
<1>3. 2 # NoLogger /\ 1 # NoLogger /\ StrToLogLevel(g.CliLogLevel) # NoLogger
    BY <1>2 DEF NoLogger
<1> QED
    BY <1>1, <1>3, Zenon DEF ChosenLevel

\* InitLogging registers a logger, or throws.
LEMMA InitLoggingFacts ==
    ASSUME NEW g, DOMAIN g = DOMAIN Globals, NEW r, r = InitLogging(g, Level.info, Writable)
    PROVE  DOMAIN r.g = DOMAIN Globals /\ (r.ok => r.g.registry # NoLogger)
<1>1. {"registry", "MainLogger", "LogSinks", "LogFileName", "AllowedDebugLevel"} \subseteq DOMAIN g
    BY DEF Globals
<1>2. ChosenLevel(g, Level.info) # NoLogger
    BY LevelFacts
<1> QED
    BY <1>1, <1>2 DEF InitLogging

-----------------------------------------------------------------------------
(* The steps of the program.                                               *)

\* What the other clients, the library and the handlers do does not disturb main.
LEMMA MainUndisturbed ==
    ASSUME Inv, MainInv, UNCHANGED mainVars,
           \A c \in MainCalls : /\ method'[c] = method[c]
                                /\ outcome[c].code # "none" => outcome'[c] = outcome[c]
    PROVE  MainInv'
<1>1. Pings' = Pings /\ Commands' = Commands
    BY DEF Pings, Commands
<1>2. UNCHANGED <<in, mpc, mrc, ping, cur, globals>> /\ Asked' = Asked
    BY DEF mainVars, Asked, Option
<1>3. MainTypes'
    BY <1>2 DEF MainInv, MainTypes
<1>4. cur \in MainCalls
    BY DEF MainInv, MainTypes
<1>5. Ended => Ended'
    BY <1>1, <1>2, <1>4 DEF Ended, PingsAddUp
<1>6. LeftEarly => LeftEarly'
    BY <1>1, <1>2 DEF LeftEarly, NoCalls
<1>7. Progress'
    BY <1>1, <1>2, <1>5, <1>6 DEF MainInv, Progress, PingsAddUp, NoCalls
<1>8. OneAtATime'
    BY <1>2 DEF MainInv, OneAtATime
<1> QED
    BY <1>3, <1>7, <1>8 DEF MainInv

\* A step of main that makes no call.
LEMMA MainAlone ==
    ASSUME UNCHANGED <<vars, in, cur>>
    PROVE  /\ Pings' = Pings /\ Commands' = Commands /\ Asked' = Asked
           /\ UNCHANGED <<method, outcome, in, cur>>
BY DEF vars, Pings, Commands, Asked, Option

\* The number of pings asked for.
LEMMA AskedType == ASSUME MainTypes PROVE Asked \in Int
BY MainAssumption DEF MainTypes, Asked, Option

\* main before its first call.
LEMMA EarlySteps ==
    ASSUME Inv, MainInv, ParseOptions \/ StartLogging \/ Connect
    PROVE  MainInv'
<1>1. /\ Pings' = Pings /\ Commands' = Commands /\ Asked' = Asked
      /\ UNCHANGED <<method, outcome, in, cur>>
    BY MainAlone DEF ParseOptions, StartLogging, Connect
<1>2. Asked \in Int /\ DOMAIN globals = DOMAIN Globals
    BY AskedType DEF MainInv, MainTypes
<1>3. NoCalls /\ mrc = 0 /\ mpc \in {"options", "logging", "connect"}
    BY DEF MainInv, Progress, ParseOptions, StartLogging, Connect
<1>4. NoCalls'
    BY <1>1, <1>3 DEF NoCalls
<1>5. CASE ParseOptions
  <2>0. PICK dbglvl \in EnvValue(in.DBGLVL) :
            LET cli == ConfigureCLI(globals, in.args, dbglvl)
            IN  /\ globals' = cli.g
                /\ IF cli.rc = 0 THEN mpc' = "logging" /\ UNCHANGED mrc ELSE MainExit(cli.rc)
      BY <1>5, Zenon DEF ParseOptions
  <2> DEFINE cli == ConfigureCLI(globals, in.args, dbglvl)
  <2>1. /\ mpc = "options" /\ globals' = cli.g /\ ping' = Asked
        /\ IF cli.rc = 0 THEN mpc' = "logging" /\ mrc' = mrc ELSE mpc' = "exited" /\ mrc' = cli.rc
      BY <1>5, <2>0 DEF ParseOptions, MainExit, Asked
  <2>2. cli.rc \in {0, 1} /\ DOMAIN cli.g = DOMAIN Globals /\ cli.g.LogFileName = globals.LogFileName
      BY <1>2, ConfigureFacts
  <2> HIDE DEF cli
  <2>3. globals'.LogFileName = <<>>
      BY <2>1, <2>2 DEF MainInv, Progress
  <2>4. MainTypes'
      BY <1>1, <1>2, <2>1, <2>2 DEF MainInv, MainTypes
  <2>5. mpc' = "exited" => LeftEarly'
      BY <1>4, <2>1, <2>2, <2>3 DEF LeftEarly
  <2>6. Progress'
      BY <1>1, <1>3, <1>4, <2>1, <2>5 DEF Progress
  <2>7. OneAtATime'
      BY <1>1, <2>1 DEF MainInv, OneAtATime
  <2> QED
      BY <2>4, <2>6, <2>7 DEF MainInv
<1>6. CASE StartLogging
  <2> DEFINE g == [globals EXCEPT !.CliLogFile = DefaultCLiLogFileName(in.appName)]
             init == InitLogging(g, Level.info, Writable)
  <2>1. /\ mpc = "logging" /\ globals' = init.g /\ ping' = ping
        /\ IF init.ok THEN mpc' = "connect" /\ mrc' = mrc ELSE mpc' = "exited" /\ mrc' = Aborted
      BY <1>6 DEF StartLogging, MainExit
  <2>2. DOMAIN g = DOMAIN Globals
      BY <1>2
  <2> HIDE DEF g
  <2>3. DOMAIN init.g = DOMAIN Globals /\ (init.ok => init.g.registry # NoLogger)
      BY <2>2, InitLoggingFacts
  <2> HIDE DEF init
  <2>4. MainTypes'
      BY <1>1, <2>1, <2>3 DEF MainInv, MainTypes, Aborted
  <2>5. mpc' = "exited" => LeftEarly'
      BY <1>4, <2>1 DEF LeftEarly, Aborted
  <2>6. Progress'
      BY <1>1, <1>3, <1>4, <2>1, <2>3, <2>5 DEF MainInv, Progress
  <2>7. OneAtATime'
      BY <1>1, <2>1 DEF MainInv, OneAtATime
  <2> QED
      BY <2>4, <2>6, <2>7 DEF MainInv
<1>7. CASE Connect
  <2>1. /\ mpc = "connect" /\ globals' = globals /\ ping' = ping
        /\ \/ mpc' = "exited" /\ mrc' = 1
           \/ mpc' = "ping" /\ mrc' = mrc
      BY <1>7 DEF Connect, MainExit
  <2>2. globals.registry # NoLogger /\ ping = Asked
      BY <2>1 DEF MainInv, Progress
  <2>3. MainTypes'
      BY <1>1, <2>1 DEF MainInv, MainTypes
  <2>4. mpc' = "exited" => LeftEarly'
      BY <1>4, <2>1, <2>2 DEF LeftEarly
  <2>5. PingsAddUp'
      BY <1>1, <1>2, <1>3, <2>1, <2>2, FS_EmptySet DEF PingsAddUp, NoCalls
  <2>6. Progress'
      BY <1>1, <1>3, <1>4, <2>1, <2>4, <2>5 DEF Progress, NoCalls
  <2>7. OneAtATime'
      BY <1>1, <2>1 DEF MainInv, OneAtATime
  <2> QED
      BY <2>3, <2>6, <2>7 DEF MainInv
<1> QED
    BY <1>5, <1>6, <1>7

\* main sends the next ping.
LEMMA SendPingStep == ASSUME Inv, MainInv, NEW c \in MainCalls, SendPing(c) PROVE MainInv'
<1>1. /\ mpc = "ping" /\ ping > 0 /\ Start(c, "Ping") /\ ping' = ping - 1 /\ cur' = c
      /\ mpc' = "pinging" /\ UNCHANGED <<in, mrc, globals>>
    BY DEF SendPing, doPing
<1>2. /\ method[c] = "none" /\ outcome' = outcome /\ c \in Calls
      /\ method' = [method EXCEPT ![c] = "Ping"] /\ method \in [Calls -> Methods]
      /\ MainCalls \subseteq Calls
    BY <1>1, MainAssumption DEF Start, Inv, Types
<1>3. Pings' = Pings \cup {c} /\ c \notin Pings /\ Commands' = Commands /\ Asked' = Asked
    BY <1>1, <1>2 DEF Pings, Commands, Asked, Option
<1>4. Pings \subseteq Calls
    BY <1>2 DEF Pings
<1>5. IsFiniteSet(Pings)
    BY <1>4, ServiceAssumption, FS_Subset
<1>6. Cardinality(Pings') = Cardinality(Pings) + 1 /\ Cardinality(Pings) \in Nat
    BY <1>3, <1>5, FS_AddElement, FS_CardinalityType
<1>7. ping \in Int /\ Asked \in Int
    BY AskedType DEF MainInv, MainTypes
<1>8. MainTypes'
    BY <1>1 DEF MainInv, MainTypes
<1>9. PingsAddUp'
  <2>1. PingsAddUp
      BY <1>1 DEF MainInv, Progress
  <2> QED
      BY <1>1, <1>3, <1>6, <1>7, <2>1 DEF PingsAddUp
<1>10. Progress'
    BY <1>1, <1>3, <1>9 DEF MainInv, Progress
<1>11. OneAtATime'
    BY <1>1, <1>2 DEF MainInv, OneAtATime
<1> QED
    BY <1>8, <1>10, <1>11 DEF MainInv

\* main sends its command.
LEMMA SendCommandStep == ASSUME Inv, MainInv, NEW c \in MainCalls, SendCommand(c) PROVE MainInv'
<1>1. /\ mpc = "ping" /\ ping <= 0 /\ "cmd" \in DOMAIN in.args /\ Start(c, "RemCmd")
      /\ cur' = c /\ mpc' = "running" /\ UNCHANGED <<in, mrc, ping, globals>>
    BY DEF SendCommand, doRemCmd
<1>2. /\ method[c] = "none" /\ outcome' = outcome /\ c \in Calls
      /\ method' = [method EXCEPT ![c] = "RemCmd"] /\ method \in [Calls -> Methods]
      /\ MainCalls \subseteq Calls
    BY <1>1, MainAssumption DEF Start, Inv, Types
<1>3. Pings' = Pings /\ Commands' = Commands \cup {c} /\ Asked' = Asked
    BY <1>1, <1>2 DEF Pings, Commands, Asked, Option
<1>4. PingsAddUp /\ Commands = {}
    BY <1>1 DEF MainInv, Progress
<1>5. MainTypes'
    BY <1>1 DEF MainInv, MainTypes
<1>6. PingsAddUp'
    BY <1>1, <1>3, <1>4 DEF PingsAddUp
<1>7. Commands' = {cur'}
    BY <1>1, <1>3, <1>4
<1>8. Progress'
    BY <1>1, <1>6, <1>7 DEF MainInv, Progress
<1>9. OneAtATime'
    BY <1>1, <1>2 DEF MainInv, OneAtATime
<1> QED
    BY <1>5, <1>8, <1>9 DEF MainInv

\* main takes the result of a call, or ends.
LEMMA LateSteps ==
    ASSUME Inv, MainInv, PingReturns \/ CommandReturns \/ NothingToRun \/ StopMain
    PROVE  MainInv'
<1>1. /\ Pings' = Pings /\ Commands' = Commands /\ Asked' = Asked
      /\ UNCHANGED <<method, outcome, in, cur>> /\ ping' = ping
    BY MainAlone DEF PingReturns, CommandReturns, NothingToRun, StopMain
<1>2. cur \in Calls /\ outcome[cur].val \in Int
    BY MainAssumption DEF MainInv, MainTypes, Inv, Types, Replies
<1>3. DOMAIN globals' = DOMAIN Globals
  <2>1. DOMAIN TermLogging(globals) = DOMAIN globals
      BY DEF TermLogging
  <2> QED
      BY <2>1 DEF PingReturns, CommandReturns, NothingToRun, StopMain, MainInv, MainTypes
<1>4. CASE PingReturns
  <2>1. mpc = "pinging" /\ mpc' = "ping" /\ mrc' = mrc /\ outcome[cur].code # "none"
      BY <1>4 DEF PingReturns
  <2>2. MainTypes'
      BY <1>1, <1>3, <2>1 DEF MainInv, MainTypes
  <2>3. PingsAddUp'
      BY <1>1, <2>1 DEF MainInv, Progress, PingsAddUp
  <2>4. Progress'
      BY <1>1, <2>1, <2>3 DEF MainInv, Progress
  <2>5. OneAtATime'
      BY <1>1, <2>1 DEF MainInv, OneAtATime
  <2> QED
      BY <2>2, <2>4, <2>5 DEF MainInv
<1>5. CASE CommandReturns \/ NothingToRun
  <2>1. /\ mpc' = "stop" /\ mpc \in {"running", "ping"}
        /\ \/ mpc = "running" /\ outcome[cur].code # "none" /\ mrc' = outcome[cur].val
           \/ mpc = "ping" /\ ping <= 0 /\ "cmd" \notin DOMAIN in.args /\ mrc' = mrc
      BY <1>5 DEF CommandReturns, NothingToRun
  <2>2. MainTypes'
      BY <1>1, <1>2, <1>3, <2>1 DEF MainInv, MainTypes
  <2>3. PingsAddUp'
      BY <1>1, <2>1 DEF MainInv, Progress, PingsAddUp
  <2>4. Ended'
      BY <1>1, <2>1, <2>3 DEF MainInv, Progress, Ended
  <2>5. Progress'
      BY <2>1, <2>4 DEF Progress
  <2>6. OneAtATime'
      BY <1>1, <2>1 DEF MainInv, OneAtATime
  <2> QED
      BY <2>2, <2>5, <2>6 DEF MainInv
<1>6. CASE StopMain
  <2>1. mpc = "stop" /\ mpc' = "exited" /\ mrc' = mrc
      BY <1>6 DEF StopMain, MainExit
  <2>2. MainTypes'
      BY <1>1, <1>3, <2>1 DEF MainInv, MainTypes
  <2>3. Ended'
      BY <1>1, <2>1 DEF MainInv, Progress, Ended, PingsAddUp
  <2>4. Progress'
      BY <2>1, <2>3 DEF Progress
  <2>5. OneAtATime'
      BY <1>1, <2>1 DEF MainInv, OneAtATime
  <2> QED
      BY <2>2, <2>4, <2>5 DEF MainInv
<1> QED
    BY <1>4, <1>5, <1>6

-----------------------------------------------------------------------------
\* main starts with no call made and no logger.
LEMMA MainInvInit == MainInit => Inv /\ CounterInv /\ MainInv
<1> SUFFICES ASSUME MainInit PROVE Inv /\ CounterInv /\ MainInv
    OBVIOUS
<1>1. Inv /\ CounterInv
    BY InvInit, CounterInit DEF MainInit
<1>2. \A c \in MainCalls : method[c] = "none"
    BY MainAssumption DEF MainInit, Init
<1>3. NoCalls
    BY <1>2 DEF NoCalls, Pings, Commands
<1>4. Globals.LogFileName = <<>>
    BY DEF Globals
<1>5. MainTypes /\ Progress /\ OneAtATime
    BY <1>2, <1>3, <1>4 DEF MainInit, MainTypes, Progress, OneAtATime
<1> QED
    BY <1>1, <1>5 DEF MainInv

\* Every step of the program and of its surroundings keeps the three invariants.
LEMMA MainInvStep ==
    Inv /\ CounterInv /\ MainInv /\ [MainNext]_<<vars, mainVars>> => (Inv /\ CounterInv /\ MainInv)'
<1> SUFFICES ASSUME Inv, CounterInv, MainInv, [MainNext]_<<vars, mainVars>>
             PROVE  Inv' /\ CounterInv' /\ MainInv'
    OBVIOUS
<1>1. ASSUME [Next]_vars PROVE Inv' /\ CounterInv'
    BY <1>1, InvStep, CounterStep
<1>2. CASE ParseOptions \/ StartLogging \/ Connect
  <2>1. UNCHANGED vars
      BY <1>2 DEF ParseOptions, StartLogging, Connect
  <2> QED
      BY <1>1, <1>2, <2>1, EarlySteps
<1>3. CASE PingReturns \/ CommandReturns \/ NothingToRun \/ StopMain
  <2>1. UNCHANGED vars
      BY <1>3 DEF PingReturns, CommandReturns, NothingToRun, StopMain
  <2> QED
      BY <1>1, <1>3, <2>1, LateSteps
<1>4. ASSUME NEW c \in MainCalls, SendPing(c) PROVE Inv' /\ CounterInv' /\ MainInv'
  <2>1. doPing(c, ping) /\ ping \in Int /\ c \in Calls
      BY <1>4, MainAssumption DEF SendPing, MainInv, MainTypes
  <2>2. Inv'
      BY <2>1, PingStep
  <2>3. CounterInv'
      BY <2>1, <2>2, CounterStart DEF doPing, Methods
  <2> QED
      BY <1>4, <2>2, <2>3, SendPingStep
<1>5. ASSUME NEW c \in MainCalls, SendCommand(c) PROVE Inv' /\ CounterInv' /\ MainInv'
  <2>1. c \in Calls /\ \E r : doRemCmd(c, r)
      BY <1>5, MainAssumption DEF SendCommand
  <2>2. Inv'
      BY <2>1, CommandStep
  <2>3. CounterInv'
      BY <2>1, <2>2, CounterStart DEF doRemCmd, Methods
  <2> QED
      BY <1>5, <2>2, <2>3, SendCommandStep
<1>6. CASE OtherClients
  <2>1. Next
      BY <1>6 DEF OtherClients, Next
  <2>2. PICK c \in Calls \ MainCalls, m \in Methods : Start(c, m)
      BY <1>6 DEF OtherClients, doRemCmd, doPing, doGetStatus, Methods
  <2>3. \A d \in MainCalls : method'[d] = method[d] /\ outcome'[d] = outcome[d]
      BY <2>2, MainAssumption DEF Start, Inv, Types
  <2>4. UNCHANGED mainVars
      BY <1>6 DEF OtherClients
  <2> QED
      BY <1>1, <2>1, <2>3, <2>4, MainUndisturbed
<1>7. CASE CallStep
  <2>1. Next
      BY <1>7 DEF CallStep, Next
  <2>2. PICK c \in Calls : Receive(c) \/ GiveUp(c) \/ Handle(c)
      BY <1>7 DEF CallStep
  <2>3. method' = method
      BY <2>2 DEF Receive, GiveUp, Handle, Ping, GetStatus, Admit, Reject, Finish
  <2>4. CASE Handle(c)
    <3>1. outcome' = outcome
        BY <2>4 DEF Handle, Ping, GetStatus, Admit, Reject, Finish
    <3> QED
        BY <1>1, <1>7, <2>1, <2>3, <3>1, MainUndisturbed DEF CallStep
  <2>5. CASE Receive(c) \/ GiveUp(c)
    <3>1. \A d \in Calls : outcome[d].code # "none" => outcome'[d] = outcome[d]
        BY <2>5 DEF Receive, GiveUp, Inv, Types
    <3>2. \A d \in MainCalls : method'[d] = method[d] /\ (outcome[d].code # "none" => outcome'[d] = outcome[d])
        BY <2>3, <3>1, MainAssumption
    <3> QED
        BY <1>1, <1>7, <2>1, <3>2, MainUndisturbed DEF CallStep
  <2> QED
      BY <2>2, <2>4, <2>5
<1>8. CASE UNCHANGED <<vars, mainVars>>
  <2>1. method' = method /\ outcome' = outcome
      BY <1>8 DEF vars
  <2> QED
      BY <1>1, <1>8, <2>1, MainUndisturbed
<1> QED
    BY <1>2, <1>3, <1>4, <1>5, <1>6, <1>7, <1>8 DEF MainNext, MainStep, MainOver

\* Hence they hold in every reachable state of the program among the other clients.
LEMMA MainInvariance == MainSpec => [](Inv /\ CounterInv /\ MainInv)
BY MainInvInit, MainInvStep, PTL DEF MainSpec

\* The exit code of RemSvcMain can be trusted, for every combination of options, every
\* outcome of its calls and whatever the other clients do.
THEOREM ExitCodesAreHonest == MainSpec => []ExitCodeIsHonest
<1>1. Inv /\ CounterInv /\ MainInv => ExitCodeIsHonest
  <2> SUFFICES ASSUME Inv, MainInv, mpc = "exited"
               PROVE  /\ \A c \in Pings \cup Commands : outcome[c].code # "none"
                      /\ mrc = 0 => /\ Cardinality(Pings) = IF Asked > 0 THEN Asked ELSE 0
                                    /\ \A c \in Commands : reply[c] = [code |-> "OK", val |-> 0]
                                    /\ "cmd" \in DOMAIN in.args => Commands # {}
                      /\ Completed /\ "cmd" \notin DOMAIN in.args => mrc = 0
      BY DEF ExitCodeIsHonest, Asked
  <2>1. Ended \/ LeftEarly
      BY DEF MainInv, Progress
  <2>2. \A c \in Pings \cup Commands : outcome[c].code # "none"
      BY DEF MainInv, OneAtATime, Pings, Commands
  <2>3. Completed /\ "cmd" \notin DOMAIN in.args => mrc = 0
      BY <2>1 DEF Ended, LeftEarly, Completed
  <2>4. ASSUME mrc = 0
        PROVE  /\ Cardinality(Pings) = IF Asked > 0 THEN Asked ELSE 0
               /\ \A c \in Commands : reply[c] = [code |-> "OK", val |-> 0]
               /\ "cmd" \in DOMAIN in.args => Commands # {}
    <3>1. Ended
        BY <2>1, <2>4 DEF LeftEarly
    <3>2. Cardinality(Pings) = IF Asked > 0 THEN Asked ELSE 0
      <4>1. Asked \in Int /\ ping \in Int
          BY AskedType DEF MainInv, MainTypes
      <4>2. Pings \subseteq Calls
          BY MainAssumption DEF Pings
      <4>3. Cardinality(Pings) \in Nat
          BY <4>2, CountsGrow
      <4> QED
          BY <3>1, <4>1, <4>3, FS_EmptySet DEF Ended, PingsAddUp
    <3>3. ASSUME NEW c \in Commands PROVE reply[c] = [code |-> "OK", val |-> 0]
      <4>1. outcome[c].val = 0 /\ c \in Calls /\ method[c] = "RemCmd"
          BY <2>4, <3>1, <3>3, MainAssumption DEF Ended, Commands
      <4>2. reply[c].code = "OK" /\ reply[c].val = 0 /\ reply[c] \in Replies
          BY <4>1 DEF Inv, Types, Sound, OutcomeFollows
      <4> QED
          BY <4>2 DEF Replies
    <3>4. "cmd" \in DOMAIN in.args => Commands # {}
        BY <3>1 DEF Ended
    <3> QED
        BY <3>2, <3>3, <3>4
  <2> QED
      BY <2>2, <2>3, <2>4
<1> QED
    BY MainInvariance, <1>1, PTL

\* What holds of the service for its clients in general holds with the program among
\* them, whose requests need not be among the expected ones.
THEOREM ServiceBesideTheProgram == MainSpec => [](OnlyAdmittedRuns /\ OutcomeIsHonest /\ StatusIsCurrent)
BY MainInvariance, PolicyFollows, HonestyFollows, StatusFollows, PTL
=============================================================================
