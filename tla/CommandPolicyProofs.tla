------------------------ MODULE CommandPolicyProofs ------------------------
(* What the admission control decides, for every configuration. *)
EXTENDS CommandPolicy, TLAPS

\* A request the handlers admit is one the documented policy permits, and its
\* hash is absent or right: compiling the lists at start-up loses no restriction.
LEMMA VerdictFollowsPolicy ==
    ASSUME NEW cf \in Config, NEW r, Verdict(cf, r) = "OK"
    PROVE  Permitted(cf, r.cmd) /\ r.hsh \in {NoHash, Crc[r.cmd]}
<1>1. checkAllowed(RemSvcServiceImpl(cf), r.cmd) /\ hashMatches(r)
    BY DEF Verdict
<1>2. Compiles(cf.allow) /\ Compiles(cf.deny)
    BY <1>1 DEF checkAllowed, RemSvcServiceImpl
<1>3. ~Matches(cf.deny, r.cmd) /\ (cf.allow = <<>> \/ Matches(cf.allow, r.cmd))
    BY <1>1, <1>2 DEF checkAllowed, RemSvcServiceImpl, CompileList
<1>4. Len(cf.allow) > 0 => cf.allow # <<>>
    OBVIOUS
<1>5. Permitted(cf, r.cmd)
    BY <1>2, <1>3, <1>4 DEF Permitted, Compiles, Matches
<1> QED
    BY <1>1, <1>5 DEF hashMatches

\* Conversely nothing the policy permits is turned away for its text: the only
\* other rejection is that of a wrong hash.
LEMMA PolicyIsNotNarrowed ==
    ASSUME NEW cf \in Config, NEW r, Permitted(cf, r.cmd)
    PROVE  Verdict(cf, r) = "OK" <=> hashMatches(r)
<1>1. Compiles(cf.allow) /\ Compiles(cf.deny)
    BY DEF Permitted, Compiles
<1>2. ~Matches(cf.deny, r.cmd)
    BY DEF Permitted, Matches
<1>3. cf.allow = <<>> \/ Matches(cf.allow, r.cmd)
  <2>1. cf.allow \in Seq(Pattern)
      BY DEF Config
  <2>2. CASE Len(cf.allow) > 0
      BY <2>2 DEF Permitted, Matches
  <2>3. CASE Len(cf.allow) = 0
      BY <2>1, <2>3
  <2> QED
      BY <2>1, <2>2, <2>3
<1>4. checkAllowed(RemSvcServiceImpl(cf), r.cmd)
    BY <1>1, <1>2, <1>3 DEF checkAllowed, RemSvcServiceImpl, CompileList
<1> QED
    BY <1>4 DEF Verdict

\* The admission decision is the documented policy, neither wider nor narrower,
\* for every pair of lists with valid and invalid patterns in any order: what
\* the constructor and checkAllowed do over several steps amounts to Permitted.
THEOREM AdmissionIsThePolicy ==
    ASSUME NEW cf \in Config, NEW r
    PROVE  Verdict(cf, r) = "OK"
             <=> Permitted(cf, r.cmd) /\ r.hsh \in {NoHash, Crc[r.cmd]}
BY VerdictFollowsPolicy, PolicyIsNotNarrowed DEF hashMatches
=============================================================================
