-------------------------- MODULE ServerMainProofs --------------------------
(***************************************************************************)
(* The start of the server, for every file, environment, command line and  *)
(* header.  The first half shows what the scans over texts compute: an     *)
(* induction over positions, with the set of the positions for which a     *)
(* statement holds in place of the statement, gives that expandEnvVars is  *)
(* Expanded and that LoadList keeps every value.  The second half is the   *)
(* inductive invariant Inv: what each local of main has become of the      *)
(* inputs, as long as main is at the step that uses it.                    *)
(***************************************************************************)
EXTENDS ServerMain, CommandPolicyProofs, FiniteSetTheorems, SequenceTheorems, WellFoundedInduction, TLAPS

-----------------------------------------------------------------------------
(* Induction over the natural numbers, from the well-foundedness of <.     *)

Smaller == {p \in Nat \X Nat : p[1] < p[2]}

LEMMA Least ==
    ASSUME NEW T \in SUBSET Nat, T # {}
    PROVE  \E m \in T : \A k \in T : m <= k
<1>1. IsWellFoundedOn(Smaller, Nat)
    BY NatLessThanWellFounded, Zenon DEF OpToRel, Smaller
<1>2. PICK m \in T : \A k \in T : ~ (<<k, m>> \in Smaller)
    BY <1>1, WFMin, Zenon
<1>3. ASSUME NEW k \in T PROVE m <= k
  <2>1. <<k, m>> \notin Smaller
      BY <1>2
  <2>2. k < m => <<k, m>> \in Smaller
      BY DEF Smaller
  <2> QED
      BY <2>1, <2>2
<1> QED
    BY <1>3

LEMMA Induction ==
    ASSUME NEW P \in SUBSET Nat, 0 \in P, \A n \in P : n + 1 \in P
    PROVE  P = Nat
<1>1. SUFFICES ASSUME Nat \ P # {} PROVE FALSE
    OBVIOUS
<1>2. PICK m \in Nat \ P : \A k \in Nat \ P : m <= k
    BY <1>1, Least
<1>3. m - 1 \in Nat /\ m - 1 \in P
    BY <1>2
<1> QED
    BY <1>2, <1>3

-----------------------------------------------------------------------------
(* A scan.                                                                 *)

\* The steps of a scan of n characters, from the last to the first.
Step(n, text, f, next, i) == IF i > n THEN <<>> ELSE text[i] \o f[next[i]]

\* The text and the next position of every character.
Scanning(n, S, text, next) ==
    /\ text \in [1 .. n -> Seq(S)] /\ next \in [1 .. n -> Nat]
    /\ \A i \in 1 .. n : i < next[i] /\ next[i] <= n + 2

\* f solves the equation at the last k of the n + 2 positions.
SolvesLast(k, n, S, text, next, f) ==
    /\ f \in [1 .. n + 2 -> Seq(S)]
    /\ \A i \in 1 .. n + 2 : i + k > n + 2 => f[i] = Step(n, text, f, next, i)

LEMMA ScanExists ==
    ASSUME NEW n \in Nat, NEW S, NEW text, NEW next, Scanning(n, S, text, next)
    PROVE  \E f \in [1 .. n + 2 -> Seq(S)] :
               \A i \in 1 .. n + 2 : f[i] = Step(n, text, f, next, i)
<1> DEFINE D == 1 .. n + 2
           P == {k \in Nat : \E f : SolvesLast(k, n, S, text, next, f)}
<1>1. 0 \in P
  <2>1. SolvesLast(0, n, S, text, next, [i \in D |-> <<>>])
      BY DEF SolvesLast
  <2> QED
      BY <2>1
<1>2. ASSUME NEW k \in P PROVE k + 1 \in P
  <2>1. PICK f : SolvesLast(k, n, S, text, next, f)
      OBVIOUS
  <2>2. k \in Nat
      OBVIOUS
  <2> DEFINE m == n + 2 - k
             e == Step(n, text, f, next, m)
             g == [f EXCEPT ![m] = e]
  <2> HIDE DEF P
  <2>3. CASE m < 1
    <3>1. SolvesLast(k + 1, n, S, text, next, f)
        BY <2>1, <2>2, <2>3 DEF SolvesLast
    <3> QED
        BY <3>1, <2>2 DEF P
  <2>4. CASE m >= 1
    <3>0. m \in D
        BY <2>2, <2>4
    <3>1. e \in Seq(S)
        BY <2>1, <3>0, SMTT(30) DEF Step, Scanning, SolvesLast
    <3>2. g \in [D -> Seq(S)] /\ g[m] = e /\ \A i \in D : i # m => g[i] = f[i]
        BY <3>1, <3>0, <2>1 DEF SolvesLast
    <3>3. ASSUME NEW i \in D, i >= m
          PROVE  Step(n, text, g, next, i) = Step(n, text, f, next, i)
        BY <3>2, <3>3, <3>0 DEF Step, Scanning
    <3> HIDE DEF g, e
    <3>4. e = Step(n, text, f, next, m)
        BY DEF e
    <3>5. SolvesLast(k + 1, n, S, text, next, g)
        BY <3>0, <3>2, <3>3, <3>4, <2>1, <2>2, SMTT(30) DEF SolvesLast
    <3> QED
        BY <3>5, <2>2 DEF P
  <2> QED
      BY <2>2, <2>3, <2>4
<1>3. n + 2 \in P
  <2> HIDE DEF P
  <2>1. P \in SUBSET Nat
      BY DEF P
  <2>2. P = Nat
      BY <1>1, <1>2, <2>1, Induction
  <2> QED
      BY <2>2
<1> QED
    BY <1>3 DEF SolvesLast

LEMMA ScanUnique ==
    ASSUME NEW n \in Nat, NEW S, NEW text, NEW next, Scanning(n, S, text, next), NEW f, NEW g,
           \A i \in 1 .. n + 2 : f[i] = Step(n, text, f, next, i),
           \A i \in 1 .. n + 2 : g[i] = Step(n, text, g, next, i)
    PROVE  \A i \in 1 .. n + 2 : f[i] = g[i]
<1> DEFINE P == {k \in Nat : \A i \in 1 .. n + 2 : i + k > n + 2 => f[i] = g[i]}
<1>1. 0 \in P
    OBVIOUS
<1>2. ASSUME NEW k \in P PROVE k + 1 \in P
  <2>1. SUFFICES ASSUME NEW i \in 1 .. n + 2, i + (k + 1) > n + 2 PROVE f[i] = g[i]
      OBVIOUS
  <2>2. CASE i + k > n + 2
      BY <2>2
  <2>3. CASE i <= n
    <3>1. next[i] \in 1 .. n + 2 /\ next[i] + k > n + 2
        BY <2>1, <2>3 DEF Scanning
    <3>2. f[next[i]] = g[next[i]]
        BY <3>1
    <3> QED
        BY <3>2, <2>3 DEF Step
  <2>4. CASE i > n
      BY <2>4 DEF Step
  <2> QED
      BY <2>2, <2>3, <2>4
<1>3. n + 2 \in P
  <2> HIDE DEF P
  <2>1. P \in SUBSET Nat
      BY DEF P
  <2>2. P = Nat
      BY <1>1, <1>2, <2>1, Induction
  <2> QED
      BY <2>2
<1> QED
    BY <1>3

\* Scan satisfies its equation, and no other function does.
LEMMA ScanDef ==
    ASSUME NEW S, NEW s \in Seq(S), NEW T, NEW text, NEW next, Scanning(Len(s), T, text, next)
    PROVE  \E f \in [1 .. Len(s) + 2 -> Seq(T)] :
               /\ Scan(s, text, next) = f[1]
               /\ \A i \in 1 .. Len(s) + 2 : f[i] = Step(Len(s), text, f, next, i)
<1> DEFINE D == 1 .. Len(s) + 2
           Solves(f) == f = [i \in D |-> IF i > Len(s) THEN <<>> ELSE text[i] \o f[next[i]]]
           result == CHOOSE f : Solves(f)
<1>1. PICK f \in [D -> Seq(T)] : \A i \in D : f[i] = Step(Len(s), text, f, next, i)
    BY ScanExists
<1>2. Solves(f)
    BY <1>1 DEF Step
<1>3. Solves(result)
    BY <1>2, Zenon
<1>4. Scan(s, text, next) = result[1]
    BY DEF Scan
<1>5. \A i \in D : result[i] = Step(Len(s), text, result, next, i)
  <2> HIDE DEF result
  <2> QED
      BY <1>3 DEF Step
<1> HIDE DEF result
<1>6. \A i \in D : f[i] = result[i]
    BY <1>1, <1>5, ScanUnique
<1> QED
    BY <1>1, <1>4, <1>6

-----------------------------------------------------------------------------
(* The names behind a "$", and the references of a text.                   *)

LEMMA NameEndDef ==
    ASSUME NEW S, NEW s \in Seq(S), NEW i \in 1 .. Len(s) + 1
    PROVE  /\ NameEnd(s, i) \in i .. Len(s) + 1
           /\ \A k \in i .. NameEnd(s, i) - 1 : s[k] \in NameChars
           /\ NameEnd(s, i) = Len(s) + 1 \/ s[NameEnd(s, i)] \notin NameChars
<1> DEFINE Ends == {j \in i .. Len(s) + 1 : j = Len(s) + 1 \/ s[j] \notin NameChars}
<1>1. Len(s) + 1 \in Ends /\ Ends \in SUBSET Nat
    OBVIOUS
<1>2. PICK m \in Ends : \A k \in Ends : m <= k
  <2> HIDE DEF Ends
  <2> QED
      BY <1>1, Least
<1>3. ASSUME NEW k \in i .. m - 1 PROVE s[k] \in NameChars
    BY <1>2
<1> DEFINE IsEnd(j) == /\ \A k \in i .. j - 1 : s[k] \in NameChars
                       /\ j = Len(s) + 1 \/ s[j] \notin NameChars
<1>4. m \in i .. Len(s) + 1 /\ IsEnd(m)
    BY <1>2, <1>3
<1>5. NameEnd(s, i) = CHOOSE j \in i .. Len(s) + 1 : IsEnd(j)
    BY DEF NameEnd
<1> HIDE DEF IsEnd
<1>6. NameEnd(s, i) \in i .. Len(s) + 1 /\ IsEnd(NameEnd(s, i))
    BY <1>4, <1>5
<1> QED
    BY <1>6 DEF IsEnd

LEMMA NameEndUnique ==
    ASSUME NEW S, NEW s \in Seq(S), NEW i \in 1 .. Len(s) + 1, NEW j \in i .. Len(s) + 1,
           \A k \in i .. j - 1 : s[k] \in NameChars, j = Len(s) + 1 \/ s[j] \notin NameChars
    PROVE  NameEnd(s, i) = j
<1> DEFINE e == NameEnd(s, i)
<1>1. /\ e \in i .. Len(s) + 1
      /\ \A k \in i .. e - 1 : s[k] \in NameChars
      /\ e = Len(s) + 1 \/ s[e] \notin NameChars
    BY NameEndDef
<1> HIDE DEF e
<1>2. ~(e < j) /\ ~(j < e)
    BY <1>1
<1> QED
    BY <1>1, <1>2 DEF e

\* The two closed forms of a reference, and the one that is not closed.
Plain(s, i, d) ==
    /\ ~d.malformed /\ (i = Len(s) \/ s[i + 1] # LBrace)
    /\ d.name = SubSeq(s, i + 1, d.next - 1)
    /\ \A k \in i + 1 .. d.next - 1 : s[k] \in NameChars
    /\ d.next = Len(s) + 1 \/ s[d.next] \notin NameChars

Closed(s, i, d) ==
    /\ ~d.malformed /\ i + 2 < d.next /\ s[i + 1] = LBrace /\ s[d.next - 1] = RBrace
    /\ d.name = SubSeq(s, i + 2, d.next - 2)
    /\ \A k \in i + 2 .. d.next - 2 : s[k] \in NameChars

Malformed(s, i, d) ==
    /\ d.malformed /\ i + 1 < d.next /\ s[i + 1] = LBrace
    /\ d.name = SubSeq(s, i + 2, d.next - 1)
    /\ \A k \in i + 2 .. d.next - 1 : s[k] \in NameChars
    /\ d.next = Len(s) + 1 \/ s[d.next] \notin NameChars \cup {RBrace}

LEMMA DollarDef ==
    ASSUME NEW S, NEW s \in Seq(S), NEW i \in 1 .. Len(s)
    PROVE  LET d == Dollar(s, i) IN
           /\ d.next \in i + 1 .. Len(s) + 1
           /\ d.name \in Seq(S)
           /\ Plain(s, i, d) \/ Closed(s, i, d) \/ Malformed(s, i, d)
<1> DEFINE braced == i < Len(s) /\ s[i + 1] = LBrace
           start  == IF braced THEN i + 2 ELSE i + 1
           end    == NameEnd(s, start)
           closed == braced /\ end <= Len(s) /\ s[end] = RBrace
           d      == Dollar(s, i)
<1>1. start \in i + 1 .. Len(s) + 1 /\ start = IF braced THEN i + 2 ELSE i + 1
    OBVIOUS
<1>2. /\ end \in start .. Len(s) + 1
      /\ \A k \in start .. end - 1 : s[k] \in NameChars
      /\ end = Len(s) + 1 \/ s[end] \notin NameChars
  <2> HIDE DEF start, braced
  <2> QED
      BY <1>1, NameEndDef
<1>3. d.name = SubSeq(s, start, end - 1)
    BY DEF Dollar
<1>4. d.next = IF closed THEN end + 1 ELSE end
    BY DEF Dollar
<1>5. d.malformed <=> braced /\ ~closed
    BY Zenon DEF Dollar
<1>6. SubSeq(s, start, end - 1) \in Seq(S)
  <2> HIDE DEF start, end
  <2> QED
      BY <1>1, <1>2
<1> HIDE DEF start, end, d
<1>7. d.next \in i + 1 .. Len(s) + 1
    BY <1>1, <1>2, <1>4
<1>8. CASE ~braced
  <2>1. ~closed /\ start = i + 1 /\ d.next = end
      BY <1>1, <1>4, <1>8
  <2>2. Plain(s, i, d)
      BY <1>1, <1>2, <1>3, <1>5, <1>8, <2>1 DEF Plain
  <2> QED
      BY <2>2, <1>3, <1>6, <1>7 DEF d
<1>9. CASE closed
  <2>1. Closed(s, i, d)
      BY <1>1, <1>2, <1>3, <1>4, <1>5, <1>9 DEF Closed
  <2> QED
      BY <2>1, <1>3, <1>6, <1>7 DEF d
<1>10. CASE braced /\ ~closed
  <2>1. /\ d.malformed /\ d.next = end /\ start = i + 2 /\ i < Len(s)
        /\ end = Len(s) + 1 \/ s[end] # RBrace
      BY <1>1, <1>2, <1>4, <1>5, <1>10
  <2>2. Malformed(s, i, d)
      BY <1>2, <1>3, <1>10, <2>1 DEF Malformed
  <2> QED
      BY <2>2, <1>3, <1>6, <1>7 DEF d
<1> QED
    BY <1>8, <1>9, <1>10

LEMMA IsNameDef ==
    ASSUME NEW S, NEW s \in Seq(S), NEW a \in 1 .. Len(s) + 1, NEW b \in 0 .. Len(s)
    PROVE  IsName(SubSeq(s, a, b)) <=> a <= b /\ \A k \in a .. b : s[k] \in NameChars
<1> DEFINE t == SubSeq(s, a, b)
<1>1. CASE a > b
    BY <1>1, SubSeqEmpty DEF IsName
<1>2. CASE a <= b
  <2>1. t \in Seq(S) /\ Len(t) = b - a + 1 /\ \A k \in 1 .. b - a + 1 : t[k] = s[a + k - 1]
      BY <1>2
  <2> HIDE DEF t
  <2>2. t # <<>> /\ DOMAIN t = 1 .. b - a + 1
      BY <2>1, <1>2
  <2>3. ASSUME \A k \in DOMAIN t : t[k] \in NameChars, NEW k \in a .. b PROVE s[k] \in NameChars
    <3>1. k - a + 1 \in DOMAIN t /\ t[k - a + 1] = s[k]
        BY <2>1, <2>2
    <3> QED
        BY <3>1, <2>3
  <2>4. ASSUME \A k \in a .. b : s[k] \in NameChars, NEW k \in DOMAIN t PROVE t[k] \in NameChars
    <3>1. a + k - 1 \in a .. b /\ t[k] = s[a + k - 1]
        BY <2>1, <2>2
    <3> QED
        BY <3>1, <2>4
  <2> QED
      BY <2>2, <2>3, <2>4, <1>2 DEF IsName, t
<1> QED
    BY <1>1, <1>2

\* A reference is what Dollar finds at its "$".
RefersTo(s, r, i) ==
    LET d == Dollar(s, i)
    IN  /\ i \in 1 .. Len(s) /\ s[i] = Sigil /\ ~d.malformed /\ d.name # <<>>
        /\ r.from = i /\ r.to = d.next - 1 /\ r.name = d.name

LEMMA PlainReference ==
    ASSUME NEW S, NEW s \in Seq(S), NEW i \in 1 .. Len(s), NEW e \in 1 .. Len(s),
           i + 1 <= e, \A k \in i + 1 .. e : s[k] \in NameChars,
           e = Len(s) \/ s[e + 1] \notin NameChars
    PROVE  LET d == Dollar(s, i)
           IN  ~d.malformed /\ d.next = e + 1 /\ d.name = SubSeq(s, i + 1, e)
<1>1. s[i + 1] # LBrace
    BY NameAssumption
<1>2. NameEnd(s, i + 1) = e + 1
  <2>1. i + 1 \in 1 .. Len(s) + 1 /\ e + 1 \in i + 1 .. Len(s) + 1 /\ e + 1 - 1 = e
      OBVIOUS
  <2>2. e + 1 = Len(s) + 1 \/ s[e + 1] \notin NameChars
      OBVIOUS
  <2> QED
      BY <2>1, <2>2, NameEndUnique
<1> DEFINE d == Dollar(s, i)
<1>3. ~d.malformed
    BY <1>1, Zenon DEF Dollar
<1>4. d.next = e + 1 /\ d.name = SubSeq(s, i + 1, e + 1 - 1)
    BY <1>1, <1>2 DEF Dollar
<1> QED
    BY <1>3, <1>4

LEMMA ClosedReference ==
    ASSUME NEW S, NEW s \in Seq(S), NEW i \in 1 .. Len(s), NEW e \in 1 .. Len(s),
           i + 2 <= e, s[i + 1] = LBrace, s[e] = RBrace, \A k \in i + 2 .. e - 1 : s[k] \in NameChars
    PROVE  LET d == Dollar(s, i)
           IN  ~d.malformed /\ d.next = e + 1 /\ d.name = SubSeq(s, i + 2, e - 1)
<1>1. s[e] \notin NameChars
    BY NameAssumption
<1>2. NameEnd(s, i + 2) = e
  <2>1. i + 2 \in 1 .. Len(s) + 1 /\ e \in i + 2 .. Len(s) + 1
      OBVIOUS
  <2> QED
      BY <1>1, <2>1, NameEndUnique
<1> DEFINE d == Dollar(s, i)
<1>3. i < Len(s) /\ e <= Len(s)
    OBVIOUS
<1>4. ~d.malformed
    BY <1>2, <1>3, Zenon DEF Dollar
<1>5. d.next = e + 1 /\ d.name = SubSeq(s, i + 2, e - 1)
    BY <1>2, <1>3 DEF Dollar
<1> QED
    BY <1>4, <1>5

\* The members of References, by their form.
Interval(s, p) == p \in (1 .. Len(s)) \X (1 .. Len(s)) /\ s[p[1]] = Sigil

IsPlain(s, p) ==
    /\ Interval(s, p) /\ IsName(SubSeq(s, p[1] + 1, p[2]))
    /\ p[2] = Len(s) \/ s[p[2] + 1] \notin NameChars

IsBraced(s, p) ==
    /\ Interval(s, p) /\ p[1] + 2 < p[2] /\ s[p[1] + 1] = LBrace /\ s[p[2]] = RBrace
    /\ IsName(SubSeq(s, p[1] + 2, p[2] - 1))

PlainRef(s, p)  == [from |-> p[1], to |-> p[2], name |-> SubSeq(s, p[1] + 1, p[2])]
BracedRef(s, p) == [from |-> p[1], to |-> p[2], name |-> SubSeq(s, p[1] + 2, p[2] - 1)]

LEMMA ReferencesForms ==
    ASSUME NEW S, NEW s \in Seq(S)
    PROVE  \A r : r \in References(s) <=> \E p : \/ IsPlain(s, p) /\ r = PlainRef(s, p)
                                                 \/ IsBraced(s, p) /\ r = BracedRef(s, p)
<1>1. DOMAIN s = 1 .. Len(s)
    OBVIOUS
<1> QED
    BY <1>1, Zenon DEF References, IsPlain, IsBraced, Interval, PlainRef, BracedRef

LEMMA PlainRefersTo ==
    ASSUME NEW S, NEW s \in Seq(S), NEW p, IsPlain(s, p)
    PROVE  RefersTo(s, PlainRef(s, p), p[1])
<1>1. p[1] \in 1 .. Len(s) /\ p[2] \in 1 .. Len(s) /\ s[p[1]] = Sigil
    BY DEF IsPlain, Interval
<1>2. p[1] + 1 \in 1 .. Len(s) + 1 /\ p[2] \in 0 .. Len(s)
    BY <1>1
<1>3. p[1] + 1 <= p[2] /\ \A k \in p[1] + 1 .. p[2] : s[k] \in NameChars
    BY <1>2, IsNameDef DEF IsPlain
<1> DEFINE d == Dollar(s, p[1])
           t == SubSeq(s, p[1] + 1, p[2])
<1>4. ~d.malformed /\ d.next = p[2] + 1 /\ d.name = t
    BY <1>1, <1>3, PlainReference, ZenonT(30) DEF IsPlain
<1>5. t # <<>>
    BY Zenon DEF IsPlain, IsName
<1>6. PlainRef(s, p).from = p[1] /\ PlainRef(s, p).to = p[2] /\ PlainRef(s, p).name = t
    BY DEF PlainRef
<1>7. PlainRef(s, p).to = d.next - 1
    BY <1>1, <1>4, <1>6
<1> HIDE DEF t
<1> QED
    BY <1>1, <1>4, <1>5, <1>6, <1>7, Zenon DEF RefersTo

LEMMA BracedRefersTo ==
    ASSUME NEW S, NEW s \in Seq(S), NEW p, IsBraced(s, p)
    PROVE  RefersTo(s, BracedRef(s, p), p[1])
<1>1. /\ p[1] \in 1 .. Len(s) /\ p[2] \in 1 .. Len(s) /\ s[p[1]] = Sigil
      /\ p[1] + 2 < p[2] /\ s[p[1] + 1] = LBrace /\ s[p[2]] = RBrace
    BY DEF IsBraced, Interval
<1>2. p[1] + 2 \in 1 .. Len(s) + 1 /\ p[2] - 1 \in 0 .. Len(s)
    BY <1>1
<1>3. \A k \in p[1] + 2 .. p[2] - 1 : s[k] \in NameChars
    BY <1>2, IsNameDef DEF IsBraced
<1> DEFINE d == Dollar(s, p[1])
           t == SubSeq(s, p[1] + 2, p[2] - 1)
<1>0. p[1] + 2 <= p[2]
    BY <1>1
<1>4. ~d.malformed /\ d.next = p[2] + 1 /\ d.name = t
    BY <1>0, <1>1, <1>3, ClosedReference
<1>5. t # <<>>
    BY Zenon DEF IsBraced, IsName
<1>6. BracedRef(s, p).from = p[1] /\ BracedRef(s, p).to = p[2] /\ BracedRef(s, p).name = t
    BY DEF BracedRef
<1>7. BracedRef(s, p).to = d.next - 1
    BY <1>1, <1>4, <1>6
<1> HIDE DEF t
<1> QED
    BY <1>1, <1>4, <1>5, <1>6, <1>7, Zenon DEF RefersTo

LEMMA ReferencesDef ==
    ASSUME NEW S, NEW s \in Seq(S)
    PROVE  /\ \A r \in References(s) : RefersTo(s, r, r.from)
           /\ \A i \in 1 .. Len(s) : s[i] = Sigil /\ ~Dollar(s, i).malformed /\ Dollar(s, i).name # <<>>
                  => \E r \in References(s) : r.from = i
<1>1. ASSUME NEW r \in References(s) PROVE RefersTo(s, r, r.from)
  <2>1. PICK p : \/ IsPlain(s, p) /\ r = PlainRef(s, p)
                 \/ IsBraced(s, p) /\ r = BracedRef(s, p)
      BY ReferencesForms, Zenon
  <2>2. r.from = p[1]
      BY <2>1 DEF PlainRef, BracedRef
  <2> QED
      BY <2>1, <2>2, PlainRefersTo, BracedRefersTo, Zenon
<1>2. ASSUME NEW i \in 1 .. Len(s), s[i] = Sigil, ~Dollar(s, i).malformed, Dollar(s, i).name # <<>>
      PROVE  \E r \in References(s) : r.from = i
  <2> DEFINE d == Dollar(s, i)
             e == d.next - 1
             p == <<i, e>>
  <2>1. d.next \in i + 1 .. Len(s) + 1 /\ (Plain(s, i, d) \/ Closed(s, i, d)) /\ d.name # <<>>
      BY <1>2, DollarDef DEF Malformed
  <2> HIDE DEF d
  <2>2. p[1] = i /\ p[2] = e /\ e \in i .. Len(s) /\ e + 1 = d.next
      BY <2>1
  <2>3. PlainRef(s, p).from = i /\ BracedRef(s, p).from = i
      BY <2>2 DEF PlainRef, BracedRef
  <2>4. CASE Plain(s, i, d)
    <3>1. d.name = SubSeq(s, i + 1, e) /\ (\A k \in i + 1 .. e : s[k] \in NameChars)
          /\ (e = Len(s) \/ s[e + 1] \notin NameChars)
        BY <2>2, <2>4 DEF Plain
    <3>2. i + 1 <= e
        BY <3>1, <2>1, <2>2, SubSeqEmpty
    <3>3. i + 1 \in 1 .. Len(s) + 1 /\ e \in 0 .. Len(s) /\ e \in 1 .. Len(s)
        BY <2>2
    <3>4. IsName(SubSeq(s, i + 1, e))
        BY <3>1, <3>2, <3>3, IsNameDef
    <3> HIDE DEF e
    <3>5. Interval(s, p)
        BY <3>3, <1>2 DEF Interval
    <3> HIDE DEF p
    <3>6. IsPlain(s, p)
        BY <3>1, <3>4, <3>5, <2>2, Zenon DEF IsPlain
    <3> QED
        BY <3>6, <2>3, ReferencesForms, Zenon
  <2>5. CASE Closed(s, i, d)
    <3>1. d.name = SubSeq(s, i + 2, e - 1) /\ (\A k \in i + 2 .. e - 1 : s[k] \in NameChars)
          /\ s[i + 1] = LBrace /\ s[e] = RBrace /\ i + 1 < e
        BY <2>2, <2>5, SMTT(30) DEF Closed
    <3>2. i + 2 < e
        BY <3>1, <2>1, <2>2, SubSeqEmpty
    <3>3. i + 2 \in 1 .. Len(s) + 1 /\ e - 1 \in 0 .. Len(s) /\ e \in 1 .. Len(s) /\ i + 2 <= e - 1
        BY <2>2, <3>2
    <3>4. IsName(SubSeq(s, i + 2, e - 1))
        BY <3>1, <3>3, IsNameDef
    <3> HIDE DEF e
    <3>5. Interval(s, p)
        BY <3>3, <1>2 DEF Interval
    <3> HIDE DEF p
    <3>6. IsBraced(s, p)
        BY <3>1, <3>2, <3>4, <3>5, <2>2, Zenon DEF IsBraced
    <3> QED
        BY <3>6, <2>3, ReferencesForms, Zenon
  <2> QED
      BY <2>1, <2>4, <2>5
<1> QED
    BY <1>1, <1>2

-----------------------------------------------------------------------------
(* Runs of a scan that goes on one character at a time.                    *)

\* g is what such a scan of n characters with the images img has behind it.
Rests(n, T, img, g) ==
    g \in [1 .. n + 2 -> Seq(T)] /\ \A i \in 1 .. n : g[i] = img[i] \o g[i + 1]

EmptyOn(img, a, b)     == \A k \in a .. b - 1 : img[k] = <<>>
CopiesOn(img, s, a, b) == \A k \in a .. b - 1 : img[k] = <<s[k]>>

LEMMA EmptyRun ==
    ASSUME NEW n \in Nat, NEW T, NEW img, NEW g, Rests(n, T, img, g),
           NEW a \in Int, NEW b \in Int, 1 <= a, a <= b, b <= n + 1, EmptyOn(img, a, b)
    PROVE  g[a] = g[b]
<1> SUFFICES ASSUME g \in [1 .. n + 2 -> Seq(T)], \A i \in 1 .. n : g[i] = img[i] \o g[i + 1],
                    \A k \in a .. b - 1 : img[k] = <<>>
             PROVE  g[a] = g[b]
    BY DEF Rests, EmptyOn
<1> DEFINE Q(k) == a + k <= b => g[a] = g[a + k]
<1>1. Q(0)
    OBVIOUS
<1>2. ASSUME NEW k \in Nat, Q(k) PROVE Q(k + 1)
  <2>1. SUFFICES ASSUME a + (k + 1) <= b PROVE g[a] = g[a + (k + 1)]
      OBVIOUS
  <2>2. a + k \in a .. b - 1 /\ a + k \in 1 .. n /\ a + k + 1 \in 1 .. n + 2
      BY <2>1
  <2>3. g[a + k] = <<>> \o g[a + k + 1] /\ g[a + k + 1] \in Seq(T)
      BY <2>2
  <2>4. g[a] = g[a + k]
      BY <1>2, <2>1
  <2> QED
      BY <2>3, <2>4, ConcatEmptySeq
<1>3. \A k \in Nat : Q(k)
  <2> DEFINE P == {k \in Nat : Q(k)}
  <2> HIDE DEF Q
  <2>0. 0 \in Nat /\ \A k \in Nat : k + 1 \in Nat
      OBVIOUS
  <2>1. P \in SUBSET Nat /\ 0 \in P /\ \A k \in P : k + 1 \in P
      BY <1>1, <1>2, <2>0, Zenon
  <2>2. P = Nat
    <3> HIDE DEF P
    <3> QED
        BY <2>1, Induction
  <2> QED
      BY <2>2
<1>4. b - a \in Nat /\ a + (b - a) = b
    OBVIOUS
<1> HIDE DEF Q
<1>5. Q(b - a)
    BY <1>3, <1>4
<1> QED
    BY <1>4, <1>5 DEF Q

LEMMA SubSeqOne ==
    ASSUME NEW T, NEW s \in Seq(T), NEW i \in Int, 1 <= i, i <= Len(s)
    PROVE  SubSeq(s, i, i) = <<s[i]>>
<1>1. i \in 1 .. Len(s) /\ i \in i .. Len(s)
    OBVIOUS
<1>2. SubSeq(s, i, i) = <<s[i]>> \o SubSeq(s, i + 1, i)
    BY <1>1, SubSeqRecursiveFirst
<1>3. SubSeq(s, i + 1, i) = <<>>
    BY SubSeqEmpty
<1>4. <<s[i]>> \in Seq(T)
    BY <1>1
<1> QED
    BY <1>2, <1>3, <1>4, ConcatEmptySeq

\* The characters from m up to n, and what is behind them.
Upto(s, m, n, r) == SubSeq(s, m, n - 1) \o r

LEMMA CopyStep ==
    ASSUME NEW T, NEW s \in Seq(T), NEW r \in Seq(T),
           NEW m \in Int, NEW n \in Int, 1 <= m, m <= n, n <= Len(s)
    PROVE  Upto(s, m, n + 1, r) = Upto(s, m, n, <<s[n]>> \o r)
<1> DEFINE t == SubSeq(s, m, n - 1)
           c == <<s[n]>>
<1>1. SubSeq(s, m, (n + 1) - 1) = t \o c
  <2>1. SubSeq(s, m, n) = t \o c
      BY SubSeqRecursiveSecond
  <2>2. (n + 1) - 1 = n
      OBVIOUS
  <2> QED
      BY <2>1, <2>2
<1>2. t \in Seq(T)
  <2>1. \A i \in m .. n - 1 : s[i] \in T
      OBVIOUS
  <2> QED
      BY <2>1, SubSeqProperties
<1>3. c \in Seq(T)
    OBVIOUS
<1> HIDE DEF t, c
<1>4. (t \o c) \o r = t \o (c \o r)
    BY <1>2, <1>3, ConcatAssociative, SMTT(30)
<1> QED
    BY <1>1, <1>4 DEF t, c, Upto

LEMMA CopyRun ==
    ASSUME NEW T, NEW s \in Seq(T), NEW img, NEW g, Rests(Len(s), T, img, g),
           NEW a \in Int, NEW b \in Int, 1 <= a, a <= b, b <= Len(s) + 1, CopiesOn(img, s, a, b)
    PROVE  g[a] = Upto(s, a, b, g[b])
<1> SUFFICES ASSUME g \in [1 .. Len(s) + 2 -> Seq(T)], \A i \in 1 .. Len(s) : g[i] = img[i] \o g[i + 1],
                    \A k \in a .. b - 1 : img[k] = <<s[k]>>
             PROVE  g[a] = Upto(s, a, b, g[b])
    BY DEF Rests, CopiesOn
<1> DEFINE Q(k) == a + k <= b => g[a] = Upto(s, a, a + k, g[a + k])
<1>1. Q(0)
  <2>1. SubSeq(s, a, a - 1) = <<>>
      BY SubSeqEmpty
  <2>2. g[a] \in Seq(T) /\ a + 0 = a
      OBVIOUS
  <2>3. Upto(s, a, a, g[a]) = g[a]
      BY <2>1, <2>2, ConcatEmptySeq DEF Upto
  <2> QED
      BY <2>2, <2>3
<1>2. ASSUME NEW k \in Nat, Q(k) PROVE Q(k + 1)
  <2>1. SUFFICES ASSUME a + (k + 1) <= b
                 PROVE  g[a] = Upto(s, a, a + (k + 1), g[a + (k + 1)])
      OBVIOUS
  <2> DEFINE m == a + k
             r == g[m + 1]
  <2>2. /\ m \in a .. b - 1 /\ m \in 1 .. Len(s) /\ m + 1 \in 1 .. Len(s) + 2 /\ m <= b
        /\ m \in Int /\ a <= m /\ m <= Len(s)
      BY <2>1
  <2>3. g[m] = <<s[m]>> \o r /\ r \in Seq(T)
      BY <2>2
  <2>4. g[a] = Upto(s, a, m, g[m])
      BY <1>2, <2>2
  <2>5. a + (k + 1) = m + 1
      OBVIOUS
  <2> HIDE DEF m, r
  <2>6. Upto(s, a, m + 1, r) = Upto(s, a, m, <<s[m]>> \o r)
      BY <2>2, <2>3, CopyStep
  <2> QED
      BY <2>3, <2>4, <2>5, <2>6 DEF r
<1>3. \A k \in Nat : Q(k)
  <2> DEFINE P == {k \in Nat : Q(k)}
  <2> HIDE DEF Q
  <2>0. 0 \in Nat /\ \A k \in Nat : k + 1 \in Nat
      OBVIOUS
  <2>1. P \in SUBSET Nat /\ 0 \in P /\ \A k \in P : k + 1 \in P
      BY <1>1, <1>2, <2>0, Zenon
  <2>2. P = Nat
    <3> HIDE DEF P
    <3> QED
        BY <2>1, Induction
  <2> QED
      BY <2>2
<1>4. PICK k \in Nat : a + k = b
  <2>1. b - a \in Nat /\ a + (b - a) = b
      OBVIOUS
  <2> QED
      BY <2>1
<1>5. a + k <= b
    BY <1>4
<1>6. g[a] = Upto(s, a, a + k, g[a + k])
    BY <1>3, <1>5
<1> QED
    BY <1>4, <1>6

-----------------------------------------------------------------------------
(* FlattenSeq concatenates from the left what a scan does from the right.  *)

LEMMA Associative ==
    ASSUME NEW T, NEW a \in Seq(T), NEW b \in Seq(T), NEW c \in Seq(T)
    PROVE  a \o (b \o c) = (a \o b) \o c
    BY ConcatAssociative, SMTT(30)

\* The beginning of the concatenation up to i.
Joined(imgs, h, i) == IF i = 1 THEN imgs[i] ELSE h[i - 1] \o imgs[i]

Texts(n, T, imgs) == imgs \in [1 .. n -> Seq(T)]

Concatenates(n, T, imgs, h) == Texts(n, T, h) /\ \A i \in 1 .. n : h[i] = Joined(imgs, h, i)

LEMMA FlattenExists ==
    ASSUME NEW T, NEW n \in Nat, NEW imgs, Texts(n, T, imgs)
    PROVE  \E h : Concatenates(n, T, imgs, h)
<1> SUFFICES ASSUME imgs \in [1 .. n -> Seq(T)] PROVE \E h : Concatenates(n, T, imgs, h)
    BY DEF Texts
<1> DEFINE Q(k) == \E h \in [1 .. n -> Seq(T)] : \A i \in 1 .. n : i <= k => h[i] = Joined(imgs, h, i)
<1>1. Q(0)
  <2>1. [i \in 1 .. n |-> imgs[i]] \in [1 .. n -> Seq(T)]
      OBVIOUS
  <2> QED
      BY <2>1
<1>2. ASSUME NEW k \in Nat, Q(k) PROVE Q(k + 1)
  <2>1. PICK h \in [1 .. n -> Seq(T)] : \A i \in 1 .. n : i <= k => h[i] = Joined(imgs, h, i)
      BY <1>2
  <2>2. CASE k + 1 > n
    <3>1. \A i \in 1 .. n : i <= k + 1 => h[i] = Joined(imgs, h, i)
        BY <2>1, <2>2
    <3> QED
        BY <3>1, Zenon
  <2>3. CASE k + 1 <= n
    <3> DEFINE m == k + 1
               e == Joined(imgs, h, m)
               f == [h EXCEPT ![m] = e]
    <3>1. m \in 1 .. n /\ (m # 1 => m - 1 \in 1 .. n)
        BY <2>3
    <3>2. e \in Seq(T)
      <4>1. CASE m = 1
          BY <3>1, <4>1 DEF Joined
      <4>2. CASE m # 1
        <5>1. h[m - 1] \in Seq(T) /\ imgs[m] \in Seq(T)
            BY <3>1, <4>2
        <5> QED
            BY <5>1, <4>2, ConcatProperties DEF Joined
      <4> QED
          BY <4>1, <4>2
    <3>3. e = Joined(imgs, h, m)
        OBVIOUS
    <3> HIDE DEF e
    <3>4. f \in [1 .. n -> Seq(T)] /\ f[m] = e /\ \A i \in 1 .. n : i # m => f[i] = h[i]
        BY <3>1, <3>2
    <3> HIDE DEF f
    <3>5. ASSUME NEW i \in 1 .. n, i <= m PROVE Joined(imgs, f, i) = Joined(imgs, h, i)
      <4>1. i # 1 => i - 1 \in 1 .. n /\ i - 1 # m
          BY <3>5
      <4> QED
          BY <4>1, <3>4 DEF Joined
    <3>6. ASSUME NEW i \in 1 .. n, i <= m PROVE f[i] = Joined(imgs, f, i)
      <4>1. CASE i = m
          BY <4>1, <3>3, <3>4, <3>5
      <4>2. CASE i # m
        <5>1. i <= k
            BY <3>6, <4>2
        <5> QED
            BY <5>1, <2>1, <3>4, <3>5, <3>6, <4>2
      <4> QED
          BY <4>1, <4>2
    <3> QED
        BY <3>4, <3>6
  <2>4. k + 1 > n \/ k + 1 <= n
      OBVIOUS
  <2> QED
      BY <2>2, <2>3, <2>4, Zenon
<1>3. \A k \in Nat : Q(k)
  <2> DEFINE P == {k \in Nat : Q(k)}
  <2> HIDE DEF Q
  <2>0. 0 \in Nat /\ \A k \in Nat : k + 1 \in Nat
      OBVIOUS
  <2>1. P \in SUBSET Nat /\ 0 \in P /\ \A k \in P : k + 1 \in P
      BY <1>1, <1>2, <2>0, Zenon
  <2>2. P = Nat
    <3> HIDE DEF P
    <3> QED
        BY <2>1, Induction
  <2> QED
      BY <2>2
<1>4. PICK h \in [1 .. n -> Seq(T)] : \A i \in 1 .. n : i <= n => h[i] = Joined(imgs, h, i)
    BY <1>3
<1>5. Concatenates(n, T, imgs, h)
    BY <1>4 DEF Concatenates, Texts
<1> QED
    BY <1>5

LEMMA FlattenDef ==
    ASSUME NEW T, NEW n \in Nat, NEW imgs \in [1 .. n -> Seq(T)], NEW g \in [1 .. n + 2 -> Seq(T)],
           \A i \in 1 .. n : g[i] = imgs[i] \o g[i + 1], g[n + 1] = <<>>
    PROVE  FlattenSeq(imgs) = g[1]
<1>1. imgs \in Seq(Seq(T)) /\ Len(imgs) = n
    OBVIOUS
<1>2. CASE n = 0
  <2>1. imgs = <<>> /\ g[1] = <<>>
      BY <1>1, <1>2
  <2> QED
      BY <1>1, <1>2, <2>1 DEF FlattenSeq
<1>3. CASE n # 0
  <2> DEFINE Solves(h) == h = [i \in 1 .. n |-> IF i = 1 THEN imgs[i] ELSE h[i - 1] \o imgs[i]]
             flatten == CHOOSE h : Solves(h)
  <2>1. FlattenSeq(imgs) = flatten[n]
      BY <1>1, <1>3, Zenon DEF FlattenSeq
  <2>2. PICK h : Concatenates(n, T, imgs, h)
    <3>1. Texts(n, T, imgs)
        BY DEF Texts
    <3> QED
        BY <3>1, FlattenExists
  <2>3. Solves(h)
      BY <2>2, Zenon DEF Concatenates, Texts, Joined
  <2>4. Solves(flatten)
      BY <2>3, Zenon
  <2> HIDE DEF flatten
  <2> DEFINE Q(k) == k \in 1 .. n => flatten[k] \in Seq(T) /\ g[1] = flatten[k] \o g[k + 1]
  <2>5. Q(0)
      OBVIOUS
  <2>6. ASSUME NEW k \in Nat, Q(k) PROVE Q(k + 1)
    <3> DEFINE m == k + 1
    <3>1. SUFFICES ASSUME m \in 1 .. n PROVE flatten[m] \in Seq(T) /\ g[1] = flatten[m] \o g[m + 1]
        OBVIOUS
    <3>2. g[m] = imgs[m] \o g[m + 1] /\ imgs[m] \in Seq(T) /\ g[m + 1] \in Seq(T)
      <4>1. m + 1 \in 1 .. n + 2
          BY <3>1
      <4> HIDE DEF m
      <4>2. g[m] = imgs[m] \o g[m + 1]
          BY <3>1
      <4>3. imgs[m] \in Seq(T)
          BY <3>1
      <4>4. g[m + 1] \in Seq(T)
          BY <4>1
      <4> QED
          BY <4>2, <4>3, <4>4
    <3>3. flatten[m] = IF m = 1 THEN imgs[m] ELSE flatten[m - 1] \o imgs[m]
        BY <2>4, <3>1
    <3>4. CASE m = 1
        BY <3>2, <3>3, <3>4
    <3>5. CASE m # 1
      <4> DEFINE x == flatten[k]
                 y == imgs[m]
                 z == g[m + 1]
      <4>1. k \in 1 .. n /\ m - 1 = k
          BY <3>1, <3>5
      <4>2. x \in Seq(T) /\ g[1] = x \o g[m]
          BY <2>6, <4>1
      <4>3. flatten[m] = x \o y /\ g[1] = x \o (y \o z)
          BY <3>2, <3>3, <3>5, <4>1, <4>2
      <4>4. x \in Seq(T) /\ y \in Seq(T) /\ z \in Seq(T)
          BY <3>2, <4>2
      <4> HIDE DEF x, y, z
      <4>5. x \o (y \o z) = (x \o y) \o z
          BY ONLY <4>4, Associative, SMTT(30)
      <4>6. x \o y \in Seq(T)
          BY ONLY <4>4, ConcatProperties
      <4> QED
          BY <4>3, <4>5, <4>6 DEF z
    <3> QED
        BY <3>4, <3>5
  <2>7. \A k \in Nat : Q(k)
    <3> DEFINE P == {k \in Nat : Q(k)}
    <3> HIDE DEF Q
    <3>0. 0 \in Nat /\ \A k \in Nat : k + 1 \in Nat
        OBVIOUS
    <3>1. P \in SUBSET Nat /\ 0 \in P /\ \A k \in P : k + 1 \in P
        BY <2>5, <2>6, <3>0, Zenon
    <3>2. P = Nat
      <4> HIDE DEF P
      <4> QED
          BY <3>1, Induction
    <3> QED
        BY <3>2
  <2>8. flatten[n] \in Seq(T) /\ g[1] = flatten[n] \o g[n + 1]
    <3>1. n \in 1 .. n
        BY <1>3
    <3> QED
        BY <2>7, <3>1
  <2> QED
      BY <2>1, <2>8, ConcatEmptySeq
<1> QED
    BY <1>2, <1>3

-----------------------------------------------------------------------------
(* expandEnvVars replaces references.                                      *)

Known(env, s) == {r \in References(s) : r.name \in DOMAIN env}

\* What Expanded puts in the place of a character.
Image(env, s, i) ==
    IF \E r \in Known(env, s) : r.from = i THEN env[(CHOOSE r \in Known(env, s) : r.from = i).name]
    ELSE IF (\E r \in Known(env, s) : i \in r.from .. r.to) \/ Hollow(s, i - 1) \/ Hollow(s, i - 2)
    THEN <<>> ELSE <<s[i]>>

\* What expandEnvVars emits at a character it reads.
Emitted(env, s, i) ==
    IF s[i] # Sigil THEN <<s[i]>>
    ELSE IF Dollar(s, i).malformed THEN <<Sigil, LBrace>> \o Dollar(s, i).name
    ELSE IF Dollar(s, i).name = <<>> THEN <<Sigil>>
    ELSE IF Dollar(s, i).name \in DOMAIN env THEN env[Dollar(s, i).name]
    ELSE SubSeq(s, i, Dollar(s, i).next - 1)

LEMMA Characters == LBrace # Sigil /\ RBrace # Sigil
BY Zenon DEF Sigil, LBrace, RBrace

LEMMA ExpandedIsFlatten ==
    ASSUME NEW env, NEW s
    PROVE  Expanded(env, s) = FlattenSeq([i \in DOMAIN s |-> Image(env, s, i)])
BY Zenon DEF Expanded, Image, Known

LEMMA ExpandIsScan ==
    ASSUME NEW env, NEW s
    PROVE  expandEnvVars(env, s) = Scan(s, [i \in DOMAIN s |-> Emitted(env, s, i)], NextPos(s))
BY Zenon DEF expandEnvVars, Emitted

LEMMA NextPosDef ==
    ASSUME NEW S, NEW s \in Seq(S), NEW i \in 1 .. Len(s)
    PROVE  /\ NextPos(s)[i] = IF s[i] # Sigil THEN i + 1 ELSE Dollar(s, i).next
           /\ NextPos(s)[i] \in Int /\ i < NextPos(s)[i] /\ NextPos(s)[i] <= Len(s) + 1
<1>1. DOMAIN s = 1 .. Len(s)
    OBVIOUS
<1>2. NextPos(s)[i] = IF s[i] # Sigil THEN i + 1 ELSE Dollar(s, i).next
    BY <1>1 DEF NextPos
<1>3. Dollar(s, i).next \in i + 1 .. Len(s) + 1
    BY DollarDef
<1> QED
    BY <1>2, <1>3

LEMMA NoSigilInside ==
    ASSUME NEW S, NEW s \in Seq(S), NEW i \in 1 .. Len(s), NEW k \in Int, i < k, k < NextPos(s)[i]
    PROVE  s[k] # Sigil
<1> DEFINE d == Dollar(s, i)
<1>1. d.next = NextPos(s)[i] /\ d.next \in Int
    BY NextPosDef
<1>2. Plain(s, i, d) \/ Closed(s, i, d) \/ Malformed(s, i, d)
    BY DollarDef
<1> HIDE DEF d
<1>3. s[k] \in NameChars \cup {LBrace, RBrace}
  <2>1. k \in i + 1 .. d.next - 1
      BY <1>1
  <2>2. CASE Plain(s, i, d)
      BY <2>1, <2>2 DEF Plain
  <2>3. CASE Closed(s, i, d)
    <3>1. k = i + 1 \/ k = d.next - 1 \/ k \in i + 2 .. d.next - 2
        BY <2>1, <1>1
    <3> QED
        BY <3>1, <2>3 DEF Closed
  <2>4. CASE Malformed(s, i, d)
    <3>1. k = i + 1 \/ k \in i + 2 .. d.next - 1
        BY <2>1, <1>1
    <3> QED
        BY <3>1, <2>4 DEF Malformed
  <2> QED
      BY <1>2, <2>2, <2>3, <2>4
<1> QED
    BY <1>3, NameAssumption, Characters

LEMMA HollowDollar ==
    ASSUME NEW S, NEW s \in Seq(S), NEW i, Hollow(s, i)
    PROVE  /\ i \in 1 .. Len(s) - 2 /\ s[i] = Sigil
           /\ ~Dollar(s, i).malformed /\ Dollar(s, i).next = i + 3 /\ Dollar(s, i).name = <<>>
<1>1. i \in 1 .. Len(s) - 2 /\ s[i] = Sigil /\ s[i + 1] = LBrace /\ s[i + 2] = RBrace
    BY DEF Hollow
<1> DEFINE d == Dollar(s, i)
           e == i + 2
<1>2. /\ i \in 1 .. Len(s) /\ e \in 1 .. Len(s) /\ i + 2 <= e /\ s[e] = RBrace
      /\ e + 1 = i + 3 /\ e - 1 < i + 2 /\ e - 1 \in Int /\ \A k \in i + 2 .. e - 1 : s[k] \in NameChars
    BY <1>1
<1> HIDE DEF e
<1>3. ~d.malformed /\ d.next = e + 1 /\ d.name = SubSeq(s, i + 2, e - 1)
    BY <1>1, <1>2, ClosedReference
<1>4. SubSeq(s, i + 2, e - 1) = <<>>
    BY <1>1, <1>2, SubSeqEmpty
<1> QED
    BY <1>1, <1>2, <1>3, <1>4

\* No token that begins before i reaches i.
Clean(s, i) == \A d \in 1 .. Len(s) : d < i /\ s[d] = Sigil => Dollar(s, d).next <= i

LEMMA CleanNext ==
    ASSUME NEW S, NEW s \in Seq(S), NEW i \in 1 .. Len(s), Clean(s, i)
    PROVE  Clean(s, NextPos(s)[i])
<1> DEFINE m == NextPos(s)[i]
<1>1. m \in Int /\ i < m /\ (s[i] = Sigil => m = Dollar(s, i).next)
    BY NextPosDef
<1>2. SUFFICES ASSUME NEW d \in 1 .. Len(s), d < m, s[d] = Sigil PROVE Dollar(s, d).next <= m
    BY DEF Clean
<1>3. Dollar(s, d).next \in Int
    BY DollarDef
<1>4. CASE d < i
  <2>1. Dollar(s, d).next <= i
      BY <1>2, <1>4 DEF Clean
  <2> QED
      BY <2>1, <1>1, <1>3
<1>5. CASE d = i
    BY <1>1, <1>2, <1>3, <1>5
<1>6. CASE i < d
    BY <1>2, <1>6, NoSigilInside
<1> QED
    BY <1>4, <1>5, <1>6

\* A reference begins at a "$" and ends where the token does.
LEMMA KnownRefersTo ==
    ASSUME NEW S, NEW s \in Seq(S), NEW env, NEW r \in Known(env, s)
    PROVE  /\ r.from \in 1 .. Len(s) /\ s[r.from] = Sigil
           /\ r.to = NextPos(s)[r.from] - 1 /\ r.to \in Int /\ r.from <= r.to /\ r.to <= Len(s)
           /\ ~Dollar(s, r.from).malformed /\ Dollar(s, r.from).name = r.name
           /\ r.name # <<>> /\ r.name \in DOMAIN env
<1>1. r \in References(s) /\ r.name \in DOMAIN env
    BY DEF Known
<1>2. RefersTo(s, r, r.from)
    BY <1>1, ReferencesDef
<1>3. /\ r.from \in 1 .. Len(s) /\ s[r.from] = Sigil /\ r.to = Dollar(s, r.from).next - 1
      /\ ~Dollar(s, r.from).malformed /\ Dollar(s, r.from).name = r.name /\ r.name # <<>>
    BY <1>2, Zenon DEF RefersTo
<1>4. /\ NextPos(s)[r.from] = Dollar(s, r.from).next /\ NextPos(s)[r.from] \in Int
      /\ r.from < NextPos(s)[r.from] /\ NextPos(s)[r.from] <= Len(s) + 1
    BY <1>3, NextPosDef
<1> QED
    BY <1>1, <1>3, <1>4

\* Within a token from i that is no known reference, a character stays.
LEMMA ImageCopied ==
    ASSUME NEW S, NEW s \in Seq(S), NEW env, NEW i \in 1 .. Len(s), Clean(s, i),
           NEW k \in Int, i <= k, k < NextPos(s)[i],
           \A r \in Known(env, s) : r.from # i, k > i => ~Hollow(s, i)
    PROVE  Image(env, s, k) = <<s[k]>>
<1>1. \A j \in Int : i < j /\ j <= k => s[j] # Sigil
  <2>1. NextPos(s)[i] \in Int
      BY NextPosDef
  <2> QED
      BY <2>1, NoSigilInside
<1>2. ASSUME NEW r \in Known(env, s) PROVE r.from # k /\ ~(k \in r.from .. r.to)
  <2>1. /\ r.from \in 1 .. Len(s) /\ s[r.from] = Sigil /\ r.from # i
        /\ r.to \in Int /\ r.to = NextPos(s)[r.from] - 1 /\ NextPos(s)[r.from] \in Int
        /\ NextPos(s)[r.from] = Dollar(s, r.from).next
    <3>1. r.from \in 1 .. Len(s) /\ s[r.from] = Sigil /\ r.to \in Int /\ r.to = NextPos(s)[r.from] - 1
        BY KnownRefersTo
    <3> QED
        BY <3>1, NextPosDef
  <2>2. CASE r.from < i
    <3>1. NextPos(s)[r.from] <= i
        BY <2>1, <2>2 DEF Clean
    <3> QED
        BY <2>1, <2>2, <3>1
  <2>3. CASE r.from > i
      BY <1>1, <2>1, <2>3
  <2> QED
      BY <2>1, <2>2, <2>3
<1>3. ASSUME NEW h \in Int, h < k, k <= h + 2 PROVE ~Hollow(s, h)
  <2>1. SUFFICES ASSUME Hollow(s, h) PROVE FALSE
      OBVIOUS
  <2>2. h \in 1 .. Len(s) - 2 /\ s[h] = Sigil /\ Dollar(s, h).next = h + 3
      BY <2>1, HollowDollar
  <2>3. CASE h < i
    <3>1. h + 3 <= i
        BY <2>2, <2>3 DEF Clean
    <3> QED
        BY <3>1, <1>3
  <2>4. CASE h = i
      BY <2>1, <2>4, <1>3
  <2>5. CASE h > i
      BY <1>1, <1>3, <2>2, <2>5
  <2> QED
      BY <2>3, <2>4, <2>5
<1>4. ~Hollow(s, k - 1) /\ ~Hollow(s, k - 2)
    BY <1>3
<1> QED
    BY <1>2, <1>4, Zenon DEF Image

LEMMA ImageOfReference ==
    ASSUME NEW S, NEW s \in Seq(S), NEW env, NEW r \in Known(env, s)
    PROVE  Image(env, s, r.from) = env[r.name]
<1> DEFINE c == CHOOSE q \in Known(env, s) : q.from = r.from
<1>1. c \in Known(env, s) /\ c.from = r.from
    BY Zenon
<1> HIDE DEF c
<1>2. c.name = r.name
    BY <1>1, KnownRefersTo, ZenonT(30)
<1> QED
    BY <1>2, Zenon DEF Image, c

LEMMA ImageInReference ==
    ASSUME NEW S, NEW s \in Seq(S), NEW env, NEW r \in Known(env, s),
           NEW k \in Int, r.from < k, k <= r.to
    PROVE  Image(env, s, k) = <<>>
<1>1. r.from \in 1 .. Len(s) /\ r.to = NextPos(s)[r.from] - 1 /\ NextPos(s)[r.from] \in Int /\ r.to \in Int
    BY KnownRefersTo, NextPosDef
<1>2. s[k] # Sigil
    BY <1>1, NoSigilInside
<1>3. \A q \in Known(env, s) : q.from # k
    BY <1>2, KnownRefersTo
<1>4. k \in r.from .. r.to
    BY <1>1
<1> QED
    BY <1>3, <1>4, Zenon DEF Image

LEMMA ImageInHollow ==
    ASSUME NEW S, NEW s \in Seq(S), NEW env, NEW h, Hollow(s, h), NEW k \in {h + 1, h + 2}
    PROVE  Image(env, s, k) = <<>>
<1>1. h \in 1 .. Len(s) - 2 /\ s[h + 1] = LBrace /\ s[h + 2] = RBrace
    BY DEF Hollow
<1>2. s[k] # Sigil
    BY <1>1, Characters
<1>3. \A q \in Known(env, s) : q.from # k
    BY <1>2, KnownRefersTo
<1>4. k - 1 = h \/ k - 2 = h
    BY <1>1
<1>5. Hollow(s, k - 1) \/ Hollow(s, k - 2)
    BY <1>4
<1> QED
    BY <1>3, <1>5, Zenon DEF Image

\* What is emitted for a token that is no known reference and not "${}".
LEMMA EmittedCopied ==
    ASSUME NEW S, NEW s \in Seq(S), NEW env, NEW i \in 1 .. Len(s), s[i] = Sigil,
           \A r \in Known(env, s) : r.from # i, ~Hollow(s, i)
    PROVE  Emitted(env, s, i) = SubSeq(s, i, NextPos(s)[i] - 1)
<1> DEFINE d == Dollar(s, i)
           m == NextPos(s)[i]
<1>1. m = d.next /\ m \in Int /\ i < m /\ m <= Len(s) + 1
    BY NextPosDef
<1>2. Plain(s, i, d) \/ Closed(s, i, d) \/ Malformed(s, i, d)
    BY DollarDef
<1>3. CASE d.malformed
  <2>1. Emitted(env, s, i) = <<Sigil, LBrace>> \o d.name
      BY <1>3, Zenon DEF Emitted
  <2> HIDE DEF d, m
  <2>2. i + 1 < m /\ s[i + 1] = LBrace /\ d.name = SubSeq(s, i + 2, m - 1)
      BY <1>1, <1>2, <1>3 DEF Malformed, Plain, Closed
  <2> DEFINE t == SubSeq(s, i, m - 1)
             u == SubSeq(s, i + 2, m - 1)
  <2>3. t \in Seq(S) /\ Len(t) = m - i /\ \A k \in 1 .. m - i : t[k] = s[i + k - 1]
    <3>1. \A k \in i .. m - 1 : s[k] \in S
        BY <1>1
    <3> QED
        BY <1>1, <3>1, SubSeqProperties
  <2>4. u \in Seq(S) /\ Len(u) = m - i - 2 /\ \A k \in 1 .. m - i - 2 : u[k] = s[i + k + 1]
    <3>1. \A k \in i + 2 .. m - 1 : s[k] \in S
        BY <1>1
    <3>2. Len(u) = m - i - 2
        BY <1>1, <2>2, <3>1, SubSeqProperties, SMTT(30)
    <3>3. u \in Seq(S) /\ \A k \in 1 .. (m - 1) - (i + 2) + 1 : u[k] = s[(i + 2) + k - 1]
        BY <1>1, <2>2, <3>1, SubSeqProperties
    <3>4. (m - 1) - (i + 2) + 1 = m - i - 2
        BY <1>1
    <3>5. ASSUME NEW k \in 1 .. m - i - 2 PROVE u[k] = s[i + k + 1]
      <4>1. (i + 2) + k - 1 = i + k + 1 /\ k \in 1 .. (m - 1) - (i + 2) + 1
          BY <1>1, <3>4
      <4> HIDE DEF u
      <4> QED
          BY <3>3, <4>1
    <3> QED
        BY <3>2, <3>3, <3>5
  <2> HIDE DEF t, u
  <2> DEFINE v == <<Sigil, LBrace>> \o u
  <2>5. Sigil \in S /\ LBrace \in S
      BY <1>1, <2>2
  <2>6. v \in Seq(S) /\ Len(v) = m - i
      BY <1>1, <2>4, <2>5
  <2>7. ASSUME NEW k \in 1 .. m - i PROVE t[k] = v[k]
    <3>1. CASE k = 1
        BY <2>3, <2>4, <2>5, <3>1, <2>2, <1>1, SMTT(30)
    <3>2. CASE k = 2
        BY <2>3, <2>4, <2>5, <3>2, <2>2, <1>1, SMTT(30)
    <3>3. CASE k > 2
      <4>1. v[k] = u[k - 2] /\ k - 2 \in 1 .. m - i - 2
          BY <2>4, <2>5, <3>3, <1>1
      <4>2. u[k - 2] = s[i + (k - 2) + 1]
          BY <2>4, <4>1
      <4>3. t[k] = s[i + k - 1] /\ i + (k - 2) + 1 = i + k - 1
          BY <2>3, <1>1
      <4> QED
          BY <4>1, <4>2, <4>3
    <3>4. k = 1 \/ k = 2 \/ k > 2
        BY <1>1
    <3> QED
        BY <3>1, <3>2, <3>3, <3>4, Zenon
  <2> HIDE DEF v
  <2>8. t = v
      BY <2>3, <2>6, <2>7, SeqEqual
  <2> QED
      BY <2>1, <2>2, <2>8 DEF t, u, v, m
<1>4. CASE ~d.malformed /\ d.name = <<>>
  <2>1. Emitted(env, s, i) = <<Sigil>>
      BY <1>4, Zenon DEF Emitted
  <2> HIDE DEF d, m
  <2>2. CASE Plain(s, i, d)
    <3>1. ~(i + 1 <= m - 1)
      <4>1. SUFFICES ASSUME i + 1 <= m - 1 PROVE FALSE
          OBVIOUS
      <4>2. d.name = SubSeq(s, i + 1, m - 1) /\ \A k \in i + 1 .. m - 1 : s[k] \in S
          BY <1>1, <2>2 DEF Plain
      <4>3. Len(d.name) = m - i - 1
          BY <1>1, <4>1, <4>2, SubSeqProperties
      <4> QED
          BY <1>1, <1>4, <4>1, <4>3
    <3>2. m - 1 = i
        BY <1>1, <3>1
    <3>3. SubSeq(s, i, i) = <<s[i]>>
        BY SubSeqOne
    <3> QED
        BY <2>1, <3>2, <3>3 DEF m
  <2>3. CASE Closed(s, i, d)
    <3>1. ~(i + 2 <= m - 2)
      <4>1. SUFFICES ASSUME i + 2 <= m - 2 PROVE FALSE
          OBVIOUS
      <4>2. d.name = SubSeq(s, i + 2, m - 2) /\ \A k \in i + 2 .. m - 2 : s[k] \in S
          BY <1>1, <2>3 DEF Closed
      <4>3. Len(d.name) = m - i - 3
          BY <1>1, <4>1, <4>2, SubSeqProperties, SMTT(30)
      <4> QED
          BY <1>1, <1>4, <4>1, <4>3
    <3>2. m - 1 = i + 2 /\ i \in 1 .. Len(s) - 2
        BY <1>1, <3>1, <2>3 DEF Closed
    <3>3. s[i + 1] = LBrace /\ s[i + 2] = RBrace
        BY <1>1, <3>2, <2>3 DEF Closed
    <3> QED
        BY <3>2, <3>3 DEF Hollow
  <2>4. ~Malformed(s, i, d)
      BY <1>4, Zenon DEF Malformed
  <2> QED
      BY <1>2, <2>2, <2>3, <2>4
<1>5. CASE ~d.malformed /\ d.name # <<>>
  <2>1. d.name \notin DOMAIN env
    <3>1. SUFFICES ASSUME d.name \in DOMAIN env PROVE FALSE
        OBVIOUS
    <3>2. PICK r \in References(s) : r.from = i
        BY <1>5, ReferencesDef
    <3>3. RefersTo(s, r, i)
        BY <3>2, ReferencesDef
    <3>4. r.name = d.name
        BY <3>3, Zenon DEF RefersTo
    <3> QED
        BY <3>1, <3>2, <3>4, Zenon DEF Known
  <2> QED
      BY <1>1, <1>5, <2>1, Zenon DEF Emitted
<1> QED
    BY <1>3, <1>4, <1>5

Images(env, s, img) == img = [k \in 1 .. Len(s) |-> Image(env, s, k)]

Emits(env, s, g, i) == Emitted(env, s, i) \o g[NextPos(s)[i]]

\* What expandEnvVars emits at i is what Expanded has up to where it goes on.
LEMMA ExpandStep ==
    ASSUME NEW S, NEW s \in Seq(S), NEW env, NEW img, NEW g,
           Images(env, s, img), Rests(Len(s), S, img, g),
           NEW i \in 1 .. Len(s), Clean(s, i)
    PROVE  g[i] = Emits(env, s, g, i)
<1> SUFFICES ASSUME img = [k \in 1 .. Len(s) |-> Image(env, s, k)]
             PROVE  g[i] = Emitted(env, s, i) \o g[NextPos(s)[i]]
    BY DEF Images, Emits
<1> DEFINE m == NextPos(s)[i]
<1>1. m = (IF s[i] # Sigil THEN i + 1 ELSE Dollar(s, i).next) /\ m \in Int /\ i < m /\ m <= Len(s) + 1
    BY NextPosDef
<1>2. g[i] = Image(env, s, i) \o g[i + 1]
    BY DEF Rests
<1>3. Len(s) \in Nat /\ i \in Int /\ 1 <= i /\ i <= m /\ i + 1 \in Int /\ 1 <= i + 1 /\ i + 1 <= m
    BY <1>1
<1> HIDE DEF m
<1>4. CASE \E r \in Known(env, s) : r.from = i
  <2>1. PICK r \in Known(env, s) : r.from = i
      BY <1>4
  <2>2. /\ s[i] = Sigil /\ r.to = m - 1 /\ ~Dollar(s, i).malformed /\ Dollar(s, i).name = r.name
        /\ r.name # <<>> /\ r.name \in DOMAIN env /\ r.to \in Int
      BY <2>1, KnownRefersTo DEF m
  <2>3. Emitted(env, s, i) = env[r.name] /\ Image(env, s, i) = env[r.name]
    <3>1. Emitted(env, s, i) = env[r.name]
        BY <2>2, Zenon DEF Emitted
    <3> QED
        BY <3>1, <2>1, ImageOfReference
  <2>4. EmptyOn(img, i + 1, m)
    <3>0. SUFFICES ASSUME NEW k \in i + 1 .. m - 1 PROVE img[k] = <<>>
        BY DEF EmptyOn
    <3>1. k \in Int /\ r.from < k /\ k <= r.to /\ k \in 1 .. Len(s)
        BY <1>1, <2>1, <2>2
    <3>2. Image(env, s, k) = <<>>
        BY <3>1, ImageInReference
    <3> QED
        BY <3>1, <3>2
  <2>5. g[i + 1] = g[m]
      BY <1>1, <1>3, <2>4, EmptyRun
  <2> QED
      BY <1>2, <2>3, <2>5 DEF m
<1>5. CASE (\A r \in Known(env, s) : r.from # i) /\ Hollow(s, i)
  <2>1. i \in 1 .. Len(s) - 2 /\ s[i] = Sigil /\ m = i + 3 /\ ~Dollar(s, i).malformed /\ Dollar(s, i).name = <<>>
      BY <1>1, <1>5, HollowDollar
  <2>2. Emitted(env, s, i) = <<Sigil>>
      BY <2>1, Zenon DEF Emitted
  <2>3. Image(env, s, i) = <<Sigil>>
    <3>1. i \in Int /\ i <= i /\ i < NextPos(s)[i] /\ ~(i > i)
        BY <1>1 DEF m
    <3> QED
        BY <3>1, <2>1, <1>5, ImageCopied
  <2>4. EmptyOn(img, i + 1, m)
    <3>0. SUFFICES ASSUME NEW k \in i + 1 .. m - 1 PROVE img[k] = <<>>
        BY DEF EmptyOn
    <3>1. k \in {i + 1, i + 2} /\ k \in 1 .. Len(s)
        BY <2>1
    <3>2. Image(env, s, k) = <<>>
        BY <3>1, <1>5, ImageInHollow
    <3> QED
        BY <3>1, <3>2
  <2>5. g[i + 1] = g[m]
      BY <1>1, <1>3, <2>4, EmptyRun
  <2> QED
      BY <1>2, <2>2, <2>3, <2>5 DEF m
<1>6. CASE (\A r \in Known(env, s) : r.from # i) /\ ~Hollow(s, i)
  <2>1. Emitted(env, s, i) = SubSeq(s, i, m - 1)
    <3>1. CASE s[i] = Sigil
        BY <3>1, <1>6, EmittedCopied DEF m
    <3>2. CASE s[i] # Sigil
      <4>1. Emitted(env, s, i) = <<s[i]>>
          BY <3>2, Zenon DEF Emitted
      <4>2. m - 1 = i /\ SubSeq(s, i, i) = <<s[i]>>
          BY <3>2, <1>1, <1>3, SubSeqOne
      <4> QED
          BY <4>1, <4>2
    <3> QED
        BY <3>1, <3>2
  <2>2. CopiesOn(img, s, i, m)
    <3>0. SUFFICES ASSUME NEW k \in i .. m - 1 PROVE img[k] = <<s[k]>>
        BY DEF CopiesOn
    <3>1. k \in Int /\ i <= k /\ k < NextPos(s)[i] /\ k \in 1 .. Len(s)
        BY <1>1 DEF m
    <3>2. Image(env, s, k) = <<s[k]>>
        BY <3>1, <1>6, ImageCopied
    <3> QED
        BY <3>1, <3>2
  <2>3. g[i] = Upto(s, i, m, g[m])
      BY <1>1, <1>3, <2>2, CopyRun
  <2> QED
      BY <2>1, <2>3 DEF m, Upto
<1> QED
    BY <1>4, <1>5, <1>6

Environment(env, S) == \A v \in DOMAIN env : env[v] \in Seq(S)

LEMMA ImageTyping ==
    ASSUME NEW S, NEW s \in Seq(S), NEW env, Environment(env, S), NEW i \in 1 .. Len(s)
    PROVE  Image(env, s, i) \in Seq(S)
<1>1. CASE \E r \in Known(env, s) : r.from = i
  <2>1. PICK r \in Known(env, s) : r.from = i
      BY <1>1
  <2>2. Image(env, s, i) = env[r.name] /\ r.name \in DOMAIN env
      BY <2>1, ImageOfReference, KnownRefersTo
  <2> QED
      BY <2>2 DEF Environment
<1>2. CASE ~ \E r \in Known(env, s) : r.from = i
  <2>1. Image(env, s, i) = <<>> \/ Image(env, s, i) = <<s[i]>>
      BY <1>2, Zenon DEF Image
  <2>2. <<s[i]>> \in Seq(S) /\ <<>> \in Seq(S)
      OBVIOUS
  <2> QED
      BY <2>1, <2>2
<1> QED
    BY <1>1, <1>2

LEMMA EmittedTyping ==
    ASSUME NEW S, Sigil \in S, LBrace \in S, NEW s \in Seq(S), NEW env, Environment(env, S),
           NEW i \in 1 .. Len(s)
    PROVE  Emitted(env, s, i) \in Seq(S)
<1> DEFINE d == Dollar(s, i)
<1>1. d.name \in Seq(S) /\ d.next \in i + 1 .. Len(s) + 1
    BY DollarDef
<1> HIDE DEF d
<1>2. <<s[i]>> \in Seq(S) /\ <<Sigil>> \in Seq(S) /\ <<Sigil, LBrace>> \in Seq(S)
    OBVIOUS
<1>3. <<Sigil, LBrace>> \o d.name \in Seq(S)
    BY <1>1, <1>2, ConcatProperties
<1>4. SubSeq(s, i, d.next - 1) \in Seq(S)
  <2>1. \A k \in i .. d.next - 1 : s[k] \in S
      BY <1>1
  <2> QED
      BY <1>1, <2>1, SubSeqProperties
<1>5. d.name \in DOMAIN env => env[d.name] \in Seq(S)
    BY DEF Environment
<1> QED
    BY <1>2, <1>3, <1>4, <1>5, Zenon DEF Emitted, d

LEMMA StepEnd ==
    ASSUME NEW n \in Nat, NEW text, NEW f, NEW next
    PROVE  Step(n, text, f, next, n + 1) = <<>>
<1>1. n + 1 > n
    OBVIOUS
<1> QED
    BY <1>1, Zenon DEF Step

\* expandEnvVars reads a text from left to right; what it builds is the text with every
\* reference to a known variable replaced, and nothing it puts in is read again.
LEMMA ExpandReplacesReferences ==
    ASSUME NEW S, Sigil \in S, LBrace \in S, NEW s \in Seq(S), NEW env, Environment(env, S)
    PROVE  expandEnvVars(env, s) = Expanded(env, s) /\ expandEnvVars(env, s) \in Seq(S)
<1> DEFINE n    == Len(s)
           img  == [k \in 1 .. n |-> Image(env, s, k)]
           step == [k \in 1 .. n |-> k + 1]
           text == [k \in 1 .. n |-> Emitted(env, s, k)]
           next == NextPos(s)
<1>1. n \in Nat /\ DOMAIN s = 1 .. n
    OBVIOUS
<1>2. Scanning(n, S, img, step)
  <2>1. img \in [1 .. n -> Seq(S)]
      BY ImageTyping
  <2> HIDE DEF img
  <2> QED
      BY <2>1 DEF Scanning
<1>3. Scanning(n, S, text, next)
  <2>1. text \in [1 .. n -> Seq(S)]
      BY EmittedTyping
  <2>2. \A i \in 1 .. n : next[i] \in Int /\ i < next[i] /\ next[i] <= n + 1
      BY NextPosDef
  <2>3. next \in [1 .. n -> Nat]
    <3>1. next = [i \in 1 .. n |-> next[i]]
        BY <1>1 DEF NextPos
    <3>2. \A i \in 1 .. n : next[i] \in Nat
        BY <2>2
    <3> HIDE DEF next
    <3> QED
        BY <3>1, <3>2
  <2> HIDE DEF text, next
  <2> QED
      BY <2>1, <2>2, <2>3 DEF Scanning
<1>4. PICK g \in [1 .. n + 2 -> Seq(S)] : \A i \in 1 .. n + 2 : g[i] = Step(n, img, g, step, i)
  <2> HIDE DEF img, step
  <2> QED
      BY <1>1, <1>2, ScanExists, SMTT(30)
<1>5. Rests(n, S, img, g) /\ g[n + 1] = <<>>
  <2>1. ASSUME NEW i \in 1 .. n PROVE g[i] = img[i] \o g[i + 1]
    <3>1. step[i] = i + 1
        OBVIOUS
    <3> HIDE DEF img, step
    <3>2. i \in 1 .. n + 2 /\ ~(i > n)
        OBVIOUS
    <3>3. Step(n, img, g, step, i) = img[i] \o g[step[i]]
        BY <3>2, Zenon DEF Step
    <3> QED
        BY <1>4, <3>1, <3>2, <3>3
  <2>2. g[n + 1] = <<>>
    <3> HIDE DEF img, step
    <3>1. n + 1 \in 1 .. n + 2 /\ Step(n, img, g, step, n + 1) = <<>>
        BY <1>1, StepEnd
    <3> QED
        BY <1>4, <3>1
  <2> HIDE DEF img
  <2> QED
      BY <2>1, <2>2 DEF Rests
<1>6. PICK f \in [1 .. n + 2 -> Seq(S)] :
          /\ expandEnvVars(env, s) = f[1]
          /\ \A i \in 1 .. n + 2 : f[i] = Step(n, text, f, next, i)
  <2>1. expandEnvVars(env, s) = Scan(s, text, next)
      BY <1>1, ExpandIsScan
  <2> HIDE DEF text, next
  <2> QED
      BY <1>3, <2>1, ScanDef
<1>7. f[n + 1] = <<>> /\ \A i \in 1 .. n : f[i] = text[i] \o f[next[i]]
  <2> HIDE DEF text, next
  <2>1. n + 1 \in 1 .. n + 2 /\ Step(n, text, f, next, n + 1) = <<>>
      BY <1>1, StepEnd
  <2>2. ASSUME NEW i \in 1 .. n
        PROVE  i \in 1 .. n + 2 /\ Step(n, text, f, next, i) = text[i] \o f[next[i]]
    <3>1. i \in 1 .. n + 2 /\ ~(i > n)
        OBVIOUS
    <3> QED
        BY <3>1, Zenon DEF Step
  <2> QED
      BY <1>6, <2>1, <2>2
<1> DEFINE Q(k) == \A i \in 1 .. n + 1 : i + k >= n + 1 /\ Clean(s, i) => f[i] = g[i]
<1>8. Q(0)
  <2>2. \A i \in 1 .. n + 1 : i + 0 >= n + 1 => i = n + 1
      OBVIOUS
  <2> QED
      BY <1>5, <1>7, <2>2
<1>9. ASSUME NEW k \in Nat, Q(k) PROVE Q(k + 1)
  <2>1. SUFFICES ASSUME NEW i \in 1 .. n + 1, i + (k + 1) >= n + 1, Clean(s, i) PROVE f[i] = g[i]
      OBVIOUS
  <2>2. CASE i = n + 1
      BY <1>5, <1>7, <2>2
  <2>3. CASE i # n + 1
    <3>1. i \in 1 .. n
        BY <2>3
    <3>2. next[i] \in Int /\ i < next[i] /\ next[i] <= n + 1 /\ Clean(s, next[i])
        BY <3>1, <2>1, NextPosDef, CleanNext
    <3>3. next[i] \in 1 .. n + 1 /\ next[i] + k >= n + 1
        BY <3>1, <3>2, <2>1
    <3>4. f[next[i]] = g[next[i]]
        BY <1>9, <3>2, <3>3
    <3>5. g[i] = Emitted(env, s, i) \o g[next[i]]
      <4>1. Images(env, s, img) /\ i \in 1 .. Len(s)
          BY <3>1 DEF Images
      <4> HIDE DEF img
      <4>2. g[i] = Emits(env, s, g, i)
          BY <1>5, <2>1, <4>1, ExpandStep
      <4> QED
          BY <4>2 DEF Emits
    <3>6. text[i] = Emitted(env, s, i)
        BY <3>1
    <3> HIDE DEF text, next
    <3>7. f[i] = text[i] \o f[next[i]]
        BY <1>7, <3>1
    <3> QED
        BY <3>4, <3>5, <3>6, <3>7
  <2> QED
      BY <2>2, <2>3
<1>10. \A k \in Nat : Q(k)
  <2> DEFINE P == {k \in Nat : Q(k)}
  <2> HIDE DEF Q
  <2>1. P \in SUBSET Nat /\ 0 \in P /\ \A k \in P : k + 1 \in P
      BY <1>8, <1>9
  <2>2. P = Nat
    <3> HIDE DEF P
    <3> QED
        BY <2>1, Induction
  <2> QED
      BY <2>2
<1>11. f[1] = g[1]
  <2>1. Clean(s, 1) /\ 1 \in 1 .. n + 1 /\ 1 + n >= n + 1
      BY DEF Clean
  <2> QED
      BY <1>1, <1>10, <2>1
<1>12. Expanded(env, s) = g[1]
  <2>1. Expanded(env, s) = FlattenSeq(img)
      BY <1>1, ExpandedIsFlatten
  <2>2. img \in [1 .. n -> Seq(S)] /\ g \in [1 .. n + 2 -> Seq(S)] /\ \A i \in 1 .. n : g[i] = img[i] \o g[i + 1]
      BY <1>2, <1>5 DEF Scanning, Rests
  <2> HIDE DEF img, n
  <2>3. FlattenSeq(img) = g[1]
      BY <1>1, <1>5, <2>2, FlattenDef
  <2> QED
      BY <2>1, <2>3
<1> QED
    BY <1>6, <1>11, <1>12

-----------------------------------------------------------------------------
(* Values of the file.                                                     *)

\* What a scan of texts emits is a text.
LEMMA ScanTyping ==
    ASSUME NEW S, NEW s \in Seq(S), NEW T, NEW text, NEW next, Scanning(Len(s), T, text, next)
    PROVE  Scan(s, text, next) \in Seq(T)
<1>1. PICK f \in [1 .. Len(s) + 2 -> Seq(T)] : Scan(s, text, next) = f[1]
    BY ScanDef
<1>2. 1 \in 1 .. Len(s) + 2
    OBVIOUS
<1> QED
    BY <1>1, <1>2

LEMMA UnescapedTyping ==
    ASSUME NEW s \in Text
    PROVE  Unescaped(s) \in Text
<1> DEFINE known(i) == i < Len(s) /\ s[i + 1] \in DOMAIN Escaped
           text(i)  == IF s[i] = Quote THEN <<>>
                       ELSE IF s[i] # Backslash THEN <<s[i]>>
                       ELSE IF known(i) THEN <<Escaped[s[i + 1]]>> ELSE <<>>
           t == [i \in 1 .. Len(s) |-> text(i)]
           n == [i \in 1 .. Len(s) |-> IF s[i] # Backslash THEN i + 1 ELSE i + 2]
<1>1. s \in Seq(Chars) /\ DOMAIN s = 1 .. Len(s)
    BY DEF Text
<1>2. Unescaped(s) = Scan(s, t, n)
    BY <1>1, Zenon DEF Unescaped
<1>3. t \in [1 .. Len(s) -> Seq(Chars)]
  <2>1. ASSUME NEW i \in 1 .. Len(s) PROVE text(i) \in Seq(Chars)
    <3>1. <<s[i]>> \in Seq(Chars) /\ <<>> \in Seq(Chars)
        BY <1>1
    <3>2. known(i) => <<Escaped[s[i + 1]]>> \in Seq(Chars)
        BY EscapedAssumption
    <3> QED
        BY <3>1, <3>2
  <2> HIDE DEF text
  <2> QED
      BY <2>1
<1>4. n \in [1 .. Len(s) -> Nat] /\ \A i \in 1 .. Len(s) : i < n[i] /\ n[i] <= Len(s) + 2
    BY <1>1
<1> HIDE DEF t, n
<1>5. Scanning(Len(s), Chars, t, n)
    BY <1>3, <1>4 DEF Scanning
<1> QED
    BY <1>1, <1>2, <1>5, ScanTyping DEF Text

LEMMA ToStringTyping ==
    ASSUME NEW s \in Text
    PROVE  toString(s) \in Text
<1>1. <<>> \in Text
    BY DEF Text
<1> QED
    BY <1>1, UnescapedTyping DEF toString

LEMMA ExpandOnTexts ==
    ASSUME NEW s \in Text, NEW env, \A v \in DOMAIN env : env[v] \in Text
    PROVE  expandEnvVars(env, toString(s)) = Expanded(env, toString(s))
           /\ expandEnvVars(env, toString(s)) \in Text
<1>1. Sigil \in Chars /\ LBrace \in Chars
    BY NameAssumption
<1>2. toString(s) \in Seq(Chars) /\ Environment(env, Chars)
    BY ToStringTyping DEF Text, Environment
<1> QED
    BY <1>1, <1>2, ExpandReplacesReferences DEF Text

-----------------------------------------------------------------------------
(* The keys of a section have different places in the order of their       *)
(* texts, so no value is lost or doubled.                                  *)

\* The texts of the numbers up to 99 are ordered as these numbers are.
Order(k) == IF k < 10 THEN 11 * k ELSE 11 * (k \div 10) + (k % 10) + 1

LEMMA DigitsOf ==
    ASSUME NEW k \in 1 .. 99
    PROVE  /\ k < 10 => Digits(k) = <<k>>
           /\ k >= 10 => Digits(k) = <<k \div 10, k % 10>>
           /\ k \div 10 \in 0 .. 9 /\ k % 10 \in 0 .. 9 /\ k = 10 * (k \div 10) + (k % 10)
           /\ k >= 10 => k \div 10 \in 1 .. 9
BY DEF Digits

LEMMA OrderOfTexts ==
    ASSUME NEW j \in 1 .. 99, NEW k \in 1 .. 99
    PROVE  /\ KeyLess(j, k) <=> Order(j) < Order(k)
           /\ Order(j) = Order(k) => j = k
           /\ Order(j) \in Nat
<1> DEFINE q == j \div 10
           r == j % 10
           x == k \div 10
           y == k % 10
<1>1. /\ j < 10 => Digits(j) = <<j>>
      /\ j >= 10 => Digits(j) = <<q, r>>
      /\ q \in 0 .. 9 /\ r \in 0 .. 9 /\ j = 10 * q + r /\ (j >= 10 => q \in 1 .. 9)
    BY DigitsOf
<1>2. /\ k < 10 => Digits(k) = <<k>>
      /\ k >= 10 => Digits(k) = <<x, y>>
      /\ x \in 0 .. 9 /\ y \in 0 .. 9 /\ k = 10 * x + y /\ (k >= 10 => x \in 1 .. 9)
    BY DigitsOf
<1>3. Order(j) = (IF j < 10 THEN 11 * j ELSE 11 * q + r + 1) /\ Order(k) = (IF k < 10 THEN 11 * k ELSE 11 * x + y + 1)
    BY DEF Order
<1> HIDE DEF q, r, x, y
<1>4. Order(j) \in Nat
    BY <1>1, <1>3
<1>5. Order(j) = Order(k) => j = k
    BY <1>1, <1>2, <1>3
<1>6. CASE j < 10 /\ k < 10
  <2>1. KeyLess(j, k) <=> j < k
      BY <1>1, <1>2, <1>6 DEF KeyLess
  <2> QED
      BY <2>1, <1>3, <1>4, <1>5, <1>6
<1>7. CASE j < 10 /\ k >= 10
  <2>1. KeyLess(j, k) <=> j < x \/ j = x
      BY <1>1, <1>2, <1>7 DEF KeyLess
  <2> QED
      BY <2>1, <1>1, <1>2, <1>3, <1>4, <1>5, <1>7
<1>8. CASE j >= 10 /\ k < 10
  <2>1. KeyLess(j, k) <=> q < k
      BY <1>1, <1>2, <1>8 DEF KeyLess
  <2> QED
      BY <2>1, <1>1, <1>2, <1>3, <1>4, <1>5, <1>8
<1>9. CASE j >= 10 /\ k >= 10
  <2>1. KeyLess(j, k) <=> q < x \/ (q = x /\ r < y)
      BY <1>1, <1>2, <1>9, SMTT(30) DEF KeyLess
  <2> QED
      BY <2>1, <1>1, <1>2, <1>3, <1>4, <1>5, <1>9
<1> QED
    BY <1>4, <1>5, <1>6, <1>7, <1>8, <1>9

Before(K, k) == {j \in K : KeyLess(j, k)}

LEMMA SectionsAreFinite ==
    ASSUME NEW K \in SUBSET (1 .. 99)
    PROVE  IsFiniteSet(K)
<1>1. K \in SUBSET Nat /\ 99 \in Nat /\ \A k \in K : k <= 99
    OBVIOUS
<1> QED
    BY <1>1, FS_BoundedSetOfNaturals

LEMMA PlaceIncreases ==
    ASSUME NEW K \in SUBSET (1 .. 99), NEW i \in K, NEW j \in K
    PROVE  /\ Cardinality(Before(K, i)) \in 0 .. Cardinality(K) - 1
           /\ Order(i) < Order(j) => Cardinality(Before(K, i)) < Cardinality(Before(K, j))
<1> DEFINE A == Before(K, i)
           B == Before(K, j)
<1>1. /\ \A m \in K : m \in A <=> Order(m) < Order(i)
      /\ \A m \in K : m \in B <=> Order(m) < Order(j)
      /\ \A m \in K : Order(m) \in Nat
    BY OrderOfTexts, Zenon DEF Before
<1>2. A \in SUBSET K /\ B \in SUBSET K
    BY DEF Before
<1>3. i \in K \ A
    BY <1>1
<1> HIDE DEF A, B
<1>4. IsFiniteSet(K)
    BY SectionsAreFinite
<1>5. /\ IsFiniteSet(A) /\ IsFiniteSet(B) /\ Cardinality(K) \in Nat
      /\ Cardinality(A) \in Nat /\ Cardinality(B) \in Nat
    BY <1>2, <1>4, FS_Subset, FS_CardinalityType
<1>6. Cardinality(A) <= Cardinality(K) /\ Cardinality(A) # Cardinality(K)
    BY <1>2, <1>3, <1>4, FS_Subset
<1>7. ASSUME Order(i) < Order(j) PROVE Cardinality(A) < Cardinality(B)
  <2>1. A \in SUBSET B /\ i \in B
      BY <1>1, <1>2, <1>7
  <2>2. Cardinality(A) <= Cardinality(B) /\ Cardinality(A) # Cardinality(B)
      BY <2>1, <1>3, <1>5, FS_Subset
  <2> QED
      BY <2>2, <1>5
<1> QED
    BY <1>5, <1>6, <1>7 DEF A, B

\* Every place is taken by one key.
LEMMA PlacesAreTaken ==
    ASSUME NEW K \in SUBSET (1 .. 99)
    PROVE  /\ Cardinality(K) \in Nat
           /\ \A i, j \in K : Cardinality(Before(K, i)) = Cardinality(Before(K, j)) => i = j
           /\ \A r \in 1 .. Cardinality(K) : \E k \in K : Cardinality(Before(K, k)) = r - 1
<1> DEFINE n == Cardinality(K)
           f == [k \in K |-> Cardinality(Before(K, k)) + 1]
<1>1. IsFiniteSet(K) /\ n \in Nat
    BY SectionsAreFinite, FS_CardinalityType
<1>2. ASSUME NEW i \in K, NEW j \in K, Cardinality(Before(K, i)) = Cardinality(Before(K, j)) PROVE i = j
  <2>1. Cardinality(Before(K, i)) \in Int /\ Cardinality(Before(K, j)) \in Int
      BY PlaceIncreases
  <2>2. ~(Order(i) < Order(j)) /\ ~(Order(j) < Order(i))
    <3>1. Order(i) < Order(j) => Cardinality(Before(K, i)) < Cardinality(Before(K, j))
        BY PlaceIncreases
    <3>2. Order(j) < Order(i) => Cardinality(Before(K, j)) < Cardinality(Before(K, i))
        BY PlaceIncreases
    <3> QED
        BY <1>2, <2>1, <3>1, <3>2
  <2>3. i \in 1 .. 99 /\ j \in 1 .. 99
      OBVIOUS
  <2>4. Order(i) \in Nat /\ Order(j) \in Nat /\ (Order(i) = Order(j) => i = j)
      BY <2>3, OrderOfTexts, Zenon
  <2> QED
      BY <2>2, <2>4
<1>3. \A k \in K : f[k] \in 1 .. n /\ f[k] = Cardinality(Before(K, k)) + 1 /\ Cardinality(Before(K, k)) \in Nat
    BY <1>1, PlaceIncreases
<1>4. f \in [K -> 1 .. n]
    BY <1>3
<1> HIDE DEF f
<1>5. \A i, j \in K : f[i] = f[j] => i = j
    BY <1>2, <1>3
<1>6. f \in Injection(K, 1 .. n)
    BY <1>4, <1>5 DEF Injection, IsInjective
<1>7. IsFiniteSet(1 .. n) /\ Cardinality(1 .. n) = n
    BY <1>1, FS_Interval
<1>8. f \in Surjection(K, 1 .. n)
    BY <1>6, <1>7, FS_Injection
<1>9. \A r \in 1 .. n : \E k \in K : f[k] = r
    BY <1>8 DEF Surjection
<1> QED
    BY <1>1, <1>2, <1>3, <1>9

LEMMA ValuesInOrder ==
    ASSUME NEW K \in SUBSET (1 .. 99), NEW f, \A k \in K : toString(f[k]) \in Text
    PROVE  /\ InOrderOfKeys(K, f) \in Seq(Text)
           /\ ToSet(InOrderOfKeys(K, f)) = {toString(f[k]) : k \in K}
<1> DEFINE n == Cardinality(K)
           at(i) == CHOOSE k \in K : Cardinality(Before(K, k)) = i - 1
           x == InOrderOfKeys(K, f)
<1>1. x = [i \in 1 .. n |-> toString(f[at(i)])]
    BY Zenon DEF InOrderOfKeys, Before
<1>2. ASSUME NEW i \in 1 .. n PROVE at(i) \in K /\ Cardinality(Before(K, at(i))) = i - 1
  <2>1. \E k \in K : Cardinality(Before(K, k)) = i - 1
      BY PlacesAreTaken
  <2> QED
      BY <2>1, Zenon
<1>3. ASSUME NEW k \in K PROVE \E i \in 1 .. n : at(i) = k
  <2> DEFINE r == Cardinality(Before(K, k)) + 1
  <2>1. r \in 1 .. n /\ r - 1 = Cardinality(Before(K, k))
    <3>1. Cardinality(Before(K, k)) \in 0 .. n - 1
        BY PlaceIncreases
    <3>2. n \in Nat
        BY PlacesAreTaken
    <3> QED
        BY <3>1, <3>2
  <2>2. at(r) \in K /\ Cardinality(Before(K, at(r))) = Cardinality(Before(K, k))
      BY <2>1, <1>2
  <2> HIDE DEF at
  <2>3. at(r) = k
      BY <2>2, PlacesAreTaken
  <2> HIDE DEF r
  <2> QED
      BY <2>1, <2>3
<1> HIDE DEF at, x
<1>4. n \in Nat
    BY PlacesAreTaken
<1>5. x \in [1 .. n -> Text]
    BY <1>1, <1>2
<1>6. x \in Seq(Text) /\ DOMAIN x = 1 .. n
    BY <1>4, <1>5
<1>7. ToSet(x) = {toString(f[k]) : k \in K}
    BY <1>1, <1>2, <1>3, <1>6 DEF ToSet
<1> QED
    BY <1>6, <1>7 DEF x

\* A list of the file has exactly the values that are not empty.
LEMMA LoadListDef ==
    ASSUME NEW f, IsSection(f)
    PROVE  /\ LoadList(f) \in Seq(Text)
           /\ ToSet(LoadList(f)) = {toString(f[k]) : k \in DOMAIN f} \ {<<>>}
<1> DEFINE K == {k \in DOMAIN f : toString(f[k]) # <<>>}
<1>1. K \in SUBSET (1 .. 99) /\ \A k \in DOMAIN f : toString(f[k]) \in Text
    BY ToStringTyping DEF IsSection
<1>2. LoadList(f) = InOrderOfKeys(K, f)
    BY DEF LoadList
<1>3. {toString(f[k]) : k \in K} = {toString(f[k]) : k \in DOMAIN f} \ {<<>>}
    OBVIOUS
<1>4. \A k \in K : toString(f[k]) \in Text
    BY <1>1
<1> HIDE DEF K
<1> QED
    BY <1>1, <1>2, <1>3, <1>4, ValuesInOrder

-----------------------------------------------------------------------------
(* What loadServerConfig and the options make of the inputs.               *)

LEMMA DefaultFields ==
    /\ Defaults.port \in Ports \ {0} /\ Defaults.cmdTimeoutMs \in Int /\ Defaults.cmdTimeoutMs > 0
    /\ Defaults.tls = FALSE /\ Defaults.allow = <<>> /\ Defaults.deny = <<>> /\ Defaults.auth = <<>>
    /\ Defaults.logFile = <<>> /\ Defaults.debugLevel = -1
    /\ DOMAIN Defaults = {"port", "cmdTimeoutMs", "tls", "cert", "key", "ca", "allow", "deny", "auth",
                          "logFile", "logLevel", "debugLevel"}
BY DEF Defaults, Ports

LEMMA DefaultLevel == Defaults.logLevel = ""
BY DEF Defaults

LEMMA SettingsFields ==
    ASSUME NEW ini, NEW env
    PROVE  LET c == Settings(ini, env) IN
           /\ DOMAIN c = DOMAIN Defaults
           /\ c.port = IF "port" \in DOMAIN ini THEN toInt(ini["port"]) ELSE Defaults.port
           /\ c.cmdTimeoutMs = IF "cmd_timeout_ms" \in DOMAIN ini THEN toInt(ini["cmd_timeout_ms"]) ELSE Defaults.cmdTimeoutMs
           /\ c.tls = IF "enabled" \in DOMAIN ini THEN toBool(ini["enabled"]) ELSE Defaults.tls
           /\ c.cert = IF "cert" \in DOMAIN ini THEN expandEnvVars(env, toString(ini["cert"])) ELSE Defaults.cert
           /\ c.key = IF "key" \in DOMAIN ini THEN expandEnvVars(env, toString(ini["key"])) ELSE Defaults.key
           /\ c.ca = IF "ca" \in DOMAIN ini THEN expandEnvVars(env, toString(ini["ca"])) ELSE Defaults.ca
           /\ c.allow = IF "allowlist" \in DOMAIN ini THEN LoadList(ini["allowlist"]) ELSE Defaults.allow
           /\ c.deny = IF "denylist" \in DOMAIN ini THEN LoadList(ini["denylist"]) ELSE Defaults.deny
           /\ c.auth = IF "auth" \in DOMAIN ini THEN LoadTokens(ini["auth"], env) ELSE Defaults.auth
           /\ c.logFile = IF "file" \in DOMAIN ini THEN toString(ini["file"]) ELSE Defaults.logFile
           /\ c.logLevel = IF "level" \in DOMAIN ini THEN ini["level"] ELSE Defaults.logLevel
           /\ c.debugLevel = IF "debug_level" \in DOMAIN ini THEN toInt(ini["debug_level"]) ELSE Defaults.debugLevel
<1>1. DOMAIN Settings(ini, env) = DOMAIN Defaults
    BY DEF Settings, Defaults
<1> QED
    BY <1>1, Zenon DEF Settings

LEMMA NumberTyping ==
    ASSUME NEW r \in [num : BOOLEAN, val : Int]
    PROVE  toInt(r) \in Int
BY DEF toInt

\* The settings that were let through.
LEMMA LoadedSettings ==
    ASSUME NEW ini, NEW env, loadServerConfig(ini, env).err = "none"
    PROVE  LET c == Settings(ini, env) IN
           loadServerConfig(ini, env).cfg = c /\ c.port \in Ports \ {0} /\ ~(c.cmdTimeoutMs <= 0)
<1> DEFINE c == Settings(ini, env)
<1>1. loadServerConfig(ini, env) =
          IF c.port \notin Ports \ {0} THEN [err |-> "port", cfg |-> Defaults]
          ELSE IF c.cmdTimeoutMs <= 0 THEN [err |-> "cmd_timeout_ms", cfg |-> Defaults]
          ELSE [err |-> "none", cfg |-> c]
    BY Zenon DEF loadServerConfig
<1> DEFINE Valid == c.port \in Ports \ {0}
           Positive == ~(c.cmdTimeoutMs <= 0)
<1>2. ~Valid => loadServerConfig(ini, env) = [err |-> "port", cfg |-> Defaults]
    BY <1>1, Zenon
<1>3. Valid /\ ~Positive => loadServerConfig(ini, env) = [err |-> "cmd_timeout_ms", cfg |-> Defaults]
    BY <1>1, Zenon
<1>4. Valid /\ Positive => loadServerConfig(ini, env) = [err |-> "none", cfg |-> c]
    BY <1>1, Zenon
<1> HIDE DEF c, Valid, Positive
<1>5. Valid /\ Positive
    BY <1>2, <1>3
<1>6. loadServerConfig(ini, env).cfg = c
    BY <1>4, <1>5
<1> QED
    BY <1>5, <1>6, Zenon DEF c, Valid, Positive

LEMMA SettingsTyping ==
    ASSUME NEW i, IsInput(i)
    PROVE  LET c == Settings(i.ini.keys, i.env) IN
           /\ c.cmdTimeoutMs \in Int /\ c.debugLevel \in Int /\ c.tls \in BOOLEAN
           /\ c.allow \in Seq(Text) /\ c.deny \in Seq(Text)
<1> DEFINE ini == i.ini.keys
           c == Settings(ini, i.env)
<1>1. /\ "cmd_timeout_ms" \in DOMAIN ini => ini["cmd_timeout_ms"] \in [num : BOOLEAN, val : Int]
      /\ "debug_level" \in DOMAIN ini => ini["debug_level"] \in [num : BOOLEAN, val : Int]
    BY DEF IsInput
<1>2. ("allowlist" \in DOMAIN ini => IsSection(ini["allowlist"])) /\ ("denylist" \in DOMAIN ini => IsSection(ini["denylist"]))
    BY DEF IsInput
<1>3. <<>> \in Seq(Text)
    OBVIOUS
<1> HIDE DEF ini
<1>4. /\ c.cmdTimeoutMs = IF "cmd_timeout_ms" \in DOMAIN ini THEN toInt(ini["cmd_timeout_ms"]) ELSE Defaults.cmdTimeoutMs
      /\ c.tls = IF "enabled" \in DOMAIN ini THEN toBool(ini["enabled"]) ELSE Defaults.tls
      /\ c.allow = IF "allowlist" \in DOMAIN ini THEN LoadList(ini["allowlist"]) ELSE Defaults.allow
      /\ c.deny = IF "denylist" \in DOMAIN ini THEN LoadList(ini["denylist"]) ELSE Defaults.deny
      /\ c.debugLevel = IF "debug_level" \in DOMAIN ini THEN toInt(ini["debug_level"]) ELSE Defaults.debugLevel
    BY SettingsFields
<1> HIDE DEF c
<1>0. -1 \in Int
    OBVIOUS
<1>5. c.cmdTimeoutMs \in Int /\ c.debugLevel \in Int
    BY <1>0, <1>1, <1>4, DefaultFields, NumberTyping, Zenon
<1>6. c.tls \in BOOLEAN
  <2>1. "enabled" \in DOMAIN ini => toBool(ini["enabled"]) \in BOOLEAN
      BY DEF toBool
  <2> QED
      BY <2>1, <1>4, DefaultFields, Zenon
<1>7. c.allow \in Seq(Text) /\ c.deny \in Seq(Text)
    BY <1>2, <1>3, <1>4, DefaultFields, LoadListDef, Zenon
<1> QED
    BY <1>5, <1>6, <1>7 DEF c, ini

-----------------------------------------------------------------------------
(* The logger.                                                             *)

NoText == ""

IsGlobals(g) == DOMAIN g = DOMAIN Globals

DebugOf(args, DBGLVL) == IF "debug" \in DOMAIN args THEN {args["debug"]} ELSE DBGLVL

LEMMA GlobalsFields ==
    /\ DOMAIN Globals = {"CliLogFile", "CliLogLevel", "CliDbgLevel", "LogFileName", "AllowedDebugLevel",
                         "LogSinks", "MainLogger", "registry"}
    /\ Globals.LogFileName = <<>> /\ Globals.AllowedDebugLevel = debugmax /\ Globals.LogSinks = <<>>
    /\ Globals.MainLogger = NoLogger /\ Globals.registry = NoLogger /\ Globals.CliDbgLevel = -1
BY DEF Globals

LEMMA GlobalsLevel == Globals.CliLogLevel = NoText
BY DEF Globals, NoText

\* The common options change their three globals only.
LEMMA ConfigureCLIDef ==
    ASSUME NEW args, NEW D
    PROVE  LET c == ConfigureCLI(Globals, args, D) IN
           /\ c.rc \in {0, 1} /\ IsGlobals(c.g)
           /\ c.g.registry = NoLogger /\ c.g.MainLogger = NoLogger /\ c.g.LogSinks = <<>>
           /\ c.g.AllowedDebugLevel = debugmax
           /\ c.rc = 0 =>
                /\ \A d \in DebugOf(args, D) : d \in 0 .. 9
                /\ c.g.CliLogLevel = IF "log-level" \in DOMAIN args THEN args["log-level"] ELSE NoText
                /\ c.g.CliDbgLevel = IF DebugOf(args, D) = {} THEN -1 ELSE CHOOSE d \in DebugOf(args, D) : TRUE
<1> DEFINE c == ConfigureCLI(Globals, args, D)
           debug == DebugOf(args, D)
           failed == "unknown" \in DOMAIN args \/ \E d \in debug : d \notin 0 .. 9
           given(k, default) == IF k \in DOMAIN args THEN args[k] ELSE default
           file == given("log-file", Globals.CliLogFile)
           level == given("log-level", Globals.CliLogLevel)
           dbg == IF debug = {} THEN Globals.CliDbgLevel ELSE CHOOSE d \in debug : TRUE
           set == [Globals EXCEPT !.CliLogFile = file, !.CliLogLevel = level, !.CliDbgLevel = dbg]
<1>1. c = [rc |-> IF failed \/ "version" \in DOMAIN args THEN 1 ELSE 0, g |-> IF failed THEN Globals ELSE set]
    BY Zenon DEF ConfigureCLI, DebugOf
<1>2. level = IF "log-level" \in DOMAIN args THEN args["log-level"] ELSE NoText
    BY GlobalsLevel, Zenon
<1>3. dbg = IF debug = {} THEN -1 ELSE CHOOSE d \in debug : TRUE
    BY GlobalsFields
<1>4. ~failed => \A d \in debug : d \in 0 .. 9
    BY Zenon
<1> HIDE DEF file, level, dbg, failed, debug, c
<1>5. /\ DOMAIN set = DOMAIN Globals /\ set.registry = NoLogger /\ set.MainLogger = NoLogger /\ set.LogSinks = <<>>
      /\ set.AllowedDebugLevel = debugmax /\ set.CliLogLevel = level /\ set.CliDbgLevel = dbg
    BY GlobalsFields
<1> HIDE DEF set
<1>6. c.rc \in {0, 1} /\ (c.rc = 0 => ~failed) /\ c.g = IF failed THEN Globals ELSE set
    BY <1>1
<1>7. c.g = Globals \/ c.g = set
    BY <1>6
<1>8. /\ IsGlobals(c.g) /\ c.g.registry = NoLogger /\ c.g.MainLogger = NoLogger /\ c.g.LogSinks = <<>>
      /\ c.g.AllowedDebugLevel = debugmax
    BY <1>5, <1>7, GlobalsFields DEF IsGlobals
<1>9. c.rc = 0 => c.g.CliLogLevel = level /\ c.g.CliDbgLevel = dbg
    BY <1>5, <1>6
<1> QED
    BY <1>2, <1>3, <1>4, <1>6, <1>8, <1>9, Zenon DEF c, debug

LEMMA CLIMakesNoLogger ==
    ASSUME NEW args, NEW D
    PROVE  LET c == ConfigureCLI(Globals, args, D) IN
           c.rc \in {0, 1} /\ IsGlobals(c.g) /\ c.g.registry = NoLogger /\ c.g.MainLogger = NoLogger
<1> DEFINE c == ConfigureCLI(Globals, args, D)
<1>1. /\ c.rc \in {0, 1} /\ IsGlobals(c.g)
      /\ c.g.registry = NoLogger /\ c.g.MainLogger = NoLogger /\ c.g.LogSinks = <<>>
      /\ c.g.AllowedDebugLevel = debugmax
      /\ c.rc = 0 =>
           /\ \A d \in DebugOf(args, D) : d \in 0 .. 9
           /\ c.g.CliLogLevel = IF "log-level" \in DOMAIN args THEN args["log-level"] ELSE NoText
           /\ c.g.CliDbgLevel = IF DebugOf(args, D) = {} THEN -1 ELSE CHOOSE d \in DebugOf(args, D) : TRUE
    BY ConfigureCLIDef
<1> QED
    BY <1>1

LEMMA Appended ==
    ASSUME NEW S, NEW q \in Seq(S), NEW e \in S
    PROVE  /\ Append(q, e) \in Seq(S) /\ Len(Append(q, e)) = Len(q) + 1
           /\ \A i \in 1 .. Len(q) : Append(q, e)[i] = q[i]
           /\ Append(q, e)[Len(q) + 1] = e
OBVIOUS

LEMMA SecondSink ==
    ASSUME NEW file
    PROVE  Append(<<"console">>, file) = <<"console", file>>
<1> DEFINE S == {"console", file}
           q == <<"console">>
           x == Append(q, file)
           y == <<"console", file>>
<1>1. q \in Seq(S) /\ file \in S /\ Len(q) = 1 /\ q[1] = "console"
    OBVIOUS
<1>2. y \in Seq(S) /\ Len(y) = 2 /\ y[1] = "console" /\ y[2] = file
    OBVIOUS
<1> HIDE DEF S, q, y
<1>3. /\ x \in Seq(S) /\ Len(x) = Len(q) + 1
      /\ \A i \in 1 .. Len(q) : x[i] = q[i]
      /\ x[Len(q) + 1] = file
    BY <1>1, Appended, Zenon
<1> HIDE DEF x
<1>4. Len(x) = Len(y) /\ \A i \in 1 .. Len(x) : x[i] = y[i]
    BY <1>1, <1>2, <1>3
<1>5. x = y
    BY <1>2, <1>3, <1>4, SeqEqual
<1> QED
    BY <1>5 DEF q, x, y

\* A logger that is made for the first time, with a file.
LEMMA InitLoggingDef ==
    ASSUME NEW g, NEW lvl, NEW W, IsGlobals(g), g.registry = NoLogger, g.MainLogger = NoLogger,
           g.LogSinks = <<>>, g.AllowedDebugLevel = debugmax, g.CliLogFile # <<>>
    PROVE  LET r == InitLogging(g, lvl, W) IN
           /\ IsGlobals(r.g) /\ r.g.registry = r.g.MainLogger
           /\ r.ok =>
                /\ r.g.LogSinks = <<"console", g.CliLogFile>>
                /\ r.g.MainLogger = ChosenLevel(g, lvl)
                /\ r.g.AllowedDebugLevel = IF g.CliDbgLevel >= 0 THEN g.CliDbgLevel ELSE debugmax
<1> DEFINE r == InitLogging(g, lvl, W)
           file == g.CliLogFile
           chosen == ChosenLevel(g, lvl)
           dbg == IF g.CliDbgLevel >= 0 THEN g.CliDbgLevel ELSE debugmax
           named == [g EXCEPT !.LogFileName = file, !.AllowedDebugLevel = dbg]
           sinks == <<>> \o <<"console">>
           made == [named EXCEPT !.LogSinks = Append(sinks, file), !.MainLogger = chosen]
<1>1. file = IF g.CliLogFile # <<>> THEN g.CliLogFile ELSE g.LogFileName
    BY Zenon
<1>2. r = IF file # <<>> /\ file \notin W THEN [ok |-> FALSE, g |-> [named EXCEPT !.LogSinks = sinks]]
          ELSE [ok |-> TRUE, g |-> [made EXCEPT !.registry = made.MainLogger]]
    BY Zenon DEF InitLogging
<1>3. Append(sinks, file) = <<"console", file>>
  <2> HIDE DEF file
  <2>1. <<"console">> \in Seq({"console"})
      OBVIOUS
  <2>2. sinks = <<"console">>
      BY <2>1, ConcatEmptySeq
  <2>3. Append(<<"console">>, file) = <<"console", file>>
      BY SecondSink
  <2> QED
      BY <2>2, <2>3, Zenon
<1> HIDE DEF r, file, chosen, dbg, sinks
<1>4. DOMAIN g = DOMAIN Globals
    BY DEF IsGlobals
<1>5. DOMAIN named = DOMAIN Globals /\ named.registry = NoLogger /\ named.MainLogger = NoLogger /\ named.AllowedDebugLevel = dbg
    BY <1>4, GlobalsFields
<1> HIDE DEF named
<1>6. /\ DOMAIN made = DOMAIN Globals /\ made.LogSinks = Append(sinks, file)
      /\ made.MainLogger = chosen /\ made.AllowedDebugLevel = dbg
    BY <1>5, GlobalsFields
<1> HIDE DEF made
<1>7. CASE file # <<>> /\ file \notin W
    BY <1>2, <1>5, <1>7, GlobalsFields DEF r, IsGlobals
<1>8. CASE ~(file # <<>> /\ file \notin W)
  <2> DEFINE last == [made EXCEPT !.registry = made.MainLogger]
  <2>1. /\ DOMAIN last = DOMAIN Globals /\ last.registry = chosen /\ last.MainLogger = chosen
        /\ last.LogSinks = <<"console", file>> /\ last.AllowedDebugLevel = dbg
      BY <1>3, <1>6, GlobalsFields
  <2> HIDE DEF last
  <2>2. r.g = last
      BY <1>2, <1>8 DEF last
  <2> QED
      BY <2>1, <2>2 DEF r, IsGlobals, dbg, chosen, file
<1> QED
    BY <1>7, <1>8

Over(S, T) == IF S # {} THEN S ELSE T
One(b, v)  == IF b THEN {v} ELSE {}

LEMMA CommonDebug ==
    ASSUME NEW args, NEW D, \A a, b \in D : a = b
    PROVE  (IF DebugOf(args, D) = {} THEN -1 ELSE CHOOSE d \in DebugOf(args, D) : TRUE)
               \in Over(One("debug" \in DOMAIN args, args["debug"]), Over(D, {-1}))
<1>1. DebugOf(args, D) # {} => (CHOOSE d \in DebugOf(args, D) : TRUE) \in DebugOf(args, D)
    BY Zenon
<1> DEFINE c == CHOOSE d \in DebugOf(args, D) : TRUE
<1> HIDE DEF c
<1>2. DebugOf(args, D) # {} => c \in DebugOf(args, D)
    BY <1>1 DEF c
<1>3. (IF DebugOf(args, D) = {} THEN -1 ELSE c) \in Over(One("debug" \in DOMAIN args, args["debug"]), Over(D, {-1}))
    BY <1>2 DEF DebugOf, Over, One
<1> QED
    BY <1>3 DEF c

\* The debug levels that DBGLVL may stand for.
EnvLevel(i) == i.DBGLVL \cap 0 .. 9

\* How the code chooses: for the file the override, then the INI file, then the name of
\* the program; for the level the override, then the INI file, then --log-level, then the
\* debug level, of the file before that of the command line or DBGLVL.
Chosen(i, g) ==
    LET option(k) == One(k \in DOMAIN i.args, i.args[k])
        fileKey(k) == i.ini.given /\ k \in DOMAIN i.ini.keys
        file  == Over(Over(option("logFile"), One(fileKey("file"), toString(i.ini.keys["file"]))) \ {<<>>},
                      {DefaultCLiLogFileName(i.appName)})
        debug == Over(One(fileKey("debug_level"), toInt(i.ini.keys["debug_level"])) \cap Nat,
                      Over(option("debug"), Over(EnvLevel(i), {-1})))
        level(d) == Over(Over(option("logLevel"), One(fileKey("level"), i.ini.keys["level"])) \ {NoText},
                         Over(option("log-level") \ {NoText}, {IF d > 0 THEN "debug" ELSE "info"}))
    IN  \E f \in file, d \in debug : \E l \in level(d) :
            /\ g.LogSinks = <<"console", f>>
            /\ g.MainLogger = StrToLogLevel(l)
            /\ g.AllowedDebugLevel = IF d >= 0 THEN d ELSE debugmax

LEMMA ChosenLevelDef ==
    ASSUME NEW g, g.CliDbgLevel \in Int
    PROVE  LET l == IF g.CliLogLevel # NoText THEN g.CliLogLevel ELSE IF g.CliDbgLevel > 0 THEN "debug" ELSE "info"
           IN  ChosenLevel(g, Level.info) = StrToLogLevel(l)
<1>1. StrToLogLevel("debug") = Level.debug /\ StrToLogLevel("info") = Level.info
    BY DEF StrToLogLevel
<1>2. CASE g.CliLogLevel # NoText
    BY <1>2, Zenon DEF ChosenLevel, NoText
<1>3. CASE g.CliLogLevel = NoText
  <2>1. ChosenLevel(g, Level.info) = IF g.CliDbgLevel < 0 THEN Level.info ELSE IF g.CliDbgLevel > 0 THEN Level.debug ELSE Level.info
      BY <1>3, Zenon DEF ChosenLevel, NoText
  <2> QED
      BY <1>1, <1>3, <2>1
<1> QED
    BY <1>2, <1>3

LEMMA DefaultFileNameIsText ==
    ASSUME NEW n \in Text \ {<<>>}
    PROVE  DefaultCLiLogFileName(n) # <<>>
<1> DEFINE S == Chars \cup {".log"}
           stem == IF Last(n) \in {".exe", ".log"} THEN Front(n) ELSE n
<1>1. n \in Seq(S) /\ Len(n) >= 1
    BY DEF Text
<1>2. Front(n) \in Seq(S)
    BY <1>1 DEF Front
<1>3. stem \in Seq(S)
    BY <1>1, <1>2
<1>4. <<".log">> \in Seq(S) /\ Len(<<".log">>) = 1
    OBVIOUS
<1>5. DefaultCLiLogFileName(n) = stem \o <<".log">>
    BY Zenon DEF DefaultCLiLogFileName
<1> DEFINE t == <<".log">>
<1> HIDE DEF S, stem, t
<1>6. t \in Seq(S) /\ Len(t) = 1
    BY <1>4 DEF t
<1>7. Len(stem \o t) = Len(stem) + Len(t)
    BY <1>3, <1>6, ConcatProperties, Zenon
<1>9. Len(stem) \in Nat
    BY <1>3
<1>8. stem \o t # <<>>
  <2> DEFINE u == stem \o t
  <2> HIDE DEF u
  <2>1. Len(u) >= 1
      BY <1>6, <1>7, <1>9 DEF u
  <2>2. u # <<>>
      BY <2>1
  <2> QED
      BY <2>2 DEF u
<1> QED
    BY <1>5, <1>8 DEF t

-----------------------------------------------------------------------------
(* The inductive invariant.                                                *)

FromFile == IF in.ini.given THEN Settings(in.ini.keys, in.env) ELSE Defaults

InFile(k) == in.ini.given /\ k \in DOMAIN in.ini.keys

\* The settings are the defaults until the file has been accepted.
ConfigInv ==
    /\ cfg # Defaults => in.ini.given /\ cfg = FromFile
    /\ pc \notin {"load", "exited"} => cfg = FromFile
    /\ pc \in {"check", "logging", "build", "serving"} =>
           opt = [k \in DOMAIN cfg |-> IF k \in DOMAIN in.args \cap Overriding THEN in.args[k] ELSE cfg[k]]
    /\ pc \in {"logging", "build", "serving"} => opt.tls \/ DOMAIN cfg.auth = {}

\* The logger is made once, from the globals that ConfigureCLI left.
LoggerInv ==
    /\ IsGlobals(globals)
    /\ pc \in {"load", "parse"} => globals = Globals
    /\ pc \in {"check", "logging"} =>
           /\ globals = ConfigureCLI(Globals, in.args, EnvLevel(in)).g
           /\ ConfigureCLI(Globals, in.args, EnvLevel(in)).rc = 0
    /\ pc \in {"build", "serving"} => Chosen(in, globals)

\* What the server was built with.
ServerInv ==
    pc = "serving" =>
        /\ server.processor = opt.tls
        /\ server.m_tokens = BearerTokenAuthProcessor(cfg.auth)
        /\ server.service = RemSvcServiceImpl([allow |-> Compiled(opt.allow), deny |-> Compiled(opt.deny)])

\* The patterns that the options and the file leave in force: the texts of the values.
Loaded(option, section) ==
    IF option \in DOMAIN in.args THEN ToSet(in.args[option])
    ELSE IF InFile(section)
    THEN {toString(in.ini.keys[section][k]) : k \in DOMAIN in.ini.keys[section]} \ {<<>>} ELSE {}

\* AdmittedBy, of the texts of the two lists.
Admits(allow, deny, cmd) ==
    LET A == {Regex(t) : t \in allow}
        D == {Regex(t) : t \in deny}
    IN  /\ \A p \in A \cup D : p.valid
        /\ \A p \in D : cmd \notin p.hits
        /\ A # {} => \E p \in A : cmd \in p.hits

\* A call that gets past authentication is admitted by the patterns in force.
ListsInv ==
    (call.made /\ call.status # "UNAUTHENTICATED") =>
        (call.status = "OK" <=> Admits(Loaded("allow", "allowlist"), Loaded("deny", "denylist"), call.cmd))

Inv ==
    /\ in \in Inputs
    /\ TypeOK
    /\ ConfigInv
    /\ LoggerInv
    /\ ServerInv
    /\ AuthIsEnforced
    /\ ListsInv

LEMMA FromFileFields ==
    ASSUME cfg = FromFile
    PROVE  /\ DOMAIN cfg = DOMAIN Defaults
           /\ cfg.tls = IF InFile("enabled") THEN toBool(in.ini.keys["enabled"]) ELSE FALSE
           /\ cfg.allow = IF InFile("allowlist") THEN LoadList(in.ini.keys["allowlist"]) ELSE <<>>
           /\ cfg.deny = IF InFile("denylist") THEN LoadList(in.ini.keys["denylist"]) ELSE <<>>
           /\ cfg.auth = IF InFile("auth") THEN LoadTokens(in.ini.keys["auth"], in.env) ELSE <<>>
           /\ cfg.logFile = IF InFile("file") THEN toString(in.ini.keys["file"]) ELSE <<>>
           /\ cfg.logLevel = IF InFile("level") THEN in.ini.keys["level"] ELSE NoText
           /\ cfg.debugLevel = IF InFile("debug_level") THEN toInt(in.ini.keys["debug_level"]) ELSE -1
<1>1. CASE in.ini.given
  <2>1. cfg = Settings(in.ini.keys, in.env)
      BY <1>1 DEF FromFile
  <2> QED
    <3>1. DOMAIN cfg = DOMAIN Defaults /\ \A k : InFile(k) <=> k \in DOMAIN in.ini.keys
        BY <1>1, <2>1, SettingsFields DEF InFile
    <3>2. /\ cfg.tls = IF InFile("enabled") THEN toBool(in.ini.keys["enabled"]) ELSE Defaults.tls
          /\ cfg.allow = IF InFile("allowlist") THEN LoadList(in.ini.keys["allowlist"]) ELSE Defaults.allow
          /\ cfg.deny = IF InFile("denylist") THEN LoadList(in.ini.keys["denylist"]) ELSE Defaults.deny
          /\ cfg.auth = IF InFile("auth") THEN LoadTokens(in.ini.keys["auth"], in.env) ELSE Defaults.auth
          /\ cfg.logFile = IF InFile("file") THEN toString(in.ini.keys["file"]) ELSE Defaults.logFile
          /\ cfg.logLevel = IF InFile("level") THEN in.ini.keys["level"] ELSE Defaults.logLevel
          /\ cfg.debugLevel = IF InFile("debug_level") THEN toInt(in.ini.keys["debug_level"]) ELSE Defaults.debugLevel
      <4> DEFINE c == Settings(in.ini.keys, in.env)
                 K == DOMAIN in.ini.keys
      <4>1. /\ c.tls = IF "enabled" \in K THEN toBool(in.ini.keys["enabled"]) ELSE Defaults.tls
            /\ c.allow = IF "allowlist" \in K THEN LoadList(in.ini.keys["allowlist"]) ELSE Defaults.allow
            /\ c.deny = IF "denylist" \in K THEN LoadList(in.ini.keys["denylist"]) ELSE Defaults.deny
            /\ c.auth = IF "auth" \in K THEN LoadTokens(in.ini.keys["auth"], in.env) ELSE Defaults.auth
            /\ c.logFile = IF "file" \in K THEN toString(in.ini.keys["file"]) ELSE Defaults.logFile
            /\ c.logLevel = IF "level" \in K THEN in.ini.keys["level"] ELSE Defaults.logLevel
            /\ c.debugLevel = IF "debug_level" \in K THEN toInt(in.ini.keys["debug_level"]) ELSE Defaults.debugLevel
          BY SettingsFields
      <4> HIDE DEF c
      <4>2. cfg = c
          BY <2>1 DEF c
      <4> QED
          BY <3>1, <4>1, <4>2
    <3>3. Defaults.logLevel = NoText
        BY DefaultLevel DEF NoText
    <3> QED
        BY <3>1, <3>2, <3>3, DefaultFields
<1>2. CASE ~in.ini.given
  <2>1. cfg = Defaults
      BY <1>2 DEF FromFile
  <2> QED
      BY <1>2, <2>1, DefaultFields, DefaultLevel, Zenon DEF InFile, NoText
<1> QED
    BY <1>1, <1>2

\* The value of a setting that the options may overwrite.
LEMMA Overwritten ==
    ASSUME cfg = FromFile,
           opt = [k \in DOMAIN cfg |-> IF k \in DOMAIN in.args \cap Overriding THEN in.args[k] ELSE cfg[k]]
    PROVE  /\ \A k \in {"tls", "allow", "deny", "logFile", "logLevel"} :
                  opt[k] = IF k \in DOMAIN in.args THEN in.args[k] ELSE cfg[k]
           /\ opt.debugLevel = cfg.debugLevel
<1>1. DOMAIN cfg = DOMAIN Defaults
    BY FromFileFields
<1>2. \A k \in DOMAIN cfg : opt[k] = IF k \in DOMAIN in.args \cap Overriding THEN in.args[k] ELSE cfg[k]
    BY Zenon
<1>3. {"tls", "allow", "deny", "logFile", "logLevel"} \subseteq Overriding /\ "debugLevel" \notin Overriding
    BY DEF Overriding
<1>4. {"tls", "allow", "deny", "logFile", "logLevel", "debugLevel"} \subseteq DOMAIN cfg
    BY <1>1, DefaultFields
<1>5. ASSUME NEW k \in {"tls", "allow", "deny", "logFile", "logLevel"}
      PROVE  opt[k] = IF k \in DOMAIN in.args THEN in.args[k] ELSE cfg[k]
  <2>1. k \in Overriding /\ k \in DOMAIN cfg
      BY <1>3, <1>4
  <2> QED
      BY <1>2, <2>1, Zenon
<1>6. opt.debugLevel = cfg.debugLevel
    BY <1>2, <1>3, <1>4, Zenon
<1> QED
    BY <1>5, <1>6

\* Where the parser accepts DBGLVL, it makes no difference whether it checks or ignores it.
LEMMA IgnoredLevel ==
    ASSUME NEW args, NEW i, NEW D \in EnvValue(i.DBGLVL), ConfigureCLI(Globals, args, D).rc = 0
    PROVE  ConfigureCLI(Globals, args, D) = ConfigureCLI(Globals, args, EnvLevel(i))
<1> DEFINE E == EnvLevel(i)
<1>1. D = i.DBGLVL \/ D = E
    BY Zenon DEF EnvValue, EnvLevel
<1>2. \A d \in DebugOf(args, D) : d \in 0 .. 9
    BY ConfigureCLIDef
<1>3. CASE "debug" \in DOMAIN args
    BY <1>3, Zenon DEF ConfigureCLI
<1>4. CASE "debug" \notin DOMAIN args
  <2>1. D \subseteq 0 .. 9
      BY <1>2, <1>4, Zenon DEF DebugOf
  <2>2. D = E
      BY <1>1, <2>1, Zenon DEF EnvLevel
  <2> QED
      BY <2>2
<1> QED
    BY <1>3, <1>4

\* The logger that ConfigureLogging makes is the one the precedence chooses.
LEMMA LoggerIsChosen ==
    ASSUME in \in Inputs, cfg = FromFile,
           opt = [k \in DOMAIN cfg |-> IF k \in DOMAIN in.args \cap Overriding THEN in.args[k] ELSE cfg[k]],
           globals = ConfigureCLI(Globals, in.args, EnvLevel(in)).g,
           ConfigureCLI(Globals, in.args, EnvLevel(in)).rc = 0,
           ConfigureLogging
    PROVE  /\ IsGlobals(globals') /\ globals'.registry = globals'.MainLogger
           /\ pc' \in {"build", "exited"} /\ (pc' = "build" => Chosen(in, globals'))
<1> DEFINE file  == IF opt.logFile # <<>> THEN opt.logFile ELSE DefaultCLiLogFileName(in.appName)
           level == IF opt.logLevel # NoText THEN opt.logLevel ELSE globals.CliLogLevel
           debug == IF opt.debugLevel >= 0 THEN opt.debugLevel ELSE globals.CliDbgLevel
           set   == [globals EXCEPT !.CliLogFile = file, !.CliLogLevel = level, !.CliDbgLevel = debug]
           init  == InitLogging(set, Level.info, Writable)
           l     == IF level # NoText THEN level ELSE IF debug > 0 THEN "debug" ELSE "info"
<1>1. globals' = init.g /\ (IF init.ok THEN pc' = "build" ELSE pc' = "exited")
    BY Zenon DEF ConfigureLogging, Exit, NoText
<1>2. IsInput(in)
    BY InputsAssumption
<1>3. /\ in.appName \in Text \ {<<>>} /\ (\A a, b \in EnvLevel(in) : a = b)
      /\ InFile("debug_level") => in.ini.keys["debug_level"] \in [num : BOOLEAN, val : Int]
    BY <1>2 DEF IsInput, InFile, EnvLevel
<1>4. /\ IsGlobals(globals) /\ globals.registry = NoLogger /\ globals.MainLogger = NoLogger
      /\ globals.LogSinks = <<>> /\ globals.AllowedDebugLevel = debugmax
      /\ \A d \in DebugOf(in.args, EnvLevel(in)) : d \in 0 .. 9
      /\ globals.CliLogLevel = IF "log-level" \in DOMAIN in.args THEN in.args["log-level"] ELSE NoText
      /\ globals.CliDbgLevel = IF DebugOf(in.args, EnvLevel(in)) = {} THEN -1 ELSE CHOOSE d \in DebugOf(in.args, EnvLevel(in)) : TRUE
    BY ConfigureCLIDef
<1>5. file # <<>>
    BY <1>3, DefaultFileNameIsText
<1> HIDE DEF file, level, debug
<1>6. /\ IsGlobals(set) /\ set.registry = NoLogger /\ set.MainLogger = NoLogger /\ set.LogSinks = <<>>
      /\ set.AllowedDebugLevel = debugmax /\ set.CliLogFile = file /\ set.CliLogLevel = level /\ set.CliDbgLevel = debug
    BY <1>4, GlobalsFields DEF IsGlobals
<1> HIDE DEF set
<1>7. /\ IsGlobals(init.g) /\ init.g.registry = init.g.MainLogger
      /\ init.ok => /\ init.g.LogSinks = <<"console", file>>
                    /\ init.g.MainLogger = ChosenLevel(set, Level.info)
                    /\ init.g.AllowedDebugLevel = IF debug >= 0 THEN debug ELSE debugmax
    BY <1>5, <1>6, InitLoggingDef
<1> HIDE DEF init
<1>8. file \in Over(Over(One("logFile" \in DOMAIN in.args, in.args["logFile"]),
                         One(InFile("file"), toString(in.ini.keys["file"]))) \ {<<>>},
                    {DefaultCLiLogFileName(in.appName)})
  <2>1. opt.logFile = IF "logFile" \in DOMAIN in.args THEN in.args["logFile"]
                      ELSE IF InFile("file") THEN toString(in.ini.keys["file"]) ELSE <<>>
      BY Overwritten, FromFileFields
  <2> QED
      BY <2>1 DEF file, Over, One
<1>9. debug \in Over(One(InFile("debug_level"), toInt(in.ini.keys["debug_level"])) \cap Nat,
                     Over(One("debug" \in DOMAIN in.args, in.args["debug"]), Over(EnvLevel(in), {-1})))
  <2>1. opt.debugLevel = IF InFile("debug_level") THEN toInt(in.ini.keys["debug_level"]) ELSE -1
      BY Overwritten, FromFileFields
  <2> DEFINE T == Over(One("debug" \in DOMAIN in.args, in.args["debug"]), Over(EnvLevel(in), {-1}))
  <2>2. globals.CliDbgLevel \in T
      BY <1>3, <1>4, CommonDebug
  <2> HIDE DEF T
  <2>3. CASE InFile("debug_level")
    <3>1. toInt(in.ini.keys["debug_level"]) \in Int
        BY <1>3, <2>3, NumberTyping
    <3> QED
        BY <2>1, <2>2, <2>3, <3>1 DEF debug, T, Over, One
  <2>4. CASE ~InFile("debug_level")
      BY <2>1, <2>2, <2>4 DEF debug, T, Over, One
  <2> QED
      BY <2>3, <2>4
<1>10. debug \in Int
  <2>1. opt.debugLevel \in Int
    <3>1. opt.debugLevel = IF InFile("debug_level") THEN toInt(in.ini.keys["debug_level"]) ELSE -1
        BY Overwritten, FromFileFields
    <3>2. InFile("debug_level") => toInt(in.ini.keys["debug_level"]) \in Int
        BY <1>3, NumberTyping
    <3> QED
        BY <3>1, <3>2
  <2>2. globals.CliDbgLevel \in Int
    <3>1. DebugOf(in.args, EnvLevel(in)) # {} => (CHOOSE d \in DebugOf(in.args, EnvLevel(in)) : TRUE) \in DebugOf(in.args, EnvLevel(in))
        BY Zenon
    <3> QED
        BY <1>4, <3>1
  <2> QED
      BY <2>1, <2>2 DEF debug
<1>11. l \in Over(Over(One("logLevel" \in DOMAIN in.args, in.args["logLevel"]),
                       One(InFile("level"), in.ini.keys["level"])) \ {NoText},
                  Over(One("log-level" \in DOMAIN in.args, in.args["log-level"]) \ {NoText},
                       {IF debug > 0 THEN "debug" ELSE "info"}))
  <2> DEFINE o == opt.logLevel
             c == globals.CliLogLevel
             u == IF debug > 0 THEN "debug" ELSE "info"
             T == Over(One("log-level" \in DOMAIN in.args, in.args["log-level"]) \ {NoText}, {u})
  <2>1. o = IF "logLevel" \in DOMAIN in.args THEN in.args["logLevel"]
            ELSE IF InFile("level") THEN in.ini.keys["level"] ELSE NoText
      BY Overwritten, FromFileFields
  <2>2. l = IF level # NoText THEN level ELSE u
      OBVIOUS
  <2>3. level = IF o # NoText THEN o ELSE c
      BY DEF level
  <2> HIDE DEF u, l, o, c
  <2>4. l = IF o # NoText THEN o ELSE IF c # NoText THEN c ELSE u
      BY <2>2, <2>3
  <2>5. (IF c # NoText THEN c ELSE u) \in T
      BY <1>4 DEF Over, One, c
  <2> HIDE DEF T
  <2>6. l \in Over(Over(One("logLevel" \in DOMAIN in.args, in.args["logLevel"]),
                       One(InFile("level"), in.ini.keys["level"])) \ {NoText}, T)
      BY <2>1, <2>4, <2>5 DEF Over, One
  <2> QED
      BY <2>6 DEF T, u
<1>12. ChosenLevel(set, Level.info) = StrToLogLevel(l)
    BY <1>6, <1>10, ChosenLevelDef
<1> HIDE DEF l
<1>13. init.ok => Chosen(in, init.g)
    BY <1>7, <1>8, <1>9, <1>11, <1>12, Zenon DEF Chosen, InFile
<1> QED
    BY <1>1, <1>7, <1>13

-----------------------------------------------------------------------------
(* Values that QSettings leaves as they stand.                             *)

PlainText(s) == \A i \in DOMAIN s : s[i] \notin {Backslash, Quote, Comma}

LEMMA PlainIsNoList ==
    ASSUME NEW s \in Text, PlainText(s)
    PROVE  ~IsList(s)
<1>1. DOMAIN s = 1 .. Len(s)
    BY DEF Text
<1>2. {i \in 1 .. Len(s) : s[i] = Comma /\ ~IsEscaped(s, i)} = {}
    BY <1>1, Zenon DEF PlainText
<1> QED
    BY <1>2, Zenon DEF IsList

LEMMA PlainIsItself ==
    ASSUME NEW s \in Text, PlainText(s)
    PROVE  toString(s) = s
<1> DEFINE n == Len(s)
           text(i) == IF s[i] = Quote THEN <<>>
                      ELSE IF s[i] # Backslash THEN <<s[i]>>
                      ELSE IF i < Len(s) /\ s[i + 1] \in DOMAIN Escaped THEN <<Escaped[s[i + 1]]>> ELSE <<>>
           img  == [i \in 1 .. n |-> text(i)]
           step == [i \in 1 .. n |-> IF s[i] # Backslash THEN i + 1 ELSE i + 2]
<1>1. s \in Seq(Chars) /\ n \in Nat /\ DOMAIN s = 1 .. n
    BY DEF Text
<1>2. Unescaped(s) = Scan(s, img, step)
    BY <1>1, Zenon DEF Unescaped
<1>3. ASSUME NEW i \in 1 .. n PROVE img[i] = <<s[i]>> /\ step[i] = i + 1
  <2>1. s[i] # Quote /\ s[i] # Backslash
      BY <1>1 DEF PlainText
  <2> QED
      BY <2>1
<1>4. Scanning(n, Chars, img, step)
  <2>1. DOMAIN img = 1 .. n /\ img = [i \in 1 .. n |-> img[i]] /\ DOMAIN step = 1 .. n /\ step = [i \in 1 .. n |-> step[i]]
      BY Zenon
  <2> HIDE DEF img, step
  <2>2. ASSUME NEW i \in 1 .. n PROVE img[i] \in Seq(Chars)
    <3>1. <<s[i]>> \in Seq(Chars)
        BY <1>1
    <3> QED
        BY <1>3, <3>1, Zenon
  <2>3. img \in [1 .. n -> Seq(Chars)]
      BY <2>1, <2>2, Zenon
  <2>4. \A i \in 1 .. n : step[i] \in Nat /\ i < step[i] /\ step[i] <= n + 2
      BY <1>1, <1>3
  <2>5. step \in [1 .. n -> Nat]
      BY <2>1, <2>4, Zenon
  <2> QED
      BY <2>3, <2>4, <2>5 DEF Scanning
<1> HIDE DEF img, step
<1>5. PICK f \in [1 .. n + 2 -> Seq(Chars)] :
          Scan(s, img, step) = f[1] /\ \A i \in 1 .. n + 2 : f[i] = Step(n, img, f, step, i)
    BY <1>1, <1>4, ScanDef
<1>6. Rests(n, Chars, img, f) /\ CopiesOn(img, s, 1, n + 1) /\ f[n + 1] = <<>>
  <2>1. ASSUME NEW i \in 1 .. n PROVE f[i] = img[i] \o f[i + 1]
    <3>1. i \in 1 .. n + 2 /\ ~(i > n)
        BY <1>1
    <3>2. f[i] = img[i] \o f[step[i]]
        BY <1>5, <3>1, Zenon DEF Step
    <3> QED
        BY <1>3, <3>2, Zenon
  <2>2. f[n + 1] = <<>>
    <3>1. n + 1 \in 1 .. n + 2 /\ n + 1 > n
        BY <1>1
    <3> QED
        BY <1>5, <3>1, Zenon DEF Step
  <2>3. \A k \in 1 .. (n + 1) - 1 : img[k] = <<s[k]>>
      BY <1>1, <1>3
  <2> QED
      BY <2>1, <2>2, <2>3 DEF Rests, CopiesOn
<1>7. f[1] = Upto(s, 1, n + 1, f[n + 1])
    BY <1>1, <1>6, CopyRun
<1>8. f[1] = SubSeq(s, 1, (n + 1) - 1) \o <<>>
    BY <1>6, <1>7 DEF Upto
<1>9. SubSeq(s, 1, (n + 1) - 1) = s
    BY <1>1
<1>10. f[1] = s
    BY <1>1, <1>8, <1>9, ConcatEmptySeq
<1>11. ~IsList(s)
    BY PlainIsNoList
<1> QED
    BY <1>2, <1>5, <1>10, <1>11, Zenon DEF toString

-----------------------------------------------------------------------------
(* The tokens.                                                             *)

LEMMA ScanOfNothing ==
    ASSUME NEW S, NEW s \in Seq(S), NEW text, NEW next, Scanning(Len(s), S, text, next)
    PROVE  Len(s) = 0 => Scan(s, text, next) = <<>>
<1>1. PICK f : /\ f \in [1 .. Len(s) + 2 -> Seq(S)]
               /\ Scan(s, text, next) = f[1]
               /\ \A i \in 1 .. Len(s) + 2 : f[i] = Step(Len(s), text, f, next, i)
    BY ScanDef
<1>2. Len(s) = 0 => 1 \in 1 .. Len(s) + 2 /\ 1 > Len(s)
    OBVIOUS
<1>3. Len(s) = 0 => Step(Len(s), text, f, next, 1) = <<>>
    BY <1>2 DEF Step
<1> QED
    BY <1>1, <1>2, <1>3

LEMMA ExpandEmpty ==
    ASSUME NEW env
    PROVE  expandEnvVars(env, <<>>) = <<>>
<1> DEFINE s == <<>>
           text == [i \in DOMAIN s |-> Emitted(env, s, i)]
           next == NextPos(s)
<1>1. s \in Seq(Chars) /\ Len(s) = 0 /\ DOMAIN s = {}
    OBVIOUS
<1>2. expandEnvVars(env, s) = Scan(s, text, next)
    BY ExpandIsScan
<1>3. text \in [1 .. 0 -> Seq(Chars)] /\ next \in [1 .. 0 -> Nat]
  <2>1. \A i : i \notin 1 .. 0
      OBVIOUS
  <2>2. DOMAIN s = 1 .. 0
      OBVIOUS
  <2> HIDE DEF s
  <2>3. text = [i \in 1 .. 0 |-> Emitted(env, s, i)]
      BY <2>2
  <2>4. next = [i \in 1 .. 0 |-> IF s[i] # Sigil THEN i + 1 ELSE Dollar(s, i).next]
      BY <2>2 DEF NextPos
  <2> HIDE DEF text, next
  <2> QED
      BY <2>1, <2>3, <2>4
<1> HIDE DEF s, text, next
<1>4. Scanning(Len(s), Chars, text, next)
    BY <1>1, <1>3 DEF Scanning
<1>5. Scan(s, text, next) = <<>>
    BY <1>1, <1>4, ScanOfNothing
<1> QED
    BY <1>2, <1>5 DEF s

\* The value of a token in the file, as the property reads it.
TokenValue(f, env, id) ==
    IF IsList(f[id]) THEN <<>> ELSE Expanded(env, Unescaped(f[id]))

LEMMA TokenValueDef ==
    ASSUME NEW f, IsSection(f), NEW env, \A v \in DOMAIN env : env[v] \in Text, NEW id \in DOMAIN f
    PROVE  expandEnvVars(env, toString(f[id])) = TokenValue(f, env, id)
<1>1. f[id] \in Text
    BY DEF IsSection
<1>2. expandEnvVars(env, toString(f[id])) = Expanded(env, toString(f[id]))
    BY <1>1, ExpandOnTexts
<1>3. CASE IsList(f[id])
    BY <1>3, ExpandEmpty, Zenon DEF toString, TokenValue
<1>4. CASE ~IsList(f[id])
    BY <1>2, <1>4, Zenon DEF toString, TokenValue
<1> QED
    BY <1>3, <1>4

\* The identities and tokens of the settings.
Entries(tokens) == {<<id, tokens[id]>> : id \in DOMAIN tokens}

LEMMA LoadTokensDef ==
    ASSUME NEW f, IsSection(f), NEW env, \A v \in DOMAIN env : env[v] \in Text
    PROVE  LET L == LoadTokens(f, env) IN
           /\ DOMAIN L \subseteq 1 .. 99 /\ \A id \in DOMAIN L : L[id] # <<>>
           /\ Entries(L) = {<<id, TokenValue(f, env, id)>> : id \in {i \in DOMAIN f : TokenValue(f, env, i) # <<>>}}
<1> DEFINE L == LoadTokens(f, env)
           D == {i \in DOMAIN f : TokenValue(f, env, i) # <<>>}
           token(id) == expandEnvVars(env, toString(f[id]))
<1>1. \A id \in DOMAIN f : token(id) = TokenValue(f, env, id)
    BY TokenValueDef
<1>2. L = [id \in {i \in DOMAIN f : token(i) # <<>>} |-> token(id)]
    BY Zenon DEF LoadTokens
<1> HIDE DEF token, L
<1>3. DOMAIN L = D /\ \A id \in D : L[id] = TokenValue(f, env, id)
    BY <1>1, <1>2
<1>4. DOMAIN L \subseteq 1 .. 99 /\ \A id \in DOMAIN L : L[id] # <<>>
    BY <1>3 DEF IsSection
<1>5. Entries(L) = {<<id, TokenValue(f, env, id)>> : id \in D}
    BY <1>3 DEF Entries
<1> QED
    BY <1>4, <1>5 DEF L

\* The constructor of the processor attributes every token to one of its owners.
LEMMA TokensDef ==
    ASSUME NEW a, DOMAIN a \subseteq 1 .. 99, \A id \in DOMAIN a : a[id] # <<>>
    PROVE  LET m == BearerTokenAuthProcessor(a) IN
           /\ DOMAIN m = {a[id] : id \in DOMAIN a}
           /\ \A t \in DOMAIN m : m[t] \in DOMAIN a /\ a[m[t]] = t
<1> DEFINE m == BearerTokenAuthProcessor(a)
           owners(t) == {id \in DOMAIN a : a[id] = t}
           tokens == {a[id] : id \in DOMAIN a} \ {<<>>}
<1>1. m = [t \in tokens |-> Min(owners(t))]
    BY Zenon DEF BearerTokenAuthProcessor
<1>2. tokens = {a[id] : id \in DOMAIN a}
    OBVIOUS
<1>3. ASSUME NEW t \in tokens PROVE Min(owners(t)) \in owners(t)
  <2>0. PICK id \in DOMAIN a : a[id] = t
      OBVIOUS
  <2>1. owners(t) # {}
      BY <2>0, Zenon
  <2>3. 1 .. 99 \subseteq Nat
      OBVIOUS
  <2>4. owners(t) \in SUBSET Nat
      BY <2>3, Zenon
  <2>2. \E x \in owners(t) : \A y \in owners(t) : x <= y
      BY <2>1, <2>4, Least, Zenon
  <2> QED
      BY <2>2, Zenon DEF Min
<1> HIDE DEF m, tokens
<1>4. DOMAIN m = tokens /\ \A t \in tokens : m[t] \in owners(t)
    BY <1>1, <1>3
<1>5. \A t \in DOMAIN m : m[t] \in DOMAIN a /\ a[m[t]] = t
    BY <1>4
<1> QED
    BY <1>2, <1>4, <1>5 DEF m

\* What the property calls configured is what the settings hold.
LEMMA ConfiguredTokensDef ==
    ASSUME in \in Inputs, cfg = FromFile
    PROVE  /\ DOMAIN cfg.auth \subseteq 1 .. 99 /\ \A id \in DOMAIN cfg.auth : cfg.auth[id] # <<>>
           /\ ConfiguredTokens = Entries(cfg.auth)
<1>1. IsInput(in)
    BY InputsAssumption
<1>2. (\A v \in DOMAIN in.env : in.env[v] \in Text) /\ (InFile("auth") => IsSection(in.ini.keys["auth"]))
    BY <1>1 DEF IsInput, InFile
<1>3. cfg.auth = IF InFile("auth") THEN LoadTokens(in.ini.keys["auth"], in.env) ELSE <<>>
    BY FromFileFields
<1>4. CASE InFile("auth")
  <2> DEFINE f == in.ini.keys["auth"]
  <2>1. ConfiguredTokens =
            {<<id, TokenValue(f, in.env, id)>> : id \in {i \in DOMAIN f : TokenValue(f, in.env, i) # <<>>}}
      BY <1>4, Zenon DEF ConfiguredTokens, TokenValue, InFile
  <2>2. cfg.auth = LoadTokens(f, in.env) /\ IsSection(f)
      BY <1>2, <1>3, <1>4
  <2> HIDE DEF f
  <2>3. \A v \in DOMAIN in.env : in.env[v] \in Text
      BY <1>2
  <2> DEFINE L == LoadTokens(f, in.env)
  <2>4. /\ DOMAIN L \subseteq 1 .. 99 /\ \A id \in DOMAIN L : L[id] # <<>>
        /\ Entries(L) = {<<id, TokenValue(f, in.env, id)>> : id \in {i \in DOMAIN f : TokenValue(f, in.env, i) # <<>>}}
      BY <2>2, <2>3, LoadTokensDef, Zenon
  <2> HIDE DEF L
  <2>5. cfg.auth = L
      BY <2>2 DEF L
  <2>6. ConfiguredTokens = Entries(L)
      BY <2>1, <2>4, Zenon
  <2> QED
      BY <2>4, <2>5, <2>6, Zenon
<1>5. CASE ~InFile("auth")
  <2>1. ConfiguredTokens = {}
      BY <1>5, Zenon DEF ConfiguredTokens, InFile
  <2>2. cfg.auth = <<>>
      BY <1>3, <1>5
  <2>3. DOMAIN cfg.auth = {}
      BY <2>2
  <2> QED
      BY <2>1, <2>3 DEF Entries
<1> QED
    BY <1>4, <1>5

\* A header with the prefix is the prefix and the token behind it.
LEMMA HeaderDef ==
    ASSUME NEW h \in Text, IsPrefix(kBearerPrefix, h)
    PROVE  h = kBearerPrefix \o SubSeq(h, Len(kBearerPrefix) + 1, Len(h))
<1> DEFINE p == kBearerPrefix
<1>1. p \in Seq(Chars) /\ h \in Seq(Chars)
    BY InputsAssumption DEF Text
<1>2. Len(p) = 1
    BY DEF kBearerPrefix
<1> HIDE DEF p
<1>3. Len(h) >= 1 /\ SubSeq(p, 1, 1) = SubSeq(h, 1, 1)
    BY <1>2 DEF IsPrefix, p
<1>4. SubSeq(p, 1, 1) = p
    BY <1>1, <1>2, SubSeqFull
<1>5. SubSeq(h, 1, Len(h)) = SubSeq(h, 1, 1) \o SubSeq(h, 2, Len(h))
  <2>1. Len(h) \in Nat /\ 1 \in 1 .. Len(h)
      BY <1>1, <1>3
  <2>2. SubSeq(h, 1, Len(h)) = <<h[1]>> \o SubSeq(h, 1 + 1, Len(h))
      BY <1>1, <2>1, SubSeqRecursiveFirst
  <2>3. SubSeq(h, 1, 1) = <<h[1]>>
      BY <1>1, <1>3, SubSeqOne
  <2> QED
      BY <2>2, <2>3
<1>6. SubSeq(h, 1, Len(h)) = h
    BY <1>1, SubSeqFull
<1>7. h = p \o SubSeq(h, 2, Len(h))
    BY <1>3, <1>4, <1>5, <1>6, Zenon
<1> QED
    BY <1>2, <1>7 DEF p

\* What the processor makes of a header.
LEMMA ProcessDef ==
    ASSUME NEW a, DOMAIN a \subseteq 1 .. 99, \A id \in DOMAIN a : a[id] # <<>>, NEW h \in Text
    PROVE  LET r == Process(BearerTokenAuthProcessor(a), h) IN
           /\ DOMAIN a = {} => r.status = "OK" /\ r.identity = 0
           /\ DOMAIN a # {} => \/ r.status = "UNAUTHENTICATED" /\ r.identity = 0
                               \/ /\ r.status = "OK" /\ r.identity \in DOMAIN a
                                  /\ h = kBearerPrefix \o a[r.identity]
<1> DEFINE m == BearerTokenAuthProcessor(a)
           r == Process(m, h)
           token == SubSeq(h, Len(kBearerPrefix) + 1, Len(h))
<1>1. DOMAIN m = {a[id] : id \in DOMAIN a} /\ \A t \in DOMAIN m : m[t] \in DOMAIN a /\ a[m[t]] = t
    BY TokensDef
<1> HIDE DEF m
<1>2. r = IF DOMAIN m = {} THEN [status |-> "OK", identity |-> 0, consumed |-> FALSE]
          ELSE IF h = NoHeader \/ ~IsPrefix(kBearerPrefix, h) THEN [status |-> "UNAUTHENTICATED", identity |-> 0, consumed |-> FALSE]
          ELSE IF token \notin DOMAIN m THEN [status |-> "UNAUTHENTICATED", identity |-> 0, consumed |-> FALSE]
          ELSE [status |-> "OK", identity |-> m[token], consumed |-> TRUE]
    BY Zenon DEF Process, IsEnabled
<1> HIDE DEF r, token
<1>3. CASE DOMAIN m = {}
    BY <1>1, <1>2, <1>3 DEF r, m
<1>4. CASE DOMAIN m # {} /\ (h = NoHeader \/ ~IsPrefix(kBearerPrefix, h) \/ token \notin DOMAIN m)
  <2>1. r = [status |-> "UNAUTHENTICATED", identity |-> 0, consumed |-> FALSE]
      BY <1>2, <1>4, Zenon
  <2>2. r.status = "UNAUTHENTICATED" /\ r.identity = 0
      BY <2>1
  <2>3. DOMAIN a # {}
      BY <1>1, <1>4
  <2> QED
      BY <2>2, <2>3 DEF r, m
<1>5. CASE DOMAIN m # {} /\ IsPrefix(kBearerPrefix, h) /\ token \in DOMAIN m /\ h # NoHeader
  <2>1. r = [status |-> "OK", identity |-> m[token], consumed |-> TRUE]
      BY <1>2, <1>5, Zenon
  <2>2. r.status = "OK" /\ r.identity = m[token]
      BY <2>1
  <2>3. r.identity \in DOMAIN a /\ a[r.identity] = token
      BY <1>1, <1>5, <2>2
  <2>4. h = kBearerPrefix \o token
      BY <1>5, HeaderDef DEF token
  <2>5. h = kBearerPrefix \o a[r.identity]
      BY <2>3, <2>4, Zenon
  <2> QED
      BY <2>2, <2>3, <2>5 DEF r, m
<1> QED
    BY <1>3, <1>4, <1>5, Zenon

-----------------------------------------------------------------------------
(* The lists.                                                              *)

LEMMA CompiledDef ==
    ASSUME NEW a \in Seq(Text)
    PROVE  /\ Compiles(Compiled(a)) <=> \A p \in {Regex(t) : t \in ToSet(a)} : p.valid
           /\ \A cmd : Matches(Compiled(a), cmd) <=> \E p \in {Regex(t) : t \in ToSet(a)} : cmd \in p.hits
           /\ Compiled(a) = <<>> <=> {Regex(t) : t \in ToSet(a)} = {}
<1> DEFINE c == Compiled(a)
           R == {Regex(t) : t \in ToSet(a)}
<1>1. DOMAIN c = DOMAIN a /\ \A i \in DOMAIN a : c[i] = Regex(a[i])
    BY DEF Compiled
<1>2. \A p : p \in R <=> \E i \in DOMAIN a : p = Regex(a[i])
    BY DEF ToSet
<1> HIDE DEF R
<1>3. Compiles(c) <=> \A p \in R : p.valid
  <2> HIDE DEF c
  <2> QED
      BY <1>1, <1>2 DEF Compiles
<1>4. \A cmd : Matches(c, cmd) <=> \E p \in R : cmd \in p.hits
  <2> HIDE DEF c
  <2> QED
      BY <1>1, <1>2 DEF Matches
<1>5. DOMAIN a = 1 .. Len(a) /\ Len(a) \in Nat
    OBVIOUS
<1>6. c = <<>> <=> R = {}
  <2>1. R = {} <=> DOMAIN a = {}
      BY <1>2, Zenon
  <2>2. c = [i \in 1 .. Len(a) |-> Regex(a[i])]
      BY <1>5 DEF Compiled
  <2>3. c \in Seq({Regex(a[i]) : i \in 1 .. Len(a)}) /\ Len(c) = Len(a)
      BY <1>5, <2>2
  <2> HIDE DEF c
  <2>4. c = <<>> <=> Len(c) = 0
      BY <2>3
  <2>5. DOMAIN a = {} <=> Len(a) = 0
    <3> DEFINE n == Len(a)
    <3>1. n \in Nat /\ DOMAIN a = 1 .. n
        BY <1>5
    <3> HIDE DEF n
    <3>2. n = 0 => 1 .. n = {}
        OBVIOUS
    <3>3. n # 0 => 1 \in 1 .. n
        BY <3>1
    <3> QED
        BY <3>1, <3>2, <3>3 DEF n
  <2> QED
      BY <2>1, <2>3, <2>4, <2>5
<1> QED
    BY <1>3, <1>4, <1>6 DEF R

\* The constructor and checkAllowed together admit what the lists admit.
LEMMA CheckAllowedDef ==
    ASSUME NEW a \in Seq(Text), NEW d \in Seq(Text), NEW cmd
    PROVE  checkAllowed(RemSvcServiceImpl([allow |-> Compiled(a), deny |-> Compiled(d)]), cmd)
               <=> Admits(ToSet(a), ToSet(d), cmd)
<1> DEFINE ca == Compiled(a)
           cd == Compiled(d)
           A == {Regex(t) : t \in ToSet(a)}
           D == {Regex(t) : t \in ToSet(d)}
           svc == RemSvcServiceImpl([allow |-> ca, deny |-> cd])
<1>1. /\ Compiles(ca) <=> \A p \in A : p.valid
      /\ Matches(ca, cmd) <=> \E p \in A : cmd \in p.hits
      /\ ca = <<>> <=> A = {}
    BY CompiledDef
<1>2. /\ Compiles(cd) <=> \A p \in D : p.valid
      /\ Matches(cd, cmd) <=> \E p \in D : cmd \in p.hits
    BY CompiledDef
<1>3. Admits(ToSet(a), ToSet(d), cmd) <=>
          /\ \A p \in A \cup D : p.valid
          /\ \A p \in D : cmd \notin p.hits
          /\ A # {} => \E p \in A : cmd \in p.hits
    BY Zenon DEF Admits
<1> HIDE DEF ca, cd, A, D
<1>4. /\ svc.m_allowlist = CompileList(ca) /\ svc.m_denylist = CompileList(cd)
      /\ svc.m_denyAll = (~Compiles(ca) \/ ~Compiles(cd))
    BY DEF RemSvcServiceImpl
<1> HIDE DEF svc
<1>5. checkAllowed(svc, cmd) <=>
          /\ Compiles(ca) /\ Compiles(cd)
          /\ ~Matches(cd, cmd) /\ (ca = <<>> \/ Matches(ca, cmd))
    BY <1>4 DEF checkAllowed, CompileList
<1>6. checkAllowed(svc, cmd) <=> Admits(ToSet(a), ToSet(d), cmd)
    BY <1>1, <1>2, <1>3, <1>5, Zenon
<1> QED
    BY <1>6 DEF svc, ca, cd

\* The lists of the server have the patterns in force.
LEMMA LoadedDef ==
    ASSUME in \in Inputs, cfg = FromFile,
           opt = [k \in DOMAIN cfg |-> IF k \in DOMAIN in.args \cap Overriding THEN in.args[k] ELSE cfg[k]]
    PROVE  /\ opt.allow \in Seq(Text) /\ ToSet(opt.allow) = Loaded("allow", "allowlist")
           /\ opt.deny \in Seq(Text) /\ ToSet(opt.deny) = Loaded("deny", "denylist")
<1>1. IsInput(in)
    BY InputsAssumption
<1>2. /\ "allow" \in DOMAIN in.args => in.args["allow"] \in Seq(Text)
      /\ "deny" \in DOMAIN in.args => in.args["deny"] \in Seq(Text)
      /\ InFile("allowlist") => IsSection(in.ini.keys["allowlist"])
      /\ InFile("denylist") => IsSection(in.ini.keys["denylist"])
    BY <1>1 DEF IsInput, InFile
<1>5. <<>> \in Seq(Text) /\ ToSet(<<>>) = {}
    BY DEF ToSet
<1>6. opt.allow \in Seq(Text) /\ ToSet(opt.allow) = Loaded("allow", "allowlist")
  <2>1. opt.allow = IF "allow" \in DOMAIN in.args THEN in.args["allow"]
                    ELSE IF InFile("allowlist") THEN LoadList(in.ini.keys["allowlist"]) ELSE <<>>
      BY Overwritten, FromFileFields
  <2> DEFINE f == in.ini.keys["allowlist"]
  <2>2. InFile("allowlist") => /\ LoadList(f) \in Seq(Text)
                             /\ ToSet(LoadList(f)) = {toString(f[k]) : k \in DOMAIN f} \ {<<>>}
      BY <1>2, LoadListDef
  <2>3. Loaded("allow", "allowlist") =
            IF "allow" \in DOMAIN in.args THEN ToSet(in.args["allow"])
            ELSE IF InFile("allowlist") THEN {toString(f[k]) : k \in DOMAIN f} \ {<<>>} ELSE {}
      BY Zenon DEF Loaded
  <2> HIDE DEF f
  <2>4. CASE "allow" \in DOMAIN in.args
      BY <1>2, <2>1, <2>3, <2>4, Zenon
  <2>5. CASE "allow" \notin DOMAIN in.args /\ InFile("allowlist")
      BY <2>1, <2>2, <2>3, <2>5, Zenon DEF f
  <2>6. CASE "allow" \notin DOMAIN in.args /\ ~InFile("allowlist")
      BY <1>5, <2>1, <2>3, <2>6, Zenon
  <2> QED
      BY <2>4, <2>5, <2>6
<1>7. opt.deny \in Seq(Text) /\ ToSet(opt.deny) = Loaded("deny", "denylist")
  <2>1. opt.deny = IF "deny" \in DOMAIN in.args THEN in.args["deny"]
                    ELSE IF InFile("denylist") THEN LoadList(in.ini.keys["denylist"]) ELSE <<>>
      BY Overwritten, FromFileFields
  <2> DEFINE f == in.ini.keys["denylist"]
  <2>2. InFile("denylist") => /\ LoadList(f) \in Seq(Text)
                             /\ ToSet(LoadList(f)) = {toString(f[k]) : k \in DOMAIN f} \ {<<>>}
      BY <1>2, LoadListDef
  <2>3. Loaded("deny", "denylist") =
            IF "deny" \in DOMAIN in.args THEN ToSet(in.args["deny"])
            ELSE IF InFile("denylist") THEN {toString(f[k]) : k \in DOMAIN f} \ {<<>>} ELSE {}
      BY Zenon DEF Loaded
  <2> HIDE DEF f
  <2>4. CASE "deny" \in DOMAIN in.args
      BY <1>2, <2>1, <2>3, <2>4, Zenon
  <2>5. CASE "deny" \notin DOMAIN in.args /\ InFile("denylist")
      BY <2>1, <2>2, <2>3, <2>5, Zenon DEF f
  <2>6. CASE "deny" \notin DOMAIN in.args /\ ~InFile("denylist")
      BY <1>5, <2>1, <2>3, <2>6, Zenon
  <2> QED
      BY <2>4, <2>5, <2>6
<1> QED
    BY <1>6, <1>7

-----------------------------------------------------------------------------
(* Every action keeps the invariant.                                       *)

\* The properties of the last call stay true with the call.
LEMMA CallKept ==
    ASSUME Inv, UNCHANGED <<in, call>>
    PROVE  (in \in Inputs)' /\ AuthIsEnforced' /\ ListsInv' /\ FromFile' = FromFile
<1>1. ConfiguredTokens' = ConfiguredTokens /\ FromFile' = FromFile
    BY DEF ConfiguredTokens, FromFile
<1>2. AuthIsEnforced'
    BY <1>1 DEF Inv, AuthIsEnforced
<1>3. Loaded("allow", "allowlist")' = Loaded("allow", "allowlist") /\ Loaded("deny", "denylist")' = Loaded("deny", "denylist")
    BY DEF Loaded, InFile
<1>4. ListsInv'
    BY <1>3 DEF Inv, ListsInv
<1> QED
    BY <1>1, <1>2, <1>4 DEF Inv

LEMMA InitHolds == Init => Inv
<1> SUFFICES ASSUME Init PROVE Inv
    OBVIOUS
<1>1. NoServer.up = FALSE /\ NoCall.made = FALSE
    BY DEF NoServer, NoCall
<1>2. TypeOK
    BY <1>1, DefaultFields, GlobalsFields DEF Init, TypeOK, Running, Aborted
<1>3. ConfigInv /\ LoggerInv /\ ServerInv
    BY DEF Init, ConfigInv, LoggerInv, ServerInv, IsGlobals
<1>4. AuthIsEnforced /\ ListsInv
    BY <1>1 DEF Init, AuthIsEnforced, ListsInv
<1> QED
    BY <1>2, <1>3, <1>4 DEF Init, Inv

LEMMA LoadConfigKeeps == Inv /\ LoadConfig => Inv'
<1> SUFFICES ASSUME Inv, LoadConfig PROVE Inv'
    OBVIOUS
<1>1. UNCHANGED <<in, opt, globals, server, call>> /\ pc = "load"
    BY DEF LoadConfig
<1>2. (in \in Inputs)' /\ AuthIsEnforced' /\ ListsInv' /\ FromFile' = FromFile
    BY <1>1, CallKept
<1>3. IsInput(in)
    BY InputsAssumption DEF Inv
<1>4. CASE ~in.ini.given /\ pc' = "parse" /\ UNCHANGED <<rc, cfg>>
  <2>1. cfg = Defaults /\ FromFile = Defaults
      BY <1>4 DEF Inv, ConfigInv, FromFile
  <2>2. TypeOK'
      BY <1>1, <1>4 DEF Inv, TypeOK
  <2>3. ConfigInv'
      BY <1>1, <1>2, <1>4, <2>1 DEF ConfigInv
  <2>4. LoggerInv' /\ ServerInv'
      BY <1>1, <1>4 DEF Inv, LoggerInv, ServerInv
  <2> QED
      BY <1>2, <2>2, <2>3, <2>4 DEF Inv
<1>5. CASE pc' = "exited" /\ rc' = 1 /\ UNCHANGED cfg
  <2>1. TypeOK'
      BY <1>1, <1>5 DEF Inv, TypeOK, Running, Aborted
  <2>2. ConfigInv'
      BY <1>1, <1>2, <1>5 DEF Inv, ConfigInv
  <2>3. LoggerInv' /\ ServerInv'
      BY <1>1, <1>5 DEF Inv, LoggerInv, ServerInv
  <2> QED
      BY <1>2, <2>1, <2>2, <2>3 DEF Inv
<1>6. CASE /\ in.ini.given /\ loadServerConfig(in.ini.keys, in.env).err = "none"
           /\ cfg' = loadServerConfig(in.ini.keys, in.env).cfg /\ pc' = "parse" /\ UNCHANGED rc
  <2> DEFINE c == Settings(in.ini.keys, in.env)
  <2>1. cfg' = c /\ c.port \in Ports \ {0} /\ ~(c.cmdTimeoutMs <= 0)
      BY <1>6, LoadedSettings, Zenon
  <2>2. c.cmdTimeoutMs \in Int
      BY <1>3, SettingsTyping
  <2>3. FromFile = c
      BY <1>6 DEF FromFile
  <2> HIDE DEF c
  <2>4. c.cmdTimeoutMs > 0
      BY <2>1, <2>2
  <2>5. TypeOK'
      BY <1>1, <1>6, <2>1, <2>4 DEF Inv, TypeOK
  <2>6. ConfigInv'
      BY <1>1, <1>2, <1>6, <2>1, <2>3 DEF ConfigInv
  <2>7. LoggerInv' /\ ServerInv'
      BY <1>1, <1>6 DEF Inv, LoggerInv, ServerInv
  <2> QED
      BY <1>2, <2>5, <2>6, <2>7 DEF Inv
<1> QED
    BY <1>4, <1>5, <1>6 DEF LoadConfig, Exit

LEMMA ParseOptionsKeeps == Inv /\ ParseOptions => Inv'
<1> SUFFICES ASSUME Inv, ParseOptions PROVE Inv'
    OBVIOUS
<1>1. UNCHANGED <<in, cfg, server, call>> /\ pc = "parse" /\ globals = Globals /\ rc = Running /\ cfg = FromFile
    BY DEF ParseOptions, Inv, LoggerInv, TypeOK, ConfigInv
<1>2. (in \in Inputs)' /\ AuthIsEnforced' /\ ListsInv' /\ FromFile' = FromFile
    BY <1>1, CallKept
<1>3. PICK D \in EnvValue(in.DBGLVL) :
          LET cli == ConfigureCLI(globals, in.args, D)
          IN  globals' = cli.g /\ IF cli.rc = 0 THEN pc' = "check" /\ UNCHANGED rc ELSE Exit(cli.rc)
    BY Zenon DEF ParseOptions
<1> DEFINE cli == ConfigureCLI(Globals, in.args, D)
<1>9. cli.rc = 0 => cli = ConfigureCLI(Globals, in.args, EnvLevel(in))
    BY IgnoredLevel, Zenon
<1>10. /\ globals' = cli.g
      /\ opt' = [k \in DOMAIN cfg |-> IF k \in DOMAIN in.args \cap Overriding THEN in.args[k] ELSE cfg[k]]
      /\ IF cli.rc = 0 THEN pc' = "check" /\ UNCHANGED rc ELSE pc' = "exited" /\ rc' = cli.rc
    BY <1>1, <1>3, Zenon DEF ParseOptions, Exit
<1>4. cli.rc \in {0, 1} /\ IsGlobals(cli.g) /\ cli.g.registry = NoLogger /\ cli.g.MainLogger = NoLogger
    BY CLIMakesNoLogger, Zenon
<1> HIDE DEF cli
<1>5. TypeOK'
    BY <1>1, <1>10, <1>4 DEF Inv, TypeOK, Running, Aborted
<1>6. ConfigInv'
    BY <1>1, <1>2, <1>10 DEF Inv, ConfigInv
<1>7. LoggerInv'
    BY <1>1, <1>9, <1>10, <1>4 DEF LoggerInv, EnvLevel
<1>8. ServerInv'
    BY <1>10 DEF ServerInv
<1> QED
    BY <1>2, <1>5, <1>6, <1>7, <1>8 DEF Inv

LEMMA CheckTlsKeeps == Inv /\ CheckTls => Inv'
<1> SUFFICES ASSUME Inv, CheckTls PROVE Inv'
    OBVIOUS
<1>1. UNCHANGED <<in, cfg, opt, globals, server, call>> /\ pc = "check" /\ rc = Running
    BY DEF CheckTls, Inv, TypeOK
<1>2. (in \in Inputs)' /\ AuthIsEnforced' /\ ListsInv' /\ FromFile' = FromFile
    BY <1>1, CallKept
<1>3. \/ pc' = "exited" /\ rc' = 1
      \/ pc' = "logging" /\ rc' = rc /\ (opt.tls \/ DOMAIN cfg.auth = {})
    BY Zenon DEF CheckTls, Exit
<1>4. TypeOK'
    BY <1>1, <1>3 DEF Inv, TypeOK, Running, Aborted
<1>5. ConfigInv'
    BY <1>1, <1>2, <1>3 DEF Inv, ConfigInv
<1>6. LoggerInv' /\ ServerInv'
    BY <1>1, <1>3 DEF Inv, LoggerInv, ServerInv
<1> QED
    BY <1>2, <1>4, <1>5, <1>6 DEF Inv

LEMMA ConfigureLoggingKeeps == Inv /\ ConfigureLogging => Inv'
<1> SUFFICES ASSUME Inv, ConfigureLogging PROVE Inv'
    OBVIOUS
<1>1. UNCHANGED <<in, cfg, opt, server, call>> /\ pc = "logging" /\ rc = Running
    BY DEF ConfigureLogging, Inv, TypeOK
<1>2. (in \in Inputs)' /\ AuthIsEnforced' /\ ListsInv' /\ FromFile' = FromFile
    BY <1>1, CallKept
<1>3. (pc' = "build" /\ rc' = rc) \/ (pc' = "exited" /\ rc' = Aborted)
    BY Zenon DEF ConfigureLogging, Exit
<1>4. /\ in \in Inputs /\ cfg = FromFile
      /\ opt = [k \in DOMAIN cfg |-> IF k \in DOMAIN in.args \cap Overriding THEN in.args[k] ELSE cfg[k]]
      /\ globals = ConfigureCLI(Globals, in.args, EnvLevel(in)).g
      /\ ConfigureCLI(Globals, in.args, EnvLevel(in)).rc = 0
    BY <1>1 DEF Inv, ConfigInv, LoggerInv
<1>5. /\ IsGlobals(globals') /\ globals'.registry = globals'.MainLogger
      /\ pc' = "build" => Chosen(in, globals')
    BY <1>4, LoggerIsChosen, Zenon
<1>6. TypeOK'
    BY <1>1, <1>3, <1>5 DEF Inv, TypeOK, Running, Aborted
<1>7. ConfigInv'
    BY <1>1, <1>2, <1>3 DEF Inv, ConfigInv
<1>8. pc' = "build" => Chosen(in', globals')
    BY <1>1, <1>5, Zenon
<1>9. LoggerInv' /\ ServerInv'
    BY <1>3, <1>5, <1>8 DEF LoggerInv, ServerInv
<1> QED
    BY <1>2, <1>6, <1>7, <1>9 DEF Inv

LEMMA GrpcServerThreadKeeps == Inv /\ GrpcServerThread => Inv'
<1> SUFFICES ASSUME Inv, GrpcServerThread PROVE Inv'
    OBVIOUS
<1>1. UNCHANGED <<in, rc, cfg, opt, globals, call>> /\ pc = "build" /\ pc' = "serving" /\ opt.port \in Ports
    BY DEF GrpcServerThread
<1>2. (in \in Inputs)' /\ AuthIsEnforced' /\ ListsInv' /\ FromFile' = FromFile
    BY <1>1, CallKept
<1>3. /\ server'.up = TRUE /\ server'.port = opt.port /\ server'.processor = opt.tls
      /\ server'.m_tokens = BearerTokenAuthProcessor(cfg.auth)
      /\ server'.service = RemSvcServiceImpl([allow |-> Compiled(opt.allow), deny |-> Compiled(opt.deny)])
    BY DEF GrpcServerThread
<1>4. TypeOK'
    BY <1>1, <1>3 DEF Inv, TypeOK
<1>5. ConfigInv'
    BY <1>1, <1>2 DEF Inv, ConfigInv
<1>6. LoggerInv'
    BY <1>1, Zenon DEF Inv, LoggerInv
<1>7. ServerInv'
    BY <1>1, <1>3 DEF ServerInv
<1> QED
    BY <1>2, <1>4, <1>5, <1>6, <1>7 DEF Inv

LEMMA ThrowsKeeps == Inv /\ GrpcServerThreadThrows => Inv'
<1> SUFFICES ASSUME Inv, GrpcServerThreadThrows PROVE Inv'
    OBVIOUS
<1>1. UNCHANGED <<in, cfg, opt, globals, server, call>> /\ pc = "build" /\ pc' = "exited" /\ rc' = Aborted
    BY DEF GrpcServerThreadThrows, Exit
<1>2. (in \in Inputs)' /\ AuthIsEnforced' /\ ListsInv' /\ FromFile' = FromFile
    BY <1>1, CallKept
<1>3. TypeOK'
    BY <1>1 DEF Inv, TypeOK, Running, Aborted
<1>4. ConfigInv'
    BY <1>1, <1>2 DEF Inv, ConfigInv
<1>5. LoggerInv' /\ ServerInv'
    BY <1>1 DEF Inv, LoggerInv, ServerInv
<1> QED
    BY <1>2, <1>3, <1>4, <1>5 DEF Inv

LEMMA StopKeeps == Inv /\ Stop => Inv'
<1> SUFFICES ASSUME Inv, Stop PROVE Inv'
    OBVIOUS
<1>1. /\ UNCHANGED <<in, cfg, opt, call>> /\ pc = "serving" /\ pc' = "exited" /\ rc' = 0
      /\ server' = NoServer /\ globals' = TermLogging(globals)
    BY DEF Stop, Exit
<1>2. (in \in Inputs)' /\ AuthIsEnforced' /\ ListsInv' /\ FromFile' = FromFile
    BY <1>1, CallKept
<1>3. IsGlobals(globals') /\ globals'.registry = NoLogger /\ globals'.MainLogger = NoLogger
    BY <1>1, GlobalsFields DEF Inv, LoggerInv, IsGlobals, TermLogging
<1>4. server'.up = FALSE
    BY <1>1 DEF NoServer
<1>5. TypeOK'
    BY <1>1, <1>3, <1>4 DEF Inv, TypeOK, Running, Aborted
<1>6. ConfigInv'
    BY <1>1, <1>2 DEF Inv, ConfigInv
<1>7. LoggerInv' /\ ServerInv'
    BY <1>1, <1>3 DEF LoggerInv, ServerInv
<1> QED
    BY <1>2, <1>5, <1>6, <1>7 DEF Inv

LEMMA CallKeeps == ASSUME NEW h \in Headers, NEW cmd \in Cmds PROVE Inv /\ Call(h, cmd) => Inv'
<1> SUFFICES ASSUME Inv, Call(h, cmd) PROVE Inv'
    OBVIOUS
<1> DEFINE auth == IF server.processor THEN Process(server.m_tokens, h)
                   ELSE [status |-> "OK", identity |-> 0, consumed |-> FALSE]
           allowed == checkAllowed(server.service, cmd)
<1>1. UNCHANGED <<in, pc, rc, cfg, opt, globals, server>> /\ pc = "serving"
    BY DEF Call
<1>2. call' = [made |-> TRUE, header |-> h, cmd |-> cmd, identity |-> auth.identity,
               status |-> IF auth.status # "OK" THEN auth.status ELSE IF allowed THEN "OK" ELSE "PERMISSION_DENIED"]
    BY Zenon DEF Call
<1>3. /\ in \in Inputs /\ cfg = FromFile
      /\ opt = [k \in DOMAIN cfg |-> IF k \in DOMAIN in.args \cap Overriding THEN in.args[k] ELSE cfg[k]]
      /\ opt.tls \/ DOMAIN cfg.auth = {}
      /\ server.processor = opt.tls /\ server.m_tokens = BearerTokenAuthProcessor(cfg.auth)
      /\ server.service = RemSvcServiceImpl([allow |-> Compiled(opt.allow), deny |-> Compiled(opt.deny)])
    BY <1>1 DEF Inv, ConfigInv, ServerInv
<1>4. /\ DOMAIN cfg.auth \subseteq 1 .. 99 /\ \A id \in DOMAIN cfg.auth : cfg.auth[id] # <<>>
      /\ ConfiguredTokens = Entries(cfg.auth)
    BY <1>3, ConfiguredTokensDef
<1>5. h \in Text
    BY InputsAssumption
<1>6. /\ DOMAIN cfg.auth = {} => auth.status = "OK" /\ auth.identity = 0
      /\ DOMAIN cfg.auth # {} => \/ auth.status = "UNAUTHENTICATED" /\ auth.identity = 0
                                 \/ /\ auth.status = "OK" /\ auth.identity \in DOMAIN cfg.auth
                                    /\ h = kBearerPrefix \o cfg.auth[auth.identity]
  <2> DEFINE r == Process(BearerTokenAuthProcessor(cfg.auth), h)
  <2>1. /\ DOMAIN cfg.auth = {} => r.status = "OK" /\ r.identity = 0
        /\ DOMAIN cfg.auth # {} => \/ r.status = "UNAUTHENTICATED" /\ r.identity = 0
                                   \/ /\ r.status = "OK" /\ r.identity \in DOMAIN cfg.auth
                                      /\ h = kBearerPrefix \o cfg.auth[r.identity]
      BY <1>4, <1>5, ProcessDef, Zenon
  <2> HIDE DEF r
  <2>2. CASE server.processor
    <3>1. auth = r
        BY <1>3, <2>2 DEF r
    <3> HIDE DEF auth
    <3> QED
        BY <2>1, <3>1, Zenon
  <2>3. CASE ~server.processor
    <3>1. DOMAIN cfg.auth = {} /\ auth = [status |-> "OK", identity |-> 0, consumed |-> FALSE]
        BY <1>3, <2>3, Zenon
    <3>2. auth.status = "OK" /\ auth.identity = 0
        BY <3>1
    <3> HIDE DEF auth
    <3> QED
        BY <3>1, <3>2, Zenon
  <2> QED
      BY <2>2, <2>3
<1>7. /\ opt.allow \in Seq(Text) /\ ToSet(opt.allow) = Loaded("allow", "allowlist")
      /\ opt.deny \in Seq(Text) /\ ToSet(opt.deny) = Loaded("deny", "denylist")
    BY <1>3, LoadedDef
<1>8. allowed <=> Admits(Loaded("allow", "allowlist"), Loaded("deny", "denylist"), cmd)
  <2>1. allowed <=> checkAllowed(RemSvcServiceImpl([allow |-> Compiled(opt.allow), deny |-> Compiled(opt.deny)]), cmd)
      BY <1>3, Zenon
  <2>2. checkAllowed(RemSvcServiceImpl([allow |-> Compiled(opt.allow), deny |-> Compiled(opt.deny)]), cmd)
            <=> Admits(ToSet(opt.allow), ToSet(opt.deny), cmd)
      BY <1>7, CheckAllowedDef
  <2> HIDE DEF allowed
  <2> QED
      BY <1>7, <2>1, <2>2, Zenon
<1> HIDE DEF auth, allowed
<1>9. /\ call'.made /\ call'.header = h /\ call'.cmd = cmd /\ call'.identity = auth.identity
      /\ call'.status = IF auth.status # "OK" THEN auth.status ELSE IF allowed THEN "OK" ELSE "PERMISSION_DENIED"
    BY <1>2
<1>10. call'.status # "UNAUTHENTICATED" <=> auth.status = "OK"
    BY <1>6, <1>9
<1>11. ConfiguredTokens' = ConfiguredTokens /\ FromFile' = FromFile
    BY <1>1 DEF ConfiguredTokens, FromFile
<1>12. AuthIsEnforced'
  <2>1. CASE DOMAIN cfg.auth = {}
    <3>1. ConfiguredTokens = {}
        BY <1>4, <2>1 DEF Entries
    <3>2. call'.status # "UNAUTHENTICATED" /\ call'.identity = 0
        BY <1>6, <1>9, <1>10, <2>1
    <3> QED
        BY <1>11, <3>1, <3>2 DEF AuthIsEnforced
  <2>2. CASE DOMAIN cfg.auth # {}
    <3>1. ConfiguredTokens # {}
        BY <1>4, <2>2 DEF Entries
    <3>2. ASSUME auth.status = "OK"
          PROVE  \E t \in ConfiguredTokens : call'.header = kBearerPrefix \o t[2] /\ call'.identity = t[1]
      <4> DEFINE t == <<auth.identity, cfg.auth[auth.identity]>>
      <4>1. auth.identity \in DOMAIN cfg.auth /\ h = kBearerPrefix \o cfg.auth[auth.identity]
          BY <1>6, <2>2, <3>2
      <4>2. t \in ConfiguredTokens /\ t[1] = auth.identity /\ t[2] = cfg.auth[auth.identity]
          BY <1>4, <4>1 DEF Entries
      <4> HIDE DEF t
      <4>3. call'.header = kBearerPrefix \o t[2] /\ call'.identity = t[1]
          BY <1>9, <4>1, <4>2
      <4> QED
          BY <4>2, <4>3
    <3>3. ASSUME auth.status # "OK", NEW t \in ConfiguredTokens
          PROVE  call'.identity # t[1]
      <4>1. call'.identity = 0
          BY <1>6, <1>9, <2>2, <3>3
      <4>2. t[1] \in DOMAIN cfg.auth
        <5>1. PICK id \in DOMAIN cfg.auth : t = <<id, cfg.auth[id]>>
            BY <1>4, Zenon DEF Entries
        <5> QED
            BY <5>1
      <4>3. t[1] \in 1 .. 99
          BY <1>4, <4>2, Zenon
      <4>4. 0 \notin 1 .. 99
          OBVIOUS
      <4> QED
          BY <4>1, <4>3, <4>4, Zenon
    <3>4. call'.status # "UNAUTHENTICATED" <=>
              \E t \in ConfiguredTokens : call'.header = kBearerPrefix \o t[2] /\ call'.identity = t[1]
        BY <1>10, <3>2, <3>3, Zenon
    <3> QED
        BY <1>11, <3>1, <3>4, Zenon DEF AuthIsEnforced
  <2> QED
      BY <2>1, <2>2
<1>13. ListsInv'
  <2>1. Loaded("allow", "allowlist")' = Loaded("allow", "allowlist") /\ Loaded("deny", "denylist")' = Loaded("deny", "denylist")
      BY <1>1 DEF Loaded, InFile
  <2>2. ASSUME call'.status # "UNAUTHENTICATED"
        PROVE  call'.status = "OK" <=> Admits(Loaded("allow", "allowlist"), Loaded("deny", "denylist"), call'.cmd)
      BY <1>8, <1>9, <1>10, <2>2
  <2> QED
      BY <2>1, <2>2, Zenon DEF ListsInv
<1>14. TypeOK' /\ ConfigInv' /\ LoggerInv' /\ ServerInv' /\ (in \in Inputs)'
  <2>1. TypeOK' /\ ConfigInv' /\ ServerInv' /\ (in \in Inputs)'
      BY <1>1, <1>11 DEF Inv, TypeOK, ConfigInv, ServerInv
  <2>2. LoggerInv'
      BY <1>1, Zenon DEF Inv, LoggerInv
  <2> QED
      BY <2>1, <2>2
<1> QED
    BY <1>12, <1>13, <1>14 DEF Inv

-----------------------------------------------------------------------------
(* The theorems.                                                           *)

LEMMA InvHolds == Spec => []Inv
<1>1. ASSUME Inv, [Next]_vars PROVE Inv'
  <2>1. CASE UNCHANGED vars
    <3>1. UNCHANGED <<in, pc, rc, cfg, opt, globals, server, call>>
        BY <2>1 DEF vars
    <3>2. (in \in Inputs)' /\ AuthIsEnforced' /\ ListsInv' /\ FromFile' = FromFile
        BY <1>1, <3>1, CallKept
    <3>3. TypeOK' /\ ConfigInv' /\ ServerInv'
        BY <1>1, <3>1, <3>2 DEF Inv, TypeOK, ConfigInv, ServerInv
    <3>4. LoggerInv'
        BY <1>1, <3>1, Zenon DEF Inv, LoggerInv
    <3> QED
        BY <3>2, <3>3, <3>4 DEF Inv
  <2>2. CASE Next
      BY <1>1, <2>2, LoadConfigKeeps, ParseOptionsKeeps, CheckTlsKeeps, ConfigureLoggingKeeps,
         GrpcServerThreadKeeps, ThrowsKeeps, StopKeeps, CallKeeps, Zenon DEF Next
  <2> QED
      BY <1>1, <2>1, <2>2
<1> QED
    BY <1>1, InitHolds, PTL DEF Spec

\* The state has its types in every start of the server: what the file is checked for
\* holds of the settings from then on, the exit code is set exactly when main has
\* returned, and the logger of the library is the one that spdlog knows. (main.)
THEOREM Typing == Spec => []TypeOK
<1>1. Inv => TypeOK
    BY DEF Inv
<1> QED
    BY <1>1, InvHolds, PTL

\* A configured token is demanded of every call, whatever the options are: for every
\* file, environment and command line there is no path through main that attaches
\* no processor while [auth] has a token that is not empty, and no header is
\* attributed to an identity whose token it does not carry. (main's checks,
\* loadServerConfig's [auth], BearerTokenAuthProcessor, Process.)
THEOREM TokensAreDemanded == Spec => []AuthIsEnforced
<1>1. Inv => AuthIsEnforced
    BY DEF Inv
<1> QED
    BY <1>1, InvHolds, PTL

\* Without "${}" the two ways to state the expansion agree.
LEMMA ReferencedIsExpanded ==
    ASSUME NEW s, NEW env, \A i \in DOMAIN s : ~Hollow(s, i), NEW S, s \in Seq(S)
    PROVE  Referenced(env, s) = Expanded(env, s)
<1> DEFINE known == {r \in References(s) : r.name \in DOMAIN env}
           value(i) == env[(CHOOSE r \in known : r.from = i).name]
           image(i) == IF \E r \in known : r.from = i THEN value(i)
                       ELSE IF \E r \in known : i \in r.from .. r.to THEN <<>> ELSE <<s[i]>>
           coded(i) == IF \E r \in known : r.from = i THEN value(i)
                       ELSE IF (\E r \in known : i \in r.from .. r.to) \/ Hollow(s, i - 1) \/ Hollow(s, i - 2)
                       THEN <<>> ELSE <<s[i]>>
<1>1. ASSUME NEW i, Hollow(s, i) PROVE FALSE
  <2>1. i \in DOMAIN s
      BY <1>1 DEF Hollow
  <2> QED
      BY <1>1, <2>1, Zenon
<1>3. \A i \in DOMAIN s : ~Hollow(s, i - 1) /\ ~Hollow(s, i - 2)
    BY <1>1, Zenon
<1>4. \A i \in DOMAIN s : image(i) = coded(i)
    BY <1>3, Zenon
<1>5. [i \in DOMAIN s |-> image(i)] = [i \in DOMAIN s |-> coded(i)]
  <2> HIDE DEF image, coded
  <2> QED
      BY <1>4
<1>6. Referenced(env, s) = FlattenSeq([i \in DOMAIN s |-> image(i)])
    BY Zenon DEF Referenced
<1>7. Expanded(env, s) = FlattenSeq([i \in DOMAIN s |-> coded(i)])
    BY Zenon DEF Expanded
<1> QED
    BY <1>5, <1>6, <1>7, Zenon

\* expandEnvVars replaces exactly the references to known variables, for paths of every
\* length without "${}" and environments of every size: the left-to-right scan of the
\* code and the definition on positions agree. (expandEnvVars on the paths of the file.)
THEOREM PathsAreExpandedOnce == Spec => []ExpansionIsByReference
<1>1. ASSUME Inv PROVE ExpansionIsByReference
  <2> SUFFICES ASSUME cfg # Defaults, NEW k \in Paths,
                      \A i \in DOMAIN toString(in.ini.keys[k]) : ~Hollow(toString(in.ini.keys[k]), i)
               PROVE  cfg[k] = Referenced(in.env, toString(in.ini.keys[k]))
      BY Zenon DEF ExpansionIsByReference
  <2>1. cfg = Settings(in.ini.keys, in.env)
      BY <1>1 DEF Inv, ConfigInv, FromFile
  <2>2. IsInput(in)
      BY <1>1, InputsAssumption DEF Inv
  <2>3. in.ini.keys[k] \in Text /\ \A v \in DOMAIN in.env : in.env[v] \in Text
      BY <2>2 DEF IsInput, Paths
  <2>4. cfg[k] = expandEnvVars(in.env, toString(in.ini.keys[k]))
    <3> DEFINE ini == in.ini.keys
    <3> HIDE DEF ini
    <3>1. cfg = Settings(ini, in.env) /\ k \in DOMAIN ini /\ k \in {"cert", "key", "ca"}
        BY <2>1 DEF ini, Paths
    <3>2. LET c == Settings(ini, in.env) IN
          /\ c.cert = IF "cert" \in DOMAIN ini THEN expandEnvVars(in.env, toString(ini["cert"])) ELSE Defaults.cert
          /\ c.key = IF "key" \in DOMAIN ini THEN expandEnvVars(in.env, toString(ini["key"])) ELSE Defaults.key
          /\ c.ca = IF "ca" \in DOMAIN ini THEN expandEnvVars(in.env, toString(ini["ca"])) ELSE Defaults.ca
        BY SettingsFields
    <3>3. cfg[k] = expandEnvVars(in.env, toString(ini[k]))
        BY <3>1, <3>2
    <3> QED
        BY <3>3 DEF ini
  <2>5. expandEnvVars(in.env, toString(in.ini.keys[k])) = Expanded(in.env, toString(in.ini.keys[k]))
      BY <2>3, ExpandOnTexts
  <2>6. toString(in.ini.keys[k]) \in Seq(Chars)
      BY <2>3, ToStringTyping DEF Text
  <2>7. Referenced(in.env, toString(in.ini.keys[k])) = Expanded(in.env, toString(in.ini.keys[k]))
      BY <2>6, ReferencedIsExpanded
  <2> QED
      BY <2>4, <2>5, <2>7
<1> QED
    BY <1>1, InvHolds, PTL

LEMMA ImageOfOne ==
    ASSUME NEW b, NEW v
    PROVE  /\ {toString(f) : f \in One(b, v)} = One(b, toString(v))
           /\ {toInt(f) : f \in One(b, v)} = One(b, toInt(v))
BY DEF One

\* The precedence of the code is the documented one unless a common option clashes with
\* the file.
LEMMA ChosenIsDocumented ==
    ASSUME Chosen(in, globals), ~OptionsClash
    PROVE  LoggerAsDocumented
<1> DEFINE A == DOMAIN in.args
           name == {DefaultCLiLogFileName(in.appName)}
           codedFile == Over(Over(One("logFile" \in A, in.args["logFile"]),
                                  One(InFile("file"), toString(in.ini.keys["file"]))) \ {<<>>}, name)
           file == Over(Over(Option("logFile") \ {<<>>}, Option("log-file") \ {<<>>}), Over(IniFile, name))
           codedDebug == Over(One(InFile("debug_level"), toInt(in.ini.keys["debug_level"])) \cap Nat,
                              Over(One("debug" \in A, in.args["debug"]), Over(EnvLevel(in), {-1})))
           debug == Over(Over(Option("debug"), IniDebug), Over(EnvLevel(in), {-1}))
           codedLevel(u) == Over(Over(One("logLevel" \in A, in.args["logLevel"]),
                                      One(InFile("level"), in.ini.keys["level"])) \ {NoText},
                                 Over(One("log-level" \in A, in.args["log-level"]) \ {NoText}, {u}))
           level(u) == Over(Over(Option("logLevel") \ {NoText}, Option("log-level") \ {NoText}), Over(IniLevel, {u}))
           implied(d) == IF d > 0 THEN "debug" ELSE "info"
<1>1. /\ \A k : Option(k) = One(k \in A, in.args[k])
      /\ \A k : InIni(k) = One(InFile(k), in.ini.keys[k])
    BY Zenon DEF Option, InIni, One, InFile
<1>2. /\ "log-file" \notin A
      /\ "log-level" \in A => IniLevel = {}
      /\ "debug" \in A => IniDebug = {}
    BY DEF OptionsClash
<1>3. /\ IniFile = IF "logFile" \in A THEN {} ELSE One(InFile("file"), toString(in.ini.keys["file"])) \ {<<>>}
      /\ IniDebug = One(InFile("debug_level"), toInt(in.ini.keys["debug_level"])) \cap Nat
    BY <1>1, ImageOfOne DEF IniFile, IniDebug
<1>4. IniLevel = IF "logLevel" \in A THEN {} ELSE One(InFile("level"), in.ini.keys["level"]) \ {NoText}
    BY <1>1, Zenon DEF IniLevel, NoText
<1>5. codedFile = file
    BY <1>1, <1>2, <1>3 DEF Over, One
<1>6. codedDebug = debug
    BY <1>1, <1>2, <1>3 DEF Over, One
<1>7. \A u : codedLevel(u) = level(u)
    BY <1>1, <1>2, <1>4 DEF Over, One
<1> HIDE DEF codedFile, file, codedDebug, debug, codedLevel, level
<1>8. \E f \in codedFile, d \in codedDebug : \E l \in codedLevel(implied(d)) :
          /\ globals.LogSinks = <<"console", f>>
          /\ globals.MainLogger = StrToLogLevel(l)
          /\ globals.AllowedDebugLevel = IF d >= 0 THEN d ELSE debugmax
    BY ZenonT(30) DEF Chosen, InFile, codedFile, codedDebug, codedLevel
<1>9. \E f \in file, d \in debug : \E l \in level(implied(d)) :
          /\ globals.LogSinks = <<"console", f>>
          /\ globals.MainLogger = StrToLogLevel(l)
          /\ globals.AllowedDebugLevel = IF d >= 0 THEN d ELSE debugmax
    BY <1>5, <1>6, <1>7, <1>8, Zenon
<1> QED
    BY <1>9, ZenonT(30) DEF LoggerAsDocumented, file, debug, level, Over, EnvLevel, NoText

\* The logger of a running server is the documented one, for every combination of the
\* file, the overrides, the common options and DBGLVL in which no common option clashes
\* with the file. (main's step 4, ConfigureCLI, InitLogging.)
THEOREM PrecedenceOfLogging == Spec => []LoggerFollowsPrecedence
<1>1. Inv => LoggerFollowsPrecedence
    BY ChosenIsDocumented DEF Inv, TypeOK, LoggerInv, LoggerFollowsPrecedence
<1> QED
    BY <1>1, InvHolds, PTL

\* Plain values are loaded as they are written.
LEMMA LoadedIsWritten ==
    ASSUME in \in Inputs, PlainLists, NEW option, NEW section \in {"allowlist", "denylist"}
    PROVE  Loaded(option, section) = Written(option, section)
<1>1. IsInput(in)
    BY InputsAssumption
<1>2. CASE option \in DOMAIN in.args
    BY <1>2, Zenon DEF Loaded, Written
<1>3. CASE option \notin DOMAIN in.args /\ InFile(section)
  <2> DEFINE s == in.ini.keys[section]
  <2>1. IsSection(s)
      BY <1>1, <1>3 DEF IsInput, InFile
  <2>2. InIni(section) = {s}
      BY <1>3, Zenon DEF InIni, InFile
  <2>3. \A k \in DOMAIN s : ToSet(s[k]) \cap {Backslash, Quote, Comma} = {}
      BY <2>2, Zenon DEF PlainLists
  <2>4. Loaded(option, section) = {toString(s[k]) : k \in DOMAIN s} \ {<<>>}
      BY <1>3, Zenon DEF Loaded
  <2>5. Written(option, section) = (UNION {{r[k] : k \in DOMAIN r} : r \in {s}}) \ {<<>>}
      BY <1>3, <2>2, Zenon DEF Written
  <2> HIDE DEF s
  <2>6. ASSUME NEW k \in DOMAIN s PROVE toString(s[k]) = s[k]
    <3>1. s[k] \in Text
        BY <2>1 DEF IsSection
    <3>2. PlainText(s[k])
        BY <2>3, Zenon DEF PlainText, ToSet
    <3> QED
        BY <3>1, <3>2, PlainIsItself
  <2>7. UNION {{r[k] : k \in DOMAIN r} : r \in {s}} = {s[k] : k \in DOMAIN s}
      BY Zenon
  <2> QED
      BY <2>4, <2>5, <2>6, <2>7
<1>4. CASE option \notin DOMAIN in.args /\ ~InFile(section)
  <2>1. InIni(section) = {}
      BY <1>4, Zenon DEF InIni, InFile
  <2> QED
      BY <1>4, <2>1 DEF Loaded, Written
<1> QED
    BY <1>2, <1>3, <1>4

\* Between the file or the options and checkAllowed no pattern is lost, doubled in effect
\* or invented, for sections with any keys up to 99 whose values are plain: sorting,
\* dropping empty values, compiling and the two lists amount to the patterns as they
\* stand in the file. (loadServerConfig's lists, main, the constructor of
\* RemSvcServiceImpl, checkAllowed.)
THEOREM WrittenListsDecide == Spec => []ListsAsWritten
<1>1. ASSUME Inv PROVE ListsAsWritten
  <2> SUFFICES ASSUME call.made, call.status # "UNAUTHENTICATED", PlainLists
               PROVE  call.status = "OK" <=> Admits(Written("allow", "allowlist"), Written("deny", "denylist"), call.cmd)
      BY Zenon DEF ListsAsWritten, AdmittedBy, Admits
  <2>1. call.status = "OK" <=> Admits(Loaded("allow", "allowlist"), Loaded("deny", "denylist"), call.cmd)
      BY <1>1 DEF Inv, ListsInv
  <2>2. /\ Loaded("allow", "allowlist") = Written("allow", "allowlist")
        /\ Loaded("deny", "denylist") = Written("deny", "denylist")
      BY <1>1, LoadedIsWritten DEF Inv
  <2> QED
      BY <2>1, <2>2, Zenon
<1> QED
    BY <1>1, InvHolds, PTL
=============================================================================
