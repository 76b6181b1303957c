----------------------- MODULE RemSvcProviderProofs -----------------------
(***************************************************************************)
(* Theorems about RemSvcProvider, for every set of tasks, connections and  *)
(* CA files, and any number of edits, faults and attempts.                 *)
(***************************************************************************)
EXTENDS RemSvcProvider, FiniteSetTheorems, TLAPS

-----------------------------------------------------------------------------
(* The default result handler.  Python sorts the stored keys as texts:     *)
(* Order gives the place of a number in that order.                        *)

Order(i) == IF i < 10 THEN 100 * i ELSE 100 * (i \div 10) + (i % 10) + 1

LEMMA Digits ==
    ASSUME NEW i \in 10 .. 99
    PROVE  i \div 10 \in 1 .. 9 /\ i % 10 \in 0 .. 9 /\ i = 10 * (i \div 10) + (i % 10)
OBVIOUS

LEMMA OrderType == ASSUME NEW i \in 1 .. 99 PROVE Order(i) \in Nat
<1>1. CASE i < 10
    BY <1>1 DEF Order
<1>2. CASE i >= 10
    BY <1>2, Digits DEF Order
<1> QED
    BY <1>1, <1>2

LEMMA OrderInjective ==
    ASSUME NEW i \in 1 .. 99, NEW j \in 1 .. 99, Order(i) = Order(j) PROVE i = j
<1>1. i >= 10 => Order(i) = 100 * (i \div 10) + (i % 10) + 1 /\ i \in 10 .. 99
    BY DEF Order
<1>2. j >= 10 => Order(j) = 100 * (j \div 10) + (j % 10) + 1 /\ j \in 10 .. 99
    BY DEF Order
<1>3. (i < 10 => Order(i) = 100 * i) /\ (j < 10 => Order(j) = 100 * j)
    BY DEF Order
<1>4. CASE i < 10 /\ j < 10
    BY <1>3, <1>4
<1>5. CASE i >= 10 /\ j >= 10
    BY <1>1, <1>2, <1>5, Digits
<1>6. CASE i < 10 /\ j >= 10
    BY <1>2, <1>3, <1>6, Digits
<1>7. CASE i >= 10 /\ j < 10
    BY <1>1, <1>3, <1>7, Digits
<1> QED
    BY <1>4, <1>5, <1>6, <1>7

\* One or two digits.
LEMMA TextShape ==
    ASSUME NEW i \in 1 .. 99
    PROVE  /\ Text(i) \in Seq(Nat)
           /\ i < 10 => Len(Text(i)) = 1 /\ DOMAIN Text(i) = {1} /\ Text(i)[1] = i
           /\ i >= 10 => /\ Len(Text(i)) = 2 /\ DOMAIN Text(i) = {1, 2}
                         /\ Text(i)[1] = i \div 10 /\ Text(i)[2] = i % 10
<1>1. CASE i < 10
  <2>1. Text(i) = <<i>> /\ i \in Nat
      BY <1>1 DEF Text
  <2>2. <<i>> \in Seq(Nat) /\ Len(<<i>>) = 1 /\ DOMAIN <<i>> = {1} /\ <<i>>[1] = i
      BY <2>1
  <2> QED
      BY <1>1, <2>1, <2>2
<1>2. CASE i >= 10
  <2> DEFINE a == i \div 10
             b == i % 10
  <2>1. Text(i) = <<a, b>> /\ a \in Nat /\ b \in Nat
      BY <1>2, Digits DEF Text
  <2> HIDE DEF a, b
  <2>2. <<a, b>> \in Seq(Nat) /\ Len(<<a, b>>) = 2 /\ DOMAIN <<a, b>> = {1, 2}
        /\ <<a, b>>[1] = a /\ <<a, b>>[2] = b
      BY <2>1
  <2>3. Text(i) \in Seq(Nat) /\ Len(Text(i)) = 2 /\ DOMAIN Text(i) = {1, 2}
        /\ Text(i)[1] = a /\ Text(i)[2] = b
      BY <2>1, <2>2
  <2> QED
      BY <1>2, <2>3 DEF a, b
<1> QED
    BY <1>1, <1>2

LEMMA TextInjective ==
    ASSUME NEW i \in 1 .. 99, NEW j \in 1 .. 99, Text(i) = Text(j) PROVE i = j
<1>1. Len(Text(i)) = Len(Text(j)) /\ Text(i)[1] = Text(j)[1] /\ Text(i)[2] = Text(j)[2]
    OBVIOUS
<1>2. /\ i < 10 => Len(Text(i)) = 1 /\ Text(i)[1] = i
      /\ i >= 10 => Len(Text(i)) = 2 /\ Text(i)[1] = i \div 10 /\ Text(i)[2] = i % 10
    BY TextShape
<1>3. /\ j < 10 => Len(Text(j)) = 1 /\ Text(j)[1] = j
      /\ j >= 10 => Len(Text(j)) = 2 /\ Text(j)[1] = j \div 10 /\ Text(j)[2] = j % 10
    BY TextShape
<1>4. i < 10 <=> j < 10
    BY <1>1, <1>2, <1>3
<1>5. CASE i < 10
    BY <1>1, <1>2, <1>3, <1>4, <1>5
<1>6. CASE i >= 10
  <2>1. i \div 10 = j \div 10 /\ i % 10 = j % 10 /\ i \in 10 .. 99 /\ j \in 10 .. 99
      BY <1>1, <1>2, <1>3, <1>4, <1>6
  <2>2. i = 10 * (i \div 10) + (i % 10) /\ j = 10 * (j \div 10) + (j % 10)
      BY <2>1, Digits
  <2> QED
      BY <2>1, <2>2
<1> QED
    BY <1>5, <1>6

\* The order of texts is that of Order.
LEMMA TextLessIsOrder ==
    ASSUME NEW i \in 1 .. 99, NEW j \in 1 .. 99
    PROVE  TextLess(Text(i), Text(j)) <=> Order(i) < Order(j)
<1> DEFINE a == Text(i)
           b == Text(j)
           FirstDiffers == \E k \in DOMAIN a \cap DOMAIN b : a[k] < b[k] /\ \A m \in 1 .. k - 1 : a[m] = b[m]
<1>1. a \in Seq(Nat) /\ b \in Seq(Nat)
    BY TextShape
<1>2. TextLess(a, b) <=> FirstDiffers \/ IsStrictPrefix(a, b)
    BY DEF TextLess
<1>3. i >= 10 => Order(i) = 100 * (i \div 10) + (i % 10) + 1 /\ i \in 10 .. 99
    BY DEF Order
<1>4. j >= 10 => Order(j) = 100 * (j \div 10) + (j % 10) + 1 /\ j \in 10 .. 99
    BY DEF Order
<1>5. (i < 10 => Order(i) = 100 * i) /\ (j < 10 => Order(j) = 100 * j)
    BY DEF Order
<1>6. IsStrictPrefix(a, b) <=> Len(a) <= Len(b) /\ a # b /\ \A k \in 1 .. Len(a) : a[k] = b[k]
    BY <1>1 DEF IsStrictPrefix, IsPrefix
<1>7. CASE i < 10 /\ j < 10
  <2>1. Len(a) = 1 /\ DOMAIN a = {1} /\ a[1] = i /\ Len(b) = 1 /\ DOMAIN b = {1} /\ b[1] = j
      BY <1>7, TextShape
  <2> HIDE DEF a, b
  <2>2. FirstDiffers <=> i < j
      BY <2>1
  <2>3. ~IsStrictPrefix(a, b)
      BY <2>1, <1>1, <1>6
  <2> QED
      BY <2>2, <2>3, <1>2, <1>5, <1>7 DEF a, b
<1>8. CASE i < 10 /\ j >= 10
  <2>1. Len(a) = 1 /\ DOMAIN a = {1} /\ a[1] = i
        /\ Len(b) = 2 /\ DOMAIN b = {1, 2} /\ b[1] = j \div 10 /\ b[2] = j % 10
      BY <1>8, TextShape
  <2> HIDE DEF a, b
  <2>2. FirstDiffers <=> i < j \div 10
      BY <2>1
  <2>3. IsStrictPrefix(a, b) <=> i = j \div 10
    <3>1. a # b /\ Len(a) <= Len(b) /\ 1 .. Len(a) = {1}
        BY <2>1
    <3> QED
        BY <2>1, <3>1, <1>6
  <2> QED
      BY <2>2, <2>3, <1>2, <1>4, <1>5, <1>8, Digits DEF a, b
<1>9. CASE i >= 10 /\ j < 10
  <2>1. Len(a) = 2 /\ DOMAIN a = {1, 2} /\ a[1] = i \div 10 /\ a[2] = i % 10
        /\ Len(b) = 1 /\ DOMAIN b = {1} /\ b[1] = j
      BY <1>9, TextShape
  <2> HIDE DEF a, b
  <2>2. FirstDiffers <=> i \div 10 < j
      BY <2>1
  <2>3. ~IsStrictPrefix(a, b)
      BY <2>1, <1>6
  <2> QED
      BY <2>2, <2>3, <1>2, <1>3, <1>5, <1>9, Digits DEF a, b
<1>10. CASE i >= 10 /\ j >= 10
  <2>1. Len(a) = 2 /\ DOMAIN a = {1, 2} /\ a[1] = i \div 10 /\ a[2] = i % 10
        /\ Len(b) = 2 /\ DOMAIN b = {1, 2} /\ b[1] = j \div 10 /\ b[2] = j % 10
      BY <1>10, TextShape
  <2> HIDE DEF a, b
  <2>2. FirstDiffers <=> \/ i \div 10 < j \div 10
                         \/ i \div 10 = j \div 10 /\ i % 10 < j % 10
      BY <2>1
  <2>3. ~IsStrictPrefix(a, b)
      BY <2>1, <1>1, <1>6
  <2> QED
      BY <2>2, <2>3, <1>2, <1>3, <1>4, <1>10, Digits DEF a, b
<1> QED
    BY <1>7, <1>8, <1>9, <1>10

\* The results of tasks 1 .. n as the event stores them, and the place of a key
\* among the sorted ones.
Keys(n)       == {Text(i) : i \in 1 .. n}
Stored(n)     == [k \in Keys(n) |-> CHOOSE i \in 1 .. n : Text(i) = k]
Below(n, key) == {k \in Keys(n) : TextLess(k, key)}
Rank(n, key)  == 1 + Cardinality(Below(n, key))

LEMMA StoredAt ==
    ASSUME NEW n \in 0 .. 99, NEW i \in 1 .. n
    PROVE  Text(i) \in Keys(n) /\ Stored(n)[Text(i)] = i
<1>1. Text(i) \in Keys(n)
    BY DEF Keys
<1>2. \A j \in 1 .. n : Text(j) = Text(i) => j = i
  <2> SUFFICES ASSUME NEW j \in 1 .. n, Text(j) = Text(i) PROVE j = i
      OBVIOUS
  <2>1. i \in 1 .. 99 /\ j \in 1 .. 99
      OBVIOUS
  <2> QED
      BY <2>1, TextInjective
<1>3. (CHOOSE j \in 1 .. n : Text(j) = Text(i)) = i
    BY <1>2
<1> QED
    BY <1>1, <1>3 DEF Stored

LEMMA KeysCount ==
    ASSUME NEW n \in 0 .. 99
    PROVE  IsFiniteSet(Keys(n)) /\ Cardinality(Keys(n)) = n
<1> DEFINE f == [i \in 1 .. n |-> Text(i)]
<1>1. f \in [1 .. n -> Keys(n)]
    BY DEF Keys
<1>2. \A i, j \in 1 .. n : f[i] = f[j] => i = j
  <2> SUFFICES ASSUME NEW i \in 1 .. n, NEW j \in 1 .. n, Text(i) = Text(j) PROVE i = j
      OBVIOUS
  <2>1. i \in 1 .. 99 /\ j \in 1 .. 99
      OBVIOUS
  <2> QED
      BY <2>1, TextInjective
<1>3. \A k \in Keys(n) : \E i \in 1 .. n : f[i] = k
    BY DEF Keys
<1> HIDE DEF f
<1>4. f \in Bijection(1 .. n, Keys(n))
    BY <1>1, <1>2, <1>3 DEF Bijection, Injection, Surjection, IsInjective
<1>5. ExistsBijection(1 .. n, Keys(n))
    BY <1>4 DEF ExistsBijection
<1>6. IsFiniteSet(1 .. n) /\ Cardinality(1 .. n) = n
  <2>1. 1 \in Int /\ n \in Int
      OBVIOUS
  <2>2. IsFiniteSet(1 .. n) /\ Cardinality(1 .. n) = IF 1 > n THEN 0 ELSE n - 1 + 1
      BY <2>1, FS_Interval
  <2> QED
      BY <2>2
<1> QED
    BY <1>5, <1>6, FS_Bijection

LEMMA RankIncreases ==
    ASSUME NEW n \in 0 .. 99, NEW i \in 1 .. n, NEW j \in 1 .. n
    PROVE  /\ Rank(n, Text(i)) \in 1 .. n
           /\ Order(i) < Order(j) => Rank(n, Text(i)) < Rank(n, Text(j))
<1> DEFINE A == Below(n, Text(i))
           B == Below(n, Text(j))
<1>0. i \in 1 .. 99 /\ j \in 1 .. 99 /\ 1 .. n \subseteq 1 .. 99
    OBVIOUS
<1>1. /\ \A m \in 1 .. n : Text(m) \in A <=> Order(m) < Order(i)
      /\ \A m \in 1 .. n : Text(m) \in B <=> Order(m) < Order(j)
    BY <1>0, TextLessIsOrder DEF Below, Keys
<1>2. A \subseteq Keys(n) /\ B \subseteq Keys(n)
    BY DEF Below
<1>3. \A m \in 1 .. n : Order(m) \in Nat
    BY <1>0, OrderType
<1>4. Text(i) \in Keys(n) \ A
    BY <1>1, <1>3 DEF Keys
<1> HIDE DEF A, B
<1>5. /\ IsFiniteSet(Keys(n)) /\ IsFiniteSet(A) /\ IsFiniteSet(B)
      /\ Cardinality(Keys(n)) = n /\ Cardinality(A) \in Nat /\ Cardinality(B) \in Nat
    BY <1>2, KeysCount, FS_Subset, FS_CardinalityType
<1>6. Cardinality(A) <= n /\ Cardinality(A) # n
    BY <1>2, <1>4, <1>5, FS_Subset
<1>7. ASSUME Order(i) < Order(j) PROVE Cardinality(A) < Cardinality(B)
  <2>1. A \subseteq B /\ Text(i) \in B
    <3>1. \A k \in A : \E m \in 1 .. n : k = Text(m)
        BY <1>2 DEF Keys
    <3>2. \A m \in 1 .. n : Order(m) < Order(i) => Order(m) < Order(j)
        BY <1>3, <1>7
    <3> QED
        BY <3>1, <3>2, <1>1, <1>7
  <2>2. Cardinality(A) <= Cardinality(B) /\ Cardinality(A) # Cardinality(B)
      BY <2>1, <1>4, <1>5, FS_Subset
  <2> QED
      BY <2>2, <1>5
<1>8. Rank(n, Text(i)) = 1 + Cardinality(A) /\ Rank(n, Text(j)) = 1 + Cardinality(B)
    BY DEF Rank, A, B
<1> QED
    BY <1>5, <1>6, <1>7, <1>8

\* The ranks of the keys are 1 .. n, each taken once.
LEMMA RankIsOnto ==
    ASSUME NEW n \in 0 .. 99
    PROVE  /\ \A i, j \in 1 .. n : Rank(n, Text(i)) = Rank(n, Text(j)) => i = j
           /\ \A r \in 1 .. n : \E i \in 1 .. n : Rank(n, Text(i)) = r
<1> DEFINE f == [i \in 1 .. n |-> Rank(n, Text(i))]
<1>1. \A i \in 1 .. n : Rank(n, Text(i)) \in 1 .. n
    BY RankIncreases
<1>2. \A i, j \in 1 .. n : Rank(n, Text(i)) = Rank(n, Text(j)) => i = j
  <2> SUFFICES ASSUME NEW i \in 1 .. n, NEW j \in 1 .. n, i # j
               PROVE  Rank(n, Text(i)) # Rank(n, Text(j))
      OBVIOUS
  <2>1. i \in 1 .. 99 /\ j \in 1 .. 99
      OBVIOUS
  <2>2. Order(i) < Order(j) \/ Order(j) < Order(i)
    <3>1. Order(i) \in Nat /\ Order(j) \in Nat
        BY <2>1, OrderType
    <3>2. Order(i) # Order(j)
        BY <2>1, OrderInjective
    <3> QED
        BY <3>1, <3>2
  <2>3. Rank(n, Text(i)) < Rank(n, Text(j)) \/ Rank(n, Text(j)) < Rank(n, Text(i))
      BY <2>2, RankIncreases
  <2> QED
      BY <2>3, <1>1
<1>3. f \in [1 .. n -> 1 .. n]
    BY <1>1
<1>4. \A i, j \in 1 .. n : f[i] = f[j] => i = j
    BY <1>2
<1>5. IsFiniteSet(1 .. n)
    BY FS_Interval
<1> HIDE DEF f
<1>6. f \in Injection(1 .. n, 1 .. n)
    BY <1>3, <1>4 DEF Injection, IsInjective
<1>7. f \in Surjection(1 .. n, 1 .. n)
    BY <1>5, <1>6, FS_Injection
<1>8. \A r \in 1 .. n : \E i \in 1 .. n : f[i] = r
    BY <1>7 DEF Surjection
<1> QED
    BY <1>2, <1>8 DEF f

\* What the handler makes of all results: the r-th one is that of the r-th key.
LEMMA HandledResults ==
    ASSUME NEW n \in 0 .. 99
    PROVE  LET x == DefaultResultHandler(Stored(n)) IN
           /\ x \in Seq(1 .. n) /\ Len(x) = n /\ x \in [1 .. n -> 1 .. n]
           /\ \A r \in 1 .. n : Rank(n, Text(x[r])) = r
           /\ \A i \in 1 .. n : x[Rank(n, Text(i))] = i
<1> DEFINE x == DefaultResultHandler(Stored(n))
<1>1. DOMAIN Stored(n) = Keys(n) /\ Cardinality(Keys(n)) = n
    BY KeysCount DEF Stored
<1>2. x = [r \in 1 .. n |-> Stored(n)[CHOOSE key \in Keys(n) : Rank(n, key) = r]]
    BY <1>1 DEF DefaultResultHandler, Rank, Below
<1>3. ASSUME NEW i \in 1 .. n, NEW r \in 1 .. n, Rank(n, Text(i)) = r PROVE x[r] = i
  <2>1. Text(i) \in Keys(n) /\ Rank(n, Text(i)) = r
      BY <1>3, StoredAt
  <2>2. \A key \in Keys(n) : Rank(n, key) = r => key = Text(i)
      BY <1>3, RankIsOnto DEF Keys
  <2>3. (CHOOSE key \in Keys(n) : Rank(n, key) = r) = Text(i)
      BY <2>1, <2>2
  <2>4. x[r] = Stored(n)[CHOOSE key \in Keys(n) : Rank(n, key) = r]
      BY <1>2
  <2> QED
      BY <2>3, <2>4, StoredAt
<1> HIDE DEF x
<1>4. \A r \in 1 .. n : x[r] \in 1 .. n /\ Rank(n, Text(x[r])) = r
  <2> TAKE r \in 1 .. n
  <2>1. PICK i \in 1 .. n : Rank(n, Text(i)) = r
      BY RankIsOnto
  <2> QED
      BY <2>1, <1>3
<1>5. \A i \in 1 .. n : x[Rank(n, Text(i))] = i
    BY <1>3, RankIncreases
<1>6. x \in [1 .. n -> 1 .. n]
    BY <1>2, <1>4
<1>7. x \in Seq(1 .. n) /\ Len(x) = n
  <2>1. n \in Nat /\ DOMAIN x = 1 .. n
      BY <1>6
  <2>2. x \in Seq(1 .. n)
      BY <1>6, <2>1
  <2>3. Len(x) \in Nat /\ DOMAIN x = 1 .. Len(x)
      BY <2>2
  <2> QED
      BY <2>1, <2>2, <2>3
<1> QED
    BY <1>4, <1>5, <1>6, <1>7 DEF x

\* No result is lost or repeated, and the order is that of the commands up to
\* nine of them only.
LEMMA HandlerIsExact ==
    ASSUME NEW n \in 0 .. 99
    PROVE  LET x == DefaultResultHandler(Stored(n)) IN
           /\ Len(x) = n /\ ToSet(x) = 1 .. n
           /\ (\A i, j \in DOMAIN x : i < j => x[i] < x[j]) <=> n < 10
<1> DEFINE x == DefaultResultHandler(Stored(n))
<1>1. /\ Len(x) = n /\ x \in [1 .. n -> 1 .. n]
      /\ \A r \in 1 .. n : Rank(n, Text(x[r])) = r
      /\ \A i \in 1 .. n : x[Rank(n, Text(i))] = i
    BY HandledResults
<1> HIDE DEF x
<1>2. ToSet(x) = 1 .. n
  <2>1. \A i \in 1 .. n : Rank(n, Text(i)) \in 1 .. n
      BY RankIncreases
  <2> QED
      BY <1>1, <2>1 DEF ToSet
<1>3. ASSUME n < 10, NEW i \in 1 .. n, NEW j \in 1 .. n, i < j PROVE x[i] < x[j]
  <2> SUFFICES ASSUME x[j] <= x[i] PROVE FALSE
      BY <1>1
  <2>0. x[i] \in 1 .. n /\ x[j] \in 1 .. n /\ Rank(n, Text(x[i])) = i /\ Rank(n, Text(x[j])) = j
      BY <1>1
  <2>1. x[i] \in 1 .. 9 /\ x[j] \in 1 .. 9 /\ x[i] # x[j]
      BY <2>0, <1>3
  <2>2. Order(x[j]) < Order(x[i])
      BY <2>1 DEF Order
  <2>3. Rank(n, Text(x[j])) < Rank(n, Text(x[i]))
      BY <2>2, <1>1, <1>3, RankIncreases
  <2> QED
      BY <2>3, <1>1, <1>3
<1>4. ASSUME n >= 10 PROVE \E i, j \in 1 .. n : i < j /\ ~(x[i] < x[j])
  <2>1. 10 \in 1 .. n /\ 2 \in 1 .. n
      BY <1>4
  <2>2. Order(10) < Order(2)
      BY DEF Order
  <2>3. /\ Rank(n, Text(10)) < Rank(n, Text(2))
        /\ Rank(n, Text(10)) \in 1 .. n /\ Rank(n, Text(2)) \in 1 .. n
      BY <2>1, <2>2, RankIncreases
  <2>4. x[Rank(n, Text(10))] = 10 /\ x[Rank(n, Text(2))] = 2
      BY <2>1, <1>1
  <2> QED
      BY <2>3, <2>4
<1>5. DOMAIN x = 1 .. n
    BY <1>1
<1>6. (\A i, j \in DOMAIN x : i < j => x[i] < x[j]) <=> n < 10
    BY <1>3, <1>4, <1>5
<1> QED
    BY <1>1, <1>2, <1>6 DEF x

-----------------------------------------------------------------------------
(* The inductive invariant.                                                *)

Statuses == {"scheduled", "deferred", "open", "streaming", "fired", "success", "failed"}
Hooks    == [conn : Versions \cup {NoConn}, ca : CaContents \cup {NoCa, Unread}]
Channel  == [target : STRING \X Nat, ssl : BOOLEAN, ca : CaContents \cup {NoCa},
             state : {"USABLE", "SHUTDOWN", "UNREADABLE"}]

\* A function of the tasks, whatever its values.
OnTasks(f) == f = [t \in Tasks |-> f[t]]

Types ==
    /\ input \in [Tasks -> Inputs]
    /\ status \in [Tasks -> Statuses]
    /\ hook \in [Tasks -> Hooks]
    /\ OnTasks(call) /\ OnTasks(event) /\ OnTasks(xcom)
    /\ channels \in Seq(Channel)
    /\ conns \in [ConnIds -> Versions \cup {NoConn}]
    /\ caFile \in CaContents \cup {"unreadable"}

KeyOf(ch) == channel_pool_key(ch.target, ch.ssl, ch.ca)

\* The pool holds, under the key of every channel that was ever created, the
\* newest one with that key.
PoolIsLatest ==
    /\ pool = [k \in DOMAIN pool |-> pool[k]]
    /\ \A k \in DOMAIN pool : pool[k] \in DOMAIN channels /\ KeyOf(channels[pool[k]]) = k
    /\ \A i \in DOMAIN channels :
          KeyOf(channels[i]) \in DOMAIN pool /\ i <= pool[KeyOf(channels[i])]

\* A trigger past get_async_conn has a connection.
Resolved(t) == status[t] \in {"open", "streaming"} => hook[t].conn \in Versions

\* The call of t is made with the connection of its hook alone.
CallOf(t) ==
    LET conn == hook[t].conn
        ch   == channels[call[t].channel]
    IN  /\ call[t].channel \in DOMAIN channels
        /\ ch.target = target(conn) /\ ch.ssl = use_ssl(conn)
        /\ ch.ssl /\ conn.caPath => Trust(ch.ca) = Trust(hook[t].ca)
        /\ ch.ssl /\ ~conn.caPath => Trust(ch.ca) = NoCa
        /\ call[t].metadata = call_metadata(conn, input[t].metadata)

\* An event of success carries every result, and only such an event is stored.
ResultsOf(t) ==
    /\ status[t] = "fired" /\ event[t].state = "SUCCESS"
          => event[t].results = Stored(input[t].length)
    /\ status[t] = "success" => xcom[t] = DefaultResultHandler(Stored(input[t].length))
    /\ status[t] # "success" => xcom[t] = <<>>

Sound(t) == Resolved(t) /\ (status[t] = "streaming" => CallOf(t)) /\ ResultsOf(t)

Inv == Types /\ PoolIsLatest /\ ChannelIsShared /\ \A t \in Tasks : Sound(t)

-----------------------------------------------------------------------------
(* The pool.                                                               *)

\* Two channels have the same key when they have the same parameters, up to what
\* an empty CA file and none have in common.
LEMMA KeyIsParameters ==
    ASSUME NEW a \in Channel, NEW b \in Channel
    PROVE  KeyOf(a) = KeyOf(b) <=> a.target = b.target /\ a.ssl = b.ssl /\ Trust(a.ca) = Trust(b.ca)
<1> DEFINE d(ca) == IF ca \in {NoCa, EmptyFile} THEN "" ELSE ca
<1>1. KeyOf(a) = <<a.target, a.ssl, d(a.ca)>> /\ KeyOf(b) = <<b.target, b.ssl, d(b.ca)>>
    BY DEF KeyOf, channel_pool_key
<1>2. a.ca \in CaContents \cup {NoCa} /\ b.ca \in CaContents \cup {NoCa}
    BY DEF Channel
<1>3. d(a.ca) = d(b.ca) <=> Trust(a.ca) = Trust(b.ca)
    BY <1>2, ProviderAssumption DEF Trust
<1> HIDE DEF d
<1>4. <<a.target, a.ssl, d(a.ca)>> = <<b.target, b.ssl, d(b.ca)>>
          <=> a.target = b.target /\ a.ssl = b.ssl /\ d(a.ca) = d(b.ca)
    OBVIOUS
<1> QED
    BY <1>1, <1>3, <1>4, Zenon

LEMMA ChannelOf ==
    ASSUME Types, NEW i \in DOMAIN channels PROVE channels[i] \in Channel
BY DEF Types

\* A channel is created only when there is no usable one with its key.
LEMMA CreateKeepsPool ==
    ASSUME Types, PoolIsLatest, ChannelIsShared,
           NEW tgt, NEW ssl, NEW ca,
           [target |-> tgt, ssl |-> ssl, ca |-> ca, state |-> "USABLE"] \in Channel,
           ~Reusable(channel_pool_key(tgt, ssl, ca)),
           CreateChannel(channel_pool_key(tgt, ssl, ca), tgt, ssl, ca)
    PROVE  PoolIsLatest' /\ ChannelIsShared' /\ channels' \in Seq(Channel)
<1> DEFINE key == channel_pool_key(tgt, ssl, ca)
           new == [target |-> tgt, ssl |-> ssl, ca |-> ca, state |-> "USABLE"]
           n   == Len(channels) + 1
<1>1. KeyOf(new) = key /\ new \in Channel
    BY DEF KeyOf
<1> HIDE DEF new
<1>2. channels \in Seq(Channel) /\ channels' = Append(channels, new)
    BY DEF Types, CreateChannel, new
<1>3. /\ channels' \in Seq(Channel) /\ Len(channels) \in Nat
      /\ DOMAIN channels = 1 .. Len(channels) /\ DOMAIN channels' = 1 .. n
      /\ channels'[n] = new /\ \A i \in DOMAIN channels : channels'[i] = channels[i]
    BY <1>1, <1>2
<1> HIDE DEF key
<1>4. pool' = [k \in DOMAIN pool \cup {key} |-> IF k = key THEN n ELSE pool[k]]
    BY DEF CreateChannel, key
<1>5. PoolIsLatest'
  <2>1. /\ DOMAIN pool' = DOMAIN pool \cup {key} /\ pool'[key] = n
        /\ \A k \in DOMAIN pool \ {key} : pool'[k] = pool[k]
        /\ pool' = [k \in DOMAIN pool' |-> pool'[k]]
      BY <1>4
  <2>2. ASSUME NEW k \in DOMAIN pool' PROVE pool'[k] \in DOMAIN channels' /\ KeyOf(channels'[pool'[k]]) = k
    <3>1. CASE k = key
        BY <3>1, <2>1, <1>1, <1>3
    <3>2. CASE k # key
      <4>1. pool[k] \in DOMAIN channels /\ KeyOf(channels[pool[k]]) = k /\ pool'[k] = pool[k]
          BY <3>2, <2>1 DEF PoolIsLatest
      <4> QED
          BY <4>1, <1>3
    <3> QED
        BY <3>1, <3>2
  <2>3. ASSUME NEW i \in DOMAIN channels'
        PROVE  KeyOf(channels'[i]) \in DOMAIN pool' /\ i <= pool'[KeyOf(channels'[i])]
    <3>1. CASE i = n
        BY <3>1, <2>1, <1>1, <1>3
    <3>2. CASE i # n
      <4>1. i \in DOMAIN channels /\ channels'[i] = channels[i] /\ i <= n /\ i \in Nat
          BY <3>2, <1>3
      <4>2. KeyOf(channels[i]) \in DOMAIN pool /\ i <= pool[KeyOf(channels[i])]
          BY <4>1 DEF PoolIsLatest
      <4> QED
          BY <4>1, <4>2, <2>1
    <3> QED
        BY <3>1, <3>2
  <2> QED
      BY <2>1, <2>2, <2>3 DEF PoolIsLatest
<1>6. ASSUME NEW i \in DOMAIN channels, KeyOf(channels[i]) = key
      PROVE  channels[i].state # "USABLE"
  <2>1. /\ key \in DOMAIN pool /\ i <= pool[key] /\ pool[key] \in DOMAIN channels
        /\ KeyOf(channels[pool[key]]) = key
      BY <1>6 DEF PoolIsLatest
  <2>2. channels[pool[key]].state # "USABLE"
      BY <2>1 DEF Reusable, key
  <2>3. CASE i = pool[key]
      BY <2>2, <2>3
  <2>4. CASE i < pool[key]
    <3>1. channels[i] \in Channel /\ channels[pool[key]] \in Channel
        BY <2>1, ChannelOf
    <3>2. /\ channels[i].target = channels[pool[key]].target /\ channels[i].ssl = channels[pool[key]].ssl
          /\ Trust(channels[i].ca) = Trust(channels[pool[key]].ca)
        BY <3>1, <2>1, <1>6, KeyIsParameters
    <3> QED
        BY <2>1, <2>4, <3>2 DEF ChannelIsShared
  <2> QED
      BY <2>1, <2>3, <2>4, <1>3
<1>7. ChannelIsShared'
  <2> SUFFICES ASSUME NEW i \in 1 .. n, NEW j \in 1 .. n, i < j,
                      channels'[i].target = channels'[j].target, channels'[i].ssl = channels'[j].ssl,
                      Trust(channels'[i].ca) = Trust(channels'[j].ca)
               PROVE  channels'[i].state # "USABLE"
      BY <1>3 DEF ChannelIsShared, Trust
  <2>1. i \in DOMAIN channels /\ channels'[i] = channels[i]
      BY <1>3
  <2>2. CASE j # n
    <3>1. j \in DOMAIN channels /\ channels'[j] = channels[j]
        BY <2>2, <1>3
    <3> QED
        BY <2>1, <3>1 DEF ChannelIsShared
  <2>3. CASE j = n
    <3>1. channels[i] \in Channel /\ channels'[j] = new
        BY <2>1, <2>3, <1>3, ChannelOf
    <3>2. KeyOf(channels[i]) = key
        BY <3>1, <2>1, <1>1, KeyIsParameters
    <3> QED
        BY <3>2, <2>1, <1>6
  <2> QED
      BY <2>2, <2>3
<1> QED
    BY <1>3, <1>5, <1>7

\* A channel that breaks keeps its place and its key.
LEMMA BreakKeepsPool ==
    ASSUME Types, PoolIsLatest, ChannelIsShared, NEW i \in DOMAIN channels,
           NEW st \in {"SHUTDOWN", "UNREADABLE"},
           channels' = [channels EXCEPT ![i].state = st], pool' = pool
    PROVE  /\ PoolIsLatest' /\ ChannelIsShared' /\ channels' \in Seq(Channel)
           /\ DOMAIN channels' = DOMAIN channels
           /\ \A j \in DOMAIN channels : /\ channels'[j].target = channels[j].target
                                         /\ channels'[j].ssl = channels[j].ssl
                                         /\ channels'[j].ca = channels[j].ca
<1>1. /\ channels \in Seq(Channel) /\ channels[i] \in Channel
      /\ Len(channels) \in Nat /\ DOMAIN channels = 1 .. Len(channels)
    BY DEF Types
<1> DEFINE new == [channels[i] EXCEPT !.state = st]
<1>2. /\ new \in Channel /\ new.target = channels[i].target /\ new.ssl = channels[i].ssl
      /\ new.ca = channels[i].ca /\ new.state = st
    BY <1>1 DEF Channel
<1>3. channels' = [channels EXCEPT ![i] = new]
    OBVIOUS
<1> HIDE DEF new
<1>4. /\ channels' \in Seq(Channel) /\ DOMAIN channels' = DOMAIN channels
      /\ channels'[i] = new /\ \A j \in DOMAIN channels \ {i} : channels'[j] = channels[j]
    BY <1>1, <1>2, <1>3
<1>5. \A j \in DOMAIN channels : /\ channels'[j].target = channels[j].target
                                /\ channels'[j].ssl = channels[j].ssl /\ channels'[j].ca = channels[j].ca
                                /\ channels'[j].state = "USABLE" => channels[j].state = "USABLE"
    BY <1>2, <1>4
<1>6. \A j \in DOMAIN channels : KeyOf(channels'[j]) = KeyOf(channels[j])
    BY <1>5 DEF KeyOf
<1>7. PoolIsLatest'
    BY <1>4, <1>6 DEF PoolIsLatest
<1>8. ChannelIsShared'
    BY <1>4, <1>5 DEF ChannelIsShared, Trust
<1> QED
    BY <1>4, <1>5, <1>7, <1>8

-----------------------------------------------------------------------------
(* Initially, and at every step.                                           *)

LEMMA InvInit == Init => Inv
<1> SUFFICES ASSUME Init PROVE Inv
    OBVIOUS
<1>1. NewHook \in Hooks
    BY DEF NewHook, Hooks
<1>2. channels = <<>> /\ pool = <<>> /\ DOMAIN channels = {} /\ DOMAIN pool = {}
    BY DEF Init
<1>3. Types
  <2>1. OnTasks(call) /\ OnTasks(event) /\ OnTasks(xcom)
      BY DEF Init, OnTasks
  <2>2. channels \in Seq(Channel)
      BY <1>2
  <2> QED
      BY <1>1, <2>1, <2>2 DEF Init, Types, Statuses
<1>4. PoolIsLatest /\ ChannelIsShared
  <2>1. pool = [k \in DOMAIN pool |-> pool[k]]
      BY <1>2
  <2> QED
      BY <1>2, <2>1 DEF PoolIsLatest, ChannelIsShared
<1>5. ASSUME NEW t \in Tasks PROVE Sound(t)
    BY DEF Init, Sound, Resolved, ResultsOf
<1> QED
    BY <1>3, <1>4, <1>5 DEF Inv

\* Channels keep their place and their parameters until the process dies.
ChannelsKept ==
    \A i \in DOMAIN channels :
        /\ i \in DOMAIN channels'
        /\ channels'[i].target = channels[i].target
        /\ channels'[i].ssl = channels[i].ssl /\ channels'[i].ca = channels[i].ca

\* Whatever happens to others, a task stays sound.
LEMMA Untouched ==
    ASSUME NEW d \in Tasks, Sound(d), ChannelsKept, input' = input,
           status'[d] = status[d], hook'[d] = hook[d], call'[d] = call[d],
           event'[d] = event[d], xcom'[d] = xcom[d]
    PROVE  Sound(d)'
<1>1. Resolved(d)'
    BY DEF Sound, Resolved
<1>2. ResultsOf(d)'
    BY DEF Sound, ResultsOf
<1>3. status'[d] = "streaming" => CallOf(d)'
    BY DEF Sound, CallOf, ChannelsKept
<1> QED
    BY <1>1, <1>2, <1>3 DEF Sound

LEMMA ExceptOnTasks ==
    ASSUME NEW f, OnTasks(f), NEW t \in Tasks, NEW e
    PROVE  LET g == [f EXCEPT ![t] = e] IN
           OnTasks(g) /\ g[t] = e /\ \A d \in Tasks \ {t} : g[d] = f[d]
BY DEF OnTasks

LEMMA SamePool ==
    ASSUME Inv, UNCHANGED <<channels, pool>>
    PROVE  PoolIsLatest' /\ ChannelIsShared' /\ channels' \in Seq(Channel) /\ ChannelsKept
BY DEF Inv, Types, PoolIsLatest, ChannelIsShared, Trust, ChannelsKept

\* A step of task t that leaves the others and the surroundings alone.
LEMMA TaskStepKeeps ==
    ASSUME Inv, NEW t \in Tasks,
           PoolIsLatest', ChannelIsShared', channels' \in Seq(Channel), ChannelsKept,
           input' = input, conns' = conns, caFile' = caFile,
           status' \in [Tasks -> Statuses], hook' \in [Tasks -> Hooks],
           OnTasks(call)', OnTasks(event)', OnTasks(xcom)',
           \A d \in Tasks \ {t} : /\ status'[d] = status[d] /\ hook'[d] = hook[d]
                                  /\ call'[d] = call[d] /\ event'[d] = event[d] /\ xcom'[d] = xcom[d],
           Sound(t)'
    PROVE  Inv'
<1>1. Types'
    BY DEF Inv, Types
<1>2. ASSUME NEW d \in Tasks, d # t PROVE Sound(d)'
    BY <1>2, Untouched DEF Inv
<1> QED
    BY <1>1, <1>2 DEF Inv

LEMMA InvTypes ==
    ASSUME Inv
    PROVE  /\ input \in [Tasks -> Inputs] /\ status \in [Tasks -> Statuses] /\ hook \in [Tasks -> Hooks]
           /\ OnTasks(call) /\ OnTasks(event) /\ OnTasks(xcom)
           /\ conns \in [ConnIds -> Versions \cup {NoConn}] /\ caFile \in CaContents \cup {"unreadable"}
BY DEF Inv, Types

LEMMA NewHookType == NewHook \in Hooks
BY DEF NewHook, Hooks

\* A trigger fires.
LEMMA YieldKeeps ==
    ASSUME Inv, NEW t \in Tasks, NEW state, NEW tids, Yield(t, state, tids),
           status[t] # "success", UNCHANGED <<poolVars, envVars>>,
           state = "SUCCESS" => tids = 1 .. input[t].length
    PROVE  Inv'
<1> DEFINE res == [k \in {Text(i) : i \in tids} |-> CHOOSE i \in tids : Text(i) = k]
           ev  == [state |-> state, results |-> res]
<1>1. /\ event' = [event EXCEPT ![t] = ev] /\ status' = [status EXCEPT ![t] = "fired"]
      /\ call' = [call EXCEPT ![t] = NoCall] /\ hook' = [hook EXCEPT ![t] = NewHook]
      /\ input' = input /\ xcom' = xcom
    BY DEF Yield
<1>2. UNCHANGED <<channels, pool, conns, caFile>>
    BY DEF poolVars, envVars
<1>3. state = "SUCCESS" => res = Stored(input[t].length)
    BY DEF Stored, Keys
<1>4. ev.state = state /\ ev.results = res
    OBVIOUS
<1> HIDE DEF ev, res
<1>5. /\ OnTasks(call)' /\ OnTasks(event)' /\ OnTasks(xcom)' /\ event'[t] = ev
      /\ \A d \in Tasks \ {t} : call'[d] = call[d] /\ event'[d] = event[d] /\ xcom'[d] = xcom[d]
    BY <1>1, InvTypes, ExceptOnTasks DEF OnTasks
<1>6. /\ status' \in [Tasks -> Statuses] /\ hook' \in [Tasks -> Hooks] /\ status'[t] = "fired"
      /\ \A d \in Tasks \ {t} : status'[d] = status[d] /\ hook'[d] = hook[d]
    BY <1>1, InvTypes, NewHookType DEF Statuses
<1>7. xcom[t] = <<>>
    BY DEF Inv, Sound, ResultsOf
<1>8. Sound(t)'
    BY <1>1, <1>3, <1>4, <1>5, <1>6, <1>7 DEF Sound, Resolved, ResultsOf
<1> QED
    BY <1>1, <1>2, <1>5, <1>6, <1>8, SamePool, TaskStepKeeps

LEMMA ExecuteKeeps == ASSUME Inv, NEW t \in Tasks, execute(t) PROVE Inv'
<1>1. /\ status[t] = "scheduled" /\ UNCHANGED <<input, event, xcom, hook, call, channels, pool, conns, caFile>>
      /\ \E s \in {"deferred", "failed"} : status' = [status EXCEPT ![t] = s]
    BY DEF execute, triggerVars, poolVars, envVars
<1>2. /\ status' \in [Tasks -> Statuses] /\ status'[t] \in {"deferred", "failed"}
      /\ \A d \in Tasks \ {t} : status'[d] = status[d]
    BY <1>1, InvTypes DEF Statuses
<1>3. Sound(t)'
    BY <1>1, <1>2 DEF Inv, Sound, Resolved, ResultsOf
<1>4. OnTasks(call)' /\ OnTasks(event)' /\ OnTasks(xcom)' /\ hook' \in [Tasks -> Hooks]
    BY <1>1, InvTypes DEF OnTasks
<1> QED
    BY <1>1, <1>2, <1>3, <1>4, SamePool, TaskStepKeeps

LEMMA CompleteKeeps == ASSUME Inv, NEW t \in Tasks, execute_complete(t) PROVE Inv'
<1> DEFINE x == DefaultResultHandler(event[t].results)
<1>1. /\ status[t] = "fired" /\ UNCHANGED <<input, hook, call, channels, pool, conns, caFile>>
      /\ event' = [event EXCEPT ![t] = NoEvent]
      /\ \/ /\ event[t].state = "SUCCESS" /\ status' = [status EXCEPT ![t] = "success"]
            /\ xcom' = [xcom EXCEPT ![t] = x]
         \/ /\ status' = [status EXCEPT ![t] = "failed"] /\ xcom' = xcom
    BY DEF execute_complete, triggerVars, poolVars, envVars
<1>2. event[t].state = "SUCCESS" => x = DefaultResultHandler(Stored(input[t].length))
    BY <1>1 DEF Inv, Sound, ResultsOf
<1>3. xcom[t] = <<>>
    BY <1>1 DEF Inv, Sound, ResultsOf
<1> HIDE DEF x
<1>4. /\ OnTasks(call)' /\ OnTasks(event)' /\ hook' \in [Tasks -> Hooks]
      /\ \A d \in Tasks \ {t} : event'[d] = event[d]
    BY <1>1, InvTypes, ExceptOnTasks DEF OnTasks
<1>5. CASE event[t].state = "SUCCESS" /\ status' = [status EXCEPT ![t] = "success"] /\ xcom' = [xcom EXCEPT ![t] = x]
  <2>1. OnTasks(xcom)' /\ xcom'[t] = x /\ \A d \in Tasks \ {t} : xcom'[d] = xcom[d]
      BY <1>5, InvTypes, ExceptOnTasks DEF OnTasks
  <2>2. /\ status' \in [Tasks -> Statuses] /\ status'[t] = "success"
        /\ \A d \in Tasks \ {t} : status'[d] = status[d]
      BY <1>5, InvTypes DEF Statuses
  <2>3. Sound(t)'
      BY <1>1, <1>2, <1>5, <2>1, <2>2 DEF Sound, Resolved, ResultsOf
  <2> QED
      BY <1>1, <1>4, <2>1, <2>2, <2>3, SamePool, TaskStepKeeps
<1>6. CASE status' = [status EXCEPT ![t] = "failed"] /\ xcom' = xcom
  <2>1. OnTasks(xcom)'
      BY <1>6, InvTypes DEF OnTasks
  <2>2. /\ status' \in [Tasks -> Statuses] /\ status'[t] = "failed"
        /\ \A d \in Tasks \ {t} : status'[d] = status[d]
      BY <1>6, InvTypes DEF Statuses
  <2>3. Sound(t)'
      BY <1>3, <1>6, <2>2 DEF Sound, Resolved, ResultsOf
  <2> QED
      BY <1>1, <1>4, <1>6, <2>1, <2>2, <2>3, SamePool, TaskStepKeeps
<1> QED
    BY <1>1, <1>5, <1>6

\* get_async_conn resolves the connection.
LEMMA ResolveKeeps ==
    ASSUME Inv, NEW t \in Tasks, status[t] = "deferred", NEW conn \in Versions,
           hook' = [hook EXCEPT ![t].conn = conn], status' = [status EXCEPT ![t] = "open"],
           UNCHANGED <<input, event, xcom, call, channels, pool, conns, caFile>>
    PROVE  Inv'
<1>1. /\ hook' \in [Tasks -> Hooks] /\ hook'[t].conn = conn
      /\ \A d \in Tasks \ {t} : hook'[d] = hook[d]
    BY InvTypes DEF Hooks
<1>2. /\ status' \in [Tasks -> Statuses] /\ status'[t] = "open"
      /\ \A d \in Tasks \ {t} : status'[d] = status[d]
    BY InvTypes DEF Statuses
<1>3. OnTasks(call)' /\ OnTasks(event)' /\ OnTasks(xcom)'
    BY InvTypes DEF OnTasks
<1>4. Sound(t)'
    BY <1>1, <1>2 DEF Inv, Sound, Resolved, ResultsOf
<1> QED
    BY <1>1, <1>2, <1>3, <1>4, SamePool, TaskStepKeeps

LEMMA RetryKeeps == ASSUME Inv, NEW t \in Tasks, RetryCall(t) PROVE Inv'
<1>1. /\ status[t] = "streaming" /\ status' = [status EXCEPT ![t] = "open"]
      /\ call' = [call EXCEPT ![t] = NoCall]
      /\ UNCHANGED <<input, event, xcom, hook, channels, pool, conns, caFile>>
    BY DEF RetryCall, poolVars, envVars
<1>2. /\ OnTasks(call)' /\ OnTasks(event)' /\ OnTasks(xcom)' /\ hook' \in [Tasks -> Hooks]
      /\ \A d \in Tasks \ {t} : call'[d] = call[d]
    BY <1>1, InvTypes, ExceptOnTasks DEF OnTasks
<1>3. /\ status' \in [Tasks -> Statuses] /\ status'[t] = "open"
      /\ \A d \in Tasks \ {t} : status'[d] = status[d]
    BY <1>1, InvTypes DEF Statuses
<1>4. Sound(t)'
    BY <1>1, <1>3 DEF Inv, Sound, Resolved, ResultsOf
<1> QED
    BY <1>1, <1>2, <1>3, <1>4, SamePool, TaskStepKeeps

\* What a channel is made of.
LEMMA ParametersType ==
    ASSUME Inv, NEW t \in Tasks, status[t] = "open", ca_cert(t) # "unreadable"
    PROVE  /\ hook[t].conn \in Versions
           /\ ca_cert(t) \in CaContents \cup {NoCa}
           /\ use_ssl(hook[t].conn) /\ ~hook[t].conn.caPath => ca_cert(t) = NoCa
           /\ [target |-> target(hook[t].conn), ssl |-> use_ssl(hook[t].conn),
               ca |-> ca_cert(t), state |-> "USABLE"] \in Channel
<1> DEFINE conn == hook[t].conn
<1>1. conn \in Versions
    BY DEF Inv, Sound, Resolved
<1>2. ca_cert(t) \in CaContents \cup {NoCa}
  <2>1. hook[t].ca \in CaContents \cup {NoCa, Unread} /\ caFile \in CaContents \cup {"unreadable"}
      BY InvTypes DEF Hooks
  <2> QED
      BY <2>1 DEF ca_cert
<1>3. conn \in Connections
    BY <1>1, ProviderAssumption
<1> HIDE DEF conn
<1>4. conn.host \in STRING /\ conn.port \in Nat
    BY <1>3 DEF Connections
<1>5. target(conn) \in STRING \X Nat
    BY <1>4 DEF target, DefaultPort
<1>6. use_ssl(conn) \in BOOLEAN
    BY DEF use_ssl
<1>7. [target |-> target(conn), ssl |-> use_ssl(conn), ca |-> ca_cert(t), state |-> "USABLE"] \in Channel
    BY <1>2, <1>5, <1>6 DEF Channel
<1>8. use_ssl(conn) /\ ~conn.caPath => ca_cert(t) = NoCa
    BY DEF ca_cert, conn
<1> QED
    BY <1>1, <1>2, <1>7, <1>8 DEF conn

\* The channel the pool gives out, old or new, has the parameters that were asked
\* for.
LEMMA OpenedChannel ==
    ASSUME Inv, NEW t \in Tasks, OpenCall(t)
    PROVE  LET conn == hook[t].conn IN
           /\ PoolIsLatest' /\ ChannelIsShared' /\ channels' \in Seq(Channel) /\ ChannelsKept
           /\ \E n \in DOMAIN channels' :
                 /\ call' = [call EXCEPT ![t] =
                       [channel |-> n, metadata |-> call_metadata(conn, input[t].metadata)]]
                 /\ channels'[n].target = target(conn) /\ channels'[n].ssl = use_ssl(conn)
                 /\ Trust(channels'[n].ca) = Trust(ca_cert(t))
<1> DEFINE tgt == target(hook[t].conn)
           ssl == use_ssl(hook[t].conn)
           ca  == ca_cert(t)
           key == channel_pool_key(tgt, ssl, ca)
           md  == call_metadata(hook[t].conn, input[t].metadata)
           new == [target |-> tgt, ssl |-> ssl, ca |-> ca, state |-> "USABLE"]
<1>1. \/ /\ Reusable(key) /\ call' = [call EXCEPT ![t] = [channel |-> pool[key], metadata |-> md]]
         /\ UNCHANGED <<channels, pool>>
      \/ /\ ~Reusable(key) /\ CreateChannel(key, tgt, ssl, ca)
         /\ call' = [call EXCEPT ![t] = [channel |-> Len(channels) + 1, metadata |-> md]]
    BY DEF OpenCall, poolVars
<1>2. new \in Channel
    BY ParametersType DEF OpenCall
<1>3. new.target = tgt /\ new.ssl = ssl /\ new.ca = ca /\ new.state = "USABLE" /\ KeyOf(new) = key
    BY DEF KeyOf
<1>4. Types /\ PoolIsLatest /\ ChannelIsShared /\ channels \in Seq(Channel)
    BY DEF Inv, Types
<1> HIDE DEF tgt, ssl, ca, md
<1>5. CASE /\ Reusable(key) /\ call' = [call EXCEPT ![t] = [channel |-> pool[key], metadata |-> md]]
           /\ UNCHANGED <<channels, pool>>
  <2> DEFINE n == pool[key]
  <2> HIDE DEF key, new
  <2>1. n \in DOMAIN channels /\ KeyOf(channels[n]) = key /\ channels[n].state = "USABLE"
      BY <1>4, <1>5 DEF Reusable, PoolIsLatest
  <2>2. channels[n] \in Channel
      BY <1>4, <2>1, ChannelOf
  <2>3. channels[n].target = tgt /\ channels[n].ssl = ssl /\ Trust(channels[n].ca) = Trust(ca)
      BY <1>2, <1>3, <2>1, <2>2, KeyIsParameters
  <2>4. n \in DOMAIN channels' /\ channels'[n] = channels[n] /\ call' = [call EXCEPT ![t] = [channel |-> n, metadata |-> md]]
      BY <1>5, <2>1
  <2>5. PoolIsLatest' /\ ChannelIsShared' /\ channels' \in Seq(Channel) /\ ChannelsKept
      BY <1>5, SamePool
  <2> HIDE DEF n
  <2> QED
      BY <2>1, <2>3, <2>4, <2>5 DEF tgt, ssl, ca, md
<1>6. CASE /\ ~Reusable(key) /\ CreateChannel(key, tgt, ssl, ca)
           /\ call' = [call EXCEPT ![t] = [channel |-> Len(channels) + 1, metadata |-> md]]
  <2>1. PoolIsLatest' /\ ChannelIsShared' /\ channels' \in Seq(Channel)
      BY <1>2, <1>4, <1>6, CreateKeepsPool
  <2>2. channels' = Append(channels, new)
      BY <1>6 DEF CreateChannel
  <2> DEFINE n == Len(channels) + 1
  <2> HIDE DEF key, new
  <2>3. /\ n \in DOMAIN channels' /\ channels'[n] = new
        /\ \A i \in DOMAIN channels : i \in DOMAIN channels' /\ channels'[i] = channels[i]
      BY <1>2, <1>4, <2>2
  <2>4. ChannelsKept
      BY <2>3 DEF ChannelsKept
  <2> HIDE DEF n
  <2>5. call' = [call EXCEPT ![t] = [channel |-> n, metadata |-> md]]
      BY <1>6 DEF n
  <2> QED
      BY <1>3, <2>1, <2>3, <2>4, <2>5 DEF tgt, ssl, ca, md
<1> QED
    BY <1>1, <1>5, <1>6

LEMMA OpenKeeps == ASSUME Inv, NEW t \in Tasks, OpenCall(t) PROVE Inv'
<1> DEFINE conn == hook[t].conn
           md   == call_metadata(conn, input[t].metadata)
<1>1. /\ status[t] = "open" /\ status' = [status EXCEPT ![t] = "streaming"]
      /\ hook' = [hook EXCEPT ![t].ca = IF use_ssl(conn) THEN ca_cert(t) ELSE @]
      /\ UNCHANGED <<input, event, xcom, conns, caFile>>
    BY DEF OpenCall, envVars
<1>2. /\ conn \in Versions /\ ca_cert(t) \in CaContents \cup {NoCa}
      /\ use_ssl(conn) /\ ~conn.caPath => ca_cert(t) = NoCa
    BY <1>1, ParametersType DEF OpenCall
<1>3. /\ hook' \in [Tasks -> Hooks] /\ hook'[t].conn = conn
      /\ use_ssl(conn) => hook'[t].ca = ca_cert(t)
      /\ \A d \in Tasks \ {t} : hook'[d] = hook[d]
    BY <1>1, <1>2, InvTypes DEF Hooks
<1>4. /\ status' \in [Tasks -> Statuses] /\ status'[t] = "streaming"
      /\ \A d \in Tasks \ {t} : status'[d] = status[d]
    BY <1>1, InvTypes DEF Statuses
<1>5. PICK n \in DOMAIN channels' :
          /\ call' = [call EXCEPT ![t] = [channel |-> n, metadata |-> md]]
          /\ channels'[n].target = target(conn) /\ channels'[n].ssl = use_ssl(conn)
          /\ Trust(channels'[n].ca) = Trust(ca_cert(t))
    BY OpenedChannel
<1>6. PoolIsLatest' /\ ChannelIsShared' /\ channels' \in Seq(Channel) /\ ChannelsKept
    BY OpenedChannel
<1> HIDE DEF md
<1>7. /\ OnTasks(call)' /\ OnTasks(event)' /\ OnTasks(xcom)'
      /\ call'[t] = [channel |-> n, metadata |-> md]
      /\ \A d \in Tasks \ {t} : call'[d] = call[d]
    BY <1>1, <1>5, InvTypes, ExceptOnTasks DEF OnTasks
<1>8. call'[t].channel = n /\ call'[t].metadata = md
    BY <1>7
<1>9. Trust(NoCa) = NoCa
    BY DEF Trust
<1>10. CallOf(t)'
  <2>1. call'[t].metadata = call_metadata(hook'[t].conn, input'[t].metadata)
      BY <1>1, <1>3, <1>8 DEF md
  <2>2. channels'[call'[t].channel].target = target(hook'[t].conn)
        /\ channels'[call'[t].channel].ssl = use_ssl(hook'[t].conn)
      BY <1>3, <1>5, <1>8
  <2>3. use_ssl(conn) => Trust(channels'[n].ca) = Trust(hook'[t].ca)
      BY <1>3, <1>5
  <2>4. use_ssl(conn) /\ ~conn.caPath => Trust(channels'[n].ca) = NoCa
      BY <1>2, <1>5, <1>9
  <2> HIDE DEF conn
  <2> QED
      BY <1>3, <1>5, <1>8, <2>1, <2>2, <2>3, <2>4 DEF CallOf
<1>11. Sound(t)'
  <2>1. ResultsOf(t)'
      BY <1>1, <1>4 DEF Inv, Sound, ResultsOf
  <2> QED
      BY <1>2, <1>3, <1>10, <2>1 DEF Sound, Resolved
<1> QED
    BY <1>1, <1>3, <1>4, <1>6, <1>7, <1>11, TaskStepKeeps

\* Steps of the surroundings.
LEMMA EditKeeps == ASSUME Inv, Edit PROVE Inv'
<1>1. /\ UNCHANGED <<input, status, event, xcom, hook, call, channels, pool>>
      /\ \/ /\ caFile' = caFile
            /\ \E id \in ConnIds, v \in Versions \cup {NoConn} : conns' = [conns EXCEPT ![id] = v]
         \/ conns' = conns /\ caFile' \in CaContents \cup {"unreadable"}
    BY DEF Edit, taskVars, triggerVars, poolVars
<1>2. conns' \in [ConnIds -> Versions \cup {NoConn}] /\ caFile' \in CaContents \cup {"unreadable"}
    BY <1>1, InvTypes
<1>3. Types'
    BY <1>1, <1>2 DEF Inv, Types, OnTasks
<1>4. PoolIsLatest' /\ ChannelIsShared' /\ ChannelsKept
    BY <1>1, SamePool
<1>5. ASSUME NEW d \in Tasks PROVE Sound(d)'
    BY <1>1, <1>4, Untouched DEF Inv
<1> QED
    BY <1>3, <1>4, <1>5 DEF Inv

LEMMA BreakKeeps == ASSUME Inv, NEW i \in DOMAIN channels, ChannelBreaks(i) PROVE Inv'
<1>1. /\ UNCHANGED <<input, status, event, xcom, hook, call, pool, conns, caFile>>
      /\ \E st \in {"SHUTDOWN", "UNREADABLE"} : channels' = [channels EXCEPT ![i].state = st]
    BY DEF ChannelBreaks, taskVars, triggerVars
<1>2. Types /\ PoolIsLatest /\ ChannelIsShared
    BY DEF Inv
<1>3. PoolIsLatest' /\ ChannelIsShared' /\ channels' \in Seq(Channel) /\ ChannelsKept
    BY <1>1, <1>2, BreakKeepsPool DEF ChannelsKept
<1>4. Types'
    BY <1>1, <1>3 DEF Inv, Types, OnTasks
<1>5. ASSUME NEW d \in Tasks PROVE Sound(d)'
    BY <1>1, <1>3, Untouched DEF Inv
<1> QED
    BY <1>3, <1>4, <1>5 DEF Inv

LEMMA RestartKeeps == ASSUME Inv, TriggererRestarts PROVE Inv'
<1>1. /\ status' = [t \in Tasks |-> IF status[t] \in {"open", "streaming"} THEN "deferred" ELSE status[t]]
      /\ hook' = [t \in Tasks |-> NewHook] /\ call' = [t \in Tasks |-> NoCall]
      /\ channels' = <<>> /\ pool' = <<>> /\ UNCHANGED <<input, event, xcom, conns, caFile>>
    BY DEF TriggererRestarts
<1>2. DOMAIN channels' = {} /\ DOMAIN pool' = {} /\ channels' \in Seq(Channel)
      /\ pool' = [k \in DOMAIN pool' |-> pool'[k]]
    BY <1>1
<1>3. PoolIsLatest' /\ ChannelIsShared'
    BY <1>2 DEF PoolIsLatest, ChannelIsShared
<1>4. Types'
  <2>1. OnTasks(call)' /\ OnTasks(event)' /\ OnTasks(xcom)'
      BY <1>1, InvTypes DEF OnTasks
  <2>2. status' \in [Tasks -> Statuses] /\ hook' \in [Tasks -> Hooks]
      BY <1>1, InvTypes, NewHookType DEF Statuses
  <2> QED
      BY <1>1, <1>2, <2>1, <2>2, InvTypes DEF Types
<1>5. ASSUME NEW d \in Tasks PROVE Sound(d)'
  <2>1. /\ status'[d] = IF status[d] \in {"open", "streaming"} THEN "deferred" ELSE status[d]
        /\ status'[d] \notin {"open", "streaming"}
      BY <1>1
  <2>2. ResultsOf(d)'
      BY <1>1, <2>1 DEF Inv, Sound, ResultsOf
  <2> QED
      BY <2>1, <2>2 DEF Sound, Resolved
<1> QED
    BY <1>3, <1>4, <1>5 DEF Inv

LEMMA TaskStepSound == ASSUME Inv, NEW t \in Tasks, TaskStep(t) PROVE Inv'
<1>1. CASE execute(t) \/ execute_complete(t) \/ OpenCall(t) \/ RetryCall(t)
    BY <1>1, ExecuteKeeps, CompleteKeeps, OpenKeeps, RetryKeeps
<1>2. CASE NoStubs(t) \/ OpenFails(t)
  <2>1. Yield(t, "FAILED", {}) /\ status[t] # "success" /\ UNCHANGED <<poolVars, envVars>>
      BY <1>2 DEF NoStubs, OpenFails
  <2> QED
      BY <2>1, YieldKeeps
<1>3. CASE TimesOut(t)
  <2>1. Yield(t, "CANCELLED", {}) /\ status[t] # "success" /\ UNCHANGED <<poolVars, envVars>>
      BY <1>3 DEF TimesOut
  <2> QED
      BY <2>1, YieldKeeps
<1>4. CASE StreamAnalysed(t)
  <2>1. /\ status[t] # "success" /\ UNCHANGED <<poolVars, envVars>>
        /\ \/ Yield(t, "SUCCESS", 1 .. input[t].length)
           \/ \E k \in {0, 1, input[t].length} : Yield(t, "FAILED", 1 .. k)
      BY <1>4 DEF StreamAnalysed
  <2>2. CASE Yield(t, "SUCCESS", 1 .. input[t].length)
      BY <2>1, <2>2, YieldKeeps
  <2>3. CASE \E k \in {0, 1, input[t].length} : Yield(t, "FAILED", 1 .. k)
    <3>1. PICK k \in {0, 1, input[t].length} : Yield(t, "FAILED", 1 .. k)
        BY <2>3
    <3> QED
        BY <2>1, <3>1, YieldKeeps
  <2> QED
      BY <2>1, <2>2, <2>3
<1>5. CASE get_async_conn(t)
  <2> DEFINE conn == conns[input[t].connId]
  <2>1. /\ status[t] = "deferred" /\ UNCHANGED <<poolVars, envVars>>
        /\ \/ /\ conn # NoConn /\ hook' = [hook EXCEPT ![t].conn = conn]
              /\ status' = [status EXCEPT ![t] = "open"] /\ UNCHANGED <<input, event, xcom, call>>
           \/ conn = NoConn /\ Yield(t, "FAILED", {})
      BY <1>5 DEF get_async_conn
  <2>2. CASE conn = NoConn /\ Yield(t, "FAILED", {})
      BY <2>1, <2>2, YieldKeeps
  <2>3. CASE /\ conn # NoConn /\ hook' = [hook EXCEPT ![t].conn = conn]
             /\ status' = [status EXCEPT ![t] = "open"] /\ UNCHANGED <<input, event, xcom, call>>
    <3>1. input[t] \in Inputs /\ input[t].connId \in ConnIds
        BY InvTypes, ProviderAssumption
    <3>2. conn \in Versions
        BY <2>3, <3>1, InvTypes
    <3>3. UNCHANGED <<channels, pool, conns, caFile>>
        BY <2>1 DEF poolVars, envVars
    <3> HIDE DEF conn
    <3> QED
        BY <2>1, <2>3, <3>2, <3>3, ResolveKeeps
  <2> QED
      BY <2>1, <2>2, <2>3
<1> QED
    BY <1>1, <1>2, <1>3, <1>4, <1>5 DEF TaskStep

LEMMA InvStep == Inv /\ [Next]_vars => Inv'
<1> SUFFICES ASSUME Inv, [Next]_vars PROVE Inv'
    OBVIOUS
<1>1. CASE UNCHANGED vars
  <2>1. UNCHANGED <<input, status, event, xcom, hook, call, channels, pool, conns, caFile>>
      BY <1>1 DEF vars, taskVars, triggerVars, poolVars, envVars
  <2>2. PoolIsLatest' /\ ChannelIsShared' /\ ChannelsKept
      BY <2>1, SamePool
  <2>3. ASSUME NEW d \in Tasks PROVE Sound(d)'
      BY <2>1, <2>2, Untouched DEF Inv
  <2>4. Types'
      BY <2>1 DEF Inv, Types, OnTasks
  <2> QED
      BY <2>2, <2>3, <2>4 DEF Inv
<1>2. CASE Next
    BY <1>2, TaskStepSound, EditKeeps, BreakKeeps, RestartKeeps DEF Next
<1> QED
    BY <1>1, <1>2

LEMMA Invariance == Spec => []Inv
<1>1. Init => Inv
    BY InvInit
<1>2. Inv /\ [Next]_vars => Inv'
    BY InvStep
<1> QED
    BY <1>1, <1>2, PTL DEF Spec

-----------------------------------------------------------------------------
(* Theorems.                                                               *)

\* However many triggers, connections and CA files there are and whatever breaks,
\* no two usable channels of the pool have the same target, transport and trust.
THEOREM ChannelsAreShared == Spec => []ChannelIsShared
<1>1. Inv => ChannelIsShared
    BY DEF Inv
<1> QED
    BY <1>1, Invariance, PTL

\* A task that succeeds has exactly one result per command as its XCom, for every
\* number of commands up to 99, and no other task has one.
THEOREM XComsAreExact == Spec => []XComIsExact
<1>1. Inv => XComIsExact
  <2> SUFFICES ASSUME Inv, NEW t \in Tasks
               PROVE  IF status[t] = "success"
                      THEN Len(xcom[t]) = input[t].length /\ ToSet(xcom[t]) = 1 .. input[t].length
                      ELSE xcom[t] = <<>>
      BY DEF XComIsExact
  <2>1. input[t].length \in 0 .. 99
      BY InvTypes, ProviderAssumption
  <2>2. ResultsOf(t)
      BY DEF Inv, Sound
  <2> QED
      BY <2>1, <2>2, HandlerIsExact DEF ResultsOf
<1> QED
    BY <1>1, Invariance, PTL

\* The results of a task are in the order of the commands when there are fewer
\* than ten, whatever else runs; the lemma HandlerIsExact says that from ten on
\* they never are, for "10" sorts before "2".
THEOREM ResultsSortAsTexts == Spec => []OrderedBelowTen
<1>1. Inv => OrderedBelowTen
  <2> SUFFICES ASSUME Inv, NEW t \in Tasks, status[t] = "success", input[t].length < 10
               PROVE  InOrder(xcom[t])
      BY DEF OrderedBelowTen
  <2>1. input[t].length \in 0 .. 99
      BY InvTypes, ProviderAssumption
  <2>2. xcom[t] = DefaultResultHandler(Stored(input[t].length))
      BY DEF Inv, Sound, ResultsOf
  <2> QED
      BY <2>1, <2>2, HandlerIsExact DEF InOrder
<1> QED
    BY <1>1, Invariance, PTL

\* Whatever entries the operator brings, the connection's token is the only
\* authorization entry of a call.
LEMMA TokenReplacesHeaders ==
    ASSUME NEW conn, conn.token # "", NEW metadata
    PROVE  AuthHeaders(call_metadata(conn, metadata)) = {<<"authorization", conn.token>>}
<1> DEFINE token == <<"authorization", conn.token>>
<1>1. lower(token[1]) = "authorization"
    BY DEF lower
<1> QED
    BY <1>1 DEF AuthHeaders, call_metadata

\* Where no CA file is empty, the pool tells every two of them apart, and from none.
LEMMA TrustIsExact ==
    ASSUME EmptyFile \notin CaContents,
           NEW a \in CaContents \cup {NoCa}, NEW b \in CaContents \cup {NoCa, Unread},
           Trust(a) = Trust(b)
    PROVE  a = b
BY ProviderAssumption DEF Trust

\* Unless a CA file is empty, every call has the target, the transport, the CA
\* certificate or system store and the bearer token of the connection that its
\* own trigger resolved, for any number of tasks, connections and CA files,
\* whatever was edited since, whoever opened the channel and whatever entries the
\* operator brings.  (For an empty file it is false: the run documents.)
THEOREM CallsAreOfOneConnection ==
    ASSUME EmptyFile \notin CaContents
    PROVE  Spec => []CallIsOfOneConnection
<1>1. Inv => CallIsOfOneConnection
  <2> SUFFICES ASSUME Inv, NEW t \in InTriggerer
               PROVE  LET conn == hook[t].conn
                          ch   == channels[call[t].channel]
                      IN  /\ ch.target = target(conn) /\ ch.ssl = use_ssl(conn)
                          /\ ch.ssl => ch.ca = IF conn.caPath THEN hook[t].ca ELSE NoCa
                          /\ AuthHeaders(call[t].metadata) =
                                 IF conn.token # "" THEN {<<"authorization", conn.token>>}
                                 ELSE AuthHeaders(input[t].metadata)
      BY DEF CallIsOfOneConnection
  <2> DEFINE conn == hook[t].conn
             ch   == channels[call[t].channel]
  <2>1. t \in Tasks /\ CallOf(t)
      BY DEF Inv, Sound, InTriggerer
  <2>2. conn.token = "" => call[t].metadata = input[t].metadata
      BY <2>1 DEF CallOf, call_metadata
  <2>3. conn.token # "" => AuthHeaders(call[t].metadata) = {<<"authorization", conn.token>>}
      BY <2>1, TokenReplacesHeaders DEF CallOf
  <2>4. ch.ca \in CaContents \cup {NoCa} /\ hook[t].ca \in CaContents \cup {NoCa, Unread}
    <3>1. ch \in Channel
        BY <2>1, ChannelOf DEF CallOf, Inv
    <3> QED
        BY <2>1, <3>1, InvTypes DEF Channel, Hooks
  <2>5. Trust(NoCa) = NoCa
      BY DEF Trust
  <2>6. ch.ssl => ch.ca = IF conn.caPath THEN hook[t].ca ELSE NoCa
    <3>1. /\ ch.ssl /\ conn.caPath => Trust(ch.ca) = Trust(hook[t].ca)
          /\ ch.ssl /\ ~conn.caPath => Trust(ch.ca) = Trust(NoCa)
        BY <2>1, <2>5 DEF CallOf
    <3> HIDE DEF conn, ch
    <3>2. CASE conn.caPath
        BY <3>1, <3>2, <2>4, TrustIsExact
    <3>3. CASE ~conn.caPath
        BY <3>1, <3>3, <2>4, TrustIsExact
    <3> QED
        BY <3>2, <3>3
  <2>7. ch.target = target(conn) /\ ch.ssl = use_ssl(conn)
      BY <2>1 DEF CallOf
  <2> QED
      BY <2>2, <2>3, <2>6, <2>7
<1> QED
    BY <1>1, Invariance, PTL
=============================================================================
