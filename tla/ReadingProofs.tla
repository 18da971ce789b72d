---------------------------- MODULE ReadingProofs ----------------------------
(***************************************************************************)
(* Proofs about what is read of a switch: the walks of its tables, for any *)
(* OIDs an agent holds in any order, any columns in a request and any      *)
(* length of an answer; and the forwarding tables, for any machines, VLANs *)
(* and ports, however often a machine moves before its port is looked up.  *)
(***************************************************************************)
EXTENDS Snmp, Tables, FiniteSetTheorems, SequenceTheorems, WellFoundedInduction, TLAPS

-----------------------------------------------------------------------------
\* Numbers.

LEMMA LeastNatural ==
  ASSUME NEW S \in SUBSET Nat, S # {}
  PROVE  \E m \in S : \A n \in S : m <= n
<1> DEFINE R == OpToRel(<, Nat)
<1>1. IsWellFoundedOn(R, Nat)
  BY NatLessThanWellFounded
<1>2. \A m, n \in Nat : n < m => <<n, m>> \in R
  BY DEF OpToRel
<1> HIDE DEF R
<1>3. \E m \in S : \A n \in S : <<n, m>> \notin R
  BY <1>1, WFMin
<1>4. PICK m \in S : \A n \in S : <<n, m>> \notin R
  BY <1>3
<1>5. ASSUME NEW n \in S PROVE m <= n
  <2>1. m \in Nat /\ n \in Nat
    OBVIOUS
  <2>2. ~(n < m)
    BY <1>2, <1>4, <2>1
  <2> QED
    BY <2>1, <2>2
<1> QED
  BY <1>5

LEMMA ByNumbers ==
  ASSUME NEW S, 0 \in S, \A n \in Nat : n \in S => n + 1 \in S
  PROVE  Nat \subseteq S
<1>1. SUFFICES ASSUME Nat \ S # {} PROVE FALSE
  OBVIOUS
<1>2. PICK m \in Nat \ S : \A n \in Nat \ S : m <= n
  BY <1>1, LeastNatural
<1>3. m # 0 /\ m - 1 \in Nat
  BY <1>2
<1>4. m - 1 \in S
  BY <1>2, <1>3
<1>5. (m - 1) + 1 \in S
  BY <1>3, <1>4
<1> QED
  BY <1>2, <1>5

-----------------------------------------------------------------------------
\* The walks of a device.

MibIs ==
  /\ IsFiniteSet(DOMAIN mib.next) /\ DOMAIN mib.next \subseteq Nat /\ \A o \in DOMAIN mib.next : mib.next[o] \in Nat
  /\ limit \in Nat

LEMMA AfterIs ==
  ASSUME MibIs, NEW o
  PROVE  After(o) \in Nat /\ (After(o) # 0 => o \in DOMAIN mib.next)
BY DEF After, End, MibIs

\* The rows of a column are the agent's, one after the other, each within the subtree and none twice.
Steps(rows, base, i) == IF i = 1 THEN base ELSE rows[i - 1]
IsChain(rows, base) ==
  /\ rows \in Seq(Nat)
  /\ \A i \in 1..Len(rows) :
       rows[i] = After(Steps(rows, base, i)) /\ Within(rows[i], base) /\ \A j \in 1..(i - 1) : rows[j] # rows[i]
Ends(rows, base) == NextRows(rows, base) = rows

LEMMA NextRowsIs ==
  ASSUME MibIs, NEW base \in Nat, NEW rows, IsChain(rows, base)
  PROVE  /\ FromOf(rows, base) \in Nat
         /\ FromOf(rows, base) = IF Len(rows) = 0 THEN base ELSE rows[Len(rows)]
         /\ Ends(rows, base) <=> (~Within(After(FromOf(rows, base)), base) \/ After(FromOf(rows, base)) \in ToSet(rows))
         /\ ~Ends(rows, base) => NextRows(rows, base) = Append(rows, After(FromOf(rows, base)))
<1>1. rows \in Seq(Nat) /\ Len(rows) \in Nat
  BY DEF IsChain
<1>2. FromOf(rows, base) = IF Len(rows) = 0 THEN base ELSE rows[Len(rows)]
  BY <1>1 DEF FromOf, Last
<1>3. FromOf(rows, base) \in Nat
  BY <1>1, <1>2
<1> DEFINE next == After(FromOf(rows, base))
<1>4. Append(rows, next) # rows
  <2>1. Len(Append(rows, next)) = Len(rows) + 1
    BY <1>1
  <2> QED
    BY <1>1, <2>1
<1> HIDE DEF next
<1>5. NextRows(rows, base) = IF ~Within(next, base) \/ next \in ToSet(rows) THEN rows ELSE Append(rows, next)
  BY DEF NextRows, next
<1> QED
  BY <1>2, <1>3, <1>4, <1>5 DEF Ends, next

LEMMA NextIsChain ==
  ASSUME MibIs, NEW base \in Nat, NEW rows, IsChain(rows, base), ~Ends(rows, base)
  PROVE  IsChain(NextRows(rows, base), base) /\ Len(NextRows(rows, base)) = Len(rows) + 1
<1> DEFINE next == After(FromOf(rows, base))
           more == NextRows(rows, base)
           n == Len(rows)
<1>1. more = Append(rows, next) /\ Within(next, base) /\ next \notin ToSet(rows)
      /\ FromOf(rows, base) = (IF n = 0 THEN base ELSE rows[n]) /\ next \in Nat
  BY NextRowsIs, AfterIs
<1>2. next = After(IF n = 0 THEN base ELSE rows[n])
  BY <1>1
<1> HIDE DEF next, more
<1>3. rows \in Seq(Nat) /\ n \in Nat
  BY DEF IsChain
<1>4. more \in Seq(Nat) /\ Len(more) = n + 1 /\ more[n + 1] = next /\ \A i \in 1..n : more[i] = rows[i]
  BY <1>1, <1>3
<1>5. \A j \in 1..n : rows[j] # next
  BY <1>1, <1>3 DEF ToSet
<1>7. \A j \in 1..n : rows[j] = After(Steps(rows, base, j)) /\ Within(rows[j], base) /\ \A k \in 1..(j - 1) : rows[k] # rows[j]
  BY DEF IsChain
<1> HIDE DEF n
<1>6. ASSUME NEW i \in 1..(n + 1)
      PROVE  more[i] = After(Steps(more, base, i)) /\ Within(more[i], base) /\ \A j \in 1..(i - 1) : more[j] # more[i]
  <2>1. CASE i = n + 1
    <3>1. Steps(more, base, i) = IF n = 0 THEN base ELSE rows[n]
      BY <1>3, <1>4, <2>1 DEF Steps
    <3> QED
      BY <1>1, <1>2, <1>3, <1>4, <1>5, <2>1, <3>1
  <2>2. CASE i \in 1..n
    <3>1. Steps(more, base, i) = Steps(rows, base, i)
      <4>1. i # 1 => i - 1 \in 1..n
        BY <1>3, <2>2
      <4> QED
        BY <1>4, <4>1 DEF Steps
    <3>2. more[i] = rows[i]
      BY <1>4, <2>2
    <3>3. \A j \in 1..(i - 1) : j \in 1..n
      BY <1>3, <2>2
    <3>4. \A j \in 1..(i - 1) : more[j] # more[i]
      BY <1>4, <1>7, <2>2, <3>2, <3>3
    <3> QED
      BY <1>7, <2>2, <3>1, <3>2, <3>4
  <2> QED
    BY <1>3, <2>1, <2>2
<1> QED
  BY <1>3, <1>4, <1>6 DEF IsChain, more, n

\* A chain has no more rows than the device has OIDs.
LEMMA ChainIsShort ==
  ASSUME MibIs, NEW base \in Nat, base >= 10, NEW rows, IsChain(rows, base)
  PROVE  Len(rows) <= Cardinality(DOMAIN mib.next)
<1> DEFINE n == Len(rows)
           D == DOMAIN mib.next
           f == [i \in 1..n |-> Steps(rows, base, i)]
<1>1. rows \in Seq(Nat) /\ n \in Nat
  BY DEF IsChain
<1>2. \A i \in 1..n : rows[i] = After(Steps(rows, base, i)) /\ Within(rows[i], base) /\ rows[i] # 0 /\ rows[i] # base
  BY <1>1 DEF IsChain, Within
<1>3. \A i \in 1..n : Steps(rows, base, i) \in D
  BY <1>2, AfterIs
<1>4. ASSUME NEW i \in 1..n, NEW j \in 1..n, i < j PROVE Steps(rows, base, i) # Steps(rows, base, j)
  <2>1. CASE i = 1
    BY <1>1, <1>2, <1>4, <2>1 DEF Steps
  <2>2. CASE i # 1
    BY <1>1, <1>4, <2>2 DEF Steps, IsChain
  <2> QED
    BY <2>1, <2>2
<1>5. f \in Injection(1..n, D)
  <2>1. f \in [1..n -> D]
    BY <1>3
  <2>2. ASSUME NEW i \in 1..n, NEW j \in 1..n, f[i] = f[j] PROVE i = j
    BY <1>1, <1>4, <2>2
  <2> QED
    BY <2>1, <2>2 DEF Injection, IsInjective
<1> HIDE DEF f, n
<1>6. Cardinality(1..n) = n
  <2>1. 1 \in Int /\ n \in Int
    BY <1>1
  <2> QED
    BY <1>1, <2>1, FS_Interval
<1>7. IsFiniteSet(D)
  BY DEF MibIs
<1> HIDE DEF D
<1> QED
  BY <1>5, <1>6, <1>7, FS_Injection DEF D, n

LEMMA ColumnLoop ==
  ASSUME NEW base, NEW n \in Nat
  PROVE  LET rows[k \in 0..n] == IF k = 0 THEN << >> ELSE NextRows(rows[k - 1], base)
         IN rows = [k \in 0..n |-> IF k = 0 THEN << >> ELSE NextRows(rows[k - 1], base)]
<1> DEFINE IsAfter(f, m) == f = [k \in 0..m |-> IF k = 0 THEN << >> ELSE NextRows(f[k - 1], base)]
           S == {m \in Nat : \E f : IsAfter(f, m)}
<1>1. 0 \in S
  <2>1. IsAfter([k \in 0..0 |-> << >>], 0)
    OBVIOUS
  <2> QED
    BY <2>1
<1>2. ASSUME NEW m \in Nat, m \in S PROVE m + 1 \in S
  <2>1. PICK f : IsAfter(f, m)
    BY <1>2
  <2> DEFINE g == [k \in 0..(m + 1) |-> IF k <= m THEN f[k] ELSE NextRows(f[m], base)]
  <2>2. \A k \in 0..(m + 1) : g[k] = IF k = 0 THEN << >> ELSE NextRows(g[k - 1], base)
    <3> TAKE k \in 0..(m + 1)
    <3>1. CASE k = 0
      BY <2>1, <3>1
    <3>2. CASE k # 0 /\ k <= m
      <4>1. k \in 0..m /\ k - 1 \in 0..m
        BY <3>2
      <4>2. f[k] = NextRows(f[k - 1], base)
        BY <2>1, <3>2, <4>1
      <4>3. g[k] = f[k] /\ g[k - 1] = f[k - 1]
        BY <3>2, <4>1
      <4> QED
        BY <3>2, <4>2, <4>3
    <3>3. CASE k = m + 1
      BY <3>3
    <3> QED
      BY <3>1, <3>2, <3>3
  <2>3. IsAfter(g, m + 1)
    BY <2>2
  <2> HIDE DEF IsAfter, g
  <2>4. \E h : IsAfter(h, m + 1)
    BY <2>3
  <2> QED
    BY <2>4
<1> HIDE DEF S
<1>3. n \in S
  BY <1>1, <1>2, ByNumbers
<1>4. PICK f : IsAfter(f, n)
  BY <1>3 DEF S
<1> DEFINE rows[k \in 0..n] == IF k = 0 THEN << >> ELSE NextRows(rows[k - 1], base)
<1>5. IsAfter(rows, n)
  BY <1>4
<1> QED
  BY <1>5

\* The column is what a walk could read of it: a chain with nothing after it.
LEMMA ColumnIs ==
  ASSUME MibIs, NEW base \in Nat, base >= 10
  PROVE  IsChain(Column(base), base) /\ Ends(Column(base), base)
<1> DEFINE n == Cardinality(DOMAIN mib.next) + 1
           rows[k \in 0..n] == IF k = 0 THEN << >> ELSE NextRows(rows[k - 1], base)
           Grown(k) == IsChain(rows[k], base) /\ (Ends(rows[k], base) \/ Len(rows[k]) = k)
           S == {k \in Nat : k <= n => Grown(k)}
<1>1. n \in Nat
  BY FS_CardinalityType DEF MibIs
<1>2. Column(base) = rows[n]
  BY DEF Column
<1> HIDE DEF n
<1>3. rows = [k \in 0..n |-> IF k = 0 THEN << >> ELSE NextRows(rows[k - 1], base)]
  BY <1>1, ColumnLoop
<1> HIDE DEF rows
<1>4. 0 \in S
  <2>1. rows[0] = << >>
    BY <1>1, <1>3
  <2>2. IsChain(<< >>, base) /\ Len(<< >>) = 0
    BY DEF IsChain
  <2> HIDE DEF Grown
  <2>3. Grown(0)
    BY <2>1, <2>2 DEF Grown
  <2> QED
    BY <2>3
<1>5. ASSUME NEW k \in Nat, k \in S PROVE k + 1 \in S
  <2>1. SUFFICES ASSUME k + 1 <= n PROVE Grown(k + 1)
    OBVIOUS
  <2>2. Grown(k)
    BY <1>1, <1>5, <2>1
  <2>3. k + 1 \in 0..n /\ k \in 0..n /\ (k + 1) - 1 = k
    BY <1>1, <2>1
  <2>4. rows[k + 1] = NextRows(rows[k], base)
    BY <1>3, <2>3
  <2>5. CASE Ends(rows[k], base)
    <3>1. rows[k + 1] = rows[k]
      BY <2>4, <2>5 DEF Ends
    <3> QED
      BY <2>2, <2>5, <3>1
  <2>6. CASE ~Ends(rows[k], base)
    BY <2>2, <2>4, <2>6, NextIsChain
  <2> QED
    BY <2>5, <2>6
<1>6. n \in S
  BY <1>1, <1>4, <1>5, ByNumbers
<1>7. Grown(n)
  BY <1>1, <1>6
<1>8. Len(rows[n]) # n
  <2>1. Len(rows[n]) <= Cardinality(DOMAIN mib.next) /\ Cardinality(DOMAIN mib.next) \in Nat
    BY <1>7, ChainIsShort, FS_CardinalityType DEF MibIs
  <2>2. n = Cardinality(DOMAIN mib.next) + 1
    BY DEF n
  <2> QED
    BY <2>1, <2>2
<1> QED
  BY <1>2, <1>7, <1>8

\* A walk has the beginning of a column.
Begins(rows, base) ==
  /\ rows \in Seq(Nat) /\ Len(rows) <= Len(Column(base))
  /\ \A i \in 1..Len(rows) : rows[i] = Column(base)[i]

LEMMA BeginningsAreChains ==
  ASSUME MibIs, NEW base \in Nat, base >= 10, NEW rows, Begins(rows, base)
  PROVE  /\ IsChain(rows, base)
         /\ Ends(rows, base) => rows = Column(base)
         /\ ~Ends(rows, base) => Begins(NextRows(rows, base), base)
<1> DEFINE C == Column(base)
           n == Len(rows)
<1>1. IsChain(C, base) /\ Ends(C, base)
  BY ColumnIs
<1> HIDE DEF C
<1>2. rows \in Seq(Nat) /\ n \in Nat /\ C \in Seq(Nat) /\ Len(C) \in Nat /\ n <= Len(C) /\ \A i \in 1..n : rows[i] = C[i]
  BY <1>1 DEF Begins, IsChain, C
<1>3. \A i \in 1..Len(C) : C[i] = After(Steps(C, base, i)) /\ Within(C[i], base) /\ \A j \in 1..(i - 1) : C[j] # C[i]
  BY <1>1 DEF IsChain
<1> HIDE DEF n
<1>4. ASSUME NEW i \in 1..n
      PROVE  rows[i] = After(Steps(rows, base, i)) /\ Within(rows[i], base) /\ \A j \in 1..(i - 1) : rows[j] # rows[i]
  <2>1. i \in 1..Len(C) /\ (\A j \in 1..(i - 1) : j \in 1..n) /\ (i # 1 => i - 1 \in 1..n)
    BY <1>2
  <2>2. Steps(rows, base, i) = Steps(C, base, i)
    BY <1>2, <2>1 DEF Steps
  <2>3. C[i] = After(Steps(C, base, i)) /\ Within(C[i], base) /\ \A j \in 1..(i - 1) : C[j] # C[i]
    BY <1>3, <2>1
  <2>4. rows[i] = C[i] /\ \A j \in 1..(i - 1) : rows[j] = C[j]
    BY <1>2, <2>1
  <2> QED
    BY <2>2, <2>3, <2>4
<1>5. IsChain(rows, base)
  BY <1>2, <1>4 DEF IsChain, n
<1>6. CASE n = Len(C)
  <2>1. rows = C
    BY <1>2, <1>6 DEF n
  <2> QED
    BY <1>1, <1>5, <2>1 DEF C
<1>7. CASE n < Len(C)
  <2> DEFINE next == After(FromOf(rows, base))
  <2>1. n + 1 \in 1..Len(C) /\ (n # 0 => n \in 1..n) /\ (n + 1) - 1 = n /\ (n + 1 = 1 <=> n = 0)
    BY <1>2, <1>7
  <2>2. FromOf(rows, base) = IF n = 0 THEN base ELSE rows[n]
    BY <1>5, NextRowsIs DEF n
  <2>3. Steps(C, base, n + 1) = FromOf(rows, base)
    BY <1>2, <2>1, <2>2 DEF Steps
  <2>4. C[n + 1] = next /\ Within(next, base) /\ \A j \in 1..n : C[j] # C[n + 1]
    BY <1>3, <2>1, <2>3
  <2>5. next \notin ToSet(rows)
    <3>1. DOMAIN rows = 1..n
      BY <1>2 DEF n
    <3> QED
      BY <1>2, <2>4, <3>1 DEF ToSet
  <2>6. ~Ends(rows, base) /\ NextRows(rows, base) = Append(rows, next)
    BY <1>5, <2>4, <2>5, NextRowsIs
  <2>7. next \in Nat
    BY <1>2, <2>1, <2>4
  <2> HIDE DEF next
  <2>8. /\ Append(rows, next) \in Seq(Nat) /\ Len(Append(rows, next)) = n + 1
        /\ Append(rows, next)[n + 1] = next /\ \A i \in 1..n : Append(rows, next)[i] = rows[i]
    BY <1>2, <2>7 DEF n
  <2>9. \A i \in 1..(n + 1) : Append(rows, next)[i] = C[i]
    BY <1>2, <2>4, <2>8
  <2>10. Begins(Append(rows, next), base)
    BY <1>2, <2>1, <2>8, <2>9 DEF Begins, C
  <2> QED
    BY <1>5, <2>6, <2>10
<1> QED
  BY <1>2, <1>6, <1>7

-----------------------------------------------------------------------------
\* An answer: its repetitions follow one another, and are in it column by column.

LEMMA OnwardIs ==
  ASSUME NEW oid, NEW n \in Nat
  PROVE  Onward(oid, n)[0] = oid /\ \A k \in 0..(n - 1) : Onward(oid, n)[k + 1] = After(Onward(oid, n)[k])
<1> DEFINE IsAfter(f, m) == f = [k \in 0..m |-> IF k = 0 THEN oid ELSE After(f[k - 1])]
           S == {m \in Nat : \E f : IsAfter(f, m)}
<1>1. 0 \in S
  <2>1. IsAfter([k \in 0..0 |-> oid], 0)
    OBVIOUS
  <2> QED
    BY <2>1
<1>2. ASSUME NEW m \in Nat, m \in S PROVE m + 1 \in S
  <2>1. PICK f : IsAfter(f, m)
    BY <1>2
  <2> DEFINE g == [k \in 0..(m + 1) |-> IF k <= m THEN f[k] ELSE After(f[m])]
  <2>2. \A k \in 0..(m + 1) : g[k] = IF k = 0 THEN oid ELSE After(g[k - 1])
    <3> TAKE k \in 0..(m + 1)
    <3>1. CASE k = 0
      BY <2>1, <3>1
    <3>2. CASE k # 0 /\ k <= m
      <4>1. k \in 0..m /\ k - 1 \in 0..m
        BY <3>2
      <4>2. f[k] = After(f[k - 1])
        BY <2>1, <3>2, <4>1
      <4>3. g[k] = f[k] /\ g[k - 1] = f[k - 1]
        BY <3>2, <4>1
      <4> QED
        BY <3>2, <4>2, <4>3
    <3>3. CASE k = m + 1
      BY <3>3
    <3> QED
      BY <3>1, <3>2, <3>3
  <2>3. IsAfter(g, m + 1)
    BY <2>2
  <2> HIDE DEF IsAfter, g
  <2>4. \E h : IsAfter(h, m + 1)
    BY <2>3
  <2> QED
    BY <2>4
<1> HIDE DEF S
<1>3. n \in S
  BY <1>1, <1>2, ByNumbers
<1>4. PICK f : IsAfter(f, n)
  BY <1>3 DEF S
<1> DEFINE on[k \in 0..n] == IF k = 0 THEN oid ELSE After(on[k - 1])
<1>5. IsAfter(on, n)
  BY <1>4
<1>6. Onward(oid, n) = on
  BY DEF Onward
<1> HIDE DEF on
<1>7. ASSUME NEW k \in 0..(n - 1) PROVE on[k + 1] = After(on[k])
  <2>1. k + 1 \in 0..n /\ k + 1 # 0 /\ (k + 1) - 1 = k
    OBVIOUS
  <2> QED
    BY <1>5, <2>1
<1> QED
  BY <1>5, <1>6, <1>7

\* How often it was the i-th column's turn in the first k rows of an answer over n columns.
Turns(n, k, i) == (k \div n) + (IF i <= k % n THEN 1 ELSE 0)

LEMMA TurnsAre ==
  ASSUME NEW n \in Nat \ {0}, NEW m \in Nat, NEW k \in 0..(n * m - 1)
  PROVE  LET next == (k % n) + 1
         IN /\ next \in 1..n /\ Turns(n, k, next) = k \div n /\ k \div n \in 0..(m - 1)
            /\ Turns(n, k + 1, next) = (k \div n) + 1
            /\ \A i \in 1..n : i # next => Turns(n, k + 1, i) = Turns(n, k, i)
<1>1. n * m \in Int /\ k \in Nat /\ k < n * m
  OBVIOUS
<1>2. k \div n \in Nat /\ k % n \in 0..(n - 1)
  BY <1>1
<1>3. k \div n < m
  BY <1>1
<1>4. IF k % n = n - 1 THEN (k + 1) % n = 0 /\ (k + 1) \div n = (k \div n) + 1
      ELSE (k + 1) % n = (k % n) + 1 /\ (k + 1) \div n = k \div n
  BY <1>1
<1> DEFINE q == k \div n
           r == k % n
           q1 == (k + 1) \div n
           r1 == (k + 1) % n
<1>5. Turns(n, k, r + 1) = q + (IF r + 1 <= r THEN 1 ELSE 0) /\ Turns(n, k + 1, r + 1) = q1 + (IF r + 1 <= r1 THEN 1 ELSE 0)
  BY DEF Turns
<1>6. \A i \in 1..n : Turns(n, k, i) = q + (IF i <= r THEN 1 ELSE 0) /\ Turns(n, k + 1, i) = q1 + (IF i <= r1 THEN 1 ELSE 0)
  BY DEF Turns
<1> HIDE DEF q, r, q1, r1
<1>7. q \in Nat /\ r \in 0..(n - 1) /\ q < m /\ IF r = n - 1 THEN r1 = 0 /\ q1 = q + 1 ELSE r1 = r + 1 /\ q1 = q
  BY <1>2, <1>3, <1>4 DEF q, r, q1, r1
<1>8. /\ r + 1 \in 1..n /\ Turns(n, k, r + 1) = q /\ q \in 0..(m - 1)
      /\ Turns(n, k + 1, r + 1) = q + 1
      /\ \A i \in 1..n : i # r + 1 => Turns(n, k + 1, i) = Turns(n, k, i)
  BY <1>5, <1>6, <1>7
<1> QED
  BY <1>8 DEF q, r

\* The k-th row answers the column whose turn it is, with the OID after the one it is at.
LEMMA AnswerIs ==
  ASSUME NEW s, NEW m \in Nat \ {0}, s.active # << >>, NEW T, s.active \in Seq(T), NEW k \in 0..(Len(s.active) * m - 1)
  PROVE  LET n == Len(s.active)
             c == s.active[(k % n) + 1]
         IN /\ k + 1 \in 1..(n * m) /\ DOMAIN AnswerTo(s, m) = 1..(n * m)
            /\ AnswerTo(s, m)[k + 1] = After(Onward(s.from[c], m)[Turns(n, k, (k % n) + 1)])
<1> DEFINE n == Len(s.active)
           c == s.active[(k % n) + 1]
           on == Onward(s.from[c], m)
<1>1. n \in Nat \ {0}
  OBVIOUS
<1>2. AnswerTo(s, m) = [j \in 1..(n * m) |-> Onward(s.from[s.active[((j - 1) % n) + 1]], m)[((j - 1) \div n) + 1]]
  BY DEF AnswerTo
<1>3. (k % n) + 1 \in 1..n /\ Turns(n, k, (k % n) + 1) = k \div n /\ k \div n \in 0..(m - 1)
  BY <1>1, TurnsAre
<1>4. n * m \in Int /\ k + 1 \in 1..(n * m) /\ (k + 1) - 1 = k
  BY <1>1
<1>5. AnswerTo(s, m)[k + 1] = on[(k \div n) + 1]
  BY <1>2, <1>4
<1>6. on[(k \div n) + 1] = After(on[k \div n])
  BY <1>3, OnwardIs
<1> QED
  BY <1>2, <1>3, <1>4, <1>5, <1>6

-----------------------------------------------------------------------------
\* What a column has, of the state of a walk or of an answer that is being taken in.
ColumnIsAt(rows, from, c) == Begins(rows[c], c) /\ from[c] = FromOf(rows[c], c)
GoesOn(rows) == limit > 0 => Len(rows) < limit

Columns(w) == ToSet(Walks[w])
AreColumns(cols) == cols \subseteq {c \in Nat : c >= 10}
Distinct(active) == \A i, j \in 1..Len(active) : active[i] = active[j] => i = j

\* A column that is done has all that was asked of it.
LEMMA WholeColumn ==
  ASSUME MibIs, NEW c \in Nat, c >= 10, NEW rows, Begins(rows, c), GoesOn(rows), Ends(rows, c)
  PROVE  rows = RowsAsked(c)
<1>1. rows = Column(c)
  BY BeginningsAreChains
<1>2. Len(rows) \in Nat /\ limit \in Nat
  BY DEF Begins, MibIs
<1> QED
  BY <1>1, <1>2 DEF RowsAsked, Full, GoesOn

LEMMA FullColumn ==
  ASSUME MibIs, NEW c \in Nat, c >= 10, NEW rows, Begins(rows, c), limit > 0, Len(rows) = limit
  PROVE  rows = RowsAsked(c)
<1> DEFINE C == Column(c)
<1>1. C \in Seq(Nat) /\ rows \in Seq(Nat) /\ Len(rows) <= Len(C) /\ \A i \in 1..Len(rows) : rows[i] = C[i]
  BY ColumnIs DEF IsChain, Begins
<1> HIDE DEF C
<1>2. limit \in Nat /\ Len(C) \in Nat /\ limit <= Len(C)
  BY <1>1 DEF MibIs
<1>3. rows = SubSeq(C, 1, limit)
  <2>1. SubSeq(C, 1, limit) = [i \in 1..limit |-> C[i]]
    BY <1>1, <1>2
  <2>2. rows = [i \in 1..limit |-> rows[i]]
    BY <1>1
  <2> QED
    BY <1>1, <2>1, <2>2
<1> QED
  BY <1>2, <1>3 DEF RowsAsked, Full, C

LEMMA PartOfColumn ==
  ASSUME MibIs, NEW c \in Nat, c >= 10, NEW rows, Begins(rows, c), GoesOn(rows)
  PROVE  IsPrefix(rows, RowsAsked(c))
<1> DEFINE C == Column(c)
           n == Len(rows)
<1>1. C \in Seq(Nat) /\ rows \in Seq(Nat) /\ n <= Len(C) /\ \A i \in 1..n : rows[i] = C[i]
  BY ColumnIs DEF IsChain, Begins
<1> HIDE DEF C
<1>2. limit \in Nat /\ Len(C) \in Nat /\ n \in Nat
  BY <1>1 DEF MibIs
<1> DEFINE asked == RowsAsked(c)
<1>3. /\ asked \in Seq(Nat) /\ n <= Len(asked) /\ \A i \in 1..n : rows[i] = asked[i]
  <2>1. CASE Full(C)
    <3>1. asked = SubSeq(C, 1, limit) /\ limit <= Len(C) /\ n < limit
      BY <1>2, <2>1 DEF RowsAsked, Full, GoesOn, C
    <3>2. SubSeq(C, 1, limit) \in Seq(Nat) /\ Len(SubSeq(C, 1, limit)) = limit /\ \A i \in 1..limit : SubSeq(C, 1, limit)[i] = C[i]
      BY <1>1, <1>2, <3>1
    <3> HIDE DEF n, asked
    <3> QED
      BY <1>1, <1>2, <3>1, <3>2
  <2>2. CASE ~Full(C)
    BY <1>1, <2>2 DEF RowsAsked, C
  <2> QED
    BY <2>1, <2>2
<1> HIDE DEF asked
<1>4. SubSeq(rows, 1, n) = SubSeq(asked, 1, n)
  <2>1. SubSeq(rows, 1, n) = [i \in 1..n |-> rows[i]]
    BY <1>1, <1>2
  <2>2. SubSeq(asked, 1, n) = [i \in 1..n |-> asked[i]]
    BY <1>2, <1>3
  <2> QED
    BY <1>3, <2>1, <2>2
<1> QED
  BY <1>3, <1>4 DEF IsPrefix, asked, n

\* One row of an answer, for the column whose turn it is, with the OID after the one that column is at.
LEMMA OneRow ==
  ASSUME MibIs, NEW cols, AreColumns(cols), NEW st, st = [rows |-> st.rows, from |-> st.from, done |-> st.done],
         NEW c \in cols, DOMAIN st.rows = cols, DOMAIN st.from = cols,
         ColumnIsAt(st.rows, st.from, c), c \notin st.done => GoesOn(st.rows[c]), c \in st.done => st.rows[c] = RowsAsked(c),
         NEW oid, c \notin st.done => oid = After(st.from[c]),
         NEW next, next = Takes(st, c, oid)
  PROVE  /\ next = [rows |-> next.rows, from |-> next.from, done |-> next.done]
         /\ DOMAIN next.rows = cols /\ DOMAIN next.from = cols
         /\ \A d \in cols \ {c} : next.rows[d] = st.rows[d] /\ next.from[d] = st.from[d] /\ (d \in next.done <=> d \in st.done)
         /\ next.done \subseteq st.done \cup {c}
         /\ ColumnIsAt(next.rows, next.from, c)
         /\ c \notin next.done => GoesOn(next.rows[c]) /\ next.from[c] = oid
         /\ c \in next.done => next.rows[c] = RowsAsked(c)
<1> DEFINE rows == st.rows[c]
           more == Append(rows, oid)
<1>1. c \in Nat /\ c >= 10
  BY DEF AreColumns
<1>2. CASE c \in st.done
  <2>1. next = st
    BY <1>2 DEF Takes
  <2> QED
    BY <1>2, <2>1
<1>3. CASE c \notin st.done
  <2>1. Begins(rows, c) /\ st.from[c] = FromOf(rows, c) /\ GoesOn(rows) /\ oid = After(FromOf(rows, c))
    BY <1>3 DEF ColumnIsAt
  <2>2. IsChain(rows, c)
    BY <1>1, <2>1, BeginningsAreChains
  <2>3. /\ Ends(rows, c) <=> (~Within(oid, c) \/ oid \in ToSet(rows))
        /\ ~Ends(rows, c) => NextRows(rows, c) = more
    BY <1>1, <2>1, <2>2, NextRowsIs
  <2>4. CASE Ends(rows, c)
    <3>1. next = [st EXCEPT !.done = @ \cup {c}]
      BY <1>3, <2>3, <2>4 DEF Takes
    <3>2. next = [rows |-> st.rows, from |-> st.from, done |-> st.done \cup {c}]
      BY <3>1
    <3>3. rows = RowsAsked(c)
      BY <1>1, <2>1, <2>4, WholeColumn
    <3> QED
      BY <3>2, <3>3
  <2>5. CASE ~Ends(rows, c)
    <3>1. Begins(more, c) /\ IsChain(more, c)
      BY <1>1, <2>1, <2>3, <2>5, BeginningsAreChains
    <3>2. rows \in Seq(Nat) /\ oid \in Nat /\ Len(more) = Len(rows) + 1 /\ more # << >> /\ Last(more) = oid
      <4>1. rows \in Seq(Nat) /\ oid \in Nat
        BY <2>1, AfterIs DEF Begins
      <4> QED
        BY <4>1 DEF Last
    <3>3. FromOf(more, c) = oid
      BY <3>2 DEF FromOf
    <3> HIDE DEF more
    <3>4. next = [st EXCEPT !.rows[c] = more, !.from[c] = oid, !.done = IF Full(more) THEN @ \cup {c} ELSE @]
      BY <1>3, <2>3, <2>5 DEF Takes, KeepRow, more
    <3>5. next = [rows |-> [st.rows EXCEPT ![c] = more], from |-> [st.from EXCEPT ![c] = oid],
                  done |-> IF Full(more) THEN st.done \cup {c} ELSE st.done]
      BY <3>4
    <3>6. next.rows[c] = more /\ next.from[c] = oid /\ c \in next.done <=> Full(more)
      BY <1>3, <3>5
    <3>7. limit \in Nat /\ Len(rows) \in Nat /\ Len(more) \in Nat
      BY <3>2 DEF MibIs
    <3>8. ~Full(more) => GoesOn(more)
      BY <3>7 DEF Full, GoesOn
    <3>9. Full(more) => limit > 0 /\ Len(more) = limit
      BY <2>1, <3>2, <3>7 DEF Full, GoesOn
    <3>10. Full(more) => more = RowsAsked(c)
      BY <1>1, <3>1, <3>9, FullColumn
    <3> QED
      BY <1>3, <3>1, <3>3, <3>5, <3>8, <3>10 DEF ColumnIsAt
  <2> QED
    BY <2>4, <2>5
<1> QED
  BY <1>2, <1>3

-----------------------------------------------------------------------------
\* A whole answer.

TakesUpTo(s, binds, m, after) ==
  after = [k \in 0..m |-> IF k = 0 THEN [rows |-> s.rows, from |-> s.from, done |-> {}]
                          ELSE Takes(after[k - 1], s.active[((k - 1) % Len(s.active)) + 1], binds[k])]

LEMMA TakesLoop ==
  ASSUME NEW s, NEW binds, NEW m \in Nat, m = Len(binds)
  PROVE  \E after : TakesUpTo(s, binds, m, after) /\ TakesAll(s, binds) = after[m]
<1> DEFINE st == [rows |-> s.rows, from |-> s.from, done |-> {}]
           With(x, k) == Takes(x, s.active[((k - 1) % Len(s.active)) + 1], binds[k])
           IsAfter(f, j) == f = [k \in 0..j |-> IF k = 0 THEN st ELSE With(f[k - 1], k)]
           S == {j \in Nat : \E f : IsAfter(f, j)}
<1> HIDE DEF st, With
<1>1. 0 \in S
  <2>1. IsAfter([k \in 0..0 |-> st], 0)
    OBVIOUS
  <2> QED
    BY <2>1
<1>2. ASSUME NEW j \in Nat, j \in S PROVE j + 1 \in S
  <2>1. PICK f : IsAfter(f, j)
    BY <1>2
  <2> DEFINE g == [k \in 0..(j + 1) |-> IF k <= j THEN f[k] ELSE With(f[j], j + 1)]
  <2>2. \A k \in 0..(j + 1) : g[k] = IF k = 0 THEN st ELSE With(g[k - 1], k)
    <3> TAKE k \in 0..(j + 1)
    <3>1. CASE k = 0
      BY <2>1, <3>1
    <3>2. CASE k # 0 /\ k <= j
      <4>1. k \in 0..j /\ k - 1 \in 0..j
        BY <3>2
      <4>2. f[k] = With(f[k - 1], k)
        BY <2>1, <3>2, <4>1
      <4>3. g[k] = f[k] /\ g[k - 1] = f[k - 1]
        BY <3>2, <4>1
      <4> QED
        BY <3>2, <4>2, <4>3
    <3>3. CASE k = j + 1
      BY <3>3
    <3> QED
      BY <3>1, <3>2, <3>3
  <2>3. IsAfter(g, j + 1)
    BY <2>2
  <2> HIDE DEF IsAfter, g
  <2>4. \E h : IsAfter(h, j + 1)
    BY <2>3
  <2> QED
    BY <2>4
<1> HIDE DEF S
<1>3. m \in S
  BY <1>1, <1>2, ByNumbers
<1>4. PICK f : IsAfter(f, m)
  BY <1>3 DEF S
<1> DEFINE after[k \in 0..m] == IF k = 0 THEN st ELSE With(after[k - 1], k)
<1>5. IsAfter(after, m)
  BY <1>4
<1>6. TakesAll(s, binds) = after[m]
  BY DEF TakesAll, st, With
<1> HIDE DEF after
<1> QED
  BY <1>5, <1>6 DEF st, With, TakesUpTo

\* What is true of a walk's columns.
WalkIs(cols, active, rows, from) ==
  /\ AreColumns(cols) /\ DOMAIN rows = cols /\ DOMAIN from = cols
  /\ active \in Seq(cols) /\ Distinct(active)
  /\ \A c \in cols :
       /\ ColumnIsAt(rows, from, c)
       /\ IF c \in ToSet(active) THEN GoesOn(rows[c]) ELSE rows[c] = RowsAsked(c)

\* And after k rows of an answer s asked for.
TakenIs(cols, s, m, k, st) ==
  /\ st = [rows |-> st.rows, from |-> st.from, done |-> st.done]
  /\ DOMAIN st.rows = cols /\ DOMAIN st.from = cols /\ st.done \subseteq ToSet(s.active)
  /\ \A c \in cols :
       /\ ColumnIsAt(st.rows, st.from, c)
       /\ IF c \in ToSet(s.active) \ st.done THEN GoesOn(st.rows[c]) ELSE st.rows[c] = RowsAsked(c)
  /\ \A i \in 1..Len(s.active) :
       s.active[i] \notin st.done => st.from[s.active[i]] = Onward(s.from[s.active[i]], m)[Turns(Len(s.active), k, i)]

LEMMA TakesOne ==
  ASSUME MibIs, NEW cols, NEW s, WalkIs(cols, s.active, s.rows, s.from), s.active # << >>,
         NEW m \in Nat \ {0}, NEW k \in 0..(Len(s.active) * m - 1), NEW st, TakenIs(cols, s, m, k, st),
         NEW next, next = Takes(st, s.active[(k % Len(s.active)) + 1], AnswerTo(s, m)[k + 1])
  PROVE  TakenIs(cols, s, m, k + 1, next)
<1> DEFINE n == Len(s.active)
           p == (k % n) + 1
           c == s.active[p]
           oid == AnswerTo(s, m)[k + 1]
           On(i) == Onward(s.from[s.active[i]], m)
<1>1. s.active \in Seq(cols) /\ n \in Nat \ {0} /\ AreColumns(cols) /\ Distinct(s.active)
  BY DEF WalkIs
<1>2. /\ p \in 1..n /\ Turns(n, k, p) \in 0..(m - 1) /\ Turns(n, k + 1, p) = Turns(n, k, p) + 1
      /\ \A i \in 1..n : i # p => Turns(n, k + 1, i) = Turns(n, k, i)
  BY <1>1, TurnsAre
<1>3. oid = After(On(p)[Turns(n, k, p)])
  BY <1>1, AnswerIs
<1>4. On(p)[Turns(n, k, p) + 1] = After(On(p)[Turns(n, k, p)])
  BY <1>2, OnwardIs
<1>5. c \in cols /\ c \in ToSet(s.active)
  BY <1>1, <1>2 DEF ToSet
<1>6. next = Takes(st, c, oid)
  OBVIOUS
<1> HIDE DEF oid, On
<1>7. c \notin st.done => st.from[c] = On(p)[Turns(n, k, p)]
  BY <1>2 DEF TakenIs, On
<1>8. c \notin st.done => oid = After(st.from[c])
  BY <1>3, <1>7
<1>9. /\ st = [rows |-> st.rows, from |-> st.from, done |-> st.done] /\ DOMAIN st.rows = cols /\ DOMAIN st.from = cols
      /\ ColumnIsAt(st.rows, st.from, c) /\ (c \notin st.done => GoesOn(st.rows[c])) /\ (c \in st.done => st.rows[c] = RowsAsked(c))
  BY <1>5 DEF TakenIs
<1> HIDE DEF c, p, n
<1>10. /\ next = [rows |-> next.rows, from |-> next.from, done |-> next.done]
       /\ DOMAIN next.rows = cols /\ DOMAIN next.from = cols
       /\ \A d \in cols \ {c} : next.rows[d] = st.rows[d] /\ next.from[d] = st.from[d] /\ (d \in next.done <=> d \in st.done)
       /\ next.done \subseteq st.done \cup {c}
       /\ ColumnIsAt(next.rows, next.from, c)
       /\ (c \notin next.done => GoesOn(next.rows[c]) /\ next.from[c] = oid)
       /\ (c \in next.done => next.rows[c] = RowsAsked(c))
  BY <1>1, <1>5, <1>6, <1>8, <1>9, OneRow
<1>11. next.done \subseteq ToSet(s.active)
  BY <1>5, <1>10 DEF TakenIs
<1>12. ASSUME NEW d \in cols
       PROVE  /\ ColumnIsAt(next.rows, next.from, d)
              /\ IF d \in ToSet(s.active) \ next.done THEN GoesOn(next.rows[d]) ELSE next.rows[d] = RowsAsked(d)
  <2>1. CASE d = c
    BY <1>5, <1>10, <2>1
  <2>2. CASE d # c
    <3>1. next.rows[d] = st.rows[d] /\ next.from[d] = st.from[d] /\ (d \in next.done <=> d \in st.done)
      BY <1>10, <2>2
    <3>2. /\ ColumnIsAt(st.rows, st.from, d)
          /\ IF d \in ToSet(s.active) \ st.done THEN GoesOn(st.rows[d]) ELSE st.rows[d] = RowsAsked(d)
      BY DEF TakenIs
    <3> QED
      BY <3>1, <3>2 DEF ColumnIsAt
  <2> QED
    BY <2>1, <2>2
<1>13. ASSUME NEW i \in 1..n, s.active[i] \notin next.done PROVE next.from[s.active[i]] = On(i)[Turns(n, k + 1, i)]
  <2>1. CASE i = p
    BY <1>2, <1>3, <1>4, <1>10, <1>13, <2>1 DEF c
  <2>2. CASE i # p
    <3>1. s.active[i] # c /\ s.active[i] \in cols
      BY <1>1, <1>2, <2>2 DEF Distinct, c, n
    <3>2. s.active[i] \notin st.done /\ next.from[s.active[i]] = st.from[s.active[i]]
      BY <1>10, <1>13, <3>1
    <3>3. st.from[s.active[i]] = On(i)[Turns(n, k, i)]
      BY <3>2 DEF TakenIs, On, n
    <3> QED
      BY <1>2, <2>2, <3>2, <3>3
  <2> QED
    BY <2>1, <2>2
<1> QED
  BY <1>10, <1>11, <1>12, <1>13 DEF TakenIs, On, n

\* A whole answer, or the beginning of one.
IsAnswer(s, m, binds) ==
  /\ binds \in Seq(Nat) /\ Len(binds) <= Len(s.active) * m
  /\ \A k \in 1..Len(binds) : binds[k] = AnswerTo(s, m)[k]

LEMMA TakesTheAnswer ==
  ASSUME MibIs, NEW cols, NEW s, WalkIs(cols, s.active, s.rows, s.from), s.active # << >>,
         NEW m \in Nat \ {0}, NEW binds, IsAnswer(s, m, binds)
  PROVE  TakenIs(cols, s, m, Len(binds), TakesAll(s, binds))
<1> DEFINE n == Len(s.active)
           size == Len(binds)
<1>1. s.active \in Seq(cols) /\ n \in Nat \ {0} /\ size \in Nat /\ size <= n * m
  BY DEF WalkIs, IsAnswer
<1> HIDE DEF n, size
<1>2. size = Len(binds)
  BY DEF size
<1>9. PICK after : TakesUpTo(s, binds, size, after) /\ TakesAll(s, binds) = after[size]
  BY <1>1, <1>2, TakesLoop
<1>3. /\ after = [k \in 0..size |-> IF k = 0 THEN [rows |-> s.rows, from |-> s.from, done |-> {}]
                                    ELSE Takes(after[k - 1], s.active[((k - 1) % Len(s.active)) + 1], binds[k])]
      /\ TakesAll(s, binds) = after[size]
  BY <1>9 DEF TakesUpTo
<1> DEFINE S == {k \in Nat : k <= size => TakenIs(cols, s, m, k, after[k])}
<1>4. 0 \in S
  <2>1. after[0] = [rows |-> s.rows, from |-> s.from, done |-> {}]
    BY <1>1, <1>3
  <2>2. ASSUME NEW i \in 1..n PROVE s.from[s.active[i]] = Onward(s.from[s.active[i]], m)[Turns(n, 0, i)]
    <3>1. Turns(n, 0, i) = 0
      <4>1. 0 \div n = 0 /\ 0 % n = 0
        BY <1>1
      <4> QED
        BY <4>1 DEF Turns
    <3>2. Onward(s.from[s.active[i]], m)[0] = s.from[s.active[i]]
      BY OnwardIs
    <3> QED
      BY <3>1, <3>2
  <2> DEFINE st == after[0]
  <2>3. st.rows = s.rows /\ st.from = s.from /\ st.done = {}
    BY <2>1
  <2>4. st = [rows |-> st.rows, from |-> st.from, done |-> st.done]
    BY <2>1
  <2> HIDE DEF st
  <2>5. TakenIs(cols, s, m, 0, st)
    BY <2>2, <2>3, <2>4 DEF TakenIs, WalkIs, n
  <2> QED
    BY <2>5 DEF st
<1>5. ASSUME NEW k \in Nat, k \in S PROVE k + 1 \in S
  <2>1. SUFFICES ASSUME k + 1 <= size PROVE TakenIs(cols, s, m, k + 1, after[k + 1])
    OBVIOUS
  <2>2. TakenIs(cols, s, m, k, after[k])
    BY <1>1, <1>5, <2>1
  <2>3. k + 1 \in 0..size /\ k + 1 # 0 /\ (k + 1) - 1 = k /\ k + 1 \in 1..size
    BY <1>1, <2>1
  <2>4. after[k + 1] = Takes(after[k], s.active[(k % n) + 1], binds[k + 1])
    BY <1>3, <2>3 DEF n
  <2>5. binds[k + 1] = AnswerTo(s, m)[k + 1]
    BY <2>3 DEF IsAnswer, size
  <2>6. k \in 0..(n * m - 1)
    <3>1. n * m \in Int
      BY <1>1
    <3> QED
      BY <1>1, <2>1, <3>1
  <2> DEFINE st == after[k]
             next == after[k + 1]
  <2>7. next = Takes(st, s.active[(k % Len(s.active)) + 1], AnswerTo(s, m)[k + 1])
    BY <2>4, <2>5 DEF n
  <2>8. k \in 0..(Len(s.active) * m - 1)
    BY <2>6 DEF n
  <2> HIDE DEF st, next
  <2>9. TakenIs(cols, s, m, k + 1, next)
    BY <2>2, <2>7, <2>8, TakesOne DEF st
  <2> QED
    BY <2>9 DEF next
<1> HIDE DEF S
<1>6. size \in S
  BY <1>1, <1>4, <1>5, ByNumbers
<1>7. TakenIs(cols, s, m, size, after[size])
  BY <1>1, <1>6 DEF S
<1> QED
  BY <1>3, <1>7 DEF size

LEMMA WholeIsAnswer ==
  ASSUME MibIs, NEW cols, NEW s, s.active \in Seq(cols), s.active # << >>, NEW m \in Nat \ {0}
  PROVE  /\ IsAnswer(s, m, AnswerTo(s, m))
         /\ \A k \in 1..Len(AnswerTo(s, m)) : IsAnswer(s, m, SubSeq(AnswerTo(s, m), 1, k))
<1> DEFINE n == Len(s.active)
           whole == AnswerTo(s, m)
           size == n * m
<1>1. n \in Nat \ {0}
  OBVIOUS
<1>2. size \in Nat
  BY <1>1
<1>3. whole = [k \in 1..size |-> Onward(s.from[s.active[((k - 1) % n) + 1]], m)[((k - 1) \div n) + 1]]
  BY DEF AnswerTo
<1>4. ASSUME NEW k \in 1..size PROVE whole[k] \in Nat
  <2>1. k - 1 \in 0..(n * m - 1) /\ (k - 1) + 1 = k
    BY <1>2
  <2>2. whole[k] = After(Onward(s.from[s.active[((k - 1) % n) + 1]], m)[Turns(n, k - 1, ((k - 1) % n) + 1)])
    BY <2>1, AnswerIs
  <2> QED
    BY <2>2, AfterIs
<1> HIDE DEF whole, size
<1>5. DOMAIN whole = 1..size /\ whole \in [1..size -> Nat]
  <2> DEFINE G(k) == Onward(s.from[s.active[((k - 1) % n) + 1]], m)[((k - 1) \div n) + 1]
  <2>1. whole = [k \in 1..size |-> G(k)]
    BY <1>3
  <2> HIDE DEF G
  <2> QED
    BY <1>4, <2>1
<1>6. whole \in Seq(Nat) /\ Len(whole) = size
  BY <1>2, <1>5
<1>7. IsAnswer(s, m, whole)
  BY <1>2, <1>6 DEF IsAnswer, whole, size
<1>8. ASSUME NEW k \in 1..Len(whole) PROVE IsAnswer(s, m, SubSeq(whole, 1, k))
  <2>1. k \in Nat /\ k <= size
    BY <1>2, <1>6
  <2>2. SubSeq(whole, 1, k) \in Seq(Nat) /\ Len(SubSeq(whole, 1, k)) = k /\ \A i \in 1..k : SubSeq(whole, 1, k)[i] = whole[i]
    BY <1>2, <1>6, <2>1
  <2> QED
    BY <1>2, <2>1, <2>2 DEF IsAnswer, whole, size
<1> QED
  BY <1>7, <1>8 DEF whole

-----------------------------------------------------------------------------
\* The columns still read after an answer: those not done, in the order they had.
KeptUpTo(columns, done, m, kept) ==
  kept = [i \in 0..m |-> IF i = 0 THEN << >> ELSE IF columns[i] \in done THEN kept[i - 1] ELSE Append(kept[i - 1], columns[i])]

LEMMA KeptLoop ==
  ASSUME NEW columns, NEW done, NEW m \in Nat, m = Len(columns)
  PROVE  \E kept : KeptUpTo(columns, done, m, kept) /\ StillActive(columns, done) = kept[m]
<1> DEFINE With(x, i) == IF columns[i] \in done THEN x ELSE Append(x, columns[i])
           IsAfter(f, j) == f = [i \in 0..j |-> IF i = 0 THEN << >> ELSE With(f[i - 1], i)]
           S == {j \in Nat : \E f : IsAfter(f, j)}
<1> HIDE DEF With
<1>1. 0 \in S
  <2>1. IsAfter([i \in 0..0 |-> << >>], 0)
    OBVIOUS
  <2> QED
    BY <2>1
<1>2. ASSUME NEW j \in Nat, j \in S PROVE j + 1 \in S
  <2>1. PICK f : IsAfter(f, j)
    BY <1>2
  <2> DEFINE g == [i \in 0..(j + 1) |-> IF i <= j THEN f[i] ELSE With(f[j], j + 1)]
  <2>2. \A i \in 0..(j + 1) : g[i] = IF i = 0 THEN << >> ELSE With(g[i - 1], i)
    <3> TAKE i \in 0..(j + 1)
    <3>1. CASE i = 0
      BY <2>1, <3>1
    <3>2. CASE i # 0 /\ i <= j
      <4>1. i \in 0..j /\ i - 1 \in 0..j
        BY <3>2
      <4>2. f[i] = With(f[i - 1], i)
        BY <2>1, <3>2, <4>1
      <4>3. g[i] = f[i] /\ g[i - 1] = f[i - 1]
        BY <3>2, <4>1
      <4> QED
        BY <3>2, <4>2, <4>3
    <3>3. CASE i = j + 1
      BY <3>3
    <3> QED
      BY <3>1, <3>2, <3>3
  <2>3. IsAfter(g, j + 1)
    BY <2>2
  <2> HIDE DEF IsAfter, g
  <2>4. \E h : IsAfter(h, j + 1)
    BY <2>3
  <2> QED
    BY <2>4
<1> HIDE DEF S
<1>3. m \in S
  BY <1>1, <1>2, ByNumbers
<1>4. PICK f : IsAfter(f, m)
  BY <1>3 DEF S
<1> DEFINE kept[i \in 0..m] == IF i = 0 THEN << >> ELSE With(kept[i - 1], i)
<1>5. IsAfter(kept, m)
  BY <1>4
<1>6. StillActive(columns, done) = kept[m]
  BY DEF StillActive, With
<1> HIDE DEF kept
<1> QED
  BY <1>5, <1>6 DEF With, KeptUpTo

LEMMA StillActiveIs ==
  ASSUME NEW T, NEW columns \in Seq(T), Distinct(columns), NEW done
  PROVE  /\ StillActive(columns, done) \in Seq(T) /\ Distinct(StillActive(columns, done))
         /\ ToSet(StillActive(columns, done)) = ToSet(columns) \ done
<1> DEFINE m == Len(columns)
<1>1. m \in Nat
  OBVIOUS
<1>2. PICK kept : KeptUpTo(columns, done, m, kept) /\ StillActive(columns, done) = kept[m]
  BY <1>1, KeptLoop
<1>3. kept = [i \in 0..m |-> IF i = 0 THEN << >> ELSE IF columns[i] \in done THEN kept[i - 1] ELSE Append(kept[i - 1], columns[i])]
  BY <1>2 DEF KeptUpTo
<1> DEFINE Kept(i) == /\ kept[i] \in Seq(T) /\ Distinct(kept[i])
                      /\ ToSet(kept[i]) = {columns[j] : j \in 1..i} \ done
           S == {i \in Nat : i <= m => Kept(i)}
<1>4. 0 \in S
  <2>1. kept[0] = << >>
    BY <1>1, <1>3
  <2>2. << >> \in Seq(T) /\ Distinct(<< >>) /\ ToSet(<< >>) = {}
    BY DEF Distinct, ToSet
  <2>3. {columns[j] : j \in 1..0} = {}
    OBVIOUS
  <2> QED
    BY <2>1, <2>2, <2>3
<1>5. ASSUME NEW i \in Nat, i \in S PROVE i + 1 \in S
  <2>1. SUFFICES ASSUME i + 1 <= m PROVE Kept(i + 1)
    OBVIOUS
  <2>2. Kept(i)
    BY <1>1, <1>5, <2>1
  <2> DEFINE k == kept[i]
             c == columns[i + 1]
  <2>3. kept[i + 1] = IF c \in done THEN k ELSE Append(k, c)
    <3>1. i + 1 \in 0..m /\ i + 1 # 0 /\ (i + 1) - 1 = i
      BY <1>1, <2>1
    <3> HIDE DEF m
    <3> QED
      BY <1>3, <3>1
  <2>4. c \in T /\ i + 1 \in 1..m
    BY <1>1, <2>1
  <2>5. {columns[j] : j \in 1..(i + 1)} = {columns[j] : j \in 1..i} \cup {c}
    BY <1>1, <2>1
  <2>6. c \notin {columns[j] : j \in 1..i}
    <3>1. ASSUME NEW j \in 1..i, columns[j] = c PROVE FALSE
      BY <1>1, <2>1, <3>1 DEF Distinct
    <3> QED
      BY <3>1
  <2>7. k \in Seq(T) /\ Distinct(k) /\ ToSet(k) = {columns[j] : j \in 1..i} \ done
    BY <2>2
  <2> HIDE DEF k, c
  <2>8. CASE c \in done
    BY <2>3, <2>5, <2>7, <2>8
  <2>9. CASE c \notin done
    <3>1. Append(k, c) \in Seq(T) /\ Len(Append(k, c)) = Len(k) + 1 /\ Append(k, c)[Len(k) + 1] = c
          /\ \A j \in 1..Len(k) : Append(k, c)[j] = k[j]
      BY <2>4, <2>7
    <3>2. \A j \in 1..Len(k) : k[j] # c
      BY <2>6, <2>7 DEF ToSet
    <3>3. Distinct(Append(k, c))
      BY <2>7, <3>1, <3>2 DEF Distinct
    <3>4. ToSet(Append(k, c)) = ToSet(k) \cup {c}
      BY <2>7, <3>1 DEF ToSet
    <3> QED
      BY <2>3, <2>5, <2>7, <2>9, <3>1, <3>3, <3>4
  <2> QED
    BY <2>8, <2>9
<1> HIDE DEF S
<1>6. m \in S
  BY <1>1, <1>4, <1>5, ByNumbers
<1>7. Kept(m)
  BY <1>1, <1>6 DEF S
<1>8. ToSet(columns) = {columns[j] : j \in 1..m}
  BY DEF ToSet
<1> QED
  BY <1>2, <1>7, <1>8

\* A walk takes an answer in.
GoesOnOrEnds(cols, next) ==
  /\ next = [at |-> next.at, active |-> next.active, from |-> next.from, rows |-> next.rows]
  /\ next.at \in {"reading", "done"} /\ (next.at = "done" <=> next.active = << >>)
  /\ WalkIs(cols, next.active, next.rows, next.from)

LEMMA TakenKeepsWalk ==
  ASSUME MibIs, NEW cols, NEW s, WalkIs(cols, s.active, s.rows, s.from), s.active # << >>,
         NEW m \in Nat \ {0}, NEW binds, IsAnswer(s, m, binds),
         NEW next, next = Taken(s, binds)
  PROVE  GoesOnOrEnds(cols, next)
<1> DEFINE st == TakesAll(s, binds)
           active == StillActive(s.active, st.done)
<1>1. TakenIs(cols, s, m, Len(binds), st)
  BY TakesTheAnswer
<1>2. active \in Seq(cols) /\ Distinct(active) /\ ToSet(active) = ToSet(s.active) \ st.done
  BY StillActiveIs DEF WalkIs
<1>3. next = [at |-> IF active = << >> THEN "done" ELSE "reading", active |-> active, from |-> st.from, rows |-> st.rows]
  BY DEF Taken
<1> HIDE DEF st, active
<1>4. WalkIs(cols, active, st.rows, st.from)
  BY <1>1, <1>2 DEF TakenIs, WalkIs
<1> QED
  BY <1>3, <1>4 DEF GoesOnOrEnds

-----------------------------------------------------------------------------
\* The walks of a device, from one step to the next.

Standings == {"waiting", "reading", "bulk", "next", "broken", "done"}
WalkHolds(w, s) ==
  /\ s = [at |-> s.at, active |-> s.active, from |-> s.from, rows |-> s.rows]
  /\ s.at \in Standings
  /\ s.at \in {"waiting", "reading", "bulk", "next"} => s.active # << >>
  /\ s.at = "done" => s.active = << >>
  /\ WalkIs(Columns(w), s.active, s.rows, s.from)
WalksHold ==
  /\ walking = [w \in DOMAIN Walks |-> walking[w]]
  /\ \A w \in DOMAIN Walks : WalkHolds(w, walking[w])
SnmpInv == MibIs /\ WalksHold

\* What the walks stand for is the device's, and that does not change.
LEMMA ColumnStays ==
  ASSUME mib' = mib, NEW CONSTANT base
  PROVE  Column(base)' = Column(base)
BY DEF Column, NextRows, After, End

LEMMA ColumnsStay ==
  ASSUME mib' = mib, limit' = limit, NEW CONSTANT cols, NEW CONSTANT active, NEW CONSTANT rows, NEW CONSTANT from,
         WalkIs(cols, active, rows, from)
  PROVE  WalkIs(cols, active, rows, from)'
<1>1. \A base : Column(base)' = Column(base)
  BY ColumnStays
<1>2. \A base : RowsAsked(base)' = RowsAsked(base)
  BY <1>1 DEF RowsAsked, Full
<1>3. \A row, base : Begins(row, base)' <=> Begins(row, base)
  BY <1>1 DEF Begins
<1>4. \A row : GoesOn(row)' <=> GoesOn(row)
  BY DEF GoesOn
<1> QED
  BY <1>2, <1>3, <1>4 DEF WalkIs, ColumnIsAt

LEMMA OneWalkChanges ==
  ASSUME SnmpInv, mib' = mib, limit' = limit, NEW w \in DOMAIN Walks, NEW s, WalkHolds(w, s),
         walking' = [walking EXCEPT ![w] = s]
  PROVE  SnmpInv'
<1>1. MibIs'
  BY DEF SnmpInv, MibIs
<1>2. walking = [v \in DOMAIN Walks |-> walking[v]]
  BY DEF SnmpInv, WalksHold
<1>3. walking' = [v \in DOMAIN Walks |-> IF v = w THEN s ELSE walking[v]]
  BY <1>2
<1>4. walking' = [v \in DOMAIN Walks |-> walking'[v]]
  BY <1>3
<1>5. ASSUME NEW v \in DOMAIN Walks PROVE WalkHolds(v, walking[v])'
  <2> DEFINE x == IF v = w THEN s ELSE walking[v]
  <2>1. walking[v]' = x
    BY <1>3
  <2>2. WalkHolds(v, x)
    BY DEF SnmpInv, WalksHold
  <2> HIDE DEF x
  <2>3. WalkIs(Columns(v), x.active, x.rows, x.from)
    BY <2>2 DEF WalkHolds
  <2>4. \A base : Column(base)' = Column(base)
    BY ColumnStays
  <2>5. ASSUME NEW c \in Columns(v)
        PROVE  /\ ColumnIsAt(walking[v].rows, walking[v].from, c)'
               /\ (c \in ToSet(walking[v].active) => GoesOn(walking[v].rows[c]))'
               /\ (c \notin ToSet(walking[v].active) => walking[v].rows[c] = RowsAsked(c))'
    <3>1. /\ ColumnIsAt(x.rows, x.from, c)
          /\ (c \in ToSet(x.active) => GoesOn(x.rows[c])) /\ (c \notin ToSet(x.active) => x.rows[c] = RowsAsked(c))
      BY <2>3 DEF WalkIs
    <3>2. ColumnIsAt(walking[v].rows, walking[v].from, c)'
      BY <2>1, <2>4, <3>1 DEF ColumnIsAt, Begins, FromOf
    <3>3. (c \in ToSet(walking[v].active) => GoesOn(walking[v].rows[c]))'
      BY <2>1, <3>1 DEF GoesOn
    <3>4. (c \notin ToSet(walking[v].active) => walking[v].rows[c] = RowsAsked(c))'
      BY <2>1, <2>4, <3>1 DEF RowsAsked, Full
    <3> QED
      BY <3>2, <3>3, <3>4
  <2>6. WalkIs(Columns(v), walking[v].active, walking[v].rows, walking[v].from)'
    <3>1. /\ AreColumns(Columns(v)) /\ DOMAIN x.rows = Columns(v) /\ DOMAIN x.from = Columns(v)
          /\ x.active \in Seq(Columns(v)) /\ Distinct(x.active)
      BY <2>3 DEF WalkIs
    <3> QED
      BY <2>1, <2>5, <3>1 DEF WalkIs, Columns, AreColumns, Distinct
  <2> QED
    BY <2>1, <2>2, <2>6 DEF WalkHolds
<1> QED
  BY <1>1, <1>4, <1>5 DEF SnmpInv, WalksHold

LEMMA ColumnsAre ==
  ASSUME NEW w \in DOMAIN Walks
  PROVE  AreColumns(Columns(w)) /\ Walks[w] \in Seq(Columns(w)) /\ Distinct(Walks[w]) /\ Walks[w] # << >>
<1> DEFINE cols == Walks[w]
<1>1. cols \in Seq({c \in Nat : c >= 10}) /\ cols # << >> /\ \A i, j \in DOMAIN cols : cols[i] = cols[j] => i = j
  BY SnmpAssumption
<1> HIDE DEF cols
<1>2. DOMAIN cols = 1..Len(cols) /\ Len(cols) \in Nat /\ \A i \in 1..Len(cols) : cols[i] \in Nat /\ cols[i] >= 10
  BY <1>1
<1>3. Distinct(cols)
  BY <1>1, <1>2 DEF Distinct
<1>4. ToSet(cols) = {cols[i] : i \in 1..Len(cols)}
  BY <1>2 DEF ToSet
<1>5. cols \in Seq(ToSet(cols))
  <2>1. \A i \in 1..Len(cols) : cols[i] \in ToSet(cols)
    BY <1>4
  <2> QED
    BY <1>1, <1>2, <2>1
<1>6. AreColumns(ToSet(cols))
  BY <1>2, <1>4 DEF AreColumns
<1> QED
  BY <1>1, <1>3, <1>5, <1>6 DEF Columns, cols

LEMMA SnmpInitHolds ==
  ASSUME SnmpInit PROVE SnmpInv
<1>1. MibIs
  BY SnmpAssumption DEF SnmpInit, MibIs
<1>2. walking = [w \in DOMAIN Walks |->
               [at |-> "waiting", active |-> Walks[w], from |-> [c \in ToSet(Walks[w]) |-> c], rows |-> NoRows(w)]]
  BY DEF SnmpInit, SnmpStarts
<1>3. ASSUME NEW w \in DOMAIN Walks PROVE WalkHolds(w, walking[w])
  <2> DEFINE from == [c \in Columns(w) |-> c]
             rows == [c \in Columns(w) |-> << >>]
  <2>1. walking[w] = [at |-> "waiting", active |-> Walks[w], from |-> from, rows |-> rows]
    BY <1>2 DEF NoRows, Columns
  <2>2. AreColumns(Columns(w)) /\ Walks[w] \in Seq(Columns(w)) /\ Distinct(Walks[w]) /\ Walks[w] # << >>
    BY ColumnsAre
  <2>3. ASSUME NEW c \in Columns(w) PROVE ColumnIsAt(rows, from, c) /\ GoesOn(rows[c])
    <3>1. c \in Nat /\ c >= 10
      BY <2>2 DEF AreColumns
    <3>2. Column(c) \in Seq(Nat)
      BY <1>1, <3>1, ColumnIs DEF IsChain
    <3>3. Begins(<< >>, c)
      BY <3>2 DEF Begins
    <3>4. FromOf(<< >>, c) = c
      BY DEF FromOf
    <3>5. GoesOn(<< >>)
      BY <1>1 DEF GoesOn, MibIs
    <3> QED
      BY <3>3, <3>4, <3>5 DEF ColumnIsAt
  <2>4. DOMAIN rows = Columns(w) /\ DOMAIN from = Columns(w)
    OBVIOUS
  <2> HIDE DEF rows, from
  <2>5. WalkIs(Columns(w), Walks[w], rows, from)
    BY <2>2, <2>3, <2>4 DEF WalkIs, Columns
  <2> QED
    BY <2>1, <2>2, <2>5 DEF WalkHolds, Standings
<1> QED
  BY <1>1, <1>2, <1>3 DEF SnmpInv, WalksHold

LEMMA StandingChanges ==
  ASSUME NEW w \in DOMAIN Walks, NEW s, WalkHolds(w, s), s.at # "done", s.at # "broken", NEW at \in {"reading", "bulk", "next", "broken"}
  PROVE  WalkHolds(w, [s EXCEPT !.at = at])
<1> DEFINE x == [s EXCEPT !.at = at]
<1>1. x = [at |-> at, active |-> s.active, from |-> s.from, rows |-> s.rows]
  BY DEF WalkHolds
<1>2. s.active # << >> /\ WalkIs(Columns(w), s.active, s.rows, s.from)
  BY DEF WalkHolds, Standings
<1> HIDE DEF x
<1> QED
  BY <1>1, <1>2 DEF WalkHolds, Standings, x

LEMMA StandingStep ==
  ASSUME SnmpInv, mib' = mib, limit' = limit, NEW w \in DOMAIN Walks, walking[w].at # "done", walking[w].at # "broken",
         NEW at \in {"reading", "bulk", "next", "broken"}, walking' = [walking EXCEPT ![w].at = at]
  PROVE  SnmpInv'
<1> DEFINE s == [walking[w] EXCEPT !.at = at]
<1>1. WalkHolds(w, walking[w])
  BY DEF SnmpInv, WalksHold
<1>2. WalkHolds(w, s)
  BY <1>1, StandingChanges
<1>3. walking' = [walking EXCEPT ![w] = s]
  OBVIOUS
<1> HIDE DEF s
<1> QED
  BY <1>2, <1>3, OneWalkChanges

LEMMA AnswerStep ==
  ASSUME SnmpInv, mib' = mib, limit' = limit, NEW w \in DOMAIN Walks, walking[w].at \in {"bulk", "next"},
         NEW m \in Nat \ {0}, NEW binds, IsAnswer(walking[w], m, binds),
         walking' = [walking EXCEPT ![w] = Taken(walking[w], binds)]
  PROVE  SnmpInv'
<1> DEFINE s == walking[w]
           next == Taken(s, binds)
<1>1. WalkHolds(w, s) /\ MibIs
  BY DEF SnmpInv, WalksHold
<1>2. s.active # << >> /\ WalkIs(Columns(w), s.active, s.rows, s.from)
  BY <1>1 DEF WalkHolds
<1>3. next = Taken(s, binds) /\ walking' = [walking EXCEPT ![w] = next] /\ IsAnswer(s, m, binds)
  OBVIOUS
<1> HIDE DEF s, next
<1>4. /\ next = [at |-> next.at, active |-> next.active, from |-> next.from, rows |-> next.rows]
      /\ next.at \in {"reading", "done"} /\ (next.at = "done" <=> next.active = << >>)
      /\ WalkIs(Columns(w), next.active, next.rows, next.from)
  <2> DEFINE cols == Columns(w)
  <2>1. WalkIs(cols, s.active, s.rows, s.from)
    BY <1>2
  <2> HIDE DEF cols
  <2>2. s.active # << >> /\ m \in Nat \ {0} /\ IsAnswer(s, m, binds) /\ next = Taken(s, binds) /\ MibIs
    BY <1>1, <1>2, <1>3
  <2>3. GoesOnOrEnds(cols, next)
    BY <2>1, <2>2, TakenKeepsWalk
  <2> QED
    BY <2>3 DEF cols, GoesOnOrEnds
<1>5. WalkHolds(w, next)
  BY <1>4 DEF WalkHolds, Standings
<1> QED
  BY <1>3, <1>5, OneWalkChanges

LEMMA SnmpNextHolds ==
  ASSUME SnmpInv, [SnmpNext]_snmpVars PROVE SnmpInv'
<1>1. CASE Tries \/ UNCHANGED snmpVars
  <2>1. mib' = mib /\ limit' = limit /\ walking' = walking
    BY <1>1 DEF Tries, snmpVars
  <2>2. CASE DOMAIN Walks = {}
    <3>1. WalksHold' /\ MibIs'
      BY <2>1, <2>2 DEF WalksHold, SnmpInv, MibIs
    <3> QED
      BY <3>1 DEF SnmpInv
  <2>3. CASE DOMAIN Walks # {}
    <3>1. PICK w \in DOMAIN Walks : TRUE
      BY <2>3
    <3>2. WalkHolds(w, walking[w])
      BY DEF SnmpInv, WalksHold
    <3>3. walking' = [walking EXCEPT ![w] = walking[w]]
      BY <2>1 DEF SnmpInv, WalksHold
    <3> QED
      BY <2>1, <3>2, <3>3, OneWalkChanges
  <2> QED
    BY <2>2, <2>3
<1>2. ASSUME NEW w \in DOMAIN Walks, BeginsWalk(w) PROVE SnmpInv'
  BY <1>2, StandingStep DEF BeginsWalk
<1>3. ASSUME NEW w \in DOMAIN Walks, Asks(w) PROVE SnmpInv'
  BY <1>3, StandingStep DEF Asks
<1>4. ASSUME NEW w \in DOMAIN Walks, BulkFails(w) PROVE SnmpInv'
  BY <1>4, StandingStep DEF BulkFails
<1>5. ASSUME NEW w \in DOMAIN Walks, BreaksOff(w) PROVE SnmpInv'
  BY <1>5, StandingStep DEF BreaksOff
<1>6. ASSUME NEW w \in DOMAIN Walks, walking[w].at \in {"bulk", "next"}, NEW m \in Nat \ {0}
      PROVE  /\ IsAnswer(walking[w], m, AnswerTo(walking[w], m))
             /\ \A k \in 1..Len(AnswerTo(walking[w], m)) : IsAnswer(walking[w], m, SubSeq(AnswerTo(walking[w], m), 1, k))
  <2>1. WalkHolds(w, walking[w]) /\ MibIs
    BY DEF SnmpInv, WalksHold
  <2>2. walking[w].active # << >> /\ walking[w].active \in Seq(Columns(w))
    BY <1>6, <2>1 DEF WalkHolds, WalkIs
  <2> QED
    BY <2>1, <2>2, WholeIsAnswer
<1>7. ASSUME NEW w \in DOMAIN Walks, GetsBulk(w) PROVE SnmpInv'
  <2>1. PICK k \in 1..Len(AnswerTo(walking[w], Repetitions)) :
          walking' = [walking EXCEPT ![w] = Taken(walking[w], SubSeq(AnswerTo(walking[w], Repetitions), 1, k))]
    BY <1>7 DEF GetsBulk
  <2>2. walking[w].at \in {"bulk", "next"} /\ mib' = mib /\ limit' = limit
    BY <1>7 DEF GetsBulk
  <2>3. Repetitions \in Nat \ {0}
    BY SnmpAssumption
  <2> DEFINE binds == SubSeq(AnswerTo(walking[w], Repetitions), 1, k)
  <2>4. IsAnswer(walking[w], Repetitions, binds)
    BY <1>6, <2>2, <2>3
  <2> HIDE DEF binds
  <2> QED
    BY <2>1, <2>2, <2>3, <2>4, AnswerStep DEF binds
<1>8. ASSUME NEW w \in DOMAIN Walks, GetsNext(w) PROVE SnmpInv'
  <2>1. walking' = [walking EXCEPT ![w] = Taken(walking[w], AnswerTo(walking[w], 1))]
        /\ walking[w].at \in {"bulk", "next"} /\ mib' = mib /\ limit' = limit
    BY <1>8 DEF GetsNext
  <2>2. IsAnswer(walking[w], 1, AnswerTo(walking[w], 1))
    BY <1>6, <2>1
  <2> DEFINE binds == AnswerTo(walking[w], 1)
             m == 1
  <2>3. IsAnswer(walking[w], m, binds) /\ walking' = [walking EXCEPT ![w] = Taken(walking[w], binds)] /\ m \in Nat \ {0}
    BY <2>1, <2>2
  <2> HIDE DEF binds, m
  <2> QED
    BY <2>1, <2>3, AnswerStep
<1> QED
  BY <1>1, <1>2, <1>3, <1>4, <1>5, <1>7, <1>8 DEF SnmpNext

LEMMA SnmpInvHolds == SnmpSpec => []SnmpInv
<1>1. SnmpInit => SnmpInv
  BY SnmpInitHolds
<1>2. SnmpInv /\ [SnmpNext]_snmpVars => SnmpInv'
  BY SnmpNextHolds
<1> QED
  BY <1>1, <1>2, PTL DEF SnmpSpec

\* At any moment a walk that was begun has, of each of its columns, a beginning of what was asked of it, and all of it
\* once the walk is done: for every agent with finitely many OIDs, every width of a request and every length of an
\* answer (snmp.py:227-290).
THEOREM WalksAlwaysReadTheTable == SnmpSpec => []WalksReadTheTable
<1>1. SnmpInv => WalksReadTheTable
  <2>1. SUFFICES ASSUME SnmpInv, NEW w \in DOMAIN Walks, NEW c \in ToSet(Walks[w])
                 PROVE  /\ IsPrefix(walking[w].rows[c], RowsAsked(c))
                        /\ walking[w].at = "done" => walking[w].rows[c] = RowsAsked(c)
    BY DEF WalksReadTheTable
  <2> DEFINE s == walking[w]
             rows == s.rows[c]
  <2>2. WalkHolds(w, s) /\ MibIs
    BY <2>1 DEF SnmpInv, WalksHold
  <2>3. c \in Columns(w) /\ WalkIs(Columns(w), s.active, s.rows, s.from)
    BY <2>1, <2>2 DEF WalkHolds, Columns
  <2>4. c \in Nat /\ c >= 10 /\ Begins(rows, c) /\ IF c \in ToSet(s.active) THEN GoesOn(rows) ELSE rows = RowsAsked(c)
    BY <2>3 DEF WalkIs, AreColumns, ColumnIsAt
  <2>5. s.at = "done" => c \notin ToSet(s.active)
    BY <2>2 DEF WalkHolds, ToSet
  <2> HIDE DEF s, rows
  <2>6. IsPrefix(rows, RowsAsked(c))
    <3>1. CASE c \in ToSet(s.active)
      BY <2>2, <2>4, <3>1, PartOfColumn
    <3>2. CASE c \notin ToSet(s.active)
      <4>1. rows = RowsAsked(c) /\ rows \in Seq(Nat)
        BY <2>4, <3>2 DEF Begins
      <4>2. IsPrefix(rows, rows)
        BY <4>1 DEF IsPrefix
      <4> QED
        BY <4>1, <4>2
    <3> QED
      BY <3>1, <3>2
  <2> QED
    BY <2>4, <2>5, <2>6 DEF s, rows
<1> QED
  BY <1>1, SnmpInvHolds, PTL

-----------------------------------------------------------------------------
\* The forwarding tables.

BridgeKept ==
  /\ 0 \notin DOMAIN bridge.contexts
  /\ \A base \in {bridge.base} \cup Range(bridge.contexts) : DOMAIN base \subseteq PortNumbers /\ Range(base) \subseteq PortNumbers
BeenInv ==
  /\ DOMAIN place = Machines /\ DOMAIN been = Machines
  /\ \A m \in Machines : place[m] \in been[m] /\ IsFiniteSet(been[m])

NamesInv ==
  /\ DOMAIN reading = {"at", "names", "vlans", "contexts", "table", "entries", "named"}
  /\ reading.at \in {"names", "vlans", "contexts", "contextPorts", "default", "done"}
  /\ reading.names \in {bridge.ifName, bridge.ifDescr, Nothing}
  /\ reading.named => reading.names = bridge.ifName
  /\ reading.at \in {"names", "vlans"} => reading.vlans = << >> /\ reading.contexts = {}
  /\ reading.vlans # << >> \/ reading.contexts # {} => bridge.v2c
  /\ reading.contexts \subseteq DOMAIN bridge.contexts
  /\ reading.at = "default" => reading.contexts = {}
  /\ reading.contexts = {} /\ reading.at # "done" => reading.entries = {}

\* A port p of a base is that of interface i, or none.
PortIs(base, p, i) == p = BridgePortOf(base, i) /\ (i = 0 \/ i \in Range(base))

\* Rows that are read and not yet named are of the VLAN whose ports are being asked for.
TableInv ==
  reading.at = "contextPorts" =>
    /\ reading.vlans # << >> /\ Head(reading.vlans) \in DOMAIN bridge.contexts
    /\ DOMAIN reading.table \subseteq Machines
    /\ \A m \in DOMAIN reading.table : \E p \in been[m] :
         p[1] = Head(reading.vlans) /\ PortIs(bridge.contexts[Head(reading.vlans)], reading.table[m], p[2])

\* An entry is of a place where its machine has been, in the VLAN it says, and its name that of the interface there.
ByContext == reading.contexts # {}
BaseRead(vlan) == IF ByContext THEN bridge.contexts[vlan] ELSE bridge.base
Where(vlan, v) ==
  IF ByContext THEN vlan \in reading.contexts /\ v = vlan
  ELSE IF vlan = 0 THEN v \in bridge.flat ELSE bridge.vlanTable /\ v = vlan /\ v \in Nat
Names(port, vlan, i) ==
  port >= FirstPortName => i \in Range(BaseRead(vlan)) /\ i \in DOMAIN reading.names /\ port = reading.names[i]
EntriesInv ==
  \A e \in reading.entries :
    e.mac \in Machines /\ \E p \in been[e.mac] : Where(e.vlan, p[1]) /\ Names(e.port, e.vlan, p[2])

\* The lookup: what it was told of an entry is the port of a place where the machine has been.
Asked(e) == e \in reading.entries /\ (bridge.cisco => e.vlan # 0)
Told(e, port) ==
  /\ ContextOf(e) = 0 \/ ContextOf(e) \in DOMAIN bridge.contexts
  /\ \E p \in been[e.mac] :
       /\ e.vlan \in {p[1], 0}
       /\ p[2] \in Range(BaseOf(ContextOf(e)))
       /\ port = <<BridgePortOf(BaseOf(ContextOf(e)), p[2]), ContextOf(e)>>
LookupShape ==
  /\ lookup = [at |-> lookup.at, entries |-> lookup.entries, port |-> lookup.port, index |-> lookup.index, found |-> lookup.found]
  /\ lookup.at \in {"none", "entries", "ports", "done"}
  /\ lookup.at # "none" => reading.at = "done"
  /\ lookup.at = "none" => lookup.entries = {} /\ lookup.port = Nothing
  /\ lookup.at \in {"none", "entries"} => lookup.index = Nothing
  /\ lookup.at # "done" => lookup.found = Nothing
AskedInv == \A e \in lookup.entries \cup DOMAIN lookup.port : Asked(e)
ToldInv == \A e \in DOMAIN lookup.port : Told(e, lookup.port[e])
IndexInv == \A f \in DOMAIN lookup.index : f \in Range(lookup.port) /\ lookup.index[f] = BaseOf(f[2])[f[1]]
FoundInv ==
  \A e \in DOMAIN lookup.found :
    /\ e \in DOMAIN lookup.port /\ lookup.port[e] \in DOMAIN lookup.index
    /\ LET i == lookup.index[lookup.port[e]] IN lookup.found[e] \in NamesOf(i) \cup {i}
LookupInv == LookupShape /\ AskedInv /\ ToldInv /\ IndexInv /\ FoundInv

\* An entry whose machine stays is asked for, told, and its port found in turn.
Stays(e) == e.port >= FirstPortName /\ Cardinality(been[e.mac]) = 1
StayersInv ==
  answered /\ reading.named /\ SameContexts =>
    \A e \in reading.entries :
      Stays(e) =>
        /\ lookup.at = "entries" => e \in lookup.entries \cup DOMAIN lookup.port
        /\ lookup.at = "ports" => e \in DOMAIN lookup.port /\ lookup.port[e] \in DOMAIN lookup.index
        /\ lookup.at = "done" => e \in DOMAIN lookup.found /\ lookup.found[e] = e.port

TablesInv == BridgeKept /\ BeenInv /\ NamesInv /\ TableInv /\ EntriesInv /\ LookupInv /\ StayersInv

LEMMA PortOf ==
  ASSUME NEW base, DOMAIN base \subseteq PortNumbers, NEW i, i \in Range(base), Range(base) \subseteq PortNumbers
  PROVE  /\ BridgePortOf(base, i) \in DOMAIN base /\ base[BridgePortOf(base, i)] = i
         /\ BridgePortOf(base, i) # 0 /\ i # 0 /\ i \in Int /\ BridgePortOf(base, i) \in Int
<1>1. \E p \in DOMAIN base : base[p] = i
  BY DEF Range
<1>2. \A n \in PortNumbers : n # 0 /\ n \in Int
  BY DEF PortNumbers
<1> QED
  BY <1>1, <1>2, SMT DEF BridgePortOf

\* What resolve_port names, of a port in a table or the part of it that was read.
LEMMA ResolvedIsNamed ==
  ASSUME NEW whole, DOMAIN whole \subseteq PortNumbers, Range(whole) \subseteq PortNumbers, NEW base \in {whole, Nothing},
         NEW p, NEW i, PortIs(whole, p, i), NEW names, ResolvePort(p, base, names) >= FirstPortName
  PROVE  i \in Range(whole) /\ i \in DOMAIN names /\ ResolvePort(p, base, names) = names[i]
<1>1. DOMAIN Nothing = {}
  BY DEF Nothing
<1>4. FirstPortName \in Nat \ {0} /\ \A n \in PortNumbers : n \in Nat /\ n # 0 /\ ~(n >= FirstPortName)
  BY TablesAssumption DEF PortNumbers
<1>2. CASE i = 0
  <2>1. p = 0
    BY <1>2 DEF PortIs, BridgePortOf
  <2>2. 0 \notin PortNumbers
    BY <1>4
  <2>3. 0 \notin DOMAIN base
    BY <1>1, <2>2, Zenon
  <2> QED
    BY <1>4, <2>1, <2>3 DEF ResolvePort
<1>3. CASE i \in Range(whole)
  <2>1. p \in DOMAIN whole /\ whole[p] = i /\ p \in PortNumbers /\ i \in PortNumbers
    BY <1>3, PortOf DEF PortIs
  <2>2. p \in DOMAIN base
    BY <1>4, <2>1 DEF ResolvePort
  <2>3. base = whole
    BY <1>1, <2>2
  <2> QED
    BY <1>4, <2>1, <2>2, <2>3, <1>3 DEF ResolvePort
<1> QED
  BY <1>2, <1>3 DEF PortIs

\* ReadsOn sets what it is given and leaves the rest.
LEMMA ReadOn ==
  ASSUME NEW to, NEW changed, ReadsOn(to, changed), NamesInv, "at" \notin DOMAIN changed
  PROVE  /\ DOMAIN reading' = DOMAIN reading
         /\ reading'.at = to
         /\ \A k \in DOMAIN reading \ {"at"} : reading'[k] = IF k \in DOMAIN changed THEN changed[k] ELSE reading[k]
BY DEF ReadsOn, NamesInv

LEMMA TablesStarts == TablesInit => TablesInv
<1> SUFFICES ASSUME TablesInit PROVE TablesInv
  OBVIOUS
<1> USE DEF TablesInit, TablesStart
<1>1. BridgeKept
  BY TablesAssumption DEF BridgeKept, IsBase, Range
<1>2. BeenInv
  <2>1. \A m \in Machines : been[m] = {place[m]}
    OBVIOUS
  <2> QED
    BY <2>1, FS_Singleton DEF BeenInv
<1>3. NamesInv
  BY DEF NamesInv, Nothing
<1>4. TableInv /\ EntriesInv /\ StayersInv
  BY DEF TableInv, EntriesInv, StayersInv, Nothing
<1>5. LookupInv
  <2>1. DOMAIN Nothing = {}
    BY DEF Nothing
  <2> QED
    BY <2>1 DEF LookupInv, LookupShape, AskedInv, ToldInv, IndexInv, FoundInv
<1> QED
  BY <1>1, <1>2, <1>3, <1>4, <1>5 DEF TablesInv

\* While the tables are read, the lookup and the machines stay.
LEMMA ReadingKeeps ==
  ASSUME TablesInv, UNCHANGED <<bridge, place, been, moves, lookup, answered>>, reading.at # "done",
         NamesInv', TableInv', EntriesInv'
  PROVE  TablesInv'
<1> USE DEF TablesInv
<1>1. BridgeKept' /\ BeenInv'
  BY DEF BridgeKept, BeenInv
<1>2. lookup.at = "none" /\ lookup.entries = {} /\ lookup.port = Nothing /\ lookup.index = Nothing /\ lookup.found = Nothing
  BY DEF LookupInv, LookupShape, AskedInv, ToldInv, IndexInv, FoundInv
<1>3. DOMAIN Nothing = {}
  BY DEF Nothing
<1>4. LookupInv'
  <2>1. lookup = [at |-> lookup.at, entries |-> lookup.entries, port |-> lookup.port, index |-> lookup.index, found |-> lookup.found]
    BY DEF LookupInv, LookupShape, AskedInv, ToldInv, IndexInv, FoundInv
  <2> QED
    BY <1>2, <1>3, <2>1, Zenon DEF LookupInv, LookupShape, AskedInv, ToldInv, IndexInv, FoundInv
<1>5. StayersInv'
  BY <1>2 DEF StayersInv
<1> QED
  BY <1>1, <1>4, <1>5

LEMMA NamesRead == TablesInv /\ ReadsNames => TablesInv'
<1> SUFFICES ASSUME TablesInv, ReadsNames PROVE TablesInv'
  OBVIOUS
<1>1. PICK names \in WalkedOrNot(bridge.ifName) : \E descr \in WalkedOrNot(bridge.ifDescr) :
        ReadsOn("vlans", [names |-> IF names = Nothing THEN descr ELSE names, named |-> names # Nothing])
  BY DEF ReadsNames
<1>2. PICK descr \in WalkedOrNot(bridge.ifDescr) :
        ReadsOn("vlans", [names |-> IF names = Nothing THEN descr ELSE names, named |-> names # Nothing])
  BY <1>1
<1>3. NamesInv /\ reading.at = "names" /\ reading.entries = {} /\ UNCHANGED <<bridge, place, been, moves, lookup, answered>>
  BY DEF TablesInv, NamesInv, ReadsNames
<1>4. /\ reading'.at = "vlans" /\ reading'.names = (IF names = Nothing THEN descr ELSE names) /\ reading'.named = (names # Nothing)
      /\ DOMAIN reading' = DOMAIN reading /\ reading'.vlans = reading.vlans /\ reading'.contexts = reading.contexts
      /\ reading'.entries = reading.entries
  BY <1>2, <1>3 DEF ReadsOn, NamesInv
<1>5. NamesInv'
  BY <1>3, <1>4 DEF NamesInv, WalkedOrNot
<1>6. TableInv' /\ EntriesInv'
  BY <1>3, <1>4 DEF TableInv, EntriesInv
<1> QED
  BY <1>3, <1>5, <1>6, ReadingKeeps

LEMMA VlansRead == TablesInv /\ ReadsVlans => TablesInv'
<1> SUFFICES ASSUME TablesInv, ReadsVlans PROVE TablesInv'
  OBVIOUS
<1>1. PICK first : ReadsOn("contexts", [vlans |-> IF bridge.v2c THEN first ELSE << >>])
  BY DEF ReadsVlans
<1>2. NamesInv /\ reading.at = "vlans" /\ reading.entries = {} /\ UNCHANGED <<bridge, place, been, moves, lookup, answered>>
  BY DEF TablesInv, NamesInv, ReadsVlans
<1>3. /\ reading'.at = "contexts" /\ reading'.names = reading.names /\ reading'.named = reading.named
      /\ DOMAIN reading' = DOMAIN reading /\ reading'.vlans = (IF bridge.v2c THEN first ELSE << >>) /\ reading'.contexts = reading.contexts
      /\ reading'.entries = reading.entries
  BY <1>1, <1>2 DEF ReadsOn, NamesInv
<1>4. NamesInv'
  BY <1>2, <1>3 DEF NamesInv
<1>5. TableInv' /\ EntriesInv'
  BY <1>2, <1>3 DEF TableInv, EntriesInv
<1> QED
  BY <1>2, <1>4, <1>5, ReadingKeeps

\* A row of a table, of those a base's ports can show.
LEMMA RowIs ==
  ASSUME BeenInv, NEW vlans, NEW base, NEW table, table = [m \in Behind(vlans, base) |-> BridgePortOf(base, place[m][2])],
         NEW rows \in Walked(table), NEW m \in DOMAIN rows
  PROVE  /\ m \in Machines /\ place[m] \in been[m] /\ place[m][1] \in vlans
         /\ rows[m] = BridgePortOf(base, place[m][2]) /\ PortIs(base, rows[m], place[m][2])
<1>1. PICK part \in SUBSET DOMAIN table : rows = Restrict(table, part)
  BY DEF Walked
<1>2. m \in DOMAIN table /\ rows[m] = table[m]
  BY <1>1 DEF Restrict
<1>3. m \in Behind(vlans, base) /\ table[m] = BridgePortOf(base, place[m][2])
  BY <1>2
<1> QED
  BY <1>2, <1>3 DEF Behind, PortIs, BeenInv

LEMMA ContextRead == TablesInv /\ ReadsContext => TablesInv'
<1> SUFFICES ASSUME TablesInv, ReadsContext PROVE TablesInv'
  OBVIOUS
<1> DEFINE v == Head(reading.vlans)
<1>1. PICK rows \in IF v \in DOMAIN bridge.contexts THEN Walked(ContextTable(v)) ELSE {Nothing} :
        IF DOMAIN rows = {} THEN ReadsOn("contexts", [vlans |-> Tail(reading.vlans)])
        ELSE ReadsOn("contextPorts", [table |-> rows])
  BY DEF ReadsContext
<1>2. /\ NamesInv /\ EntriesInv /\ BeenInv /\ reading.at = "contexts" /\ reading.vlans # << >>
      /\ UNCHANGED <<bridge, place, been, moves, lookup, answered>>
  BY DEF TablesInv, ReadsContext
<1>3. CASE DOMAIN rows = {}
  <2>1. /\ reading'.at = "contexts" /\ reading'.names = reading.names /\ reading'.named = reading.named
        /\ DOMAIN reading' = DOMAIN reading /\ reading'.contexts = reading.contexts /\ reading'.entries = reading.entries
    BY <1>1, <1>2, <1>3 DEF ReadsOn, NamesInv
  <2>2. NamesInv'
    BY <1>2, <2>1 DEF NamesInv
  <2>3. TableInv' /\ EntriesInv'
    BY <1>2, <2>1 DEF TableInv, EntriesInv, Where, Names, ByContext, BaseRead
  <2> QED
    BY <1>2, <2>2, <2>3, ReadingKeeps
<1>4. CASE DOMAIN rows # {}
  <2>1. /\ reading'.at = "contextPorts" /\ reading'.names = reading.names /\ reading'.named = reading.named /\ reading'.vlans = reading.vlans
        /\ DOMAIN reading' = DOMAIN reading /\ reading'.contexts = reading.contexts /\ reading'.entries = reading.entries
        /\ reading'.table = rows
    BY <1>1, <1>2, <1>4 DEF ReadsOn, NamesInv
  <2>2. NamesInv' /\ EntriesInv'
    BY <1>2, <2>1 DEF NamesInv, EntriesInv, Where, Names, ByContext, BaseRead
  <2>3. v \in DOMAIN bridge.contexts /\ rows \in Walked(ContextTable(v))
    BY <1>1, <1>4 DEF Nothing
  <2>4. ASSUME NEW m \in DOMAIN rows
        PROVE  m \in Machines /\ \E p \in been[m] : p[1] = v /\ PortIs(bridge.contexts[v], rows[m], p[2])
    <3> DEFINE base == bridge.contexts[v]
               table == ContextTable(v)
               vlans == {v}
    <3>2. table = [x \in Behind(vlans, base) |-> BridgePortOf(base, place[x][2])] /\ rows \in Walked(table)
      BY <2>3 DEF ContextTable
    <3> HIDE DEF base, table, vlans
    <3>3. m \in Machines /\ place[m] \in been[m] /\ place[m][1] \in vlans /\ PortIs(base, rows[m], place[m][2])
      BY <1>2, <3>2, RowIs
    <3>1. /\ m \in Machines /\ place[m] \in been[m] /\ place[m][1] \in {v}
          /\ PortIs(bridge.contexts[v], rows[m], place[m][2])
      BY <3>3 DEF base, vlans
    <3> QED
      BY <3>1
  <2>5. TableInv'
    BY <1>2, <2>1, <2>3, <2>4 DEF TableInv
  <2> QED
    BY <1>2, <2>2, <2>5, ReadingKeeps
<1> QED
  BY <1>3, <1>4

LEMMA ContextPortsRead == TablesInv /\ ReadsContextPorts => TablesInv'
<1> SUFFICES ASSUME TablesInv, ReadsContextPorts PROVE TablesInv'
  OBVIOUS
<1> DEFINE v == Head(reading.vlans)
           whole == bridge.contexts[v]
           vlans == [m \in DOMAIN reading.table |-> v]
<1>1. PICK base \in WalkedOrNot(whole) :
        ReadsOn("contexts", [vlans |-> Tail(reading.vlans), contexts |-> reading.contexts \cup {v},
                             entries |-> reading.entries \cup Entries(reading.table, base, vlans)])
  BY DEF ReadsContextPorts
<1>2. /\ NamesInv /\ EntriesInv /\ BeenInv /\ TableInv /\ BridgeKept /\ reading.at = "contextPorts"
      /\ UNCHANGED <<bridge, place, been, moves, lookup, answered>>
  BY DEF TablesInv, ReadsContextPorts
<1>3. /\ reading'.at = "contexts" /\ reading'.names = reading.names /\ reading'.named = reading.named
      /\ DOMAIN reading' = DOMAIN reading /\ reading'.contexts = reading.contexts \cup {v}
      /\ reading'.entries = reading.entries \cup Entries(reading.table, base, vlans)
  BY <1>1, <1>2 DEF ReadsOn, NamesInv
<1>4. v \in DOMAIN bridge.contexts /\ reading.vlans # << >> /\ DOMAIN reading.table \subseteq Machines
  BY <1>2 DEF TableInv
<1>5. DOMAIN whole \subseteq PortNumbers /\ Range(whole) \subseteq PortNumbers
  BY <1>2, <1>4 DEF BridgeKept, Range
<1> HIDE DEF whole
<1>6. NamesInv'
  BY <1>2, <1>3, <1>4 DEF NamesInv
<1>7. TableInv'
  BY <1>3 DEF TableInv
<1>8. EntriesInv'
  <2>1. ByContext' /\ (\A vlan : BaseRead(vlan)' = bridge.contexts[vlan])
    BY <1>2, <1>3 DEF ByContext, BaseRead
  <2>2. ASSUME NEW e \in reading.entries
        PROVE  e.mac \in Machines /\ \E p \in been[e.mac] : Where(e.vlan, p[1])' /\ Names(e.port, e.vlan, p[2])'
    <3>1. ByContext
      BY <1>2 DEF NamesInv, ByContext
    <3>2. PICK p \in been[e.mac] : Where(e.vlan, p[1]) /\ Names(e.port, e.vlan, p[2])
      BY <1>2 DEF EntriesInv
    <3>3. Where(e.vlan, p[1])' /\ Names(e.port, e.vlan, p[2])'
      BY <1>2, <1>3, <2>1, <3>1, <3>2 DEF Where, Names, BaseRead
    <3> QED
      BY <1>2, <3>3 DEF EntriesInv
  <2>3. ASSUME NEW e \in Entries(reading.table, base, vlans)
        PROVE  e.mac \in Machines /\ \E p \in been[e.mac] : Where(e.vlan, p[1])' /\ Names(e.port, e.vlan, p[2])'
    <3>1. PICK m \in DOMAIN reading.table :
            e = [mac |-> m, port |-> ResolvePort(reading.table[m], base, reading.names), vlan |-> v]
      BY DEF Entries
    <3>2. e.mac = m /\ e.vlan = v /\ e.port = ResolvePort(reading.table[m], base, reading.names)
      BY <3>1
    <3>3. PICK p \in been[m] : p[1] = v /\ PortIs(whole, reading.table[m], p[2])
      BY <1>2 DEF TableInv, whole
    <3>4. e.port >= FirstPortName => p[2] \in Range(whole) /\ p[2] \in DOMAIN reading.names /\ e.port = reading.names[p[2]]
      BY <1>5, <3>2, <3>3, ResolvedIsNamed DEF WalkedOrNot
    <3>5. Where(e.vlan, p[1])' /\ Names(e.port, e.vlan, p[2])'
      BY <1>2, <1>3, <2>1, <3>2, <3>3, <3>4 DEF Where, Names, whole
    <3> QED
      BY <1>4, <3>2, <3>5
  <2> QED
    BY <1>2, <1>3, <2>2, <2>3 DEF EntriesInv
<1> QED
  BY <1>2, <1>6, <1>7, <1>8, ReadingKeeps

LEMMA ContextsLeft == TablesInv /\ LeavesContexts => TablesInv'
<1> SUFFICES ASSUME TablesInv, LeavesContexts PROVE TablesInv'
  OBVIOUS
<1>1. /\ NamesInv /\ EntriesInv /\ reading.at = "contexts" /\ reading.vlans = << >>
      /\ ReadsOn(IF reading.contexts = {} THEN "default" ELSE "done", [table |-> Nothing])
      /\ UNCHANGED <<bridge, place, been, moves, lookup, answered>>
  BY DEF TablesInv, LeavesContexts
<1>2. /\ reading'.at = (IF reading.contexts = {} THEN "default" ELSE "done")
      /\ reading'.names = reading.names /\ reading'.named = reading.named /\ reading'.vlans = reading.vlans
      /\ DOMAIN reading' = DOMAIN reading /\ reading'.contexts = reading.contexts /\ reading'.entries = reading.entries
  BY <1>1 DEF ReadsOn, NamesInv
<1>3. NamesInv'
  BY <1>1, <1>2 DEF NamesInv
<1>4. TableInv' /\ EntriesInv'
  BY <1>1, <1>2 DEF TableInv, EntriesInv, Where, Names, ByContext, BaseRead
<1> QED
  BY <1>1, <1>3, <1>4, ReadingKeeps

\* What the default context's tables make of the rows that were read of them.
LEMMA DefaultEntries ==
  ASSUME TablesInv, reading.at = "default", UNCHANGED <<bridge, place, been, moves, lookup, answered>>,
         NEW base \in WalkedOrNot(bridge.base), NEW among, NEW table,
         table = [m \in Behind(among, bridge.base) |-> BridgePortOf(bridge.base, place[m][2])],
         NEW rows \in Walked(table), NEW vlans,
         \A m \in DOMAIN rows : place[m][1] \in among =>
           IF vlans[m] = 0 THEN place[m][1] \in bridge.flat ELSE bridge.vlanTable /\ place[m][1] = vlans[m] /\ place[m][1] \in Nat,
         ReadsOn("done", [entries |-> Entries(rows, base, vlans)])
  PROVE  TablesInv'
<1>1. NamesInv /\ BeenInv /\ BridgeKept /\ reading.contexts = {}
  BY DEF TablesInv, NamesInv
<1>2. /\ reading'.at = "done" /\ reading'.names = reading.names /\ reading'.named = reading.named /\ reading'.vlans = reading.vlans
      /\ DOMAIN reading' = DOMAIN reading /\ reading'.contexts = reading.contexts
      /\ reading'.entries = Entries(rows, base, vlans)
  BY <1>1 DEF ReadsOn, NamesInv
<1>3. NamesInv' /\ TableInv'
  BY <1>1, <1>2 DEF NamesInv, TableInv
<1>4. DOMAIN bridge.base \subseteq PortNumbers /\ Range(bridge.base) \subseteq PortNumbers
  BY <1>1 DEF BridgeKept
<1>5. ~ByContext' /\ (\A vlan : BaseRead(vlan)' = bridge.base)
  BY <1>1, <1>2 DEF ByContext, BaseRead
<1>6. ASSUME NEW e \in Entries(rows, base, vlans)
      PROVE  e.mac \in Machines /\ \E p \in been[e.mac] : Where(e.vlan, p[1])' /\ Names(e.port, e.vlan, p[2])'
  <2>1. PICK m \in DOMAIN rows : e = [mac |-> m, port |-> ResolvePort(rows[m], base, reading.names), vlan |-> vlans[m]]
    BY DEF Entries
  <2>2. e.mac = m /\ e.vlan = vlans[m] /\ e.port = ResolvePort(rows[m], base, reading.names)
    BY <2>1
  <2> DEFINE whole == bridge.base
             p == place[m]
             port == rows[m]
             i == p[2]
  <2>3. m \in Machines /\ p \in been[m] /\ p[1] \in among /\ PortIs(whole, port, i)
    BY <1>1, RowIs
  <2>7. DOMAIN whole \subseteq PortNumbers /\ Range(whole) \subseteq PortNumbers /\ base \in {whole, Nothing}
    BY <1>4 DEF WalkedOrNot
  <2>8. e.port = ResolvePort(port, base, reading.names)
    BY <2>2
  <2>9. \A vlan : BaseRead(vlan)' = whole
    BY <1>5
  <2>5. Where(e.vlan, p[1])'
    BY <1>2, <1>5, <2>2, <2>3 DEF Where
  <2> HIDE DEF whole, p, port, i
  <2>4. e.port >= FirstPortName => i \in Range(whole) /\ i \in DOMAIN reading.names /\ e.port = reading.names[i]
    BY <2>3, <2>7, <2>8, ResolvedIsNamed
  <2>6. Names(e.port, e.vlan, i)'
    BY <1>2, <2>4, <2>9 DEF Names, p, i
  <2> QED
    BY <2>2, <2>3, <2>5, <2>6 DEF p, i
<1>7. EntriesInv'
  BY <1>2, <1>6 DEF EntriesInv
<1> QED
  BY <1>3, <1>7, ReadingKeeps

LEMMA DefaultRead == TablesInv /\ ReadsDefault => TablesInv'
<1> SUFFICES ASSUME TablesInv, ReadsDefault PROVE TablesInv'
  OBVIOUS
<1>1. reading.at = "default" /\ UNCHANGED <<bridge, place, been, moves, lookup, answered>>
  BY DEF ReadsDefault
<1>2. PICK q \in Walked(VlanTable) : \E base \in WalkedOrNot(bridge.base) :
       IF DOMAIN q # {} THEN ReadsOn("done", [entries |-> Entries(q, base, [m \in DOMAIN q |-> place[m][1]])])
       ELSE \E d \in Walked(FlatTable) : ReadsOn("done", [entries |-> Entries(d, base, [m \in DOMAIN d |-> 0])])
  BY DEF ReadsDefault
<1>3. PICK base \in WalkedOrNot(bridge.base) :
       IF DOMAIN q # {} THEN ReadsOn("done", [entries |-> Entries(q, base, [m \in DOMAIN q |-> place[m][1]])])
       ELSE \E d \in Walked(FlatTable) : ReadsOn("done", [entries |-> Entries(d, base, [m \in DOMAIN d |-> 0])])
  BY <1>2
<1>4. CASE DOMAIN q # {}
  <2> DEFINE vlans == [m \in DOMAIN q |-> place[m][1]]
             table == VlanTable
             among == IF bridge.vlanTable THEN Nat \ {0} ELSE {}
  <2>1. ReadsOn("done", [entries |-> Entries(q, base, vlans)]) /\ q \in Walked(table)
    BY <1>3, <1>4
  <2>2. bridge.vlanTable
    <3>1. DOMAIN q \subseteq DOMAIN VlanTable
      BY DEF Walked, Restrict
    <3> QED
      BY <1>4, <3>1 DEF VlanTable
  <2>3. table = [m \in Behind(among, bridge.base) |-> BridgePortOf(bridge.base, place[m][2])]
    BY <2>2 DEF VlanTable
  <2>4. \A m \in DOMAIN q : place[m][1] \in among =>
          IF vlans[m] = 0 THEN place[m][1] \in bridge.flat ELSE bridge.vlanTable /\ place[m][1] = vlans[m] /\ place[m][1] \in Nat
    BY <2>2
  <2> HIDE DEF vlans, table, among
  <2> QED
    BY <1>1, <2>1, <2>3, <2>4, DefaultEntries
<1>5. CASE DOMAIN q = {}
  <2>1. PICK d \in Walked(FlatTable) : ReadsOn("done", [entries |-> Entries(d, base, [m \in DOMAIN d |-> 0])])
    BY <1>3, <1>5
  <2> DEFINE vlans == [m \in DOMAIN d |-> 0]
             table == FlatTable
             among == bridge.flat
  <2>2. ReadsOn("done", [entries |-> Entries(d, base, vlans)]) /\ d \in Walked(table)
    BY <2>1
  <2>3. table = [m \in Behind(among, bridge.base) |-> BridgePortOf(bridge.base, place[m][2])]
    BY DEF FlatTable
  <2>4. \A m \in DOMAIN d : place[m][1] \in among =>
          IF vlans[m] = 0 THEN place[m][1] \in bridge.flat ELSE bridge.vlanTable /\ place[m][1] = vlans[m] /\ place[m][1] \in Nat
    OBVIOUS
  <2> HIDE DEF vlans, table, among
  <2> QED
    BY <1>1, <2>2, <2>3, <2>4, DefaultEntries
<1> QED
  BY <1>4, <1>5

\* The lookup and the machines leave what was read alone; what was read stays true as machines have been at more places.
LEMMA LookupKeeps ==
  ASSUME TablesInv, UNCHANGED <<bridge, reading>>, \A m \in Machines : been[m] \subseteq been'[m],
         BeenInv', LookupInv', StayersInv'
  PROVE  TablesInv'
<1>1. BridgeKept' /\ NamesInv'
  BY DEF TablesInv, BridgeKept, NamesInv
<1>2. TableInv'
  <2>1. SUFFICES ASSUME reading.at = "contextPorts" PROVE TableInv'
    BY DEF TableInv
  <2>2. /\ reading.vlans # << >> /\ Head(reading.vlans) \in DOMAIN bridge.contexts
        /\ DOMAIN reading.table \subseteq Machines
        /\ \A m \in DOMAIN reading.table : \E p \in been[m] :
             p[1] = Head(reading.vlans) /\ PortIs(bridge.contexts[Head(reading.vlans)], reading.table[m], p[2])
    BY <2>1 DEF TablesInv, TableInv
  <2>3. \A m \in DOMAIN reading.table : \E p \in been'[m] :
             p[1] = Head(reading.vlans) /\ PortIs(bridge.contexts[Head(reading.vlans)], reading.table[m], p[2])
    BY <2>2
  <2> QED
    BY <2>2, <2>3 DEF TableInv
<1>3. EntriesInv'
  <2>1. ASSUME NEW e \in reading.entries
        PROVE  e.mac \in Machines /\ \E p \in been'[e.mac] : Where(e.vlan, p[1]) /\ Names(e.port, e.vlan, p[2])
    BY DEF TablesInv, EntriesInv
  <2> QED
    BY <2>1 DEF EntriesInv, Where, Names, ByContext, BaseRead
<1> QED
  BY <1>1, <1>2, <1>3 DEF TablesInv

LEMMA LookupStarts == TablesInv /\ LooksUp => TablesInv'
<1> SUFFICES ASSUME TablesInv, LooksUp PROVE TablesInv'
  OBVIOUS
<1>1. LookupInv /\ BeenInv /\ NamesInv /\ reading.at = "done" /\ lookup.at = "none" /\ UNCHANGED <<bridge, place, been, moves, reading, answered>>
  BY DEF TablesInv, LooksUp
<1>2. DOMAIN Nothing = {}
  BY DEF Nothing
<1>3. lookup' = [at |-> "entries", entries |-> {e \in reading.entries : ~bridge.cisco \/ e.vlan # 0},
                 port |-> Nothing, index |-> Nothing, found |-> Nothing]
  <2>1. lookup = [at |-> "none", entries |-> {}, port |-> Nothing, index |-> Nothing, found |-> Nothing]
    BY <1>1 DEF LookupInv, LookupShape, AskedInv, ToldInv, IndexInv, FoundInv
  <2>2. lookup' = [lookup EXCEPT !.at = "entries", !.entries = {e \in reading.entries : ~bridge.cisco \/ e.vlan # 0}]
    BY DEF LooksUp
  <2> QED
    BY <2>1, <2>2
<1>4. LookupInv'
  <2>1. \A e \in lookup'.entries : Asked(e)'
    BY <1>1, <1>3 DEF Asked
  <2> QED
    BY <1>1, <1>2, <1>3, <2>1 DEF LookupInv, LookupShape, AskedInv, ToldInv, IndexInv, FoundInv
<1>5. StayersInv'
  <2>1. SUFFICES ASSUME SameContexts, NEW e \in reading.entries PROVE e \in lookup'.entries
    BY <1>1, <1>3 DEF StayersInv, SameContexts
  <2>2. bridge.cisco => e.vlan \in DOMAIN bridge.contexts
    BY <1>1, <2>1 DEF SameContexts, TablesInv, EntriesInv, Where, ByContext, NamesInv
  <2>3. bridge.cisco => e.vlan # 0
    BY <2>2 DEF TablesInv, BridgeKept
  <2> QED
    BY <1>3, <2>3
<1> QED
  BY <1>1, <1>4, <1>5, LookupKeeps DEF BeenInv

\* Where an entry's machine is, as long as it stays: a table it was read from still has it, at the same port.
LEMMA StayerIsThere ==
  ASSUME TablesInv, SameContexts, reading.named, NEW e \in reading.entries, Stays(e), NEW p \in been[e.mac]
  PROVE  /\ p = place[e.mac] /\ p[2] \in Range(BaseOf(ContextOf(e))) /\ p[2] \in DOMAIN bridge.ifName /\ bridge.ifName[p[2]] = e.port
         /\ e.mac \in DOMAIN TableAsked(e)
<1> DEFINE m == e.mac
<1>1. m \in Machines /\ IsFiniteSet(been[m]) /\ place[m] \in been[m] /\ Cardinality(been[m]) = 1 /\ e.port >= FirstPortName
  BY DEF TablesInv, EntriesInv, BeenInv, Stays
<1>2. PICK q : been[m] = {q}
  BY <1>1, FS_Singleton
<1>3. \A x \in been[m] : x = q
  BY <1>2
<1>4. p = q /\ place[m] = q
  BY <1>1, <1>3
<1>5. Where(e.vlan, p[1]) /\ Names(e.port, e.vlan, p[2])
  BY <1>3, <1>4 DEF TablesInv, EntriesInv
<1>6. p[2] \in Range(BaseRead(e.vlan)) /\ p[2] \in DOMAIN bridge.ifName /\ bridge.ifName[p[2]] = e.port
  BY <1>1, <1>5 DEF Names, TablesInv, NamesInv
<1>7. CASE bridge.cisco
  <2>1. ByContext /\ bridge.v2c /\ e.vlan = p[1] /\ e.vlan \in DOMAIN bridge.contexts /\ e.vlan # 0
    BY <1>5, <1>7 DEF SameContexts, ByContext, TablesInv, NamesInv, BridgeKept, Where
  <2>2. BaseRead(e.vlan) = bridge.contexts[e.vlan] /\ BaseOf(ContextOf(e)) = bridge.contexts[e.vlan]
    BY <1>7, <2>1 DEF BaseRead, BaseOf, ContextOf
  <2>3. m \in Behind({e.vlan}, bridge.contexts[e.vlan])
    BY <1>1, <1>4, <1>6, <2>1, <2>2 DEF Behind
  <2>4. DOMAIN TableAsked(e) = Behind({e.vlan}, bridge.contexts[e.vlan])
    BY <1>7, <2>1 DEF TableAsked, ContextTable
  <2> QED
    BY <1>4, <1>6, <2>2, <2>3, <2>4
<1>8. CASE ~bridge.cisco
  <2>1. ~ByContext
    BY <1>8 DEF SameContexts, ByContext
  <2>2. BaseRead(e.vlan) = bridge.base /\ BaseOf(ContextOf(e)) = bridge.base
    BY <1>8, <2>1 DEF BaseRead, BaseOf, ContextOf
  <2>3. CASE e.vlan = 0
    <3>1. p[1] \in bridge.flat
      BY <1>5, <2>1, <2>3 DEF Where
    <3>2. m \in Behind(bridge.flat, bridge.base)
      BY <1>1, <1>4, <1>6, <2>2, <3>1 DEF Behind
    <3>3. DOMAIN TableAsked(e) = Behind(bridge.flat, bridge.base)
      BY <1>8, <2>3 DEF TableAsked, FlatTable
    <3> QED
      BY <1>4, <1>6, <2>2, <3>2, <3>3
  <2>4. CASE e.vlan # 0
    <3>1. bridge.vlanTable /\ p[1] = e.vlan /\ p[1] \in Nat \ {0}
      BY <1>5, <2>1, <2>4 DEF Where
    <3>2. m \in Behind(Nat \ {0}, bridge.base)
      BY <1>1, <1>4, <1>6, <2>2, <3>1 DEF Behind
    <3>3. DOMAIN VlanTable = Behind(Nat \ {0}, bridge.base)
      BY <3>1 DEF VlanTable
    <3>4. TableAsked(e) = Restrict(VlanTable, {x \in DOMAIN VlanTable : place[x][1] = e.vlan})
      BY <1>8, <2>4 DEF TableAsked
    <3>5. m \in DOMAIN TableAsked(e)
      BY <1>4, <3>1, <3>2, <3>3, <3>4 DEF Restrict
    <3> QED
      BY <1>4, <1>6, <2>2, <3>5
  <2> QED
    BY <2>3, <2>4
<1> QED
  BY <1>7, <1>8

\* What a table that is asked says of a machine it has.
LEMMA AskedRow ==
  ASSUME TablesInv, NEW e, Asked(e), e.mac \in DOMAIN TableAsked(e)
  PROVE  /\ e.mac \in Machines /\ place[e.mac] \in been[e.mac]
         /\ TableAsked(e)[e.mac] = BridgePortOf(BaseOf(ContextOf(e)), place[e.mac][2])
         /\ e.vlan \in {place[e.mac][1], 0}
         /\ ContextOf(e) = 0 \/ ContextOf(e) \in DOMAIN bridge.contexts
         /\ place[e.mac][2] = 0 \/ place[e.mac][2] \in Range(BaseOf(ContextOf(e)))
<1> DEFINE m == e.mac
           b == BaseOf(ContextOf(e))
           T == TableAsked(e)
<1>1. m \in Machines /\ place[m] \in been[m]
  BY DEF TablesInv, EntriesInv, BeenInv, Asked
<1>2. T[m] = BridgePortOf(b, place[m][2]) /\ e.vlan \in {place[m][1], 0} /\ (place[m][2] = 0 \/ place[m][2] \in Range(b))
      /\ (ContextOf(e) = 0 \/ ContextOf(e) \in DOMAIN bridge.contexts)
  <2>1. CASE bridge.cisco
    <3>1. e.vlan # 0 /\ b = bridge.contexts[e.vlan]
      BY <2>1 DEF Asked, BaseOf, ContextOf
    <3>2. T = ContextTable(e.vlan)
      BY <2>1 DEF TableAsked, Nothing
    <3>3. T = [x \in Behind({e.vlan}, b) |-> BridgePortOf(b, place[x][2])]
      BY <3>1, <3>2 DEF ContextTable
    <3>4. m \in Behind({e.vlan}, b)
      BY <3>3
    <3>5. e.vlan \in DOMAIN bridge.contexts
      BY <2>1 DEF TableAsked, Nothing
    <3> QED
      BY <2>1, <3>3, <3>4, <3>5 DEF Behind, ContextOf
  <2>2. CASE ~bridge.cisco /\ e.vlan = 0
    <3>1. b = bridge.base
      BY <2>2 DEF BaseOf, ContextOf
    <3>2. T = [x \in Behind(bridge.flat, b) |-> BridgePortOf(b, place[x][2])]
      BY <2>2, <3>1 DEF TableAsked, FlatTable
    <3>3. m \in Behind(bridge.flat, b)
      BY <3>2
    <3> QED
      BY <2>2, <3>2, <3>3 DEF Behind, ContextOf
  <2>3. CASE ~bridge.cisco /\ e.vlan # 0
    <3>1. b = bridge.base
      BY <2>3 DEF BaseOf, ContextOf
    <3>2. T = Restrict(VlanTable, {x \in DOMAIN VlanTable : place[x][1] = e.vlan})
      BY <2>3 DEF TableAsked
    <3>3. m \in DOMAIN VlanTable /\ place[m][1] = e.vlan /\ T[m] = VlanTable[m]
      BY <3>2 DEF Restrict
    <3>4. m \in Behind(IF bridge.vlanTable THEN Nat \ {0} ELSE {}, b) /\ VlanTable[m] = BridgePortOf(b, place[m][2])
      BY <3>1, <3>3 DEF VlanTable, Behind
    <3> QED
      BY <2>3, <3>3, <3>4 DEF Behind, ContextOf
  <2> QED
    BY <2>1, <2>2, <2>3
<1> QED
  BY <1>1, <1>2

LEMMA LookupAnswer ==
  ASSUME TablesInv, NEW e, Asked(e), e.mac \in DOMAIN TableAsked(e), TableAsked(e)[e.mac] # 0
  PROVE  Told(e, <<TableAsked(e)[e.mac], ContextOf(e)>>)
<1> DEFINE m == e.mac
           b == BaseOf(ContextOf(e))
           T == TableAsked(e)
<1>2. T[m] = BridgePortOf(b, place[m][2]) /\ e.vlan \in {place[m][1], 0} /\ (place[m][2] = 0 \/ place[m][2] \in Range(b))
      /\ place[m] \in been[m] /\ (ContextOf(e) = 0 \/ ContextOf(e) \in DOMAIN bridge.contexts)
  BY AskedRow
<1> HIDE DEF b, T
<1>3. place[m][2] # 0
  BY <1>2 DEF BridgePortOf, T
<1>4. <<T[m], ContextOf(e)>> = <<BridgePortOf(b, place[m][2]), ContextOf(e)>>
  BY <1>2
<1> QED
  BY <1>2, <1>3, <1>4 DEF Told, b, T

LEMMA EntryAsked == TablesInv /\ (\E e \in lookup.entries : AsksEntry(e)) => TablesInv'
<1> SUFFICES ASSUME TablesInv, NEW e \in lookup.entries, AsksEntry(e) PROVE TablesInv'
  OBVIOUS
<1> DEFINE answer == <<TableAsked(e)[e.mac], ContextOf(e)>>
           has == e.mac \in DOMAIN TableAsked(e) /\ TableAsked(e)[e.mac] # 0
           more == [x \in DOMAIN lookup.port \cup {e} |-> IF x = e THEN answer ELSE lookup.port[x]]
<1>1. /\ LookupInv /\ BeenInv /\ NamesInv /\ StayersInv /\ lookup.at = "entries" /\ Asked(e)
      /\ UNCHANGED <<bridge, place, been, moves, reading>>
  BY DEF TablesInv, AsksEntry, LookupInv, AskedInv
<1>2. PICK told \in BOOLEAN :
       /\ answered' = (answered /\ told)
       /\ lookup' = [lookup EXCEPT
            !.entries = @ \ {e},
            !.port = IF told /\ e.mac \in DOMAIN TableAsked(e) /\ TableAsked(e)[e.mac] # 0
                     THEN [x \in DOMAIN @ \cup {e} |-> IF x = e THEN <<TableAsked(e)[e.mac], ContextOf(e)>> ELSE @[x]] ELSE @]
  BY DEF AsksEntry
<1> DEFINE port == IF told /\ has THEN more ELSE lookup.port
<1>3. /\ lookup'.at = "entries" /\ lookup'.entries = lookup.entries \ {e} /\ lookup'.port = port
      /\ lookup'.index = lookup.index /\ lookup'.found = lookup.found
      /\ lookup' = [at |-> lookup'.at, entries |-> lookup'.entries, port |-> lookup'.port, index |-> lookup'.index, found |-> lookup'.found]
  <2> DEFINE L == [at |-> lookup.at, entries |-> lookup.entries, port |-> lookup.port, index |-> lookup.index, found |-> lookup.found]
  <2>1. lookup = L
    BY <1>1 DEF LookupInv, LookupShape, AskedInv, ToldInv, IndexInv, FoundInv
  <2>2. lookup' = [lookup EXCEPT !.entries = lookup.entries \ {e}, !.port = port]
    BY <1>2
  <2> HIDE DEF port
  <2>3. lookup' = [at |-> lookup.at, entries |-> lookup.entries \ {e}, port |-> port, index |-> lookup.index, found |-> lookup.found]
    BY <2>1, <2>2
  <2> QED
    BY <1>1, <2>3 DEF port
<1>4. has => Told(e, answer)
  BY <1>1, LookupAnswer
<1> HIDE DEF answer, has
<1>5. DOMAIN Nothing = {}
  BY DEF Nothing
<1>6. ASSUME NEW x \in DOMAIN port PROVE Asked(x) /\ Told(x, port[x])
  BY <1>1, <1>4 DEF LookupInv, LookupShape, AskedInv, ToldInv, IndexInv, FoundInv
<1> HIDE DEF port
<1>7. LookupInv'
  <2>1. AskedInv'
    BY <1>1, <1>3, <1>6 DEF Asked, LookupInv, AskedInv
  <2>2. ToldInv'
    <3>1. SUFFICES ASSUME NEW x \in DOMAIN port PROVE Told(x, lookup.port[x])'
      BY <1>3 DEF ToldInv
    <3>2. Told(x, port[x])
      BY <1>6
    <3> QED
      BY <1>1, <1>3, <3>2 DEF Told, BaseOf, ContextOf
  <2>3. lookup'.index = Nothing /\ lookup'.found = Nothing /\ reading'.at = "done"
    BY <1>1, <1>3 DEF LookupInv, LookupShape
  <2>4. IndexInv' /\ FoundInv'
    BY <1>5, <2>3 DEF IndexInv, FoundInv
  <2>5. LookupShape'
    BY <1>3, <2>3 DEF LookupShape
  <2> QED
    BY <2>1, <2>2, <2>4, <2>5 DEF LookupInv
<1>8. StayersInv'
  <2>1. SUFFICES ASSUME answered, told, reading.named, SameContexts, NEW x \in reading.entries, Stays(x)
                 PROVE  x \in lookup'.entries \cup DOMAIN lookup'.port
    BY <1>1, <1>2, <1>3 DEF StayersInv, SameContexts, Stays
  <2>2. x \in lookup.entries \cup DOMAIN lookup.port
    BY <1>1, <2>1 DEF StayersInv
  <2>3. CASE x = e
    <3>1. e \in reading.entries /\ place[e.mac] \in been[e.mac]
      BY <1>1, <2>1, <2>3 DEF BeenInv, TablesInv, EntriesInv
    <3> DEFINE p == place[e.mac]
               b == BaseOf(ContextOf(e))
    <3>2. p[2] \in Range(b) /\ e.mac \in DOMAIN TableAsked(e)
      BY <2>1, <2>3, <3>1, StayerIsThere
    <3>3. TableAsked(e)[e.mac] = BridgePortOf(b, p[2])
      BY <1>1, <3>2, AskedRow
    <3>4. DOMAIN b \subseteq PortNumbers /\ Range(b) \subseteq PortNumbers
      <4>1. ContextOf(e) = 0 \/ ContextOf(e) \in DOMAIN bridge.contexts
        BY <1>1, <2>1, <2>3 DEF ContextOf, SameContexts, TablesInv, EntriesInv, Where, ByContext, NamesInv
      <4> QED
        BY <4>1 DEF TablesInv, BridgeKept, BaseOf, Range
    <3> HIDE DEF b, p
    <3>5. BridgePortOf(b, p[2]) # 0
      BY <3>2, <3>4, PortOf
    <3>6. has
      BY <3>2, <3>3, <3>5 DEF has
    <3> QED
      BY <1>3, <2>1, <2>3, <3>6 DEF port
  <2>4. CASE x # e
    BY <1>3, <2>2, <2>4 DEF port
  <2> QED
    BY <2>3, <2>4
<1> QED
  BY <1>1, <1>7, <1>8, LookupKeeps DEF BeenInv

LEMMA PortsAsked == TablesInv /\ AsksPorts => TablesInv'
<1> SUFFICES ASSUME TablesInv, AsksPorts PROVE TablesInv'
  OBVIOUS
<1>1. LookupInv /\ BeenInv /\ StayersInv /\ lookup.at = "entries" /\ lookup.entries = {} /\ UNCHANGED <<bridge, place, been, moves, reading>>
  BY DEF TablesInv, AsksPorts
<1>2. PICK told \in SUBSET Range(lookup.port) :
       /\ answered' = (answered /\ told = Range(lookup.port))
       /\ lookup' = [lookup EXCEPT !.at = "ports", !.index = [f \in told |-> BaseOf(f[2])[f[1]]]]
  BY DEF AsksPorts
<1> DEFINE index == [f \in told |-> BaseOf(f[2])[f[1]]]
<1>3. lookup' = [at |-> "ports", entries |-> lookup.entries, port |-> lookup.port, index |-> index, found |-> lookup.found]
  <2>1. lookup = [at |-> lookup.at, entries |-> lookup.entries, port |-> lookup.port, index |-> lookup.index, found |-> lookup.found]
    BY <1>1 DEF LookupInv, LookupShape
  <2>2. lookup' = [lookup EXCEPT !.at = "ports", !.index = index]
    BY <1>2
  <2> HIDE DEF index
  <2> QED
    BY <2>1, <2>2
<1>4. LookupInv'
  <2>1. LookupShape' /\ AskedInv'
    BY <1>1, <1>3 DEF LookupInv, LookupShape, AskedInv, Asked
  <2>2. ToldInv'
    BY <1>1, <1>3 DEF LookupInv, ToldInv, Told, BaseOf, ContextOf
  <2>3. IndexInv'
    <3>1. \A c : BaseOf(c)' = BaseOf(c)
      BY <1>1 DEF BaseOf
    <3>2. ASSUME NEW f \in told PROVE f \in Range(lookup.port) /\ index[f] = BaseOf(f[2])[f[1]]
      OBVIOUS
    <3>3. DOMAIN index = told
      OBVIOUS
    <3> HIDE DEF index
    <3>4. lookup'.index = index /\ lookup'.port = lookup.port
      BY <1>3
    <3> QED
      BY <3>1, <3>2, <3>3, <3>4 DEF IndexInv
  <2>4. FoundInv'
    <3>1. lookup'.found = Nothing
      BY <1>1, <1>3 DEF LookupInv, LookupShape
    <3> QED
      BY <3>1 DEF FoundInv, Nothing
  <2> QED
    BY <2>1, <2>2, <2>3, <2>4 DEF LookupInv
<1>5. StayersInv'
  <2>1. SUFFICES ASSUME answered, told = Range(lookup.port), reading.named, SameContexts, NEW e \in reading.entries, Stays(e)
                 PROVE  e \in DOMAIN lookup'.port /\ lookup'.port[e] \in DOMAIN lookup'.index
    BY <1>1, <1>2, <1>3 DEF StayersInv, SameContexts, Stays
  <2>2. e \in DOMAIN lookup.port
    BY <1>1, <2>1 DEF StayersInv
  <2>3. lookup.port[e] \in told
    BY <2>1, <2>2 DEF Range
  <2> QED
    BY <1>3, <2>2, <2>3
<1> QED
  BY <1>1, <1>4, <1>5, LookupKeeps DEF BeenInv

\* An entry's port leads back to the interface of a place where its machine has been.
LEMMA ToldLeadsBack ==
  ASSUME TablesInv, NEW e \in DOMAIN lookup.port, lookup.port[e] \in DOMAIN lookup.index
  PROVE  \E p \in been[e.mac] :
           /\ e.vlan \in {p[1], 0} /\ lookup.index[lookup.port[e]] = p[2] /\ p[2] # 0
           /\ IndexOf(lookup.index, lookup.port[e]) = p[2]
<1> DEFINE context == ContextOf(e)
           b == BaseOf(context)
<1>1. Told(e, lookup.port[e]) /\ Asked(e)
  BY DEF TablesInv, LookupInv, ToldInv, AskedInv
<1>2. PICK p \in been[e.mac] :
        e.vlan \in {p[1], 0} /\ p[2] \in Range(b) /\ lookup.port[e] = <<BridgePortOf(b, p[2]), context>>
  BY <1>1 DEF Told
<1>3. lookup.index[lookup.port[e]] = b[BridgePortOf(b, p[2])]
  BY <1>2 DEF TablesInv, LookupInv, IndexInv
<1>4. DOMAIN b \subseteq PortNumbers /\ Range(b) \subseteq PortNumbers
  <2>1. context = 0 \/ context \in DOMAIN bridge.contexts
    BY <1>1 DEF Told
  <2> QED
    BY <2>1 DEF TablesInv, BridgeKept, BaseOf, Range
<1> HIDE DEF b
<1>5. b[BridgePortOf(b, p[2])] = p[2] /\ p[2] # 0
  BY <1>2, <1>4, PortOf
<1> QED
  BY <1>2, <1>3, <1>5 DEF IndexOf

LEMMA NamesAsked == TablesInv /\ AsksNames => TablesInv'
<1> SUFFICES ASSUME TablesInv, AsksNames PROVE TablesInv'
  OBVIOUS
<1> DEFINE known == {x \in DOMAIN lookup.port : IndexOf(lookup.index, lookup.port[x]) # 0}
           Name(told, i) == IF i \in told /\ i \in DOMAIN bridge.ifName THEN bridge.ifName[i] ELSE i
<1>1. LookupInv /\ BeenInv /\ NamesInv /\ StayersInv /\ lookup.at = "ports" /\ UNCHANGED <<bridge, place, been, moves, reading>>
  BY DEF TablesInv, AsksNames
<1>2. PICK told \in SUBSET Range(lookup.index) :
       /\ answered' = (answered /\ told = Range(lookup.index))
       /\ lookup' = [lookup EXCEPT !.at = "done", !.found = [e \in known |-> Name(told, IndexOf(lookup.index, lookup.port[e]))]]
  BY DEF AsksNames
<1> DEFINE found == [e \in known |-> Name(told, IndexOf(lookup.index, lookup.port[e]))]
<1>3. lookup' = [at |-> "done", entries |-> lookup.entries, port |-> lookup.port, index |-> lookup.index, found |-> found]
  <2>1. lookup = [at |-> lookup.at, entries |-> lookup.entries, port |-> lookup.port, index |-> lookup.index, found |-> lookup.found]
    BY <1>1 DEF LookupInv, LookupShape
  <2>2. lookup' = [lookup EXCEPT !.at = "done", !.found = found]
    BY <1>2
  <2> HIDE DEF found
  <2> QED
    BY <2>1, <2>2
<1>4. ASSUME NEW e \in known
      PROVE  /\ e \in DOMAIN lookup.port /\ lookup.port[e] \in DOMAIN lookup.index
             /\ found[e] = Name(told, lookup.index[lookup.port[e]])
  BY DEF IndexOf
<1>5. DOMAIN found = known
  OBVIOUS
<1> HIDE DEF found
<1>6. LookupInv'
  <2>1. LookupShape' /\ AskedInv'
    BY <1>1, <1>3 DEF LookupInv, LookupShape, AskedInv, Asked
  <2>2. ToldInv'
    BY <1>1, <1>3 DEF LookupInv, ToldInv, Told, BaseOf, ContextOf
  <2>3. IndexInv'
    BY <1>1, <1>3 DEF LookupInv, IndexInv, BaseOf
  <2>4. FoundInv'
    <3>1. ASSUME NEW e \in known
          PROVE  found[e] \in NamesOf(lookup.index[lookup.port[e]]) \cup {lookup.index[lookup.port[e]]}
      BY <1>4 DEF NamesOf
    <3>2. \A i : NamesOf(i)' = NamesOf(i)
      BY <1>1 DEF NamesOf
    <3> HIDE DEF known
    <3> QED
      BY <1>3, <1>4, <1>5, <3>1, <3>2 DEF FoundInv
  <2> QED
    BY <2>1, <2>2, <2>3, <2>4 DEF LookupInv
<1>7. StayersInv'
  <2>7. lookup'.at = "done" /\ lookup'.found = found
    BY <1>3
  <2>8. answered' = (answered /\ told = Range(lookup.index)) /\ UNCHANGED <<bridge, been, reading>>
    BY <1>1, <1>2
  <2>1. SUFFICES ASSUME answered, told = Range(lookup.index), reading.named, SameContexts, NEW e \in reading.entries, Stays(e)
                 PROVE  e \in DOMAIN found /\ found[e] = e.port
    BY <2>7, <2>8 DEF StayersInv, SameContexts, Stays
  <2>2. e \in DOMAIN lookup.port /\ lookup.port[e] \in DOMAIN lookup.index
    BY <1>1, <2>1 DEF StayersInv
  <2>3. PICK p \in been[e.mac] :
          lookup.index[lookup.port[e]] = p[2] /\ p[2] # 0 /\ IndexOf(lookup.index, lookup.port[e]) = p[2]
    BY <2>2, ToldLeadsBack
  <2>4. p[2] \in DOMAIN bridge.ifName /\ bridge.ifName[p[2]] = e.port
    BY <2>1, StayerIsThere
  <2>5. p[2] \in told
    BY <2>1, <2>2, <2>3 DEF Range
  <2>6. e \in known
    BY <2>2, <2>3
  <2> QED
    BY <1>4, <1>5, <2>3, <2>4, <2>5, <2>6
<1> QED
  BY <1>1, <1>6, <1>7, LookupKeeps DEF BeenInv

LEMMA MachineMoves == TablesInv /\ (\E m \in Machines : Moves(m)) => TablesInv'
<1> SUFFICES ASSUME TablesInv, NEW m \in Machines, Moves(m) PROVE TablesInv'
  OBVIOUS
<1>1. LookupInv /\ BeenInv /\ EntriesInv /\ StayersInv /\ UNCHANGED <<bridge, reading, lookup, answered>>
  BY DEF TablesInv, Moves
<1>2. PICK p : p # place[m] /\ place' = [place EXCEPT ![m] = p] /\ been' = [been EXCEPT ![m] = been[m] \cup {p}]
  BY DEF Moves
<1>3. \A x \in Machines : /\ been[x] \subseteq been'[x] /\ place'[x] \in been'[x]
                          /\ x # m => been'[x] = been[x]
  BY <1>1, <1>2 DEF BeenInv
<1>4. been'[m] = been[m] \cup {p} /\ place[m] \in been[m] /\ p # place[m]
  BY <1>1, <1>2 DEF BeenInv
<1>5. BeenInv'
  <2>1. DOMAIN place' = Machines /\ DOMAIN been' = Machines
    BY <1>1, <1>2 DEF BeenInv
  <2>2. \A x \in Machines : IsFiniteSet(been'[x])
    BY <1>1, <1>3, <1>4, FS_AddElement DEF BeenInv
  <2> QED
    BY <1>3, <2>1, <2>2 DEF BeenInv
<1>6. Cardinality(been'[m]) # 1
  <2>1. IsFiniteSet(been'[m])
    BY <1>5 DEF BeenInv
  <2>2. ~\E q : been'[m] = {q}
    BY <1>4
  <2> QED
    BY <2>1, <2>2, FS_Singleton
<1>7. LookupInv'
  <2>1. LookupShape' /\ AskedInv' /\ IndexInv' /\ FoundInv'
    BY <1>1 DEF LookupInv, LookupShape, AskedInv, Asked, IndexInv, FoundInv, NamesOf, BaseOf
  <2>2. ToldInv'
    <3>1. SUFFICES ASSUME NEW e \in DOMAIN lookup.port PROVE Told(e, lookup.port[e])'
      BY <1>1 DEF ToldInv
    <3>2. Told(e, lookup.port[e]) /\ e.mac \in Machines
      BY <1>1 DEF LookupInv, ToldInv, AskedInv, Asked, EntriesInv
    <3> QED
      BY <1>1, <1>3, <3>2 DEF Told, BaseOf, ContextOf
  <2> QED
    BY <2>1, <2>2 DEF LookupInv
<1>8. StayersInv'
  <2>1. \A e \in reading.entries : Stays(e)' => Stays(e)
    BY <1>1, <1>3, <1>6 DEF Stays, EntriesInv
  <2> QED
    BY <1>1, <2>1 DEF StayersInv, SameContexts
<1> QED
  BY <1>1, <1>3, <1>5, <1>7, <1>8, LookupKeeps

\* In every state, for any switches, machines and moves (TablesInv): the ports read and found are of places where
\* the machines have been, and those that stay are found again (parse/bridge.py, collect.py).
THEOREM TablesAlways == TablesSpec => []TablesInv
<1>1. TablesInit => TablesInv
  BY TablesStarts
<1>2. TablesInv /\ [TablesNext]_tablesVars => TablesInv'
  <2>1. CASE UNCHANGED tablesVars
    BY <2>1 DEF tablesVars, TablesInv, BridgeKept, BeenInv, NamesInv, TableInv, EntriesInv, LookupInv, LookupShape, AskedInv, ToldInv,
       IndexInv, FoundInv, StayersInv, Where, Names, ByContext, BaseRead, Asked, Told, Stays, SameContexts, BaseOf, ContextOf, NamesOf
  <2> QED
    BY <2>1, NamesRead, VlansRead, ContextRead, ContextPortsRead, ContextsLeft, DefaultRead, LookupStarts, EntryAsked, PortsAsked,
       NamesAsked, MachineMoves DEF TablesNext
<1> QED
  BY <1>1, <1>2, PTL DEF TablesSpec

\* A machine's port is its own, for any switches and moves: what the scan names is a port it has been at, so is what
\* the lookup finds, and one that stayed is found where it was (collect.py:155).
THEOREM PortsAlwaysTheirOwn == TablesSpec => []PortsAreTheirOwn
<1>1. TablesInv => PortsAreWhereTheyWere
  <2> SUFFICES ASSUME TablesInv, NEW e \in reading.entries, e.port >= FirstPortName
               PROVE  \E p \in been[e.mac] : e.vlan \in {p[1], 0} /\ e.port \in NamesOf(p[2])
    BY DEF PortsAreWhereTheyWere
  <2>1. PICK p \in been[e.mac] : Where(e.vlan, p[1]) /\ Names(e.port, e.vlan, p[2])
    BY DEF TablesInv, EntriesInv
  <2>2. e.vlan \in {p[1], 0}
    BY <2>1 DEF Where
  <2>3. p[2] \in DOMAIN reading.names /\ e.port = reading.names[p[2]]
    BY <2>1 DEF Names
  <2>4. reading.names \in {bridge.ifName, bridge.ifDescr}
    BY <2>3 DEF TablesInv, NamesInv, Nothing
  <2> QED
    BY <2>2, <2>3, <2>4 DEF NamesOf
<1>2. TablesInv => FoundIsItsOwn
  <2> SUFFICES ASSUME TablesInv, NEW e \in DOMAIN lookup.found
               PROVE  \E p \in been[e.mac] : e.vlan \in {p[1], 0} /\ lookup.found[e] \in NamesOf(p[2]) \cup {p[2]}
    BY DEF FoundIsItsOwn
  <2>1. /\ e \in DOMAIN lookup.port /\ lookup.port[e] \in DOMAIN lookup.index
        /\ LET i == lookup.index[lookup.port[e]] IN lookup.found[e] \in NamesOf(i) \cup {i}
    BY DEF TablesInv, LookupInv, FoundInv
  <2>2. PICK p \in been[e.mac] : e.vlan \in {p[1], 0} /\ lookup.index[lookup.port[e]] = p[2]
    BY <2>1, ToldLeadsBack
  <2> QED
    BY <2>1, <2>2
<1>3. TablesInv => StayersAreFound
  BY DEF TablesInv, StayersInv, StayersAreFound, Stays
<1> QED
  BY <1>1, <1>2, <1>3, TablesAlways, PTL DEF PortsAreTheirOwn
=============================================================================
