---------------------------- MODULE LeadTableProofs ----------------------------
(***************************************************************************)
(* Theorems about the data of a lead, for any forms a browser may post:    *)
(* what the columns take is what is refused and nothing else, leads are    *)
(* complete, a number has one spelling, outcomes are on record, and a mail *)
(* names its lead.                                                         *)
(*                                                                         *)
(* Induction is by the least number at which a statement fails: a set of   *)
(* naturals that is not empty has a least member.                          *)
(***************************************************************************)
EXTENDS LeadTable, QuoteHandlerProofs, SequenceTheorems, FiniteSetTheorems, WellFoundedInduction

(* The least number principle.                                             *)
LEMMA LeastNatural ==
    ASSUME NEW T, T \subseteq Nat, T # {}
    PROVE  \E m \in T : \A n \in T : m <= n
<1> DEFINE R == OpToRel(<, Nat)
<1>1. IsWellFoundedOn(R, Nat)
  BY NatLessThanWellFounded
<1>2. \A m, n \in Nat : m < n => <<m, n>> \in R
  BY DEF OpToRel
<1> HIDE DEF R
<1>3. PICK m \in T : \A n \in T : <<n, m>> \notin R
  BY <1>1, WFMin
<1>4. \A n \in T : ~(n < m)
  BY <1>2, <1>3
<1> QED
  BY <1>3, <1>4

(* Induction up to a bound, over the set of numbers a statement holds of.  *)
LEMMA BoundedInduction ==
    ASSUME NEW N \in Nat, NEW S, 0 \in S,
           \A n \in 1..N : n - 1 \in S => n \in S
    PROVE  0..N \subseteq S
<1> DEFINE T == {n \in 0..N : n \notin S}
<1> SUFFICES ASSUME T # {} PROVE FALSE
  OBVIOUS
<1>0. T \subseteq Nat
  OBVIOUS
<1>1. PICK m \in T : \A n \in T : m <= n
  <2> HIDE DEF T
  <2> QED
    BY <1>0, LeastNatural
<1>2. m \in 0..N /\ m \notin S
  OBVIOUS
<1>3. m # 0
  BY <1>2
<1>4. m \in 1..N /\ m - 1 \in 0..N /\ ~(m <= m - 1)
  BY <1>2, <1>3
<1>5. m - 1 \in S
  BY <1>1, <1>4
<1> QED
  BY <1>2, <1>4, <1>5

-----------------------------------------------------------------------------
(* The runes of a text. *)

(* Through is the function its recursive equation describes.               *)
LEMMA ThroughDef ==
    ASSUME NEW ws \in Seq(Nat)
    PROVE  Through(ws) = [i \in 0..Len(ws) |-> IF i = 0 THEN 0 ELSE Through(ws)[i - 1] + ws[i] + 1]
<1> DEFINE Solves(f, n) == f = [i \in 0..n |-> IF i = 0 THEN 0 ELSE f[i - 1] + ws[i] + 1]
           S == {n \in 0..Len(ws) : \E f : Solves(f, n)}
<1>0. Len(ws) \in Nat
  OBVIOUS
<1>1. 0 \in S
  <2> DEFINE f == [i \in 0..0 |-> 0]
  <2>1. f = [i \in 0..0 |-> IF i = 0 THEN 0 ELSE f[i - 1] + ws[i] + 1]
    OBVIOUS
  <2>2. Solves(f, 0)
    BY <2>1
  <2> HIDE DEF f, Solves
  <2> QED
    BY <1>0, <2>2
<1>2. \A n \in 1..Len(ws) : n - 1 \in S => n \in S
  <2> SUFFICES ASSUME NEW n \in 1..Len(ws), n - 1 \in S PROVE n \in S
    OBVIOUS
  <2>0. \E f : Solves(f, n - 1)
    <3> HIDE DEF Solves
    <3> QED
      OBVIOUS
  <2>1. PICK f : Solves(f, n - 1)
    BY <2>0
  <2> DEFINE g == [i \in 0..n |-> IF i = n THEN f[n - 1] + ws[n] + 1 ELSE f[i]]
  <2>2. \A i \in 0..(n - 1) : f[i] = IF i = 0 THEN 0 ELSE f[i - 1] + ws[i] + 1
    BY <2>1
  <2>3. \A i \in 0..n : g[i] = IF i = 0 THEN 0 ELSE g[i - 1] + ws[i] + 1
    BY <2>2
  <2>4. g = [i \in 0..n |-> IF i = 0 THEN 0 ELSE g[i - 1] + ws[i] + 1]
    BY <2>3
  <2>5. Solves(g, n)
    BY <2>4
  <2> HIDE DEF g, Solves
  <2>6. n \in 0..Len(ws)
    BY <1>0
  <2> QED
    BY <2>5, <2>6
<1>3. Len(ws) \in S
  <2> HIDE DEF S
  <2>1. 0..Len(ws) \subseteq S
    BY <1>0, <1>1, <1>2, BoundedInduction
  <2> QED
    BY <1>0, <2>1
<1>4. Through(ws) = CHOOSE f : Solves(f, Len(ws))
  BY DEF Through
<1>5. \E f : Solves(f, Len(ws))
  BY <1>3
<1>6. Solves(Through(ws), Len(ws))
  <2> HIDE DEF Solves
  <2> QED
    BY <1>4, <1>5
<1> QED
  BY <1>6

(* The runes before a word are those before the one in front of it, that   *)
(* word and a blank.                                                       *)
LEMMA ThroughStep ==
    ASSUME NEW ws \in Seq(Nat)
    PROVE  /\ Through(ws)[0] = 0
           /\ \A i \in 1..Len(ws) : Through(ws)[i] = Through(ws)[i - 1] + ws[i] + 1
<1>1. \A i \in 0..Len(ws) : Through(ws)[i] = IF i = 0 THEN 0 ELSE Through(ws)[i - 1] + ws[i] + 1
  BY ThroughDef
<1>2. Len(ws) \in Nat
  OBVIOUS
<1> QED
  BY <1>1, <1>2

(* The runes before a word are a number.                                    *)
LEMMA ThroughType ==
    ASSUME NEW ws \in Seq(Nat)
    PROVE  \A i \in 0..Len(ws) : Through(ws)[i] \in Nat
<1> DEFINE S == {i \in 0..Len(ws) : Through(ws)[i] \in Nat}
<1>0. Len(ws) \in Nat
  OBVIOUS
<1>1. 0 \in S
  BY <1>0, ThroughStep
<1>2. \A n \in 1..Len(ws) : n - 1 \in S => n \in S
  <2> SUFFICES ASSUME NEW n \in 1..Len(ws), Through(ws)[n - 1] \in Nat
               PROVE  Through(ws)[n] \in Nat
    BY <1>0
  <2> QED
    BY ThroughStep
<1> HIDE DEF S
<1>3. 0..Len(ws) \subseteq S
  BY <1>0, <1>1, <1>2, BoundedInduction
<1> QED
  BY <1>3 DEF S

(* No word begins before an earlier one.                                   *)
LEMMA ThroughGrows ==
    ASSUME NEW ws \in Seq(Nat), NEW i \in 0..Len(ws), NEW j \in 0..Len(ws), i <= j
    PROVE  Through(ws)[i] <= Through(ws)[j]
<1> DEFINE T == Through(ws)
           S == {k \in 0..Len(ws) : i <= k => T[i] <= T[k]}
<1>0. Len(ws) \in Nat /\ i \in Nat /\ j \in Nat
  OBVIOUS
<1>1. \A k \in 0..Len(ws) : T[k] \in Nat
  BY ThroughType
<1>2. \A k \in 1..Len(ws) : T[k] = T[k - 1] + ws[k] + 1 /\ ws[k] \in Nat
  BY ThroughStep
<1> HIDE DEF T
<1>3. 0 \in S
  BY <1>0, <1>1
<1>4. \A k \in 1..Len(ws) : k - 1 \in S => k \in S
  <2> SUFFICES ASSUME NEW k \in 1..Len(ws), k - 1 \in S, i <= k
               PROVE  T[i] <= T[k]
    BY <1>0
  <2>1. k \in Nat /\ k - 1 \in 0..Len(ws) /\ k \in 0..Len(ws)
    BY <1>0
  <2>2. CASE i = k
    BY <1>0, <1>1, <2>1, <2>2
  <2>3. CASE i <= k - 1
    <3>1. T[i] <= T[k - 1]
      BY <2>3
    <3>2. T[i] \in Nat /\ T[k - 1] \in Nat /\ ws[k] \in Nat /\ T[k] = T[k - 1] + ws[k] + 1
      BY <1>1, <1>2, <2>1
    <3> HIDE DEF S
    <3> QED
      BY <1>0, <2>1, <3>1, <3>2
  <2> QED
    BY <1>0, <2>1, <2>2, <2>3
<1> HIDE DEF S
<1>5. 0..Len(ws) \subseteq S
  BY <1>0, <1>3, <1>4, BoundedInduction
<1> QED
  BY <1>5 DEF S, T

(* Words that are the same take the same runes.                            *)
LEMMA ThroughPrefix ==
    ASSUME NEW ws \in Seq(Nat), NEW vs \in Seq(Nat), NEW k \in Nat,
           k <= Len(ws), k <= Len(vs), \A i \in 1..k : ws[i] = vs[i]
    PROVE  \A i \in 0..k : Through(ws)[i] = Through(vs)[i]
<1> DEFINE S == {i \in 0..k : Through(ws)[i] = Through(vs)[i]}
<1>1. 0 \in S
  BY ThroughStep
<1>2. \A n \in 1..k : n - 1 \in S => n \in S
  <2> SUFFICES ASSUME NEW n \in 1..k, Through(ws)[n - 1] = Through(vs)[n - 1]
               PROVE  Through(ws)[n] = Through(vs)[n]
    OBVIOUS
  <2>1. n \in 1..Len(ws) /\ n \in 1..Len(vs) /\ ws[n] = vs[n]
    OBVIOUS
  <2> QED
    BY <2>1, ThroughStep
<1> HIDE DEF S
<1>3. 0..k \subseteq S
  BY <1>1, <1>2, BoundedInduction
<1> QED
  BY <1>3 DEF S
-----------------------------------------------------------------------------
(* What headerSafe keeps. *)

(* Texts of no empty word. *)
Words == Seq(Nat \ {0})

(* Such a text is one of parts, of a number of them.                       *)
LEMMA WordsAreParts == \A ws \in Words : ws \in Seq(Nat) /\ Len(ws) \in Nat
<1> SUFFICES ASSUME NEW ws \in Words PROVE ws \in Seq(Nat) /\ Len(ws) \in Nat
  OBVIOUS
<1>1. Len(ws) \in Nat /\ \A i \in 1..Len(ws) : ws[i] \in Nat
  BY DEF Words
<1>2. ws = [i \in 1..Len(ws) |-> ws[i]]
  BY DEF Words
<1> QED
  BY <1>1, <1>2

(* Printed is built part by part: an empty one adds nothing.               *)
LEMMA PrintedDef ==
    ASSUME NEW ps \in Seq(Nat)
    PROVE  \E U : /\ Printed(ps) = U[Len(ps)]
                  /\ U[0] = <<>>
                  /\ \A i \in 1..Len(ps) :
                       U[i] = IF ps[i] = 0 THEN U[i - 1] ELSE Append(U[i - 1], ps[i])
<1> DEFINE Solves(f, n) == f = [i \in 0..n |-> IF i = 0 THEN <<>>
                                   ELSE IF ps[i] = 0 THEN f[i - 1] ELSE Append(f[i - 1], ps[i])]
           S == {n \in 0..Len(ps) : \E f : Solves(f, n)}
           U == CHOOSE f : Solves(f, Len(ps))
<1>0. Len(ps) \in Nat
  OBVIOUS
<1>1. 0 \in S
  <2> DEFINE f == [i \in 0..0 |-> <<>>]
  <2>1. f = [i \in 0..0 |-> IF i = 0 THEN <<>>
                 ELSE IF ps[i] = 0 THEN f[i - 1] ELSE Append(f[i - 1], ps[i])]
    OBVIOUS
  <2>2. Solves(f, 0)
    BY <2>1
  <2> HIDE DEF f, Solves
  <2> QED
    BY <1>0, <2>2
<1>2. \A n \in 1..Len(ps) : n - 1 \in S => n \in S
  <2> SUFFICES ASSUME NEW n \in 1..Len(ps), n - 1 \in S PROVE n \in S
    OBVIOUS
  <2>0. \E f : Solves(f, n - 1)
    <3> HIDE DEF Solves
    <3> QED
      OBVIOUS
  <2>1. PICK f : Solves(f, n - 1)
    BY <2>0
  <2> DEFINE next == IF ps[n] = 0 THEN f[n - 1] ELSE Append(f[n - 1], ps[n])
             g == [i \in 0..n |-> IF i = n THEN next ELSE f[i]]
  <2>2. \A i \in 0..(n - 1) : f[i] = IF i = 0 THEN <<>>
                                       ELSE IF ps[i] = 0 THEN f[i - 1] ELSE Append(f[i - 1], ps[i])
    BY <2>1
  <2>3. \A i \in 0..n : g[i] = IF i = 0 THEN <<>>
                                 ELSE IF ps[i] = 0 THEN g[i - 1] ELSE Append(g[i - 1], ps[i])
    BY <2>2
  <2>4. g = [i \in 0..n |-> IF i = 0 THEN <<>>
                 ELSE IF ps[i] = 0 THEN g[i - 1] ELSE Append(g[i - 1], ps[i])]
    BY <2>3
  <2>5. Solves(g, n)
    BY <2>4
  <2> HIDE DEF g, Solves
  <2>6. n \in 0..Len(ps)
    BY <1>0
  <2> QED
    BY <2>5, <2>6
<1>3. Len(ps) \in S
  <2> HIDE DEF S
  <2>1. 0..Len(ps) \subseteq S
    BY <1>0, <1>1, <1>2, BoundedInduction
  <2> QED
    BY <1>0, <2>1
<1>4. Printed(ps) = U[Len(ps)]
  BY DEF Printed
<1>5. \E f : Solves(f, Len(ps))
  BY <1>3
<1>6. Solves(U, Len(ps))
  <2> HIDE DEF Solves
  <2> QED
    BY <1>5
<1>7. \A i \in 0..Len(ps) : U[i] = IF i = 0 THEN <<>>
                                   ELSE IF ps[i] = 0 THEN U[i - 1] ELSE Append(U[i - 1], ps[i])
  <2> HIDE DEF U
  <2> QED
    BY <1>6
<1> HIDE DEF U
<1>8. U[0] = <<>> /\ \A i \in 1..Len(ps) :
                       U[i] = IF ps[i] = 0 THEN U[i - 1] ELSE Append(U[i - 1], ps[i])
  BY <1>0, <1>7
<1> QED
  BY <1>4, <1>8

(* What is printed has no empty word, and begins with the words the text   *)
(* begins with.                                                            *)
LEMMA PrintedShape ==
    ASSUME NEW ps \in Seq(Nat), NEW k \in 0..Len(ps), \A i \in 1..k : ps[i] # 0
    PROVE  /\ Printed(ps) \in Words
           /\ k <= Len(Printed(ps))
           /\ \A i \in 1..k : Printed(ps)[i] = ps[i]
<1>0. Len(ps) \in Nat /\ k \in Nat
  OBVIOUS
<1>1. PICK U : /\ Printed(ps) = U[Len(ps)]
               /\ U[0] = <<>>
               /\ \A i \in 1..Len(ps) :
                    U[i] = IF ps[i] = 0 THEN U[i - 1] ELSE Append(U[i - 1], ps[i])
  BY PrintedDef
<1> DEFINE Good(n) == /\ U[n] \in Words
                      /\ n <= k => Len(U[n]) = n
                      /\ k <= n => k <= Len(U[n])
                      /\ \A i \in 1..k : i <= n => U[n][i] = ps[i]
           S == {n \in 0..Len(ps) : Good(n)}
<1>2. 0 \in S
  <2>1. U[0] \in Words /\ Len(U[0]) = 0
    BY <1>1 DEF Words
  <2>2. Good(0)
    BY <1>0, <2>1
  <2> HIDE DEF Good
  <2> QED
    BY <1>0, <2>2
<1>3. \A n \in 1..Len(ps) : n - 1 \in S => n \in S
  <2>s. 1..Len(ps) \subseteq 0..Len(ps)
    BY <1>0
  <2> SUFFICES ASSUME NEW n \in 1..Len(ps), n - 1 \in S PROVE Good(n)
    <3> HIDE DEF Good
    <3> QED
      BY <2>s
  <2>0. n \in Nat /\ n - 1 \in Nat /\ ps[n] \in Nat
    BY <1>0
  <2> DEFINE v == U[n - 1]
             x == ps[n]
  <2>1. /\ v \in Words
        /\ n - 1 <= k => Len(v) = n - 1
        /\ k <= n - 1 => k <= Len(v)
        /\ \A i \in 1..k : i <= n - 1 => v[i] = ps[i]
    OBVIOUS
  <2>2. U[n] = IF x = 0 THEN v ELSE Append(v, x)
    BY <1>1
  <2>3. Len(v) \in Nat
    BY <2>1, WordsAreParts
  <2>4. n <= k => x # 0
    BY <2>0
  <2> HIDE DEF v
  <2>5. CASE x = 0
    <3>1. U[n] = v /\ ~(n <= k)
      BY <2>2, <2>4, <2>5
    <3>2. k <= n - 1
      BY <1>0, <2>0, <3>1
    <3> QED
      BY <1>0, <2>0, <2>1, <2>3, <3>1, <3>2
  <2>6. CASE x # 0
    <3>1. U[n] = Append(v, x) /\ x \in Nat \ {0}
      BY <2>0, <2>2, <2>6
    <3> HIDE DEF x
    <3>2. /\ U[n] \in Words /\ Len(U[n]) = Len(v) + 1
          /\ \A i \in 1..Len(v) : U[n][i] = v[i]
          /\ U[n][Len(v) + 1] = x
      BY <2>1, <3>1, AppendProperties DEF Words
    <3>3. n <= k => Len(U[n]) = n
      BY <1>0, <2>0, <2>1, <2>3, <3>2
    <3>4. k <= n => k <= Len(U[n])
      BY <1>0, <2>0, <2>1, <2>3, <3>2
    <3>5. ASSUME NEW i \in 1..k, i <= n PROVE U[n][i] = ps[i]
      <4>0. i \in Nat /\ 1 <= i /\ i <= k
        BY <1>0
      <4>1. CASE i <= n - 1
        <5>1. v[i] = ps[i]
          BY <2>1, <4>1
        <5>2. i <= Len(v)
          BY <1>0, <2>0, <2>1, <2>3, <4>0, <4>1
        <5>3. i \in 1..Len(v)
          BY <2>3, <4>0, <5>2
        <5> QED
          BY <3>2, <5>1, <5>3
      <4>2. CASE i = n
        <5>1. Len(v) + 1 = n
          BY <1>0, <2>0, <2>1, <2>3, <4>0, <4>2
        <5> QED
          BY <3>2, <4>2, <5>1 DEF x
      <4> QED
        BY <2>0, <3>5, <4>0, <4>1, <4>2
    <3> QED
      BY <3>2, <3>3, <3>4, <3>5
  <2> QED
    BY <2>5, <2>6
<1>4. Len(ps) \in S
  <2> HIDE DEF S
  <2>1. 0..Len(ps) \subseteq S
    BY <1>0, <1>2, <1>3, BoundedInduction
  <2> QED
    BY <1>0, <2>1
<1>5. Good(Len(ps))
  <2> HIDE DEF Good
  <2> QED
    BY <1>4
<1>6. U[Len(ps)] \in Words /\ k <= Len(U[Len(ps)])
  BY <1>0, <1>5
<1>7. \A i \in 1..k : U[Len(ps)][i] = ps[i]
  <2>1. \A i \in 1..k : i <= Len(ps)
    BY <1>0
  <2> QED
    BY <1>5, <2>1
<1> HIDE DEF Good, S
<1> QED
  BY <1>1, <1>6, <1>7

(* What is printed has no empty word.                                      *)
LEMMA PrintedWords ==
    ASSUME NEW ps \in Seq(Nat)
    PROVE  Printed(ps) \in Words
<1>1. 0 \in 0..Len(ps) /\ \A i \in 1..0 : ps[i] # 0
  OBVIOUS
<1> QED
  BY <1>1, PrintedShape

Kept(ws, max) == {i \in DOMAIN ws : Before(ws, i) < max}

(* The words kept are the first ones.                                      *)
LEMMA KeptFirst ==
    ASSUME NEW ws \in Seq(Nat), NEW max \in Nat
    PROVE  \E k \in 0..Len(ws) :
             /\ Kept(ws, max) = 1..k
             /\ Cardinality(Kept(ws, max)) = k
<1> DEFINE T == Through(ws)
           Over == {n \in 0..Len(ws) : n = Len(ws) \/ T[n] >= max}
<1>0. Len(ws) \in Nat
  OBVIOUS
<1>d. DOMAIN ws = 1..Len(ws)
  OBVIOUS
<1>1. /\ \A i \in 0..Len(ws) : T[i] \in Nat
      /\ \A i, j \in 0..Len(ws) : i <= j => T[i] <= T[j]
  BY ThroughType, ThroughGrows
<1>2. Kept(ws, max) = {i \in 1..Len(ws) : T[i - 1] < max}
  BY <1>d DEF Kept, Before
<1> HIDE DEF T
<1>3. Over \subseteq Nat /\ Len(ws) \in Over
  BY <1>0
<1>4. PICK k \in Over : \A n \in Over : k <= n
  <2> HIDE DEF Over
  <2> QED
    BY <1>3, LeastNatural
<1>5. k \in 0..Len(ws) /\ k \in Nat /\ (k = Len(ws) \/ T[k] >= max)
  BY <1>0, <1>4
<1>6. \A i \in 1..k : T[i - 1] < max
  <2> SUFFICES ASSUME NEW i \in 1..k PROVE T[i - 1] < max
    OBVIOUS
  <2>1. i \in Nat /\ i - 1 \in 0..Len(ws) /\ i - 1 # Len(ws) /\ ~(k <= i - 1)
    BY <1>0, <1>5
  <2>2. i - 1 \notin Over
    BY <1>4, <2>1
  <2> QED
    BY <1>1, <2>1, <2>2
<1>7. \A i \in 1..Len(ws) : k < i => T[i - 1] >= max
  <2> SUFFICES ASSUME NEW i \in 1..Len(ws), k < i PROVE T[i - 1] >= max
    OBVIOUS
  <2>1. i \in Nat /\ i - 1 \in 0..Len(ws) /\ k <= i - 1 /\ k # Len(ws)
    BY <1>0, <1>5
  <2>2. T[k] <= T[i - 1] /\ T[k] >= max /\ T[k] \in Nat /\ T[i - 1] \in Nat
    BY <1>1, <1>5, <2>1
  <2> QED
    BY <1>5, <2>1, <2>2
<1>8. Kept(ws, max) = 1..k
  <2>1. \A i \in 1..k : i \in 1..Len(ws)
    BY <1>0, <1>5
  <2>2. ASSUME NEW i \in 1..Len(ws), T[i - 1] < max PROVE i \in 1..k
    <3>1. i \in Nat /\ i - 1 \in 0..Len(ws)
      BY <1>0
    <3>2. T[i - 1] \in Nat
      BY <1>1, <3>1
    <3>3. ~(k < i)
      BY <1>7, <2>2, <3>2
    <3> QED
      BY <1>5, <3>1, <3>3
  <2> QED
    BY <1>2, <1>6, <2>1, <2>2
<1>9. Cardinality(1..k) = k
  BY <1>5, FS_Interval
<1> QED
  BY <1>5, <1>8, <1>9

(* Cut in terms of the words it is given: the first ones, cut at the       *)
(* limit.                                                                  *)
LEMMA CutShape ==
    ASSUME NEW ws \in Words, NEW max \in Nat
    PROVE  /\ Cut(ws, max) \in Words
           /\ Len(Cut(ws, max)) <= Len(ws)
           /\ \A i \in 1..Len(ws) : i <= Len(Cut(ws, max)) <=> Through(ws)[i - 1] < max
           /\ \A i \in 1..Len(Cut(ws, max)) :
                Cut(ws, max)[i] = IF ws[i] < max - Through(ws)[i - 1]
                                           THEN ws[i] ELSE max - Through(ws)[i - 1]
<1> DEFINE T == Through(ws)
           cut(i) == IF ws[i] < max - T[i - 1] THEN ws[i] ELSE max - T[i - 1]
<1>0. ws \in Seq(Nat) /\ Len(ws) \in Nat
  BY WordsAreParts
<1>d. DOMAIN ws = 1..Len(ws)
  BY <1>0
<1>1. \A i \in 0..Len(ws) : T[i] \in Nat
  BY <1>0, ThroughType
<1>2. PICK k \in 0..Len(ws) : Kept(ws, max) = 1..k /\ Cardinality(Kept(ws, max)) = k
  BY <1>0, KeptFirst
<1>3. Cut(ws, max) = [i \in 1..k |-> cut(i)]
  BY <1>2 DEF Cut, Kept, Before
<1>4. \A i \in 1..Len(ws) : i <= k <=> T[i - 1] < max
  <2>1. Kept(ws, max) = {i \in 1..Len(ws) : T[i - 1] < max}
    BY <1>d DEF Kept, Before
  <2> HIDE DEF T
  <2>2. \A i \in 1..Len(ws) : i \in 1..k <=> T[i - 1] < max
    BY <1>2, <2>1
  <2>3. \A i \in 1..Len(ws) : i \in 1..k <=> i <= k
    BY <1>0, <1>2
  <2> QED
    BY <2>2, <2>3
<1>5. \A i \in 1..k : cut(i) \in Nat \ {0}
  <2> SUFFICES ASSUME NEW i \in 1..k PROVE cut(i) \in Nat \ {0}
    OBVIOUS
  <2>1. i \in 1..Len(ws) /\ i - 1 \in 0..Len(ws)
    BY <1>0
  <2>2. ws[i] \in Nat \ {0} /\ T[i - 1] \in Nat /\ T[i - 1] < max
    BY <1>1, <1>4, <2>1 DEF Words
  <2> HIDE DEF T
  <2> QED
    BY <2>2
<1> HIDE DEF cut
<1>6. Cut(ws, max) \in Seq(Nat \ {0}) /\ Len(Cut(ws, max)) = k
  BY <1>3, <1>5
<1> QED
  BY <1>2, <1>3, <1>4, <1>6 DEF Words, cut

(* What is cut at a limit is never longer than it.                         *)
LEMMA CutFits ==
    ASSUME NEW ws \in Words, NEW max \in Nat
    PROVE  Runes(Cut(ws, max)) <= max
<1> DEFINE T == Through(ws)
           h == Cut(ws, max)
           H == Through(h)
           k == Len(h)
<1>1. ws \in Seq(Nat) /\ h \in Seq(Nat) /\ Len(ws) \in Nat /\ k \in Nat /\ k <= Len(ws)
  BY CutShape DEF Words
<1>2. /\ \A i \in 1..Len(ws) : i <= k <=> T[i - 1] < max
      /\ \A i \in 1..k : h[i] = IF ws[i] < max - T[i - 1] THEN ws[i] ELSE max - T[i - 1]
  BY CutShape
<1>3. \A i \in 0..Len(ws) : T[i] \in Nat
  BY <1>1, ThroughType
<1>4. \A i \in 1..Len(ws) : T[i] = T[i - 1] + ws[i] + 1 /\ ws[i] \in Nat
  BY <1>1, ThroughStep
<1>5. \A i \in 1..k : H[i] = H[i - 1] + h[i] + 1
  BY <1>1, ThroughStep
<1>6. Runes(h) = IF h = <<>> THEN 0 ELSE H[k] - 1
  BY DEF Runes
<1>7. ASSUME k # 0 PROVE \A i \in 0..(k - 1) : H[i] = T[i]
  <2>1. ASSUME NEW i \in 1..(k - 1) PROVE h[i] = ws[i]
    <3>1. i \in Nat /\ i \in 1..Len(ws) /\ i \in 1..k /\ i + 1 \in 1..Len(ws) /\ i + 1 <= k
          /\ i - 1 \in 0..Len(ws) /\ (i + 1) - 1 = i
      BY <1>1
    <3>2. T[i] < max
      BY <1>2, <3>1
    <3>3. T[i] = T[i - 1] + ws[i] + 1 /\ ws[i] \in Nat /\ T[i - 1] \in Nat
      BY <1>3, <1>4, <3>1
    <3>4. h[i] = IF ws[i] < max - T[i - 1] THEN ws[i] ELSE max - T[i - 1]
      BY <1>2, <3>1
    <3> HIDE DEF T, h
    <3> QED
      BY <3>2, <3>3, <3>4
  <2>2. k - 1 \in Nat /\ k - 1 <= Len(h) /\ k - 1 <= Len(ws)
    BY <1>1, <1>7
  <2> HIDE DEF h
  <2>3. \A i \in 0..(k - 1) : Through(h)[i] = Through(ws)[i]
    BY <1>1, <2>1, <2>2, ThroughPrefix
  <2> QED
    BY <2>3
<1> HIDE DEF T, h, H
<1>8. k = 0 => Runes(h) <= max
  BY <1>1, <1>6
<1>9. ASSUME k # 0 PROVE Runes(h) <= max
  <2>1. k \in 1..k /\ k \in 1..Len(ws) /\ k - 1 \in 0..(k - 1) /\ k - 1 \in 0..Len(ws)
    BY <1>1, <1>9
  <2>2. H[k] = T[k - 1] + h[k] + 1
    BY <1>5, <1>7, <1>9, <2>1
  <2>3. T[k - 1] \in Nat /\ T[k - 1] < max /\ ws[k] \in Nat
    BY <1>1, <1>2, <1>3, <1>4, <2>1
  <2>4. h[k] = IF ws[k] < max - T[k - 1] THEN ws[k] ELSE max - T[k - 1]
    BY <1>2, <2>1
  <2> QED
    BY <1>6, <2>2, <2>3, <2>4
<1> QED
  BY <1>8, <1>9 DEF h

(* A header is never longer than its limit, whatever the text.             *)
THEOREM HeaderFits ==
    ASSUME NEW ps \in Seq(Nat), NEW max \in Nat
    PROVE  Runes(headerSafe(ps, max)) <= max
<1>1. Printed(ps) \in Words
  BY PrintedWords
<1> QED
  BY <1>1, CutFits DEF headerSafe

(* What fits is kept: the first words of a text that end within the limit  *)
(* are kept as they are.                                        *)
LEMMA CutKeeps ==
    ASSUME NEW ws \in Words, NEW max \in Nat, NEW n \in 0..Len(ws), Through(ws)[n] <= max + 1
    PROVE  /\ n <= Len(Cut(ws, max))
           /\ \A i \in 1..n : Cut(ws, max)[i] = ws[i]
<1> DEFINE T == Through(ws)
           h == Cut(ws, max)
<1>1. ws \in Seq(Nat) /\ h \in Seq(Nat) /\ Len(ws) \in Nat /\ Len(h) \in Nat /\ n \in Nat
  BY CutShape DEF Words
<1>2. /\ \A i \in 1..Len(ws) : i <= Len(h) <=> T[i - 1] < max
      /\ \A i \in 1..Len(h) : h[i] = IF ws[i] < max - T[i - 1] THEN ws[i] ELSE max - T[i - 1]
  BY CutShape
<1>3. ASSUME NEW i \in 1..n
      PROVE  /\ i \in Nat /\ i \in 1..Len(ws) /\ i - 1 \in 0..Len(ws)
             /\ T[i - 1] \in Nat /\ ws[i] \in Nat
             /\ T[i - 1] < max /\ ws[i] <= max - T[i - 1]
  <2>1. i \in Nat /\ i <= n /\ i \in 0..Len(ws) /\ i \in 1..Len(ws) /\ i - 1 \in 0..Len(ws)
    BY <1>1
  <2>2. T[i] <= T[n] /\ T[i] \in Nat /\ T[i - 1] \in Nat /\ T[n] \in Nat
    BY <1>1, <2>1, ThroughGrows, ThroughType
  <2>3. T[i] = T[i - 1] + ws[i] + 1
    BY <1>1, <2>1, ThroughStep
  <2>4. ws[i] \in Nat /\ 1 <= ws[i]
    BY <2>1 DEF Words
  <2>5. T[n] <= max + 1
    OBVIOUS
  <2> HIDE DEF T
  <2>7. T[i] <= max + 1
    BY <2>2, <2>5
  <2>8. T[i - 1] + ws[i] <= max
    BY <2>2, <2>3, <2>4, <2>7
  <2>9. T[i - 1] < max /\ ws[i] <= max - T[i - 1]
    BY <2>2, <2>4, <2>8
  <2> QED
    BY <2>1, <2>2, <2>4, <2>9
<1> HIDE DEF T, h
<1>4. ASSUME NEW i \in 1..n PROVE i <= Len(h) /\ i \in 1..Len(h)
  <2>1. i \in Nat /\ 1 <= i /\ i \in 1..Len(ws) /\ T[i - 1] < max
    BY <1>3
  <2>2. i <= Len(h)
    BY <1>2, <2>1
  <2> QED
    BY <1>1, <2>1, <2>2
<1>5. ASSUME NEW i \in 1..n PROVE h[i] = ws[i]
  <2>1. h[i] = IF ws[i] < max - T[i - 1] THEN ws[i] ELSE max - T[i - 1]
    BY <1>2, <1>4
  <2>2. T[i - 1] \in Nat /\ ws[i] \in Nat /\ ws[i] <= max - T[i - 1]
    BY <1>3
  <2> QED
    BY <2>1, <2>2
<1>6. n <= Len(h)
  <2>1. n = 0 \/ n \in 1..n
    BY <1>1
  <2> QED
    BY <1>1, <1>4, <2>1
<1> QED
  BY <1>5, <1>6 DEF h

-----------------------------------------------------------------------------
(* What a form without errors is. *)

(* A form without errors is within every rule of validateQuote.             *)
LEMMA NoErrors ==
    ASSUME NEW f, Errors(f) = {}
    PROVE  /\ IF Compact(f) THEN TextOK(f.name, TRUE, 120) ELSE TextOK(f.name, TRUE, 80)
           /\ TextOK(f.origin, TRUE, 120) /\ TextOK(f.destination, TRUE, 120)
           /\ EmailOK(f.email)
           /\ PhoneError(f.phone) = "none"
           /\ WeightOK(f.weight)
<1> DEFINE ok == [full_name     |-> Compact(f) => TextOK(f.name, TRUE, 120),
                  first_name    |-> ~Compact(f) => TextOK(f.name, TRUE, 80),
                  last_name     |-> ~Compact(f) => TextOK(f.last, FALSE, 80),
                  company_name  |-> ~Compact(f) => TextOK(f.company, FALSE, 120),
                  cargo_details |-> ~Compact(f) => TextOK(f.cargo, FALSE, 2000),
                  origin        |-> TextOK(f.origin, TRUE, 120),
                  destination   |-> TextOK(f.destination, TRUE, 120),
                  email         |-> EmailOK(f.email),
                  phone         |-> PhoneError(f.phone) = "none",
                  service_type  |-> f.service = "known",
                  weight_kg     |-> WeightOK(f.weight)]
<1>1. Errors(f) = {field \in DOMAIN ok : ~ok[field]}
  BY DEF Errors
<1>2. \A field \in DOMAIN ok : ok[field]
  <2> HIDE DEF ok
  <2> QED
    BY <1>1
<1>3. {"full_name", "first_name", "origin", "destination", "email", "phone", "weight_kg"}
        \subseteq DOMAIN ok
  OBVIOUS
<1>4. /\ ok["full_name"] /\ ok["first_name"] /\ ok["origin"] /\ ok["destination"]
      /\ ok["email"] /\ ok["phone"] /\ ok["weight_kg"]
  <2> HIDE DEF ok
  <2> QED
    BY <1>2, <1>3
<1>5. /\ ok["full_name"] <=> (Compact(f) => TextOK(f.name, TRUE, 120))
      /\ ok["first_name"] <=> (~Compact(f) => TextOK(f.name, TRUE, 80))
  OBVIOUS
<1>6. /\ ok["origin"] <=> TextOK(f.origin, TRUE, 120)
      /\ ok["destination"] <=> TextOK(f.destination, TRUE, 120)
  OBVIOUS
<1>7. /\ ok["email"] <=> EmailOK(f.email)
      /\ ok["phone"] <=> PhoneError(f.phone) = "none"
      /\ ok["weight_kg"] <=> WeightOK(f.weight)
  OBVIOUS
<1> HIDE DEF ok
<1>8. IF Compact(f) THEN TextOK(f.name, TRUE, 120) ELSE TextOK(f.name, TRUE, 80)
  BY <1>4, <1>5
<1>9. TextOK(f.origin, TRUE, 120) /\ TextOK(f.destination, TRUE, 120)
  BY <1>4, <1>6
<1>10. EmailOK(f.email) /\ PhoneError(f.phone) = "none" /\ WeightOK(f.weight)
  BY <1>4, <1>7
<1> QED
  BY <1>8, <1>9, <1>10

-----------------------------------------------------------------------------
(* Phone numbers. *)

(* Normalize writes the number a spelling stands for.                      *)
LEMMA NormalizeDialled ==
    ASSUME NEW p \in TypedNumber
    PROVE  /\ Normalize(p) = [Typed(Dialled(p), TRUE) EXCEPT !.ext = p.ext]
           /\ Dialled(p) \in Seq(0..9)
<1>1. p.digits \in Seq(0..9) /\ p.ext \in Seq(0..9) /\ p.plus \in BOOLEAN
  BY DEF TypedNumber
<1>2. <<>> \o p.digits = p.digits
  BY <1>1, ConcatEmptySeq
<1>3. <<1>> \o p.digits \in Seq(0..9)
  <2>1. <<1>> \in Seq(0..9)
    OBVIOUS
  <2> QED
    BY <1>1, <2>1
<1> QED
  BY <1>1, <1>2, <1>3 DEF Normalize, Dialled

(* A digit in front of a number.                                           *)
LEMMA ConsProperties ==
    ASSUME NEW d \in Seq(0..9)
    PROVE  Len(<<1>> \o d) = Len(d) + 1 /\ (<<1>> \o d)[1] = 1 /\ Tail(<<1>> \o d) = d
<1> DEFINE s == <<1>> \o d
<1>1. <<1>> \in Seq(0..9) /\ Len(<<1>>) = 1
  OBVIOUS
<1>2. s \in Seq(0..9) /\ Len(s) = 1 + Len(d) /\ Len(d) \in Nat
  BY <1>1
<1>3. \A i \in 1..Len(d) : s[i + 1] = d[i]
  BY <1>1, <1>2
<1>7. s[1] = 1
  BY <1>1
<1> HIDE DEF s
<1>4. s # <<>>
  BY <1>2
<1>5. Tail(s) \in Seq(0..9) /\ Len(Tail(s)) = Len(d) /\ \A i \in 1..Len(d) : Tail(s)[i] = d[i]
  BY <1>2, <1>3, <1>4, HeadTailProperties
<1>6. Tail(s) = d
  BY <1>5, SeqEqual
<1> QED
  BY <1>2, <1>6, <1>7 DEF s

(* A number without an error dials eight to fifteen digits that stand for  *)
(* a number by themselves, with a plus before them.                        *)
LEMMA DialledGood ==
    ASSUME NEW p \in TypedNumber, PhoneError(p) = "none"
    PROVE  /\ Len(Dialled(p)) \in 8..15
           /\ Len(p.ext) <= 6
           /\ IF Dialled(p)[1] = 1
                THEN Len(Dialled(p)) = 11 /\ validNANP(Tail(Dialled(p)))
                ELSE Dialled(p)[1] # 0
<1> DEFINE d == p.digits
<1>1. d \in Seq(0..9) /\ p.ext \in Seq(0..9) /\ p.plus \in BOOLEAN
  BY DEF TypedNumber
<1>2. Len(d) \in Nat /\ Len(p.ext) \in Nat /\ (Len(d) # 0 => d # <<>>)
  BY <1>1
<1>3. ~(Len(p.ext) > 6)
  BY DEF PhoneError
<1>4. CASE HasCode1(p)
  <2>1. Len(d) = 11 /\ validNANP(Tail(d))
    BY <1>4 DEF PhoneError
  <2>2. Dialled(p) = d /\ d[1] = 1
    BY <1>4, <2>1 DEF Dialled, HasCode1
  <2> QED
    BY <1>2, <1>3, <2>1, <2>2
<1>5. CASE ~HasCode1(p) /\ p.plus
  <2>1. Len(d) \in 8..15 /\ d[1] # 0
    BY <1>5 DEF PhoneError
  <2>2. Dialled(p) = d /\ d[1] # 1
    BY <1>2, <1>5, <2>1 DEF Dialled, HasCode1
  <2> QED
    BY <1>2, <1>3, <2>1, <2>2
<1>6. CASE ~HasCode1(p) /\ ~p.plus
  <2>1. Len(d) = 10 /\ validNANP(d)
    BY <1>2, <1>6 DEF PhoneError
  <2>2. Dialled(p) = <<1>> \o d
    BY <1>6, <2>1 DEF Dialled
  <2> HIDE DEF d
  <2>3. Len(<<1>> \o d) = Len(d) + 1 /\ (<<1>> \o d)[1] = 1 /\ Tail(<<1>> \o d) = d
    BY <1>1, ConsProperties
  <2>4. Len(d) + 1 = 11
    BY <2>1
  <2>5. Len(Dialled(p)) = 11 /\ Dialled(p)[1] = 1 /\ validNANP(Tail(Dialled(p)))
    BY <2>1, <2>2, <2>3, <2>4
  <2> QED
    BY <1>2, <1>3, <2>5
<1> QED
  BY <1>4, <1>5, <1>6

(* The phone of a form without errors is a number any form takes, and      *)
(* sending it again changes nothing.                                       *)
THEOREM NormalizeIdempotent ==
    ASSUME NEW p \in TypedNumber, PhoneError(p) = "none"
    PROVE  /\ InputPattern(Normalize(p))
           /\ PhoneError(Normalize(p)) = "none"
           /\ Normalize(Normalize(p)) = Normalize(p)
<1> DEFINE d == Dialled(p)
           s == Normalize(p)
<1>1. d \in Seq(0..9) /\ p.ext \in Seq(0..9) /\ Len(d) \in Nat /\ Len(p.ext) \in Nat
  <2>1. d \in Seq(0..9) /\ p.ext \in Seq(0..9)
    BY NormalizeDialled DEF TypedNumber
  <2> HIDE DEF d
  <2> QED
    BY <2>1
<1>2. s = [digits |-> d, plus |-> TRUE, separators |-> 0, lead |-> FALSE,
           other |-> FALSE, ext |-> p.ext]
  BY NormalizeDialled DEF Typed
<1>3. /\ Len(d) \in 8..15 /\ Len(p.ext) <= 6
      /\ IF d[1] = 1 THEN Len(d) = 11 /\ validNANP(Tail(d)) ELSE d[1] # 0
  BY DialledGood
<1> HIDE DEF d, s
<1>4. /\ s.digits = d /\ s.plus = TRUE /\ s.separators = 0 /\ s.lead = FALSE
      /\ s.other = FALSE /\ s.ext = p.ext
  BY <1>2
<1>5. d # <<>>
  BY <1>1, <1>3
<1>6. InputPattern(s)
  BY <1>1, <1>3, <1>4 DEF InputPattern
<1>7. HasCode1(s) <=> d[1] = 1
  BY <1>4, <1>5 DEF HasCode1
<1>8. PhoneError(s) = "none"
  <2>1. ~(Len(s.ext) > 6) /\ s.digits # <<>>
    BY <1>1, <1>3, <1>4, <1>5
  <2>2. CASE d[1] = 1
    BY <1>3, <1>4, <1>7, <2>1, <2>2 DEF PhoneError
  <2>3. CASE d[1] # 1
    BY <1>3, <1>4, <1>7, <2>1, <2>3 DEF PhoneError
  <2> QED
    BY <2>2, <2>3
<1>9. Normalize(s) = s
  <2>1. <<>> \o d = d
    BY <1>1, ConcatEmptySeq
  <2>2. Normalize(s) = [Typed(d, TRUE) EXCEPT !.ext = p.ext]
    BY <1>4, <2>1 DEF Normalize
  <2> QED
    BY <1>2, <2>2 DEF Typed
<1> QED
  BY <1>6, <1>8, <1>9 DEF s

(* One number has one spelling on record.                                  *)
LEMMA NormalizeCanonical ==
    ASSUME NEW p \in TypedNumber, NEW s \in TypedNumber, SameNumber(p, s)
    PROVE  Normalize(p) = Normalize(s)
  BY NormalizeDialled DEF SameNumber

-----------------------------------------------------------------------------
(* The record of a form. *)

(* A text that is not empty has a first word, of one part at least.        *)
LEMMA FirstWordCuts ==
    ASSUME NEW t \in FormText, t.parts # <<>>
    PROVE  FirstWord(t) \in 1..Len(t.parts)
<1> DEFINE ps == t.parts
           Ends == {n \in 1..Len(ps) : n \notin t.control}
           first(n) == /\ n \notin t.control /\ (n = 0 => ps = <<>>)
                       /\ \A i \in 1..(n - 1) : i \in t.control
<1>1. ps \in Seq(Nat) /\ t.control \subseteq 1..(Len(ps) - 1)
  BY DEF FormText, Parts
<1>2. Len(ps) \in Nat /\ Len(ps) # 0
  <2> HIDE DEF ps
  <2>1. ps # <<>>
    BY DEF ps
  <2> QED
    BY <1>1, <2>1, LenProperties, EmptySeq
<1>3. FirstWord(t) = CHOOSE n \in 0..Len(ps) : first(n)
  BY DEF FirstWord
<1>4. t.parts # <<>> /\ Len(ps) \notin t.control
  BY <1>1, <1>2
<1> HIDE DEF ps
<1>5. Ends \subseteq Nat /\ Len(ps) \in Ends
  BY <1>2, <1>4
<1>6. PICK m \in Ends : \A n \in Ends : m <= n
  <2> HIDE DEF Ends
  <2> QED
    BY <1>5, LeastNatural
<1>7. \A i \in 1..(m - 1) : i \in t.control
  BY <1>2, <1>6
<1>8. m \in 0..Len(ps) /\ first(m)
  BY <1>2, <1>6, <1>7
<1>9. FirstWord(t) \in 0..Len(ps) /\ first(FirstWord(t))
  <2> HIDE DEF first
  <2> QED
    BY <1>3, <1>8
<1>10. FirstWord(t) # 0
  BY <1>4, <1>9 DEF ps
<1> QED
  BY <1>2, <1>9, <1>10 DEF ps

(* Cut at its first word, a text is that word and the rest, and the word   *)
(* is not empty.                                                           *)
LEMMA CutAtFirst ==
    ASSUME NEW ps \in Seq(Nat), NEW k \in 1..Len(ps)
    PROVE  /\ SubSeq(ps, 1, k) \in Seq(Nat) /\ SubSeq(ps, k + 1, Len(ps)) \in Seq(Nat)
           /\ SubSeq(ps, 1, k) # <<>>
           /\ SubSeq(ps, 1, k) \o SubSeq(ps, k + 1, Len(ps)) = ps
<1>0. Len(ps) \in Nat /\ k \in Nat /\ 1 <= k /\ k <= Len(ps)
  OBVIOUS
<1>1. \A i \in 1..Len(ps) : ps[i] \in Nat
  OBVIOUS
<1>2. SubSeq(ps, 1, k) \in Seq(Nat) /\ Len(SubSeq(ps, 1, k)) = k
  <2>1. \A i \in 1..k : ps[i] \in Nat
    BY <1>0, <1>1
  <2> QED
    BY <1>0, <2>1, SubSeqProperties
<1>3. SubSeq(ps, k + 1, Len(ps)) \in Seq(Nat)
  <2>1. \A i \in (k + 1)..Len(ps) : ps[i] \in Nat
    BY <1>0, <1>1
  <2> QED
    BY <1>0, <2>1, SubSeqProperties
<1>4. SubSeq(ps, 1, k) \o SubSeq(ps, k + 1, Len(ps)) = ps
  <2>1. 1 \in 1..(Len(ps) + 1) /\ k \in (1 - 1)..Len(ps) /\ Len(ps) \in k..Len(ps)
    BY <1>0
  <2>2. SubSeq(ps, 1, k) \o SubSeq(ps, k + 1, Len(ps)) = SubSeq(ps, 1, Len(ps))
    BY <2>1, ConcatAdjacentSubSeq
  <2> QED
    BY <2>2, SubSeqFull
<1>5. SubSeq(ps, 1, k) # <<>>
  <2> DEFINE w == SubSeq(ps, 1, k)
  <2>1. Len(w) # 0
    BY <1>0, <1>2
  <2> HIDE DEF w
  <2>2. w # <<>>
    BY <2>1
  <2> QED
    BY <2>2 DEF w
<1> QED
  BY <1>2, <1>3, <1>4, <1>5

(* The two names of a form with a name are texts, the first is not empty,  *)
(* and the compact form's two names are all of the one typed.              *)
LEMMA NamesOfForm ==
    ASSUME NEW f \in Form, f.name.parts # <<>>
    PROVE  /\ Names(f)[1].parts \in Seq(Nat) /\ Names(f)[2].parts \in Seq(Nat)
           /\ Names(f)[1].parts # <<>>
           /\ Compact(f) => Names(f)[1].parts \o Names(f)[2].parts = f.name.parts
<1> DEFINE ps == f.name.parts
           k == FirstWord(f.name)
<1>1. f.name \in FormText /\ f.last \in FormText
  BY DEF Form
<1>2. /\ ps \in Seq(Nat) /\ f.last.parts \in Seq(Nat)
      /\ f.name \in [parts : Parts, control : SUBSET Nat, sound : BOOLEAN]
  BY <1>1 DEF FormText, Parts
<1>3. k \in 1..Len(ps)
  BY <1>1, FirstWordCuts
<1>4. CASE ~Compact(f)
  BY <1>2, <1>4 DEF Names
<1>5. CASE Compact(f)
  <2>1. \A i, j : Piece(f.name, i, j).parts = SubSeq(ps, i, j)
    BY <1>2 DEF Piece
  <2>2. Names(f)[1] = Piece(f.name, 1, k) /\ Names(f)[2] = Piece(f.name, k + 1, Len(ps))
    BY <1>5 DEF Names
  <2>3. Names(f)[1].parts = SubSeq(ps, 1, k) /\ Names(f)[2].parts = SubSeq(ps, k + 1, Len(ps))
    BY <2>1, <2>2
  <2>4. /\ SubSeq(ps, 1, k) \in Seq(Nat) /\ SubSeq(ps, k + 1, Len(ps)) \in Seq(Nat)
        /\ SubSeq(ps, 1, k) # <<>>
        /\ SubSeq(ps, 1, k) \o SubSeq(ps, k + 1, Len(ps)) = ps
    BY <1>2, <1>3, CutAtFirst
  <2> QED
    BY <2>3, <2>4
<1> QED
  BY <1>4, <1>5

-----------------------------------------------------------------------------
(* The table's runs are runs of the handler. *)

(* What never changes: each request carries a form, and its submission     *)
(* says whether the form validates.                                        *)
FormsInv ==
    /\ form \in [Requests -> Form]
    /\ \A r \in Requests : sub[r].valid <=> Errors(form[r]) = {}

(* Every run of the table, with the data of the forms, is a run of the      *)
(* handler: the table fixes what the handler leaves open and adds no step.  *)
THEOREM TableRefines == TableSpec => Spec
<1>1. TableInit => Init
  BY DEF TableInit
<1>2. [TableNext]_<<data, vars>> => [Next]_vars
  BY DEF TableNext
<1> QED
  BY <1>1, <1>2, PTL DEF TableSpec, Spec

(* A request comes with a form, and is valid when that has no errors.       *)
LEMMA FormsInit == TableInit => FormsInv
<1> SUFFICES ASSUME TableInit PROVE FormsInv
  OBVIOUS
<1>1. PICK in \in [Requests -> Inputs] :
           /\ form = [r \in Requests |-> in[r].form]
           /\ sub = [r \in Requests |-> [in[r].sub EXCEPT !.valid = Errors(in[r].form) = {}]]
  BY DEF TableInit
<1>2. sub \in [Requests -> Submission]
  BY HandlerAssumption DEF HandlerAssumption, TableInit, Init
<1>3. form \in [Requests -> Form]
  BY <1>1, TableAssumption DEF TableAssumption
<1>4. ASSUME NEW r \in Requests PROVE sub[r].valid <=> Errors(form[r]) = {}
  <2>1. "valid" \in DOMAIN sub[r]
    BY <1>2 DEF Submission
  <2>2. sub[r] = [in[r].sub EXCEPT !.valid = Errors(in[r].form) = {}] /\ form[r] = in[r].form
    BY <1>1
  <2>3. "valid" \in DOMAIN in[r].sub
    BY <2>1, <2>2
  <2>4. sub[r].valid = (Errors(form[r]) = {})
    BY <2>2, <2>3
  <2> QED
    BY <2>4
<1> QED
  BY <1>3, <1>4 DEF FormsInv

(* No step changes a form or what is known of it.                           *)
LEMMA FormsStep == TypeOK /\ FormsInv /\ [TableNext]_<<data, vars>> => FormsInv'
<1> SUFFICES ASSUME TypeOK, FormsInv, [TableNext]_<<data, vars>> PROVE FormsInv'
  OBVIOUS
<1>1. form' = form
  BY DEF TableNext, data
<1>2. sub' = sub
  BY RowsAreNew DEF TableNext
<1> QED
  BY <1>1, <1>2 DEF FormsInv

(* The handler's invariant and the forms' hold of every state.             *)
THEOREM TableInvariance == TableSpec => [](IInv /\ FormsInv)
<1>1. TableSpec => []IInv
  BY TableRefines, Invariance, PTL
<1>2. TypeOK /\ FormsInv /\ [TableNext]_<<data, vars>> => FormsInv'
  BY FormsStep
<1>3. IInv => TypeOK
  BY DEF IInv
<1> QED
  BY <1>1, <1>2, <1>3, FormsInit, PTL DEF TableSpec

(* The form of a lead, on record or announced, has no errors.              *)
LEMMA LeadForm ==
    ASSUME IInv, FormsInv
    PROVE  /\ \A q \in quotes : form[q.owner] \in Form /\ Errors(form[q.owner]) = {}
           /\ \A m \in inbox : form[m.owner] \in Form /\ Errors(form[m.owner]) = {}
<1>1. \A q \in quotes : q.owner \in Requests /\ Clean(sub[q.owner])
  BY DEF IInv, RowInv, OnlyCleanFormsStored, TypeOK, Row
<1>2. \A q \in quotes : form[q.owner] \in Form /\ Errors(form[q.owner]) = {}
  BY <1>1 DEF FormsInv, Clean
<1>3. \A m \in inbox : \E q \in quotes : q.owner = m.owner
  BY DEF IInv, AnnouncedOnlyIfSaved
<1> QED
  BY <1>2, <1>3

-----------------------------------------------------------------------------
(* A stored lead. *)

(* A lead on record can be answered, whatever form it came from.           *)
THEOREM LeadsComplete == TableSpec => []StoredLeadsComplete
<1>1. IInv /\ FormsInv => StoredLeadsComplete
  <2> SUFFICES ASSUME IInv, FormsInv, NEW q \in quotes
               PROVE  LET lead == Columns(q.owner) IN
                        /\ \A c \in {"first_name", "origin", "destination"} : lead[c].parts # <<>>
                        /\ Compact(form[q.owner]) =>
                             lead.first_name.parts \o lead.last_name.parts = form[q.owner].name.parts
                        /\ lead.email.kind = "bare" /\ lead.email.dotted
                        /\ lead.phone.plus /\ lead.phone.separators = 0
                        /\ Len(lead.phone.digits) \in 8..15
    BY DEF StoredLeadsComplete
  <2> DEFINE f == form[q.owner]
             lead == QuoteRecord(f)
  <2>1. f \in Form /\ Errors(f) = {}
    BY LeadForm
  <2> HIDE DEF f
  <2>2. /\ f.name.parts # <<>> /\ f.origin.parts # <<>> /\ f.destination.parts # <<>>
        /\ EmailOK(f.email) /\ PhoneError(f.phone) = "none"
    BY <2>1, NoErrors DEF TextOK
  <2>3. /\ lead.first_name = Names(f)[1] /\ lead.last_name = Names(f)[2]
        /\ lead.origin = f.origin /\ lead.destination = f.destination
        /\ lead.email = f.email /\ lead.phone = Normalize(f.phone)
    BY DEF QuoteRecord
  <2>4. f.phone \in TypedNumber
    BY <2>1 DEF Form
  <2>5. lead.phone.plus /\ lead.phone.separators = 0 /\ Len(lead.phone.digits) \in 8..15
    <3>1. lead.phone = [Typed(Dialled(f.phone), TRUE) EXCEPT !.ext = f.phone.ext]
      BY <2>3, <2>4, NormalizeDialled
    <3>2. Len(Dialled(f.phone)) \in 8..15
      BY <2>2, <2>4, DialledGood
    <3> HIDE DEF lead
    <3> QED
      BY <3>1, <3>2 DEF Typed
  <2>6. \A c \in {"first_name", "origin", "destination"} : lead[c].parts # <<>>
    BY <2>1, <2>2, <2>3, NamesOfForm
  <2>7. Compact(f) => lead.first_name.parts \o lead.last_name.parts = f.name.parts
    BY <2>1, <2>2, <2>3, NamesOfForm
  <2>8. lead.email.kind = "bare" /\ lead.email.dotted
    BY <2>2, <2>3 DEF EmailOK
  <2> HIDE DEF lead
  <2> QED
    BY <2>5, <2>6, <2>7, <2>8 DEF Columns, lead, f
<1> QED
  BY <1>1, TableInvariance, PTL

(* One number is one phone on record, and comes out unchanged when it is   *)
(* sent again.                                                             *)
THEOREM OnePhonePerNumber == TableSpec => []PhonesCanonical
<1>1. IInv /\ FormsInv => PhonesCanonical
  <2> SUFFICES ASSUME IInv, FormsInv, NEW q \in quotes
               PROVE  LET phone == Columns(q.owner).phone IN
                        /\ InputPattern(phone) /\ PhoneError(phone) = "none"
                        /\ Normalize(phone) = phone
                        /\ \A p \in Spellings :
                             (PhoneError(p) = "none" /\ SameNumber(p, form[q.owner].phone))
                               => Normalize(p) = phone
    BY DEF PhonesCanonical
  <2> DEFINE s == form[q.owner].phone
  <2>1. form[q.owner] \in Form /\ Errors(form[q.owner]) = {}
    BY LeadForm
  <2>2. s \in TypedNumber /\ PhoneError(s) = "none"
    BY <2>1, NoErrors DEF Form
  <2>3. Columns(q.owner).phone = Normalize(s)
    BY DEF Columns, QuoteRecord
  <2>4. \A p \in Spellings : p \in TypedNumber
    BY TableAssumption DEF TableAssumption, Spellings, Form
  <2> HIDE DEF s
  <2>5. \A p \in Spellings : SameNumber(p, s) => Normalize(p) = Normalize(s)
    BY <2>2, <2>4, NormalizeCanonical
  <2>6. InputPattern(Normalize(s)) /\ PhoneError(Normalize(s)) = "none"
        /\ Normalize(Normalize(s)) = Normalize(s)
    BY <2>2, NormalizeIdempotent
  <2> QED
    BY <2>3, <2>5, <2>6 DEF s
<1> QED
  BY <1>1, TableInvariance, PTL

-----------------------------------------------------------------------------
(* What a step may do to a run's response and to its outcome. *)

(* The run's response is what it was, or is not "unavailable" and names no *)
(* lead but its own, or is that of an insert that failed for good.         *)
Replies(r) ==
    \/ reply'[r] = reply[r]
    \/ /\ reply'[r].status # 503
       /\ reply'[r].ref # NoRef => pc[r] = "respond" /\ reply'[r].ref = ref[r]
    \/ /\ pc[r] = "save" /\ reply'[r].ref = NoRef
       /\ \/ InsertCollides(r) /\ ~Retries("duplicate", tries[r] + 1)
          \/ InsertFails(r)
          \/ InsertTimesOut(r)

(* Only a run that inserts counts a try, nothing leaves the tables, and a  *)
(* run gets to its answer past the record of its outcome.                  *)
Keeps(r) ==
    /\ tries'[r] # tries[r] => pc[r] = "save" /\ reply'[r] = reply[r]
    /\ quotes \subseteq quotes' /\ events \subseteq events'
    /\ pc'[r] = "respond" => \/ pc[r] = "respond" /\ ref'[r] = ref[r]
                             \/ RecordEvent(r) /\ ref'[r] = ref[r]
                             \/ RecordFails(r) /\ ref'[r] = ref[r]

(* A run that answers and does nothing else.                               *)
LEMMA AnswerKeeps ==
    ASSUME TypeOK, NEW x \in Requests, NEW status, NEW n, Answer(x, status, n), status # 503,
           n # NoRef => pc[x] = "respond" /\ n = ref[x],
           UNCHANGED <<tries, ref, quotes, events>>
    PROVE  \A r \in Requests : Replies(r) /\ Keeps(r)
<1> SUFFICES ASSUME NEW r \in Requests PROVE Replies(r) /\ Keeps(r)
  OBVIOUS
<1>1. /\ pc'[x] = "done"
      /\ \/ reply'[x] = [status |-> status, ref |-> n]
         \/ reply'[x] = [status |-> 500, ref |-> NoRef]
      /\ \A y \in Requests : y # x => pc'[y] = pc[y] /\ reply'[y] = reply[y]
  BY AnswerEffect
<1>2. Keeps(r)
  BY <1>1 DEF Keeps
<1>3. reply'[x].status # 503 /\ reply'[x].ref \in {n, NoRef}
  BY <1>1
<1>4. Replies(r)
  BY <1>1, <1>3 DEF Replies
<1> QED
  BY <1>2, <1>4

(* A run that moves on without an answer.                                  *)
LEMMA MoveKeeps ==
    ASSUME TypeOK, NEW x \in Requests, NEW l, Goto(x, l),
           l = "respond" => RecordEvent(x) \/ RecordFails(x),
           quotes \subseteq quotes', events \subseteq events',
           \A r \in Requests : pc[r] = "respond" \/ (r = x /\ l = "respond") => ref'[r] = ref[r],
           UNCHANGED <<tries, reply>>
    PROVE  \A r \in Requests : Replies(r) /\ Keeps(r)
<1> SUFFICES ASSUME NEW r \in Requests PROVE Replies(r) /\ Keeps(r)
  OBVIOUS
<1>1. pc'[x] = l /\ (r # x => pc'[r] = pc[r])
  BY DEF TypeOK, Goto
<1>2. tries'[r] = tries[r] /\ reply'[r] = reply[r]
  OBVIOUS
<1>3. Replies(r)
  BY <1>2 DEF Replies
<1>4. CASE r = x
  <2>1. l = "respond" => (RecordEvent(r) \/ RecordFails(r)) /\ ref'[r] = ref[r]
    BY <1>4
  <2> QED
    BY <1>1, <1>2, <1>3, <1>4, <2>1 DEF Keeps
<1>5. CASE r # x
  BY <1>1, <1>2, <1>3, <1>5 DEF Keeps
<1> QED
  BY <1>4, <1>5

(* A failed insert.                                                        *)
LEMMA RetryKeeps ==
    ASSUME TypeOK, NEW x \in Requests, NEW err, pc[x] = "save", RetryOrGiveUp(x, err),
           \/ err = "duplicate" /\ InsertCollides(x)
           \/ err = "other" /\ (InsertFails(x) \/ InsertTimesOut(x)),
           UNCHANGED <<ref, quotes, events>>
    PROVE  \A r \in Requests : Replies(r) /\ Keeps(r)
<1> SUFFICES ASSUME NEW r \in Requests PROVE Replies(r) /\ Keeps(r)
  OBVIOUS
<1>1. CASE Retries(err, tries[x] + 1)
  <2>1. /\ tries' = [tries EXCEPT ![x] = @ + 1] /\ UNCHANGED <<pc, reply>>
    BY <1>1 DEF RetryOrGiveUp
  <2> QED
    BY <2>1 DEF Replies, Keeps, TypeOK
<1>2. CASE ~Retries(err, tries[x] + 1)
  <2>1. Answer(x, 503, NoRef) /\ UNCHANGED tries
    BY <1>2 DEF RetryOrGiveUp
  <2>2. /\ pc'[x] = "done"
        /\ \/ reply'[x] = [status |-> 503, ref |-> NoRef]
           \/ reply'[x] = [status |-> 500, ref |-> NoRef]
        /\ \A y \in Requests : y # x => pc'[y] = pc[y] /\ reply'[y] = reply[y]
    BY <2>1, AnswerEffect
  <2>3. Keeps(r)
    BY <2>1, <2>2 DEF Keeps
  <2>4. reply'[x].ref = NoRef
    BY <2>2
  <2>5. Replies(r)
    BY <1>2, <2>2, <2>4 DEF Replies
  <2> QED
    BY <2>3, <2>5
<1> QED
  BY <1>1, <1>2

(* Every step keeps the rows, the events and the answers as they must be,   *)
(* whichever run takes it.                                                  *)
LEMMA StepKeeps ==
    ASSUME IInv, [Next]_vars
    PROVE  \A r \in Requests : Replies(r) /\ Keeps(r)
<1> DEFINE P == \A r \in Requests : Replies(r) /\ Keeps(r)
<1>t. TypeOK
  BY DEF IInv
<1>1. ASSUME NEW x \in Requests, Refuse(x) PROVE P
  <2>1. sub[x] \in Submission
    BY <1>t, HandlerAssumption DEF HandlerAssumption, TypeOK
  <2>2. Screening(sub[x]) # 503
    BY <2>1, ScreeningStatus DEF Proceed
  <2> QED
    BY <1>t, <1>1, <2>2, AnswerKeeps DEF Refuse, store
<1>2. ASSUME NEW x \in Requests, Admit(x) PROVE P
  BY <1>t, <1>2, MoveKeeps DEF Admit, run, store
<1>3. ASSUME NEW x \in Requests, RefuseOverLimit(x) PROVE P
  BY <1>t, <1>3, AnswerKeeps DEF RefuseOverLimit, store
<1>4. ASSUME NEW x \in Requests, PassLimit(x) \/ FailOpen(x) PROVE P
  BY <1>t, <1>4, MoveKeeps DEF PassLimit, FailOpen, run, store
<1>5. ASSUME NEW x \in Requests, InsertCommits(x) PROVE P
  <2>1. \A r \in Requests : pc[r] = "respond" => ref'[r] = ref[r]
    BY <1>t, <1>5 DEF InsertCommits, TypeOK
  <2> QED
    BY <1>t, <1>5, <2>1, MoveKeeps DEF InsertCommits
<1>6. ASSUME NEW x \in Requests, InsertCollides(x) PROVE P
  BY <1>t, <1>6, RetryKeeps DEF InsertCollides, store
<1>7. ASSUME NEW x \in Requests, InsertFails(x) PROVE P
  BY <1>t, <1>7, RetryKeeps DEF InsertFails, store
<1>8. ASSUME NEW x \in Requests, InsertTimesOut(x) PROVE P
  BY <1>t, <1>8, RetryKeeps DEF InsertTimesOut
<1>9. ASSUME NEW x \in Requests, Notify(x) PROVE P
  BY <1>t, <1>9, MoveKeeps DEF Notify, SendSucceeds, SendFails, store
<1>10. ASSUME NEW x \in Requests, RecordEvent(x) PROVE P
  <2>1. Goto(x, "respond") /\ events \subseteq events' /\ UNCHANGED <<run, quotes>>
    BY <1>10 DEF RecordEvent
  <2> QED
    BY <1>t, <1>10, <2>1, MoveKeeps DEF run
<1>11. ASSUME NEW x \in Requests, RecordFails(x) PROVE P
  <2>1. Goto(x, "respond") /\ UNCHANGED <<run, quotes, events>>
    BY <1>11 DEF RecordFails, store
  <2> QED
    BY <1>t, <1>11, <2>1, MoveKeeps DEF run
<1>12. ASSUME NEW x \in Requests, Respond(x) PROVE P
  BY <1>t, <1>12, AnswerKeeps DEF Respond, store
<1>13. ASSUME NEW x \in Requests, Kill(x) PROVE P
  <2>1. Goto(x, "killed") /\ events \subseteq events' /\ UNCHANGED <<run, quotes>>
    BY <1>13 DEF Kill
  <2> QED
    BY <1>t, <2>1, MoveKeeps DEF run
<1>14. ASSUME UNCHANGED <<pc, run>>, quotes \subseteq quotes', events \subseteq events' PROVE P
  BY <1>14 DEF Replies, Keeps, run
<1>15. ASSUME \E x \in Requests : Leave(x) \/ LateDelivery(x) PROVE P
  BY <1>14, <1>15 DEF Leave, LateDelivery, store
<1>16. ASSUME \E q \in late : LateCommit(q) \/ LateDrop(q) PROVE P
  BY <1>14, <1>16 DEF LateCommit, LateDrop
<1>17. ASSUME Tick \/ UNCHANGED vars PROVE P
  BY <1>14, <1>17 DEF Tick, vars, store
<1> HIDE DEF P
<1>18. P
  BY <1>1, <1>2, <1>3, <1>4, <1>5, <1>6, <1>7, <1>8, <1>9, <1>10, <1>11, <1>12, <1>13,
     <1>15, <1>16, <1>17 DEF Next, Proceeds, Save, Record
<1> QED
  BY <1>18 DEF P

-----------------------------------------------------------------------------
(* A form that validates is stored. *)

BadData(r) ==
    \/ \E c \in TextColumns : ~Columns(r)[c].sound
    \/ agent[r].bytes <= 512 /\ ~agent[r].sound
    \/ form[r].weight.kind = "number" /\ form[r].weight.milli \in 1..4

RefsTaken(r) == tries[r] + 1 = Attempts /\ \E q \in quotes : q.owner # r

(* What keeps the row of a form without errors out of the table.           *)
LEMMA UnfitRow ==
    ASSUME NEW r \in Requests, form[r] \in Form, Errors(form[r]) = {}, ~RowFits(r)
    PROVE  BadData(r)
<1> DEFINE w == form[r].weight
<1>1. Columns(r).weight_kg = w
  BY DEF Columns, QuoteRecord
<1>2. WeightOK(w) /\ w.milli \in Int
  BY NoErrors DEF Form
<1>3. CASE ~truncateBytes(agent[r]).sound
  BY <1>3 DEF truncateBytes, BadData
<1>4. CASE \E c \in TextColumns : ~Columns(r)[c].sound
  BY <1>4 DEF BadData
<1>5. CASE w.kind = "number" /\ ~(Hundredths(w) > 0)
  <2> HIDE DEF w
  <2>1. w.milli \in Nat /\ w.milli > 0
    BY <1>2, <1>5 DEF WeightOK
  <2>2. \A n \in Nat : n >= 10 => n \div 10 > 0
    OBVIOUS
  <2>3. w.milli + 5 \in Nat /\ ~(w.milli + 5 >= 10)
    BY <1>5, <2>1, <2>2 DEF Hundredths
  <2>4. w.milli \in 1..4
    BY <2>1, <2>3
  <2> QED
    BY <1>5, <2>4 DEF BadData, w
<1> QED
  BY <1>1, <1>3, <1>4, <1>5 DEF RowFits, Storable

(* An insert that failed for good met bad data, or the last reference      *)
(* drawn was another lead's.                                               *)
LEMMA GaveUp ==
    ASSUME IInv, FormsInv, TableNext, NEW r \in Requests, pc[r] = "save",
           \/ InsertCollides(r) /\ ~Retries("duplicate", tries[r] + 1)
           \/ InsertFails(r)
           \/ InsertTimesOut(r)
    PROVE  BadData(r) \/ RefsTaken(r)
<1>1. Clean(sub[r]) /\ NoTrace(r) /\ TypeOK /\ sub[r] \in Submission
  BY ScreeningIsClean, HandlerAssumption DEF HandlerAssumption, IInv, TypeOK, PhaseInv, Phase
<1>2. form[r] \in Form /\ Errors(form[r]) = {}
  BY <1>1 DEF FormsInv, Clean
<1>3. ~InsertTimesOut(r)
  BY TableAssumption DEF TableAssumption, InsertTimesOut
<1>4. CASE InsertFails(r) /\ ~InsertCollides(r)
  <2>1. ~RowFits(r)
    BY <1>4 DEF TableNext
  <2> QED
    BY <1>2, <2>1, UnfitRow
<1>5. CASE InsertCollides(r)
  <2>1. \E q \in quotes : q.owner # r
    BY <1>1, <1>5 DEF InsertCollides, MayInsert, Taken, NoTrace
  <2>2. tries[r] \in 0..(Attempts - 1) /\ Attempts \in Nat
    BY <1>1, HandlerAssumption DEF HandlerAssumption, TypeOK
  <2>3. ~Retries("duplicate", tries[r] + 1)
    <3>1. CASE ~InsertFails(r)
      BY <1>3, <3>1
    <3>2. CASE InsertFails(r)
      <4>1. Answer(r, 503, NoRef) /\ UNCHANGED tries
        BY <3>2 DEF InsertFails, RetryOrGiveUp, Retries
      <4>2. pc'[r] = "done"
        BY <1>1, <4>1 DEF Answer, Goto, TypeOK
      <4> QED
        BY <1>5, <4>1, <4>2 DEF InsertCollides, RetryOrGiveUp
    <3> QED
      BY <3>1, <3>2
  <2>4. tries[r] + 1 = Attempts
    BY <2>2, <2>3 DEF Retries
  <2> QED
    BY <2>1, <2>4 DEF RefsTaken
<1> QED
  BY <1>3, <1>4, <1>5

(* A form that validates is stored while the database is up, unless its    *)
(* data is of two kinds no rule keeps out or the references run out.       *)
THEOREM StoredUnlessBadData == TableSpec => []UnavailableOnlyForBadData
<1> DEFINE Inv == \A r \in Requests : reply[r].status = 503 => BadData(r) \/ RefsTaken(r)
<1>1. Inv => UnavailableOnlyForBadData
  BY DEF UnavailableOnlyForBadData, BadData, RefsTaken
<1>2. TableInit => Inv
  BY DEF TableInit, Init, NoReply
<1>3. IInv /\ FormsInv /\ Inv /\ [TableNext]_<<data, vars>> => Inv'
  <2> SUFFICES ASSUME IInv, FormsInv, Inv, [TableNext]_<<data, vars>>,
                      NEW r \in Requests, reply'[r].status = 503
               PROVE  BadData(r)' \/ RefsTaken(r)'
    OBVIOUS
  <2>1. [Next]_vars /\ (TableNext \/ UNCHANGED vars) /\ UNCHANGED <<form, agent>>
    BY DEF TableNext, data
  <2>2. Replies(r) /\ Keeps(r)
    BY <2>1, StepKeeps
  <2>3. BadData(r)' <=> BadData(r)
    BY <2>1 DEF BadData, Columns
  <2>4. tries'[r] = tries[r] /\ RefsTaken(r) => RefsTaken(r)'
    BY <2>2 DEF Keeps, RefsTaken
  <2>5. CASE reply'[r] = reply[r]
    <3>1. BadData(r) \/ RefsTaken(r)
      BY <2>5
    <3>2. pc[r] = "done"
      BY <2>5 DEF IInv, PhaseInv, Phase, NoReply
    <3>3. tries'[r] = tries[r]
      BY <2>2, <3>2 DEF Keeps
    <3> QED
      BY <2>3, <2>4, <3>1, <3>3
  <2>6. CASE reply'[r] # reply[r]
    <3>1. /\ pc[r] = "save"
          /\ \/ InsertCollides(r) /\ ~Retries("duplicate", tries[r] + 1)
             \/ InsertFails(r)
             \/ InsertTimesOut(r)
      BY <2>2, <2>6 DEF Replies
    <3>2. TableNext
      BY <2>1, <2>6 DEF vars, run
    <3>3. BadData(r) \/ RefsTaken(r)
      BY <3>1, <3>2, GaveUp
    <3>4. tries'[r] = tries[r]
      BY <2>2, <2>6 DEF Keeps
    <3> QED
      BY <2>3, <2>4, <3>3, <3>4
  <2> QED
    BY <2>5, <2>6
<1> QED
  BY <1>1, <1>2, <1>3, TableInvariance, PTL DEF TableSpec

(* With the database up every answered lead has its outcome on record,     *)
(* unless the message of its failed send was cut through a rune.           *)
THEOREM AnswersLogged == TableSpec => []OutcomesLogged
<1> DEFINE Torn(r) == report[r].bytes > 2000 /\ report[r].runeAcross2000
           Logged(n) == \E e \in events : e.ref = n
           Inv == \A r \in Requests :
                    /\ pc[r] = "respond" => Logged(ref[r]) \/ Torn(r)
                    /\ reply[r].ref # NoRef => Logged(reply[r].ref) \/ Torn(r)
<1>1. Inv => OutcomesLogged
  BY DEF OutcomesLogged
<1>2. TableInit => Inv
  BY DEF TableInit, Init, NoReply
<1>3. IInv /\ Inv /\ [TableNext]_<<data, vars>> => Inv'
  <2> SUFFICES ASSUME IInv, Inv, [TableNext]_<<data, vars>>, NEW r \in Requests
               PROVE  /\ pc'[r] = "respond" => Logged(ref[r])' \/ Torn(r)'
                      /\ reply'[r].ref # NoRef => Logged(reply[r].ref)' \/ Torn(r)'
    OBVIOUS
  <2>1. [Next]_vars /\ (TableNext \/ UNCHANGED vars) /\ report' = report
    BY DEF TableNext, data
  <2>2. Replies(r) /\ Keeps(r)
    BY <2>1, StepKeeps
  <2>3. Torn(r)' <=> Torn(r)
    BY <2>1
  <2>4. \A n : Logged(n) => Logged(n)'
    BY <2>2 DEF Keeps
  <2>5. /\ pc[r] = "respond" => Logged(ref[r]) \/ Torn(r)
        /\ reply[r].ref # NoRef => Logged(reply[r].ref) \/ Torn(r)
    OBVIOUS
  <2>6. ASSUME RecordEvent(r), ref'[r] = ref[r] PROVE (\E e \in events' : e.ref = ref'[r])
    <3>1. [ref |-> ref[r], type |-> result[r]] \in events'
      BY <2>6 DEF RecordEvent
    <3> QED
      BY <2>6, <3>1
  <2>7. ASSUME RecordFails(r) PROVE Torn(r)
    <3>1. TableNext
      <4>1. pc[r] = "record" /\ pc'[r] = "respond"
        BY <2>7 DEF RecordFails, Goto, IInv, TypeOK
      <4> QED
        BY <2>1, <4>1 DEF vars
    <3>2. ~EventFits(r)
      BY <2>7, <3>1 DEF TableNext
    <3> QED
      BY <3>2 DEF EventFits, truncate
  <2> HIDE DEF Torn, Inv
  <2>8. pc'[r] = "respond" => (\E e \in events' : e.ref = ref'[r]) \/ Torn(r)
    BY <2>2, <2>4, <2>5, <2>6, <2>7 DEF Keeps
  <2>9. reply'[r].ref # NoRef => (\E e \in events' : e.ref = reply'[r].ref) \/ Torn(r)
    BY <2>2, <2>4, <2>5 DEF Replies
  <2> QED
    BY <2>3, <2>8, <2>9
<1> QED
  BY <1>1, <1>2, <1>3, TableInvariance, PTL DEF TableSpec

-----------------------------------------------------------------------------
(* A mail names its lead. *)

(* Two texts put one behind the other are a text that begins with the first.*)
LEMMA PartsConcat ==
    ASSUME NEW ws \in Seq(Nat), NEW vs \in Seq(Nat)
    PROVE  /\ ws \o vs \in Seq(Nat) /\ Len(ws \o vs) \in Nat
           /\ Len(ws) <= Len(ws \o vs)
           /\ \A i \in 1..Len(ws) : (ws \o vs)[i] = ws[i]
<1>1. Len(ws) \in Nat /\ Len(vs) \in Nat
  OBVIOUS
<1>2. /\ ws \o vs \in Seq(Nat) /\ Len(ws \o vs) = Len(ws) + Len(vs)
      /\ \A i \in 1..(Len(ws) + Len(vs)) :
           (ws \o vs)[i] = IF i <= Len(ws) THEN ws[i] ELSE vs[i - Len(ws)]
  BY ConcatProperties
<1>3. ASSUME NEW i \in 1..Len(ws) PROVE (ws \o vs)[i] = ws[i]
  <2>1. i \in 1..(Len(ws) + Len(vs)) /\ i <= Len(ws)
    BY <1>1
  <2> QED
    BY <1>2, <2>1
<1> QED
  BY <1>1, <1>2, <1>3

(* A text in parentheses is a text.                                         *)
LEMMA ParenthesisedParts ==
    ASSUME NEW ps \in Seq(Nat)
    PROVE  Parenthesised(ps) \in Seq(Nat)
<1> DEFINE par(i) == ps[i] + (IF i = 1 THEN 1 ELSE 0) + (IF i = Len(ps) THEN 1 ELSE 0)
<1>1. Len(ps) \in Nat /\ DOMAIN ps = 1..Len(ps)
  OBVIOUS
<1>2. \A i \in 1..Len(ps) : par(i) \in Nat
  OBVIOUS
<1>3. Parenthesised(ps) = [i \in 1..Len(ps) |-> par(i)]
  BY <1>1 DEF Parenthesised
<1> HIDE DEF par
<1> QED
  BY <1>1, <1>2, <1>3

(* The first words of a text stand in its header as they are, when they    *)
(* end within the limit and no part of them is empty.                      *)
LEMMA HeaderBegins ==
    ASSUME NEW ps \in Seq(Nat), NEW max \in Nat, NEW k \in 0..Len(ps),
           \A i \in 1..k : ps[i] # 0, Through(ps)[k] <= max + 1
    PROVE  /\ headerSafe(ps, max) \in Words
           /\ k <= Len(headerSafe(ps, max))
           /\ \A i \in 1..k : headerSafe(ps, max)[i] = ps[i]
<1> DEFINE q == Printed(ps)
<1>1. q \in Words /\ k <= Len(q) /\ \A i \in 1..k : q[i] = ps[i]
  BY PrintedShape
<1>2. headerSafe(ps, max) = Cut(q, max)
  BY DEF headerSafe
<1> HIDE DEF q
<1>3. q \in Seq(Nat) /\ Len(q) \in Nat /\ Len(ps) \in Nat /\ k \in Nat
  BY <1>1, WordsAreParts
<1>4. Through(q)[k] = Through(ps)[k]
  <2>1. k <= Len(ps) /\ k \in 0..k
    BY <1>3
  <2>2. \A i \in 0..k : Through(q)[i] = Through(ps)[i]
    BY <1>1, <1>3, <2>1, ThroughPrefix
  <2> QED
    BY <2>1, <2>2
<1>5. k \in 0..Len(q) /\ Through(q)[k] <= max + 1
  BY <1>1, <1>3, <1>4
<1>6. k <= Len(Cut(q, max)) /\ \A i \in 1..k : Cut(q, max)[i] = q[i]
  BY <1>1, <1>5, CutKeeps
<1>7. Cut(q, max) \in Words
  BY <1>1, CutShape
<1> QED
  BY <1>1, <1>2, <1>6, <1>7

(* Whatever the cities and the company, the reference stands whole in the  *)
(* subject, and the subject fits.                                          *)
LEMMA SubjectNamesReference ==
    ASSUME NEW rec, rec.origin.parts \in Seq(Nat), rec.destination.parts \in Seq(Nat),
           rec.company_name.parts \in Seq(Nat)
    PROVE  /\ Runes(subjectFor(rec)) <= 200
           /\ subjectFor(rec)[4] = RefRunes + 1
<1> DEFINE o == rec.origin.parts
           d == rec.destination.parts
           c == Parenthesised(rec.company_name.parts)
           intro == <<3, 5, 7, RefRunes + 1>>
           a1 == intro \o o
           a2 == a1 \o <<1>>
           a3 == a2 \o d
           ws == a3 \o c
<1>0. RefRunes \in Nat /\ 1 <= RefRunes /\ RefRunes <= 181
  BY MailAssumption DEF MailAssumption
<1>1. intro \in Seq(Nat) /\ Len(intro) = 4
      /\ intro[1] = 3 /\ intro[2] = 5 /\ intro[3] = 7 /\ intro[4] = RefRunes + 1
  BY <1>0
<1>2. o \in Seq(Nat) /\ d \in Seq(Nat) /\ c \in Seq(Nat) /\ <<1>> \in Seq(Nat)
  BY ParenthesisedParts
<1>3. subjectFor(rec) = headerSafe(ws, 200)
  BY DEF subjectFor
<1> HIDE DEF o, d, c, intro
<1>4. a1 \in Seq(Nat) /\ Len(a1) \in Nat /\ 4 <= Len(a1) /\ \A i \in 1..4 : a1[i] = intro[i]
  <2>1. /\ a1 \in Seq(Nat) /\ Len(a1) \in Nat /\ Len(intro) <= Len(a1)
       /\ \A i \in 1..Len(intro) : a1[i] = intro[i]
    BY <1>1, <1>2, PartsConcat
  <2> HIDE DEF a1
  <2> QED
    BY <1>1, <2>1
<1> HIDE DEF a1
<1>5. a2 \in Seq(Nat) /\ Len(a2) \in Nat /\ 4 <= Len(a2) /\ \A i \in 1..4 : a2[i] = intro[i]
  <2>1. /\ a2 \in Seq(Nat) /\ Len(a2) \in Nat /\ Len(a1) <= Len(a2)
       /\ \A i \in 1..Len(a1) : a2[i] = a1[i]
    BY <1>2, <1>4, PartsConcat
  <2> HIDE DEF a2
  <2>2. \A i \in 1..4 : i \in 1..Len(a1)
    BY <1>4
  <2>3. \A i \in 1..4 : a2[i] = intro[i]
    BY <1>4, <2>1, <2>2
  <2> QED
    BY <1>4, <2>1, <2>3
<1> HIDE DEF a2
<1>6. a3 \in Seq(Nat) /\ Len(a3) \in Nat /\ 4 <= Len(a3) /\ \A i \in 1..4 : a3[i] = intro[i]
  <2>1. /\ a3 \in Seq(Nat) /\ Len(a3) \in Nat /\ Len(a2) <= Len(a3)
       /\ \A i \in 1..Len(a2) : a3[i] = a2[i]
    BY <1>2, <1>5, PartsConcat
  <2> HIDE DEF a3
  <2>2. \A i \in 1..4 : i \in 1..Len(a2)
    BY <1>5
  <2>3. \A i \in 1..4 : a3[i] = intro[i]
    BY <1>5, <2>1, <2>2
  <2> QED
    BY <1>5, <2>1, <2>3
<1> HIDE DEF a3
<1>7. ws \in Seq(Nat) /\ Len(ws) \in Nat /\ 4 <= Len(ws) /\ \A i \in 1..4 : ws[i] = intro[i]
  <2>1. /\ ws \in Seq(Nat) /\ Len(ws) \in Nat /\ Len(a3) <= Len(ws)
       /\ \A i \in 1..Len(a3) : ws[i] = a3[i]
    BY <1>2, <1>6, PartsConcat
  <2> HIDE DEF ws
  <2>2. \A i \in 1..4 : i \in 1..Len(a3)
    BY <1>6
  <2>3. \A i \in 1..4 : ws[i] = intro[i]
    BY <1>6, <2>1, <2>2
  <2> QED
    BY <1>6, <2>1, <2>3
<1> HIDE DEF ws
<1>8. Len(ws) \in Nat /\ ws[1] = 3 /\ ws[2] = 5 /\ ws[3] = 7 /\ ws[4] = RefRunes + 1
  BY <1>1, <1>7
<1>9. Through(ws)[4] = RefRunes + 20
  <2> DEFINE T == Through(ws)
  <2>1. T[0] = 0 /\ \A i \in 1..Len(ws) : T[i] = T[i - 1] + ws[i] + 1
    BY <1>7, ThroughStep
  <2> HIDE DEF T
  <2>3. 1 \in 1..Len(ws) /\ 2 \in 1..Len(ws) /\ 3 \in 1..Len(ws) /\ 4 \in 1..Len(ws)
    BY <1>7, <1>8
  <2>4. T[1] = 4
    BY <1>8, <2>1, <2>3
  <2>5. T[2] = 10
    BY <1>8, <2>1, <2>3, <2>4
  <2>6. T[3] = 18
    BY <1>8, <2>1, <2>3, <2>5
  <2>7. T[4] = RefRunes + 20
    BY <1>0, <1>8, <2>1, <2>3, <2>6
  <2> QED
    BY <2>7 DEF T
<1>10. 4 \in 0..Len(ws) /\ Through(ws)[4] <= 200 + 1
  BY <1>0, <1>7, <1>8, <1>9
<1>11. \A i \in 1..4 : ws[i] # 0
  <2>1. ws[1] # 0 /\ ws[2] # 0 /\ ws[3] # 0 /\ ws[4] # 0
    BY <1>0, <1>8
  <2>2. \A i \in 1..4 : i = 1 \/ i = 2 \/ i = 3 \/ i = 4
    OBVIOUS
  <2> QED
    BY <2>1, <2>2
<1>12. \A i \in 1..4 : headerSafe(ws, 200)[i] = ws[i]
  <2> DEFINE k == 4
             max == 200
  <2>1. max \in Nat /\ ws \in Seq(Nat) /\ k \in 0..Len(ws) /\ Through(ws)[k] <= max + 1
    BY <1>7, <1>10
  <2>2. \A i \in 1..k : ws[i] # 0
    BY <1>11
  <2> HIDE DEF k, max
  <2>3. \A i \in 1..k : headerSafe(ws, max)[i] = ws[i]
    BY <2>1, <2>2, HeaderBegins
  <2> QED
    BY <2>3 DEF k, max
<1>13. Runes(headerSafe(ws, 200)) <= 200
  BY <1>7, HeaderFits
<1> QED
  BY <1>3, <1>8, <1>12, <1>13

(* What is printed of a text is cut to nothing only if it is nothing.      *)
LEMMA CutToNothing ==
    ASSUME NEW ws \in Words, NEW max \in Nat \ {0}
    PROVE  Cut(ws, max) = <<>> <=> ws = <<>>
<1> DEFINE h == Cut(ws, max)
<1>1. /\ h \in Words /\ Len(h) <= Len(ws)
      /\ \A i \in 1..Len(ws) : i <= Len(h) <=> Through(ws)[i - 1] < max
  BY CutShape
<1>2. Through(ws)[0] = 0
  BY WordsAreParts, ThroughStep
<1> HIDE DEF h
<1>3. Len(h) \in Nat /\ Len(ws) \in Nat
  BY <1>1, WordsAreParts
<1>4. (h = <<>> <=> Len(h) = 0) /\ (ws = <<>> <=> Len(ws) = 0)
  BY <1>1, LenProperties, EmptySeq DEF Words
<1>5. Len(ws) # 0 => Len(h) # 0
  <2> SUFFICES ASSUME Len(ws) # 0 PROVE Len(h) # 0
    OBVIOUS
  <2>1. 1 \in 1..Len(ws) /\ 1 - 1 = 0
    BY <1>3
  <2>2. 1 <= Len(h)
    BY <1>1, <1>2, <2>1
  <2> QED
    BY <1>3, <2>2
<1>6. Len(ws) = 0 => Len(h) = 0
  BY <1>1, <1>3
<1> QED
  BY <1>4, <1>5, <1>6 DEF h

(* The sender's name begins with the prospect's when that fits, and is the *)
(* bare address when no name is printed.                                   *)
LEMMA SenderIsProspect ==
    ASSUME NEW rec, rec.first_name.parts \in Seq(Nat), rec.last_name.parts \in Seq(Nat),
           rec.email.parts \in Seq(Nat)
    PROVE  LET name == Printed(rec.first_name.parts \o rec.last_name.parts)
               from == FromName(rec) IN
             IF name = <<>> THEN from = rec.email.parts
             ELSE /\ from # <<>> /\ Runes(from) <= 200
                  /\ Runes(name) <= 80 => SubSeq(from, 1, Len(name)) = name
<1> DEFINE name == Printed(rec.first_name.parts \o rec.last_name.parts)
           p == Cut(name, 80)
           e == Parenthesised(rec.email.parts)
           t == p \o e
           q == Printed(t)
           from == Cut(q, 200)
           n == Len(name)
<1>1. name \in Words
  BY PartsConcat, PrintedWords
<1>2. ProspectName(rec) = p
  BY DEF ProspectName, headerSafe
<1>3. p \in Words /\ (p = <<>> <=> name = <<>>)
  <2> HIDE DEF name
  <2> QED
    BY <1>1, CutShape, CutToNothing
<1>4. FromName(rec) = IF p = <<>> THEN rec.email.parts ELSE from
  BY <1>2 DEF FromName, headerSafe
<1> HIDE DEF name
<1>5. e \in Seq(Nat)
  BY ParenthesisedParts
<1> HIDE DEF e
<1>6. p \in Seq(Nat) /\ Len(p) \in Nat /\ name \in Seq(Nat) /\ n \in Nat
  BY <1>1, <1>3, WordsAreParts
<1>p. \A i \in 1..Len(p) : p[i] # 0
  <2> HIDE DEF p
  <2> QED
    BY <1>3 DEF Words
<1>k. p = <<>> <=> Len(p) = 0
  <2> HIDE DEF p
  <2> QED
    BY <1>6, LenProperties, EmptySeq
<1>n. name = <<>> <=> n = 0
  BY <1>6, LenProperties, EmptySeq
<1>7. ASSUME Runes(name) <= 80
      PROVE  n <= Len(p) /\ Through(name)[n] <= 81 /\ \A i \in 1..n : p[i] = name[i]
  <2>1. n \in 0..n /\ Through(name)[n] \in Nat /\ Through(name)[0] = 0
    BY <1>6, ThroughType, ThroughStep
  <2>2. Through(name)[n] <= 80 + 1
    <3>1. CASE name = <<>>
      BY <1>n, <2>1, <3>1
    <3>2. CASE name # <<>>
      <4>1. Runes(name) = Through(name)[n] - 1
        BY <3>2 DEF Runes
      <4> QED
        BY <1>7, <2>1, <4>1
    <3> QED
      BY <3>1, <3>2
  <2>3. n <= Len(p) /\ \A i \in 1..n : p[i] = name[i]
    BY <1>1, <2>1, <2>2, CutKeeps
  <2> HIDE DEF p, n
  <2> QED
    BY <2>1, <2>2, <2>3
<1> HIDE DEF p
<1>8. t \in Seq(Nat) /\ Len(p) <= Len(t) /\ \A i \in 1..Len(p) : t[i] = p[i]
  BY <1>5, <1>6, PartsConcat
<1> HIDE DEF t
<1>9. q \in Words /\ Len(p) <= Len(q) /\ \A i \in 1..Len(p) : q[i] = p[i]
  <2>1. Len(t) \in Nat
    BY <1>8
  <2>2. Len(p) \in 0..Len(t)
    BY <1>6, <1>8, <2>1
  <2>3. \A i \in 1..Len(p) : t[i] # 0
    BY <1>8, <1>p
  <2>4. q \in Words /\ Len(p) <= Len(q) /\ \A i \in 1..Len(p) : q[i] = t[i]
    BY <1>8, <2>2, <2>3, PrintedShape
  <2> HIDE DEF q
  <2> QED
    BY <1>8, <2>4
<1> HIDE DEF q
<1>10. q \in Seq(Nat) /\ Len(q) \in Nat
  BY <1>9, WordsAreParts
<1>11. Runes(from) <= 200
  BY <1>9, CutFits
<1>12. p # <<>> => from # <<>>
  <2>1. p # <<>> => Len(q) # 0
    BY <1>6, <1>9, <1>10, <1>k
  <2>2. q = <<>> <=> Len(q) = 0
    BY <1>10, LenProperties, EmptySeq
  <2>3. from = <<>> <=> q = <<>>
    BY <1>9, CutToNothing
  <2> QED
    BY <2>1, <2>2, <2>3
<1>13. ASSUME Runes(name) <= 80 PROVE SubSeq(from, 1, n) = name
  <2>1. n <= Len(p) /\ Through(name)[n] <= 81 /\ \A i \in 1..n : p[i] = name[i]
    BY <1>7, <1>13
  <2> HIDE DEF n
  <2>2. n <= Len(q) /\ \A i \in 1..n : q[i] = name[i]
    <3>1. \A i \in 1..n : i \in 1..Len(p)
      BY <1>6, <2>1
    <3> QED
      BY <1>6, <1>9, <1>10, <2>1, <3>1
  <2>3. Through(q)[n] = Through(name)[n]
    <3>1. n <= Len(name) /\ n \in 0..n
      BY <1>6 DEF n
    <3>2. \A i \in 0..n : Through(q)[i] = Through(name)[i]
      BY <1>6, <1>10, <2>2, <3>1, ThroughPrefix
    <3> QED
      BY <3>1, <3>2
  <2>4. n \in 0..Len(q) /\ Through(q)[n] <= 200 + 1
    <3>1. Through(name)[n] \in Nat
      BY <1>6, ThroughType DEF n
    <3> QED
      BY <1>6, <1>10, <2>1, <2>2, <2>3, <3>1
  <2>5. \A i \in 1..n : from[i] = q[i]
    <3>1. q \in Words /\ 200 \in Nat
      BY <1>9
    <3> HIDE DEF from
    <3>2. \A i \in 1..n : Cut(q, 200)[i] = q[i]
      BY <2>4, <3>1, CutKeeps
    <3> QED
      BY <3>2 DEF from
  <2> HIDE DEF from
  <2>6. \A i \in 1..n : from[i] = name[i]
    BY <2>2, <2>5
  <2>7. \A i \in 1..n : name[i] \in Nat
    BY <1>6 DEF n
  <2>8. SubSeq(from, 1, n) \in Seq(Nat) /\ Len(SubSeq(from, 1, n)) = n
        /\ \A i \in 1..n : SubSeq(from, 1, n)[i] = name[i]
    <3>1. \A i \in 1..n : from[i] \in Nat
      BY <2>6, <2>7
    <3>2. /\ SubSeq(from, 1, n) \in Seq(Nat)
          /\ Len(SubSeq(from, 1, n)) = IF 1 <= n THEN n - 1 + 1 ELSE 0
          /\ \A i \in 1..(n - 1 + 1) : SubSeq(from, 1, n)[i] = from[1 + i - 1]
      BY <1>6, <3>1, SubSeqProperties
    <3>3. \A i \in 1..n : i \in 1..(n - 1 + 1) /\ 1 + i - 1 = i
      BY <1>6
    <3>4. \A i \in 1..n : SubSeq(from, 1, n)[i] = name[i]
      BY <2>6, <3>2, <3>3
    <3> QED
      BY <1>6, <3>2, <3>4
  <2> QED
    BY <1>6, <2>8, SeqEqual DEF n
<1> HIDE DEF from, n
<1> QED
  BY <1>3, <1>4, <1>11, <1>12, <1>13 DEF n, name

(* Sales reads in a mail whom to answer and about what.                    *)
THEOREM MailsAreAddressed == TableSpec => []MailsNameTheLead
<1>1. IInv /\ FormsInv => MailsNameTheLead
  <2> SUFFICES ASSUME IInv, FormsInv, NEW m \in inbox
               PROVE  LET lead == Columns(m.owner)
                          mail == BuildMessage(lead)
                          name == Printed(lead.first_name.parts \o lead.last_name.parts) IN
                        /\ mail.replyTo.address = lead.email
                        /\ Runes(mail.subject) <= 200 /\ mail.subject[4] = RefRunes + 1
                        /\ IF name = <<>> THEN mail.fromName = lead.email.parts
                           ELSE /\ mail.fromName # <<>> /\ Runes(mail.fromName) <= 200
                                /\ Runes(name) <= 80 =>
                                     SubSeq(mail.fromName, 1, Len(name)) = name
                        /\ mail.weight = lead.weight_kg \/ lead.weight_kg.kind \in {"none", "nan"}
    BY DEF MailsNameTheLead
  <2> DEFINE f == form[m.owner]
             lead == QuoteRecord(f)
             mail == BuildMessage(lead)
             name == Printed(lead.first_name.parts \o lead.last_name.parts)
  <2>1. f \in Form /\ Errors(f) = {}
    BY LeadForm
  <2> HIDE DEF f
  <2>2. f.name.parts # <<>> /\ WeightOK(f.weight)
    BY <2>1, NoErrors DEF TextOK
  <2>3. /\ lead.first_name = Names(f)[1] /\ lead.last_name = Names(f)[2]
        /\ lead.origin = f.origin /\ lead.destination = f.destination
        /\ lead.company_name \in {f.company, NoText}
        /\ lead.email = f.email /\ lead.weight_kg = f.weight
    BY DEF QuoteRecord
  <2>4. /\ f.origin \in FormText /\ f.destination \in FormText /\ f.company \in FormText
        /\ f.email.parts \in Seq(Nat)
    BY <2>1 DEF Form, Parts
  <2>5. NoText.parts \in Seq(Nat)
    BY DEF NoText, Text
  <2>6. \A t \in FormText : t.parts \in Seq(Nat)
    BY DEF FormText, Parts
  <2>7. /\ mail.replyTo.address = lead.email /\ mail.subject = subjectFor(lead)
        /\ mail.fromName = FromName(lead)
        /\ mail.weight = IF lead.weight_kg.kind = "number"
                           THEN lead.weight_kg ELSE [kind |-> "dash"]
    BY DEF BuildMessage
  <2> HIDE DEF lead
  <2>8. /\ lead.origin.parts \in Seq(Nat) /\ lead.destination.parts \in Seq(Nat)
        /\ lead.company_name.parts \in Seq(Nat) /\ lead.email.parts \in Seq(Nat)
    BY <2>3, <2>4, <2>5, <2>6
  <2>9. lead.first_name.parts \in Seq(Nat) /\ lead.last_name.parts \in Seq(Nat)
    BY <2>1, <2>2, <2>3, NamesOfForm
  <2>10. Runes(mail.subject) <= 200 /\ mail.subject[4] = RefRunes + 1
    BY <2>7, <2>8, SubjectNamesReference
  <2>11. IF name = <<>> THEN mail.fromName = lead.email.parts
         ELSE /\ mail.fromName # <<>> /\ Runes(mail.fromName) <= 200
              /\ Runes(name) <= 80 => SubSeq(mail.fromName, 1, Len(name)) = name
    BY <2>7, <2>8, <2>9, SenderIsProspect
  <2>12. lead.weight_kg.kind \in {"none", "nan", "number"}
    BY <2>2, <2>3 DEF WeightOK
  <2>13. mail.weight = lead.weight_kg \/ lead.weight_kg.kind \in {"none", "nan"}
    BY <2>7, <2>12
  <2>14. Columns(m.owner) = lead
    BY DEF Columns, lead, f
  <2> HIDE DEF mail, name
  <2> QED
    BY <2>7, <2>10, <2>11, <2>13, <2>14 DEF mail, name
<1> QED
  BY <1>1, TableInvariance, PTL
=============================================================================
