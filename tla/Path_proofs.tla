----------------------------- MODULE Path_proofs -----------------------------
(***************************************************************************)
(* Proofs about worktree paths, for every set of names, every length of a  *)
(* request and every number of exchanged components.                       *)
(*                                                                         *)
(* What Clean computes is shown by induction over the components of a      *)
(* request.  The induction is one over a set of numbers: a set that holds  *)
(* 0 and, with a number, the next one, has no least number missing.        *)
(***************************************************************************)
EXTENDS Path, SequenceTheorems, FiniteSetTheorems, WellFoundedInduction, TLAPS

(* Induction over the numbers up to a bound. *)
LEMMA UpTo ==
    ASSUME NEW n \in Nat, NEW T, 0 \in T,
           \A k \in 0 .. n : k < n /\ k \in T => k + 1 \in T
    PROVE  \A k \in 0 .. n : k \in T
  <1> DEFINE less == OpToRel(<, Nat)
             bad == {k \in Nat : k <= n /\ k \notin T}
  <1>1. SUFFICES ASSUME bad # {} PROVE FALSE
    OBVIOUS
  <1>2. bad \subseteq Nat OBVIOUS
  <1>3. IsWellFoundedOn(less, Nat) BY NatLessThanWellFounded
  <1>4. \A i, j \in Nat : i < j => <<i, j>> \in less BY DEF OpToRel
  <1> HIDE DEF less
  <1>5. PICK x \in bad : \A y \in bad : ~(<<y, x>> \in less)
    <2> HIDE DEF bad
    <2> QED BY <1>1, <1>2, <1>3, WFMin
  <1>6. x \in Nat /\ x # 0 /\ x <= n /\ x \notin T OBVIOUS
  <1>7. x - 1 \in Nat /\ x - 1 < x /\ x - 1 < n /\ (x - 1) + 1 = x
    BY <1>6
  <1>8. x - 1 \notin bad BY <1>4, <1>5, <1>6, <1>7
  <1>9. x - 1 \in T BY <1>6, <1>7, <1>8
  <1> QED BY <1>6, <1>7, <1>9

-----------------------------------------------------------------------------
(***************************************************************************)
(* Components, and sequences of them.                                      *)
(***************************************************************************)

(* The three components that are no names. *)
LEMMA Special ==
    /\ Empty # Parent /\ Here # Parent /\ Empty # Here
    /\ Empty \notin Names /\ Here \notin Names /\ Parent \notin Names
  <1>1. Empty # Parent /\ Here # Parent /\ Empty # Here
    BY Zenon DEF Empty, Here, Parent
  <1> QED BY <1>1, PathAssumption

(* What a cleaned path is made of. *)
Kept == Names \cup {Parent}

(* The last component and those before it. *)
LEMMA FrontLast ==
    ASSUME NEW c \in Seq(Kept), c # <<>>
    PROVE  /\ Len(c) \in Nat \ {0} /\ Last(c) = c[Len(c)] /\ Last(c) \in Kept
           /\ Front(c) \in Seq(Kept) /\ Len(Front(c)) = Len(c) - 1
           /\ \A i \in 1 .. Len(c) - 1 : Front(c)[i] = c[i]
  <1> HIDE DEF Kept
  <1>1. Len(c) \in Nat \ {0} BY EmptySeq
  <1>2. \A i \in 1 .. Len(c) : c[i] \in Kept BY LenProperties
  <1> DEFINE n == Len(c) - 1
  <1>3. n \in Nat /\ n \in Int /\ \A i \in 1 .. n : c[i] \in Kept BY <1>1, <1>2
  <1> HIDE DEF n
  <1>4. /\ SubSeq(c, 1, n) \in Seq(Kept)
        /\ Len(SubSeq(c, 1, n)) = IF 1 <= n THEN n - 1 + 1 ELSE 0
        /\ \A i \in 1 .. n - 1 + 1 : SubSeq(c, 1, n)[i] = c[1 + i - 1]
    BY <1>3, SubSeqProperties
  <1>5. Front(c) = SubSeq(c, 1, n) BY DEF Front, n
  <1>6. /\ Front(c) \in Seq(Kept) /\ Len(Front(c)) = n
        /\ \A i \in 1 .. n : Front(c)[i] = c[i]
    BY <1>3, <1>4, <1>5
  <1> QED BY <1>1, <1>2, <1>6 DEF Last, n

(* One more component. *)
LEMMA OneMore ==
    ASSUME NEW c \in Seq(Kept), NEW part \in Kept
    PROVE  /\ Append(c, part) \in Seq(Kept)
           /\ Len(Append(c, part)) = Len(c) + 1
           /\ \A i \in 1 .. Len(c) : Append(c, part)[i] = c[i]
           /\ Append(c, part)[Len(c) + 1] = part
  <1> HIDE DEF Kept
  <1> QED BY AppendProperties

(* A component is left out, takes one away or is put behind. *)
LEMMA StepCases ==
    ASSUME NEW absolute \in BOOLEAN, NEW c \in Seq(Kept), NEW part \in Parts
    PROVE  /\ Step(absolute, c, part) \in Seq(Kept)
           /\ part \in {Empty, Here} => Step(absolute, c, part) = c
           /\ part \in Names => Step(absolute, c, part) = Append(c, part)
           /\ part = Parent /\ c # <<>> /\ Last(c) # Parent =>
                 Step(absolute, c, part) = Front(c)
           /\ part = Parent /\ (c = <<>> \/ Last(c) = Parent) /\ ~absolute =>
                 Step(absolute, c, part) = Append(c, part)
  <1>1. part \in {Empty, Here} \/ part \in Names \/ part = Parent
    BY DEF Parts
  <1>2. CASE part \in {Empty, Here}
    <2>1. part # Parent /\ part \notin Names BY <1>2, Special
    <2>2. Step(absolute, c, part) = c BY <1>2, <2>1 DEF Step
    <2> QED BY <1>2, <2>1, <2>2
  <1>3. CASE part \in Names
    <2>1. part \notin {Empty, Here} /\ part # Parent BY <1>3, Special
    <2>2. Step(absolute, c, part) = Append(c, part) BY <2>1 DEF Step
    <2>3. part \in Kept BY <1>3 DEF Kept
    <2> QED BY <2>1, <2>2, <2>3, OneMore
  <1>4. CASE part = Parent
    <2>1. part \notin {Empty, Here} /\ part \notin Names /\ part \in Kept
      BY <1>4, Special DEF Kept
    <2>2. CASE c # <<>> /\ Last(c) # Parent
      <3>1. Step(absolute, c, part) = Front(c) BY <1>4, <2>1, <2>2 DEF Step
      <3> QED BY <1>4, <2>1, <2>2, <3>1, FrontLast
    <2>3. CASE c = <<>> /\ absolute
      <3>1. Step(absolute, c, part) = c BY <1>4, <2>1, <2>3 DEF Step
      <3> QED BY <1>4, <2>1, <2>3, <3>1
    <2>4. CASE ~(c # <<>> /\ Last(c) # Parent) /\ ~(c = <<>> /\ absolute)
      <3>1. Step(absolute, c, part) = Append(c, part)
        BY <1>4, <2>1, <2>4 DEF Step
      <3> QED BY <1>4, <2>1, <2>4, <3>1, OneMore
    <2> QED BY <2>2, <2>3, <2>4
  <1> QED BY <1>1, <1>2, <1>3, <1>4

-----------------------------------------------------------------------------
(***************************************************************************)
(* Clean, as the recursion that defines it.                                *)
(***************************************************************************)

(* A function that does what Cleaned(r) must do for the first n components. *)
Computes(f, r, n) ==
    f = [k \in 0 .. n |->
            IF k = 0 THEN <<>> ELSE Step(Absolute(r), f[k - 1], r[k])]

(* There is one, for every number of components. *)
LEMMA CleanedExists ==
    ASSUME NEW r, NEW n \in Nat PROVE \E f : Computes(f, r, n)
  <1> DEFINE T == {m \in Nat : \E f : Computes(f, r, m)}
  <1>1. 0 \in T
    <2> DEFINE f == [k \in 0 .. 0 |-> <<>>]
    <2>1. f = [k \in 0 .. 0 |-> IF k = 0 THEN <<>>
                                ELSE Step(Absolute(r), f[k - 1], r[k])]
      OBVIOUS
    <2> HIDE DEF f
    <2>2. Computes(f, r, 0) BY <2>1 DEF Computes
    <2> QED BY <2>2
  <1>2. ASSUME NEW m \in 0 .. n, m < n, m \in T PROVE m + 1 \in T
    <2>1. PICK f : Computes(f, r, m) BY <1>2
    <2> DEFINE last == Step(Absolute(r), f[m], r[m + 1])
               g == [k \in 0 .. m + 1 |-> IF k <= m THEN f[k] ELSE last]
    <2>2. /\ f[0] = <<>>
          /\ \A k \in 0 .. m :
                k # 0 => f[k] = Step(Absolute(r), f[k - 1], r[k])
      BY <2>1 DEF Computes
    <2>3. \A k \in 0 .. m : g[k] = f[k] BY <1>2
    <2>4. g[m + 1] = last BY <1>2
    <2>5. DOMAIN g = 0 .. m + 1 /\ g = [k \in DOMAIN g |-> g[k]] OBVIOUS
    <2> HIDE DEF g
    <2>6. ASSUME NEW k \in 0 .. m + 1
          PROVE  g[k] = IF k = 0 THEN <<>>
                        ELSE Step(Absolute(r), g[k - 1], r[k])
      <3>1. CASE k = 0 BY <1>2, <2>2, <2>3, <3>1
      <3>2. CASE k # 0 /\ k <= m
        <4>1. k \in 0 .. m /\ k - 1 \in 0 .. m BY <1>2, <3>2
        <4> QED BY <2>2, <2>3, <3>2, <4>1
      <3>3. CASE k = m + 1
        <4>1. k - 1 = m /\ k # 0 /\ m \in 0 .. m BY <1>2, <3>3
        <4> QED BY <2>3, <2>4, <3>3, <4>1
      <3> QED BY <1>2, <3>1, <3>2, <3>3
    <2>7. g = [k \in 0 .. m + 1 |->
                  IF k = 0 THEN <<>> ELSE Step(Absolute(r), g[k - 1], r[k])]
      BY <2>5, <2>6
    <2>8. Computes(g, r, m + 1) BY <2>7 DEF Computes
    <2> QED BY <1>2, <2>8
  <1> HIDE DEF T
  <1>3. \A k \in 0 .. n : k \in T BY <1>1, <1>2, UpTo
  <1> QED BY <1>3 DEF T

(* So Cleaned is defined by its recursion. *)
LEMMA CleanedSteps ==
    ASSUME NEW r, Len(r) \in Nat
    PROVE  /\ Cleaned(r)[0] = <<>>
           /\ \A k \in 0 .. Len(r) :
                 k # 0 =>
                    Cleaned(r)[k] = Step(Absolute(r), Cleaned(r)[k - 1], r[k])
  <1>1. Cleaned(r) = CHOOSE f : Computes(f, r, Len(r))
    BY DEF Cleaned, Computes
  <1>2. Computes(Cleaned(r), r, Len(r)) BY <1>1, CleanedExists
  <1> QED BY <1>2 DEF Computes

-----------------------------------------------------------------------------
(***************************************************************************)
(* Counting components.                                                    *)
(***************************************************************************)

(* Counting one more component. *)
LEMMA CountSteps ==
    ASSUME NEW r, NEW S, NEW k \in Nat
    PROVE  /\ Count(r, 0, S) = 0
           /\ Count(r, k, S) \in Nat
           /\ Count(r, k + 1, S) = IF r[k + 1] \in S THEN Count(r, k, S) + 1
                                   ELSE Count(r, k, S)
  <1> DEFINE In(n) == {i \in 1 .. n : r[i] \in S}
  <1>1. Count(r, 0, S) = 0
    <2>1. In(0) = {} OBVIOUS
    <2> QED BY <2>1, FS_EmptySet DEF Count
  <1>2. /\ Count(r, k, S) \in Nat
        /\ Count(r, k + 1, S) = IF r[k + 1] \in S THEN Count(r, k, S) + 1
                                ELSE Count(r, k, S)
    <2>1. IsFiniteSet(1 .. k) BY FS_Interval
    <2>2. In(k) \in SUBSET (1 .. k) OBVIOUS
    <2>3. In(k + 1) = IF r[k + 1] \in S THEN In(k) \cup {k + 1} ELSE In(k)
      OBVIOUS
    <2>4. k + 1 \notin In(k) OBVIOUS
    <2>5. Count(r, k, S) = Cardinality(In(k))
          /\ Count(r, k + 1, S) = Cardinality(In(k + 1))
      BY DEF Count
    <2> HIDE DEF In
    <2>6. IsFiniteSet(In(k)) BY <2>1, <2>2, FS_Subset
    <2>7. Cardinality(In(k)) \in Nat BY <2>6, FS_CardinalityType
    <2>8. Cardinality(In(k) \cup {k + 1}) = Cardinality(In(k)) + 1
      BY <2>4, <2>6, FS_AddElement
    <2> QED BY <2>3, <2>5, <2>7, <2>8
  <1> QED BY <1>1, <1>2

-----------------------------------------------------------------------------
(***************************************************************************)
(* What Clean makes of a relative request: so many parents, and names      *)
(* behind them.                                                            *)
(***************************************************************************)
Ups(r, k) == Count(r, k, {Parent})
Downs(r, k) == Count(r, k, Names)
Inside(r, k) == \A j \in 1 .. k : Ups(r, j) <= Downs(r, j)

Shape(c, up) ==
    /\ c \in Seq(Kept) /\ up \in 0 .. Len(c)
    /\ \A i \in 1 .. Len(c) :
          (i <= up => c[i] = Parent) /\ (i > up => c[i] \in Names)

(* The names that are left and the parents that are left account for all   *)
(* the names and parents there were, and there is a parent left exactly if *)
(* the request has left the worktree on its way.                           *)
Follows(r, k, c) ==
    \E up \in Nat :
        /\ Shape(c, up)
        /\ Len(c) + Ups(r, k) = Downs(r, k) + 2 * up
        /\ up = 0 <=> Inside(r, k)

(* Being inside for one more component. *)
LEMMA InsideStep ==
    ASSUME NEW r, NEW k \in Nat
    PROVE  Inside(r, k + 1) <=>
              Inside(r, k) /\ Ups(r, k + 1) <= Downs(r, k + 1)
  <1>1. \A j : j \in 1 .. k + 1 <=> j \in 1 .. k \/ j = k + 1
    OBVIOUS
  <1> QED BY <1>1 DEF Inside

(* Clean follows the request, component by component. *)
LEMMA FollowsStep ==
    ASSUME NEW r, NEW k \in Nat, NEW c, Follows(r, k, c), r[k + 1] \in Parts
    PROVE  Follows(r, k + 1, Step(FALSE, c, r[k + 1]))
  <1> DEFINE part == r[k + 1]
             next1 == Step(FALSE, c, part)
             u0 == Ups(r, k)
             d0 == Downs(r, k)
             u1 == Ups(r, k + 1)
             d1 == Downs(r, k + 1)
  <1>1. PICK up \in Nat :
          /\ Shape(c, up) /\ Len(c) + u0 = d0 + 2 * up
          /\ up = 0 <=> Inside(r, k)
    BY DEF Follows
  <1>2. c \in Seq(Kept) /\ up \in 0 .. Len(c) /\ Len(c) \in Nat
    <2>1. c \in Seq(Kept) /\ up \in 0 .. Len(c) BY <1>1 DEF Shape
    <2> HIDE DEF Kept
    <2> QED BY <2>1, LenProperties
  <1>3. /\ u0 \in Nat /\ d0 \in Nat
        /\ u1 = IF part \in {Parent} THEN u0 + 1 ELSE u0
        /\ d1 = IF part \in Names THEN d0 + 1 ELSE d0
    <2>1. /\ Count(r, k, {Parent}) \in Nat
          /\ Count(r, k + 1, {Parent}) =
                IF r[k + 1] \in {Parent} THEN Count(r, k, {Parent}) + 1
                ELSE Count(r, k, {Parent})
      BY CountSteps
    <2>2. /\ Count(r, k, Names) \in Nat
          /\ Count(r, k + 1, Names) =
                IF r[k + 1] \in Names THEN Count(r, k, Names) + 1
                ELSE Count(r, k, Names)
      BY CountSteps
    <2> QED BY <2>1, <2>2 DEF Ups, Downs
  <1>4. Inside(r, k + 1) <=> Inside(r, k) /\ u1 <= d1
    BY InsideStep
  <1>5. /\ part \in {Empty, Here} => next1 = c
        /\ part \in Names => next1 = Append(c, part)
        /\ part = Parent /\ c # <<>> /\ Last(c) # Parent => next1 = Front(c)
        /\ part = Parent /\ (c = <<>> \/ Last(c) = Parent) =>
              next1 = Append(c, part)
    BY <1>2, StepCases
  <1>6. part \in {Empty, Here} \/ part \in Names \/ part = Parent
    BY DEF Parts
  <1> DEFINE outcome(up1) == /\ Shape(next1, up1)
                             /\ Len(next1) + u1 = d1 + 2 * up1
                             /\ up1 = 0 <=> Inside(r, k + 1)
  <1>7. SUFFICES \E up1 \in Nat : outcome(up1)
    BY DEF Follows
  <1> HIDE DEF part, next1, u0, d0, u1, d1
  <1>8. CASE part \in {Empty, Here}
    <2>1. part # Parent /\ part \notin Names BY <1>8, Special
    <2>2. u1 = u0 /\ d1 = d0 /\ next1 = c BY <1>3, <1>5, <1>8, <2>1
    <2>3. up = 0 => u1 <= d1 BY <1>1, <1>2, <1>3, <2>2
    <2>4. outcome(up) BY <1>1, <1>4, <2>2, <2>3
    <2> QED BY <2>4
  <1>9. CASE part \in Names
    <2>1. part # Parent /\ part \in Kept BY <1>9, Special DEF Kept
    <2>2. u1 = u0 /\ d1 = d0 + 1 /\ next1 = Append(c, part)
      BY <1>3, <1>5, <1>9, <2>1
    <2>3. /\ next1 \in Seq(Kept) /\ Len(next1) = Len(c) + 1
          /\ \A i \in 1 .. Len(c) : next1[i] = c[i]
          /\ next1[Len(c) + 1] = part
      BY <1>2, <2>1, <2>2, OneMore
    <2>4. Shape(next1, up)
      <3>1. up \in 0 .. Len(next1) BY <1>2, <2>3
      <3>2. ASSUME NEW i \in 1 .. Len(next1)
            PROVE  /\ i <= up => next1[i] = Parent
                   /\ i > up => next1[i] \in Names
        <4>1. CASE i \in 1 .. Len(c) BY <1>1, <2>3, <4>1 DEF Shape
        <4>2. CASE i = Len(c) + 1
          <5>1. ~(i <= up) BY <1>2, <4>2
          <5> QED BY <1>9, <2>3, <4>2, <5>1
        <4> QED BY <1>2, <2>3, <4>1, <4>2
      <3> QED BY <2>3, <3>1, <3>2 DEF Shape
    <2>5. /\ Len(next1) + u1 = d1 + 2 * up
          /\ up = 0 => u1 <= d1
      <3>1. /\ Len(c) + u0 = d0 + 2 * up /\ Len(next1) = Len(c) + 1
            /\ u1 = u0 /\ d1 = d0 + 1 /\ u0 \in Nat /\ d0 \in Nat
            /\ Len(c) \in Nat /\ up \in Nat
        BY <1>1, <1>2, <1>3, <2>2, <2>3
      <3> QED BY <3>1
    <2>6. outcome(up) BY <1>1, <1>4, <2>4, <2>5
    <2> QED BY <2>6
  <1>10. CASE part = Parent /\ c # <<>> /\ Last(c) # Parent
    <2>1. part \notin Names BY <1>10, Special
    <2>2. u1 = u0 + 1 /\ d1 = d0 /\ next1 = Front(c)
      BY <1>3, <1>5, <1>10, <2>1
    <2>3. /\ Len(c) \in Nat \ {0} /\ c[Len(c)] # Parent
          /\ next1 \in Seq(Kept) /\ Len(next1) = Len(c) - 1
          /\ \A i \in 1 .. Len(c) - 1 : next1[i] = c[i]
      BY <1>2, <1>10, <2>2, FrontLast
    <2>4. up < Len(c)
      <3>1. Len(c) \in 1 .. Len(c) BY <2>3
      <3>2. ~(Len(c) <= up) BY <1>1, <2>3, <3>1 DEF Shape
      <3> QED BY <1>2, <3>2
    <2>5. Shape(next1, up)
      <3>1. up \in 0 .. Len(next1) BY <1>2, <2>3, <2>4
      <3>2. ASSUME NEW i \in 1 .. Len(next1)
            PROVE  /\ i <= up => next1[i] = Parent
                   /\ i > up => next1[i] \in Names
        <4>1. i \in 1 .. Len(c) /\ i \in 1 .. Len(c) - 1 BY <1>2, <2>3
        <4> QED BY <1>1, <2>3, <4>1 DEF Shape
      <3> QED BY <2>3, <3>1, <3>2 DEF Shape
    <2>6. /\ Len(next1) + u1 = d1 + 2 * up
          /\ up = 0 => u1 <= d1
      <3>1. /\ Len(c) + u0 = d0 + 2 * up /\ Len(next1) = Len(c) - 1
            /\ u1 = u0 + 1 /\ d1 = d0 /\ u0 \in Nat /\ d0 \in Nat
            /\ Len(c) \in Nat /\ up \in Nat
            /\ Len(c) # 0
        BY <1>1, <1>2, <1>3, <2>2, <2>3
      <3> QED BY <3>1
    <2>7. outcome(up) BY <1>1, <1>4, <2>5, <2>6
    <2> QED BY <2>7
  <1>11. CASE part = Parent /\ (c = <<>> \/ Last(c) = Parent)
    <2>1. part \notin Names /\ part \in Kept BY <1>11, Special DEF Kept
    <2>2. u1 = u0 + 1 /\ d1 = d0 /\ next1 = Append(c, part)
      BY <1>3, <1>5, <1>11, <2>1
    <2>3. /\ next1 \in Seq(Kept) /\ Len(next1) = Len(c) + 1
          /\ \A i \in 1 .. Len(c) : next1[i] = c[i]
          /\ next1[Len(c) + 1] = Parent
      BY <1>2, <1>11, <2>1, <2>2, OneMore
    <2>4. up = Len(c)
      <3>1. CASE c = <<>>
        <4>1. Len(c) = 0 BY <3>1, EmptySeq
        <4> QED BY <1>2, <4>1
      <3>2. CASE c # <<>>
        <4>1. Len(c) \in Nat \ {0} /\ c[Len(c)] = Parent
          BY <1>2, <1>11, <3>2, FrontLast
        <4>2. Len(c) \in 1 .. Len(c) /\ c[Len(c)] \notin Names
          BY <4>1, Special
        <4>3. ~(Len(c) > up) BY <1>1, <4>2 DEF Shape
        <4> QED BY <1>2, <4>3
      <3> QED BY <3>1, <3>2
    <2>5. Shape(next1, up + 1)
      <3>1. up + 1 \in 0 .. Len(next1) BY <1>2, <2>3, <2>4
      <3>2. ASSUME NEW i \in 1 .. Len(next1)
            PROVE  i <= up + 1 /\ next1[i] = Parent
        <4>1. CASE i \in 1 .. Len(c)
          <5>1. i <= up BY <1>2, <2>4, <4>1
          <5> QED BY <1>1, <1>2, <2>3, <4>1, <5>1 DEF Shape
        <4>2. CASE i = Len(c) + 1
          <5>1. i <= up + 1 BY <1>2, <2>4, <4>2
          <5> QED BY <2>3, <4>2, <5>1
        <4> QED BY <1>2, <2>3, <4>1, <4>2
      <3>3. \A i \in 1 .. Len(next1) : ~(i > up + 1) BY <1>2, <2>3, <2>4
      <3> QED BY <2>3, <3>1, <3>2, <3>3 DEF Shape
    <2>6. /\ Len(next1) + u1 = d1 + 2 * (up + 1)
          /\ ~(u1 <= d1) /\ up + 1 # 0 /\ up + 1 \in Nat
      <3>1. /\ Len(c) + u0 = d0 + 2 * up /\ Len(next1) = Len(c) + 1
            /\ u1 = u0 + 1 /\ d1 = d0 /\ u0 \in Nat /\ d0 \in Nat
            /\ Len(c) \in Nat /\ up \in Nat
            /\ Len(c) = up
        BY <1>1, <1>2, <1>3, <2>2, <2>3, <2>4
      <3>2. Len(next1) + u1 = d1 + 2 * (up + 1) BY <3>1
      <3>3. ~(u1 <= d1) BY <3>1
      <3> QED BY <3>1, <3>2, <3>3
    <2>7. outcome(up + 1) BY <1>4, <2>5, <2>6
    <2> QED BY <2>6, <2>7
  <1> QED BY <1>6, <1>8, <1>9, <1>10, <1>11

(* A request is a sequence of components, and not empty. *)
LEMMA RequestType ==
    ASSUME NEW r \in Requests
    PROVE  r \in Seq(Parts) /\ Len(r) \in Nat \ {0} /\ DOMAIN r = 1 .. Len(r)
  <1>1. PICK n \in 1 .. MaxParts : r \in [1 .. n -> Parts]
    BY DEF Requests
  <1>2. n \in Nat \ {0} BY PathAssumption
  <1> HIDE DEF Parts
  <1>3. r \in Seq(Parts) BY <1>1, <1>2, SeqDef
  <1>4. Len(r) = n BY <1>1, <1>2, <1>3, LenProperties
  <1> QED BY <1>1, <1>2, <1>3, <1>4

(* Clean of a whole relative request. *)
LEMMA CleanFollows ==
    ASSUME NEW r \in Requests, ~Absolute(r)
    PROVE  Follows(r, Len(r), Clean(r))
  <1>1. /\ r \in Seq(Parts) /\ Len(r) \in Nat
        /\ \A i \in 1 .. Len(r) : r[i] \in Parts
    BY RequestType
  <1>2. /\ Cleaned(r)[0] = <<>>
        /\ \A k \in 0 .. Len(r) :
              k # 0 => Cleaned(r)[k] = Step(FALSE, Cleaned(r)[k - 1], r[k])
    <2>1. Absolute(r) = FALSE BY DEF Absolute
    <2> QED BY <1>1, <2>1, CleanedSteps
  <1> DEFINE T == {k \in Nat : Follows(r, k, Cleaned(r)[k])}
  <1>3. 0 \in T
    <2>1. <<>> \in Seq(Kept) /\ Len(<<>>) = 0 BY EmptySeq
    <2>2. Shape(<<>>, 0) BY <2>1 DEF Shape
    <2>3. Ups(r, 0) = 0 /\ Downs(r, 0) = 0 BY CountSteps DEF Ups, Downs
    <2>4. Inside(r, 0) BY DEF Inside
    <2>5. Len(<<>>) + Ups(r, 0) = Downs(r, 0) + 2 * 0 BY <2>1, <2>3
    <2>6. Follows(r, 0, <<>>) BY <2>2, <2>4, <2>5 DEF Follows
    <2> QED BY <1>2, <2>6
  <1>4. ASSUME NEW k \in 0 .. Len(r), k < Len(r), k \in T PROVE k + 1 \in T
    <2>1. /\ k \in Nat /\ k + 1 \in 1 .. Len(r) /\ k + 1 \in 0 .. Len(r)
          /\ k + 1 # 0 /\ (k + 1) - 1 = k
      BY <1>1, <1>4
    <2>2. r[k + 1] \in Parts /\ Follows(r, k, Cleaned(r)[k])
      BY <1>1, <1>4, <2>1
    <2>3. Cleaned(r)[k + 1] = Step(FALSE, Cleaned(r)[k], r[k + 1])
      BY <1>2, <2>1
    <2>4. Follows(r, k + 1, Cleaned(r)[k + 1])
      BY <2>1, <2>2, <2>3, FollowsStep
    <2> QED BY <2>1, <2>4
  <1> HIDE DEF T
  <1>5. \A k \in 0 .. Len(r) : k \in T BY <1>1, <1>3, <1>4, UpTo
  <1>6. Len(r) \in T BY <1>1, <1>5
  <1> QED BY <1>6 DEF T, Clean

(* A relative request is cleaned to a path without a parent in front       *)
(* exactly if it never leaves the worktree, and then to one of names only. *)
LEMMA CleanStaysInside ==
    ASSUME NEW r \in Requests, ~Absolute(r)
    PROVE  /\ Clean(r) \in Seq(Kept)
           /\ ~Escapes(Clean(r)) <=> Inside(r, Len(r))
           /\ ~Escapes(Clean(r)) => Clean(r) \in Seq(Names)
  <1> DEFINE c == Clean(r)
  <1>1. PICK up \in Nat : Shape(c, up) /\ (up = 0 <=> Inside(r, Len(r)))
    BY CleanFollows DEF Follows
  <1> HIDE DEF c
  <1>2. /\ c \in Seq(Kept) /\ up \in 0 .. Len(c)
        /\ \A i \in 1 .. Len(c) :
              (i <= up => c[i] = Parent) /\ (i > up => c[i] \in Names)
    BY <1>1 DEF Shape
  <1>3. Len(c) \in Nat /\ DOMAIN c = 1 .. Len(c) /\ c \in [1 .. Len(c) -> Kept]
    <2> HIDE DEF Kept
    <2> QED BY <1>2, LenProperties
  <1>4. CASE up = 0
    <2>1. \A i \in 1 .. Len(c) : c[i] \in Names BY <1>2, <1>3, <1>4
    <2>2. c \in [1 .. Len(c) -> Names] BY <1>3, <2>1
    <2>3. c \in Seq(Names) BY <1>3, <2>2, SeqDef
    <2>4. ~Escapes(c)
      <3> SUFFICES ASSUME c # <<>> PROVE Head(c) # Parent BY DEF Escapes
      <3>1. Head(c) \in Names BY <2>3, HeadTailProperties
      <3> QED BY <3>1, Special
    <2> QED BY <1>1, <1>2, <1>4, <2>3, <2>4 DEF c
  <1>5. CASE up # 0
    <2>1. Len(c) # 0 /\ 1 \in 1 .. Len(c) /\ 1 <= up BY <1>2, <1>3, <1>5
    <2>2. c # <<>> BY <2>1, EmptySeq
    <2>3. Head(c) = c[1] BY <2>2
    <2>4. Escapes(c) BY <1>2, <2>1, <2>2, <2>3 DEF Escapes
    <2> QED BY <1>1, <1>2, <1>5, <2>4 DEF c
  <1> QED BY <1>4, <1>5

-----------------------------------------------------------------------------
(***************************************************************************)
(* The two looks at the components of a workdir.                           *)
(***************************************************************************)
TypeOK ==
    /\ requested \in Requests /\ allowRoot \in BOOLEAN
    /\ native \in Seq(Names)
    /\ DOMAIN kind = 1 .. Len(native)
    /\ next \in Nat
    /\ pc \in {"parsing", "parsed", "first", "second", "launched", "refused"}

(* What the second look has passed is a directory, or was exchanged behind *)
(* it.                                                                     *)
SeenInv ==
    /\ pc = "second" => \A k \in DOMAIN kind :
          k < next /\ kind[k] # "directory" => k \in late
    /\ SwapIsNoticed

Inv == TypeOK /\ SeenInv

(* The sequence of no names. *)
LEMMA NoNames == <<>> \in Seq(Names) /\ Len(<<>>) = 0 /\ DOMAIN <<>> = 1 .. 0
  BY EmptySeq

(* A request is parsed. *)
LEMMA ParseStep == ASSUME Inv, Parse PROVE Inv'
  <1>1. /\ pc = "parsing" /\ UNCHANGED <<requested, allowRoot, next, swaps, late>>
    BY DEF Parse, request
  <1>2. CASE Accepted(requested, allowRoot)
    <2>1. /\ native' = Clean(requested)
          /\ kind' = [k \in DOMAIN native' |-> "directory"]
          /\ pc' = IF allowRoot THEN "first" ELSE "parsed"
      BY <1>2 DEF Parse
    <2>2. native' \in Seq(Names)
      BY <1>2, <2>1, CleanStaysInside DEF Inv, TypeOK, Accepted
    <2>3. DOMAIN native' = 1 .. Len(native') BY <2>2, LenProperties
    <2>4. DOMAIN kind' = 1 .. Len(native') BY <2>1, <2>3
    <2>5. pc' \in {"first", "parsed"} BY <2>1
    <2> QED BY <1>1, <2>2, <2>4, <2>5 DEF Inv, TypeOK, SeenInv, SwapIsNoticed
  <1>3. CASE ~Accepted(requested, allowRoot)
    <2>1. pc' = "refused" /\ UNCHANGED <<native, kind>> BY <1>3 DEF Parse
    <2> QED BY <1>1, <2>1 DEF Inv, TypeOK, SeenInv, SwapIsNoticed
  <1> QED BY <1>2, <1>3

(* One component is looked at. *)
LEMMA ExamineStep == ASSUME Inv, Examine PROVE Inv'
  <1>1. /\ pc \in {"first", "second"} /\ next <= Len(native)
        /\ late' = late \ {next}
        /\ UNCHANGED <<requested, allowRoot, native, kind, swaps>>
        /\ \/ kind[next] = "directory" /\ next' = next + 1 /\ pc' = pc
           \/ pc' = "refused" /\ next' = next
    BY DEF Examine, request
  <1>2. next \in Nat /\ next' \in Nat BY <1>1 DEF Inv, TypeOK
  <1>3. TypeOK' BY <1>1, <1>2 DEF Inv, TypeOK
  <1>4. SwapIsNoticed' BY <1>1 DEF SwapIsNoticed
  <1>5. ASSUME pc' = "second", NEW k \in DOMAIN kind', k < next',
               kind'[k] # "directory"
        PROVE  k \in late'
    <2>1. pc = "second" /\ next' = next + 1 /\ kind[next] = "directory"
      BY <1>1, <1>5
    <2>2. k # next /\ k < next
      BY <1>1, <1>2, <1>5, <2>1 DEF Inv, TypeOK
    <2> QED BY <1>1, <1>5, <2>1, <2>2 DEF Inv, SeenInv
  <1> QED BY <1>3, <1>4, <1>5 DEF Inv, SeenInv

(* The workdir is opened, and the second look begins. *)
LEMMA OpenWorkdirStep == ASSUME Inv, OpenWorkdir PROVE Inv'
  <1>1. /\ UNCHANGED <<requested, allowRoot, native, kind, swaps, late>>
        /\ \/ pc' = "second" /\ next' = 1
           \/ pc' = "refused" /\ next' = next
    <2>1. UNCHANGED <<requested, allowRoot, native, kind, swaps, late>>
      BY DEF OpenWorkdir, request
    <2>2. CASE \A k \in DOMAIN kind : kind[k] # "missing"
      BY <2>1, <2>2 DEF OpenWorkdir
    <2>3. CASE ~(\A k \in DOMAIN kind : kind[k] # "missing")
      BY <2>1, <2>3 DEF OpenWorkdir
    <2> QED BY <2>2, <2>3
  <1>2. TypeOK' BY <1>1 DEF Inv, TypeOK
  <1>3. SwapIsNoticed' BY <1>1 DEF SwapIsNoticed
  <1>4. ASSUME pc' = "second", NEW k \in DOMAIN kind', k < next' PROVE FALSE
    <2>1. next' = 1 /\ k \in 1 .. Len(native) BY <1>1, <1>4 DEF Inv, TypeOK
    <2> QED BY <1>4, <2>1
  <1> QED BY <1>2, <1>3, <1>4 DEF Inv, SeenInv

(* The second look has passed every component. *)
LEMMA LaunchStep == ASSUME Inv, Launch PROVE Inv'
  <1>1. /\ pc = "second" /\ next > Len(native) /\ pc' = "launched"
        /\ UNCHANGED <<requested, allowRoot, native, kind, next, swaps, late>>
    BY DEF Launch, Revalidated, request
  <1>2. TypeOK' BY <1>1 DEF Inv, TypeOK
  <1>3. \A k \in DOMAIN kind : k < next
    <2>1. native \in Seq(Names) /\ next \in Nat /\ DOMAIN kind = 1 .. Len(native)
      BY DEF Inv, TypeOK
    <2>2. Len(native) \in Nat BY <2>1, LenProperties
    <2> QED BY <1>1, <2>1, <2>2
  <1>4. SwapIsNoticed' BY <1>1, <1>3 DEF Inv, SeenInv, SwapIsNoticed
  <1> QED BY <1>1, <1>2, <1>4 DEF Inv, SeenInv

(* Another program exchanges a component. *)
LEMMA SwapStep == ASSUME Inv, NEW k \in DOMAIN kind, Swap(k) PROVE Inv'
  <1>1. PICK new : kind' = [kind EXCEPT ![k] = new]
    BY DEF Swap
  <1>2. /\ pc \in {"first", "second"}
        /\ late' = IF pc = "second" /\ k < next THEN late \cup {k} ELSE late
        /\ UNCHANGED <<requested, allowRoot, native, next, pc>>
    BY DEF Swap, request
  <1>3. /\ DOMAIN kind' = DOMAIN kind
        /\ \A j \in DOMAIN kind : j # k => kind'[j] = kind[j]
    BY <1>1
  <1>4. TypeOK' BY <1>2, <1>3 DEF Inv, TypeOK
  <1>5. SwapIsNoticed' BY <1>2 DEF SwapIsNoticed
  <1>6. ASSUME pc' = "second", NEW j \in DOMAIN kind', j < next',
               kind'[j] # "directory"
        PROVE  j \in late'
    <2>1. pc = "second" /\ j \in DOMAIN kind /\ j < next BY <1>2, <1>3, <1>6
    <2>2. CASE j = k BY <1>2, <2>1, <2>2
    <2>3. CASE j # k
      <3>1. kind[j] # "directory" BY <1>3, <1>6, <2>1, <2>3
      <3>2. j \in late BY <2>1, <3>1 DEF Inv, SeenInv
      <3> QED BY <1>2, <3>2
    <2> QED BY <2>2, <2>3
  <1> QED BY <1>4, <1>5, <1>6 DEF Inv, SeenInv

(* Inv holds in every state. *)
THEOREM Invariance == Spec => []Inv
  <1>1. Init => Inv
    <2> SUFFICES ASSUME Init PROVE Inv
      OBVIOUS
    <2>1. TypeOK BY NoNames DEF Init, TypeOK
    <2>2. SeenInv BY DEF Init, SeenInv, SwapIsNoticed
    <2> QED BY <2>1, <2>2 DEF Inv
  <1>2. Inv /\ [Next]_vars => Inv'
    <2>1. Inv /\ UNCHANGED vars => Inv'
      BY DEF vars, Inv, TypeOK, SeenInv, SwapIsNoticed
    <2> QED
      BY <2>1, ParseStep, ExamineStep, OpenWorkdirStep, LaunchStep, SwapStep
      DEF Next
  <1> QED BY <1>1, <1>2, PTL DEF Spec

-----------------------------------------------------------------------------
(***************************************************************************)
(* The properties of the paths.                                            *)
(***************************************************************************)

(* parseRelativePath accepts a well-formed relative request of any length  *)
(* exactly if following it never leaves the worktree.                      *)
THEOREM StaysInside == Spec => []AcceptedStaysInside
  <1>1. Inv => AcceptedStaysInside
    <2> SUFFICES ASSUME Inv PROVE AcceptedStaysInside
      OBVIOUS
    <2>1. /\ requested \in Requests /\ native \in Seq(Names)
      BY DEF Inv, TypeOK
    <2>2. ASSUME ~Malformed(requested), ~Absolute(requested)
          PROVE  Accepted(requested, TRUE) <=>
                    \A k \in DOMAIN requested :
                       Count(requested, k, {Parent}) <= Count(requested, k, Names)
      <3>1. DOMAIN requested = 1 .. Len(requested) BY <2>1, RequestType
      <3>2. Accepted(requested, TRUE) <=> ~Escapes(Clean(requested))
        BY <2>2 DEF Accepted
      <3>3. ~Escapes(Clean(requested)) <=> Inside(requested, Len(requested))
        BY <2>1, <2>2, CleanStaysInside
      <3> QED BY <3>1, <3>2, <3>3 DEF Inside, Ups, Downs
    <2>3. \A k \in DOMAIN native : native[k] \in Names
      BY <2>1, LenProperties
    <2> QED BY <2>2, <2>3 DEF AcceptedStaysInside
  <1> QED BY <1>1, Invariance, PTL

(* A component that is no directory at the launch was put there behind the *)
(* second look at it.                                                      *)
THEOREM NoticedSwaps == Spec => []SwapIsNoticed
  BY Invariance, PTL DEF Inv, SeenInv

=============================================================================
