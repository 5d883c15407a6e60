------------------------------ MODULE QueueCounts ------------------------------
(***************************************************************************)
(* How often an element occurs in a queue, as elements are appended and    *)
(* taken from the front: what the conservation of frames and of credit on  *)
(* the host's pipe rests on.                                               *)
(***************************************************************************)
EXTENDS Integers, Sequences, FiniteSets, FiniteSetTheorems, FunctionTheorems, TLAPS

OccursIn(X, s) == {i \in 1..Len(s) : s[i] \in X}
OccursAt(x, s) == {i \in 1..Len(s) : s[i] = x}
One(b) == IF b THEN 1 ELSE 0

(* How often an element of a set occurs. *)
LEMMA OccursInFinite ==
    ASSUME NEW X, NEW S, NEW s \in Seq(S)
    PROVE  IsFiniteSet(OccursIn(X, s)) /\ Cardinality(OccursIn(X, s)) \in Nat
<1>1. IsFiniteSet(1..Len(s))
  BY FS_Interval
<1>2. OccursIn(X, s) \in SUBSET (1..Len(s))
  BY DEF OccursIn
<1>3. IsFiniteSet(OccursIn(X, s))
  BY <1>1, <1>2, FS_Subset
<1>4. QED
  BY <1>3, FS_CardinalityType

(* An element added at the end. *)
LEMMA OccursInAppend ==
    ASSUME NEW X, NEW S, NEW s \in Seq(S), NEW f \in S
    PROVE  Cardinality(OccursIn(X, Append(s, f))) = Cardinality(OccursIn(X, s)) + One(f \in X)
<1> DEFINE t == Append(s, f)
           n == Len(s) + 1
<1>1. /\ Len(s) \in Nat /\ Len(t) = n /\ t[n] = f
      /\ \A i \in 1..Len(s) : t[i] = s[i]
  OBVIOUS
<1>2. IsFiniteSet(OccursIn(X, s)) /\ Cardinality(OccursIn(X, s)) \in Nat /\ n \notin OccursIn(X, s)
  <2>1. n \notin 1..Len(s)
    BY <1>1
  <2>2. QED
    BY <2>1, OccursInFinite DEF OccursIn
<1>3. \A i : i \in 1..n <=> i \in 1..Len(s) \/ i = n
  BY <1>1
<1>4. CASE f \in X
  <2>1. OccursIn(X, t) = OccursIn(X, s) \cup {n}
    BY <1>1, <1>3, <1>4 DEF OccursIn
  <2>2. QED
    BY <1>2, <1>4, <2>1, FS_AddElement DEF One
<1>5. CASE f \notin X
  <2>1. OccursIn(X, t) = OccursIn(X, s)
    BY <1>1, <1>3, <1>5 DEF OccursIn
  <2>2. QED
    BY <1>2, <1>5, <2>1 DEF One
<1>6. QED
  BY <1>4, <1>5

(* The first element taken. *)
LEMMA OccursInTail ==
    ASSUME NEW X, NEW S, NEW s \in Seq(S), s # <<>>
    PROVE  Cardinality(OccursIn(X, s)) = Cardinality(OccursIn(X, Tail(s))) + One(Head(s) \in X)
<1> DEFINE t == Tail(s)
           Rest == OccursIn(X, s) \ {1}
           down == [i \in Rest |-> i - 1]
<1>1. /\ Len(s) \in Nat \ {0} /\ t \in Seq(S) /\ Len(t) = Len(s) - 1 /\ Head(s) = s[1]
      /\ \A i \in 1..Len(t) : t[i] = s[i + 1]
  OBVIOUS
<1>2. IsFiniteSet(OccursIn(X, s)) /\ Cardinality(OccursIn(X, s)) \in Nat
  BY OccursInFinite
<1>3. /\ IsFiniteSet(Rest)
      /\ Cardinality(Rest) = IF 1 \in OccursIn(X, s) THEN Cardinality(OccursIn(X, s)) - 1 ELSE Cardinality(OccursIn(X, s))
  BY <1>2, FS_RemoveElement
<1>4. 1 \in OccursIn(X, s) <=> Head(s) \in X
  BY <1>1 DEF OccursIn
<1>5. down \in [Rest -> OccursIn(X, t)]
  <2>1. ASSUME NEW i \in Rest
        PROVE  i - 1 \in OccursIn(X, t)
    <3>1. i \in 1..Len(s) /\ i # 1 /\ s[i] \in X
      BY DEF OccursIn
    <3>2. i - 1 \in 1..Len(t) /\ (i - 1) + 1 = i
      BY <1>1, <3>1
    <3>3. t[i - 1] = s[i]
      BY <1>1, <3>2
    <3>4. QED
      BY <3>1, <3>2, <3>3 DEF OccursIn
  <2>2. QED
    BY <2>1
<1>6. \A i, j \in Rest : down[i] = down[j] => i = j
  BY <1>1 DEF OccursIn
<1>7. \A k \in OccursIn(X, t) : \E i \in Rest : down[i] = k
  <2>1. ASSUME NEW k \in OccursIn(X, t)
        PROVE  k + 1 \in Rest /\ down[k + 1] = k
    <3>1. k \in 1..Len(t) /\ t[k] \in X
      BY DEF OccursIn
    <3>2. k + 1 \in 1..Len(s) /\ k + 1 # 1 /\ s[k + 1] \in X
      BY <1>1, <3>1
    <3>3. k + 1 \in Rest
      BY <3>2 DEF OccursIn
    <3>4. QED
      BY <3>1, <3>3
  <2>2. QED
    BY <2>1
<1>8. down \in Bijection(Rest, OccursIn(X, t))
  BY <1>5, <1>6, <1>7, Fun_IsBij
<1>9. Cardinality(OccursIn(X, t)) = Cardinality(Rest)
  BY <1>3, <1>8, FS_Bijection DEF ExistsBijection
<1>10. QED
  BY <1>2, <1>3, <1>4, <1>9 DEF One

(* The same for one element. *)
LEMMA OccursOne == \A x, s : OccursAt(x, s) = OccursIn({x}, s)
BY DEF OccursAt, OccursIn

LEMMA OccursFinite ==
    ASSUME NEW x, NEW S, NEW s \in Seq(S)
    PROVE  IsFiniteSet(OccursAt(x, s)) /\ Cardinality(OccursAt(x, s)) \in Nat
BY OccursOne, OccursInFinite

LEMMA OccursAppend ==
    ASSUME NEW x, NEW S, NEW s \in Seq(S), NEW f \in S
    PROVE  Cardinality(OccursAt(x, Append(s, f))) = Cardinality(OccursAt(x, s)) + One(f = x)
<1>1. Cardinality(OccursIn({x}, Append(s, f))) = Cardinality(OccursIn({x}, s)) + One(f \in {x})
  BY OccursInAppend
<1>2. (f \in {x}) = (f = x)
  OBVIOUS
<1>3. QED
  BY <1>1, <1>2, OccursOne DEF One

LEMMA OccursTail ==
    ASSUME NEW x, NEW S, NEW s \in Seq(S), s # <<>>
    PROVE  Cardinality(OccursAt(x, s)) = Cardinality(OccursAt(x, Tail(s))) + One(Head(s) = x)
<1>1. Cardinality(OccursIn({x}, s)) = Cardinality(OccursIn({x}, Tail(s))) + One(Head(s) \in {x})
  BY OccursInTail
<1>2. (Head(s) \in {x}) = (Head(s) = x)
  OBVIOUS
<1>3. QED
  BY <1>1, <1>2, OccursOne DEF One
================================================================================
