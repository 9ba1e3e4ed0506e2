------------------------- MODULE MultiplicityLemmas -------------------------
(***************************************************************************)
(* Counting in a buffer that is filled at its end and emptied at its       *)
(* front.                                                                  *)
(***************************************************************************)
EXTENDS Multiplicity, FiniteSetTheorems, TLAPS

\* A buffer holds e a natural number of times.
LEMMA BufferedNat ==
    ASSUME NEW S, NEW s \in Seq(S), NEW e
    PROVE  IsFiniteSet(Places(s, e)) /\ Buffered(s, e) \in Nat
<1>1. Len(s) \in Nat
  OBVIOUS
<1>2. IsFiniteSet(1..Len(s))
  BY <1>1, FS_Interval
<1>3. Places(s, e) \in SUBSET (1..Len(s))
  BY DEF Places
<1>4. IsFiniteSet(Places(s, e))
  BY <1>2, <1>3, FS_Subset
<1>5. QED
  BY <1>4, FS_CardinalityType DEF Buffered

\* Appending x adds one to the count of x and to no other.
LEMMA BufferedAppend ==
    ASSUME NEW S, NEW s \in Seq(S), NEW e, NEW x \in S
    PROVE  Buffered(Append(s, x), e) = Buffered(s, e) + (IF x = e THEN 1 ELSE 0)
<1>1. Len(s) \in Nat
  OBVIOUS
<1>2. /\ Len(Append(s, x)) = Len(s) + 1
      /\ \A i \in 1..Len(s) : Append(s, x)[i] = s[i]
      /\ Append(s, x)[Len(s) + 1] = x
  OBVIOUS
<1>3. Len(s) + 1 \notin Places(s, e)
  BY <1>1 DEF Places
<1>4. Places(Append(s, x), e) =
        IF x = e THEN Places(s, e) \cup {Len(s) + 1} ELSE Places(s, e)
  BY <1>1, <1>2 DEF Places
<1>5. Cardinality(Places(s, e) \cup {Len(s) + 1}) = Cardinality(Places(s, e)) + 1
  BY <1>3, BufferedNat, FS_AddElement
<1>6. Cardinality(Places(s, e)) \in Nat
  BY BufferedNat DEF Buffered
<1>7. QED
  BY <1>4, <1>5, <1>6 DEF Buffered

\* Taking the head off subtracts one from its count and from no other.
LEMMA BufferedTail ==
    ASSUME NEW S, NEW s \in Seq(S), s # <<>>, NEW e
    PROVE  Buffered(s, e) = Buffered(Tail(s), e) + (IF Head(s) = e THEN 1 ELSE 0)
<1> DEFINE R == Places(s, e) \ {1}
           T == Places(Tail(s), e)
           f == [i \in T |-> i + 1]
<1>1. /\ Len(s) \in Nat \ {0}
      /\ Tail(s) \in Seq(S)
      /\ Len(Tail(s)) = Len(s) - 1
      /\ \A i \in 1..Len(Tail(s)) : Tail(s)[i] = s[i + 1]
      /\ Head(s) = s[1]
  OBVIOUS
<1>2. f \in Bijection(T, R)
  <2>1. \A i \in T : i + 1 \in R
    BY <1>1 DEF Places
  <2>2. ASSUME NEW j \in R PROVE \E i \in T : f[i] = j
    <3>1. j \in Int /\ j - 1 \in T
      BY <1>1 DEF Places
    <3>2. f[j - 1] = j
      BY <3>1
    <3>3. QED
      BY <3>1, <3>2
  <2>3. \A i, j \in T : i + 1 = j + 1 => i = j
    BY <1>1 DEF Places
  <2>4. f \in [T -> R] /\ \A i, j \in T : f[i] = f[j] => i = j
    BY <2>1, <2>3
  <2>5. QED
    BY <2>2, <2>4 DEF Bijection, Injection, Surjection, IsInjective
<1>3. Cardinality(R) = Cardinality(T)
  <2>1. IsFiniteSet(T)
    BY <1>1, BufferedNat
  <2>2. ExistsBijection(T, R)
    BY <1>2 DEF ExistsBijection
  <2>3. QED
    BY <2>1, <2>2, FS_Bijection
<1>4. 1 \in Places(s, e) <=> Head(s) = e
  BY <1>1 DEF Places
<1>5. Cardinality(R) = IF 1 \in Places(s, e) THEN Cardinality(Places(s, e)) - 1
                                             ELSE Cardinality(Places(s, e))
  BY BufferedNat, FS_RemoveElement
<1>6. /\ Cardinality(Places(s, e)) \in Nat
      /\ Cardinality(T) \in Nat
  BY <1>1, BufferedNat DEF Buffered
<1>7. QED
  BY <1>3, <1>4, <1>5, <1>6 DEF Buffered
=============================================================================
