---------------------------- MODULE QueueCounts ----------------------------
(***************************************************************************)
(* Lemmas about how many handlers of a kind wait in a queue, for the       *)
(* components whose one thread runs its handlers in turn.                  *)
(***************************************************************************)
EXTENDS Integers, Sequences, FiniteSets, FiniteSetTheorems, TLAPS

Places(s, P) == {i \in 1 .. Len(s) : s[i] \in P}
Count(s, P)  == Cardinality(Places(s, P))

\* Counts are numbers.
LEMMA CountNat ==
  ASSUME NEW E, NEW s \in Seq(E), NEW P
  PROVE  IsFiniteSet(Places(s, P)) /\ Count(s, P) \in Nat
<1>1. Len(s) \in Nat /\ Places(s, P) \subseteq 1 .. Len(s)
  BY DEF Places
<1>2. IsFiniteSet(1 .. Len(s))
  BY <1>1, FS_Interval
<1>. QED BY <1>1, <1>2, FS_Subset, FS_CardinalityType DEF Count

\* Nothing waits in an empty queue.
LEMMA CountEmpty == ASSUME NEW P PROVE Count(<<>>, P) = 0
<1>1. Places(<<>>, P) = {}
  BY DEF Places
<1>. QED BY <1>1, FS_EmptySet DEF Count

\* An entry behind the others counts if it is of the kind.
LEMMA CountAppended ==
  ASSUME NEW E, NEW s \in Seq(E), NEW e \in E, NEW P
  PROVE  Count(Append(s, e), P) = IF e \in P THEN Count(s, P) + 1 ELSE Count(s, P)
<1> DEFINE n == Len(s) + 1
<1>1. n \in Nat /\ n \notin Places(s, P)
  BY DEF Places
<1>2. Places(Append(s, e), P) = IF e \in P THEN Places(s, P) \cup {n} ELSE Places(s, P)
  BY DEF Places
<1> HIDE DEF n
<1>3. IsFiniteSet(Places(s, P)) /\ Count(s, P) \in Nat
  BY CountNat
<1>4. Cardinality(Places(s, P) \cup {n}) = Count(s, P) + 1
  BY <1>1, <1>3, FS_AddElement DEF Count
<1>. QED BY <1>2, <1>4 DEF Count

\* The first entry taken away counts if it is of the kind.
LEMMA CountTaken ==
  ASSUME NEW E, NEW s \in Seq(E), s # <<>>, NEW P
  PROVE  Count(s, P) = IF Head(s) \in P THEN Count(Tail(s), P) + 1 ELSE Count(Tail(s), P)
<1> DEFINE T == Places(Tail(s), P)
           U == Places(s, P) \ {1}
           f == [i \in T |-> i + 1]
<1>1. Tail(s) \in Seq(E) /\ Len(Tail(s)) = Len(s) - 1 /\ Len(s) \in Nat /\ Len(s) > 0
  OBVIOUS
<1>2. \A i \in 1 .. Len(s) - 1 : Tail(s)[i] = s[i + 1]
  BY <1>1
<1>3. f \in Bijection(T, U)
  <2>1. f \in [T -> U]
    BY <1>1, <1>2 DEF Places
  <2>2. \A i, j \in T : f[i] = f[j] => i = j
    BY <1>1 DEF Places
  <2>3. \A k \in U : k - 1 \in T /\ f[k - 1] = k
    BY <1>1, <1>2 DEF Places
  <2> HIDE DEF T, U, f
  <2>. QED BY <2>1, <2>2, <2>3 DEF Bijection, Injection, IsInjective, Surjection
<1>4. IsFiniteSet(T) /\ Count(Tail(s), P) \in Nat
  BY <1>1, CountNat
<1>5. IsFiniteSet(U) /\ Cardinality(U) = Count(Tail(s), P)
  <2> HIDE DEF U, f
  <2>. QED BY <1>3, <1>4, FS_Bijection DEF ExistsBijection, Count
<1>6. Places(s, P) = IF Head(s) \in P THEN U \cup {1} ELSE U
  BY <1>1 DEF Places
<1>7. Cardinality(U \cup {1}) = Cardinality(U) + 1
  <2>1. 1 \notin U
    OBVIOUS
  <2> HIDE DEF U
  <2>2. Cardinality(U) \in Nat
    BY <1>4, <1>5
  <2>. QED BY <1>5, <2>1, FS_AddElement
<1>. QED
  <2> HIDE DEF U, T, f
  <2>. QED BY <1>4, <1>5, <1>6, <1>7 DEF Count

\* A queue behind which a handler is put.
LEMMA Put ==
  ASSUME NEW E, NEW s \in Seq(E), NEW h \in E
  PROVE  /\ Append(s, h) \in Seq(E)
         /\ \A P : /\ Count(s, P) \in Nat /\ Count(Append(s, h), P) \in Nat
                   /\ h \in P => Count(Append(s, h), P) = Count(s, P) + 1
                   /\ h \notin P => Count(Append(s, h), P) = Count(s, P)
<1>1. Append(s, h) \in Seq(E)
  OBVIOUS
<1>. QED BY <1>1, CountNat, CountAppended

\* A queue from which the first handler is taken.
LEMMA Taken ==
  ASSUME NEW E, NEW s \in Seq(E), s # <<>>
  PROVE  /\ Tail(s) \in Seq(E) /\ Head(s) \in E
         /\ \A P : /\ Count(s, P) \in Nat /\ Count(Tail(s), P) \in Nat
                   /\ Head(s) \in P => Count(Tail(s), P) = Count(s, P) - 1
                   /\ Head(s) \notin P => Count(Tail(s), P) = Count(s, P)
<1>1. Tail(s) \in Seq(E) /\ Head(s) \in E
  OBVIOUS
<1>2. ASSUME NEW P
      PROVE  /\ Count(s, P) \in Nat /\ Count(Tail(s), P) \in Nat
             /\ Count(s, P) = IF Head(s) \in P THEN Count(Tail(s), P) + 1 ELSE Count(Tail(s), P)
  BY <1>1, CountNat, CountTaken
<1>. QED BY <1>1, <1>2
=============================================================================
