-------------------------- MODULE WatchOrderProofs --------------------------
(***************************************************************************)
(* Proofs about WatchOrder, for every set of items, every number of        *)
(* editors, every page size and every limit.                               *)
(***************************************************************************)
EXTENDS WatchOrder, FiniteSetTheorems, WellFoundedInduction, TLAPS

(* What the rows of an order are: finitely many, on distinct positions.    *)
Rows(p) ==
    /\ IsFiniteSet(DOMAIN p) /\ p \in [DOMAIN p -> Nat]
    /\ IsInjective(p)

(* Below a used position every position is used. *)
NoGaps(p) == \A i \in DOMAIN p : \A n \in 0..p[i] : \E j \in DOMAIN p : p[j] = n

-----------------------------------------------------------------------------
(* A finite set of numbers has a largest one. *)
LEMMA FiniteMaximum ==
    ASSUME NEW S \in SUBSET Int, IsFiniteSet(S), S # {}
    PROVE  \E m \in S : \A n \in S : n <= m
<1> DEFINE Bad == {T \in FiniteSubsetsOf(S) :
                      T # {} /\ ~ \E m \in T : \A n \in T : n <= m}
<1>1. SUFFICES ASSUME Bad # {} PROVE FALSE
  BY DEF FiniteSubsetsOf
<1>2. IsWellFoundedOn(StrictSubsetOrdering(S), FiniteSubsetsOf(S))
  BY FS_StrictSubsetOrderingWellFounded
<1>3. PICK T \in Bad : \A U \in Bad : <<U, T>> \notin StrictSubsetOrdering(S)
  <2>1. Bad \subseteq FiniteSubsetsOf(S)
    OBVIOUS
  <2> HIDE DEF Bad
  <2> QED BY <1>1, <1>2, <2>1, WFMin
<1>4. PICK x \in T : TRUE
  OBVIOUS
<1>5. IsFiniteSet(T \ {x})
  BY FS_RemoveElement DEF FiniteSubsetsOf
<1>6. T \ {x} \notin Bad
  BY <1>3, <1>4 DEF StrictSubsetOrdering, FiniteSubsetsOf
<1>7. T \ {x} = {} \/ \E m \in T \ {x} : \A n \in T \ {x} : n <= m
  BY <1>5, <1>6 DEF FiniteSubsetsOf
<1>8. T \in SUBSET Int
  BY DEF FiniteSubsetsOf
<1>9. \E m \in T : \A n \in T : n <= m
  BY <1>4, <1>7, <1>8
<1> QED BY <1>9

(* Highest is the last position in use, or -1. *)
LEMMA HighestBounds ==
    ASSUME NEW p, Rows(p)
    PROVE  /\ Highest(p) \in Nat \cup {-1}
           /\ \A i \in DOMAIN p : p[i] <= Highest(p)
           /\ DOMAIN p # {} => \E i \in DOMAIN p : p[i] = Highest(p)
           /\ DOMAIN p = {} => Highest(p) = -1
<1>1. CASE DOMAIN p = {}
  BY <1>1 DEF Highest, Range
<1>2. CASE DOMAIN p # {}
  <2>1. p \in Surjection(DOMAIN p, Range(p))
    BY DEF Rows, Surjection, Range
  <2>2. IsFiniteSet(Range(p))
    BY <2>1, FS_Surjection DEF Rows
  <2>3. Range(p) \in SUBSET Int /\ Range(p) # {}
    BY <1>2 DEF Rows, Range
  <2>4. PICK m \in Range(p) : \A n \in Range(p) : n <= m
    BY <2>2, <2>3, FiniteMaximum
  <2>5. /\ m \in Range(p) \cup {-1}
        /\ \A i \in DOMAIN p : p[i] <= m
    BY <2>4 DEF Range
  <2>6. /\ Highest(p) \in Range(p) \cup {-1}
        /\ \A i \in DOMAIN p : p[i] <= Highest(p)
    BY <2>5 DEF Highest
  <2>7. \A i \in DOMAIN p : p[i] \in Nat
    BY DEF Rows
  <2>8. Highest(p) \in Range(p)
    BY <1>2, <2>6, <2>7
  <2> QED BY <1>2, <2>6, <2>7, <2>8 DEF Range
<1> QED BY <1>1, <1>2

(* An order has no more entries than positions up to its last one. *)
LEMMA EntriesWithinHighest ==
    ASSUME NEW p, Rows(p)
    PROVE  /\ Cardinality(DOMAIN p) \in Nat
           /\ Cardinality(DOMAIN p) <= Highest(p) + 1
<1>1. Highest(p) \in Nat \cup {-1} /\ \A i \in DOMAIN p : p[i] <= Highest(p)
  BY HighestBounds
<1>2. p \in Injection(DOMAIN p, 0..Highest(p))
  <2>1. \A i \in DOMAIN p : p[i] \in 0..Highest(p)
    BY <1>1 DEF Rows
  <2>2. p \in [DOMAIN p -> 0..Highest(p)]
    BY <2>1 DEF Rows
  <2> QED BY <2>2 DEF Rows, Injection
<1>3. IsFiniteSet(0..Highest(p)) /\ Cardinality(0..Highest(p)) = Highest(p) + 1
  <2>1. IsFiniteSet(0..Highest(p)) /\ Cardinality(0..Highest(p)) =
           IF 0 > Highest(p) THEN 0 ELSE Highest(p) - 0 + 1
    BY <1>1, FS_Interval
  <2> QED BY <1>1, <2>1
<1>4. Cardinality(DOMAIN p) <= Cardinality(0..Highest(p))
  BY <1>2, <1>3, FS_Injection
<1> QED BY <1>3, <1>4, FS_CardinalityType DEF Rows

-----------------------------------------------------------------------------
(* Counting the entries before one numbers an order without gaps: the       *)
(* positions _normalise_watch_order_positions assigns.                      *)
LEMMA RankIncreases ==
    ASSUME NEW p, Rows(p)
    PROVE  /\ \A i \in DOMAIN p : Rank(p, i) \in 0..(Cardinality(DOMAIN p) - 1)
           /\ \A i, j \in DOMAIN p : p[i] < p[j] => Rank(p, i) < Rank(p, j)
<1> DEFINE Below(i) == {j \in DOMAIN p : p[j] < p[i]}
<1>1. \A i \in DOMAIN p : p[i] \in Nat
  BY DEF Rows
<1>2. \A S \in SUBSET DOMAIN p :
         /\ IsFiniteSet(S) /\ Cardinality(S) \in Nat
         /\ Cardinality(S) <= Cardinality(DOMAIN p)
         /\ Cardinality(S) = Cardinality(DOMAIN p) => S = DOMAIN p
  BY FS_Subset, FS_CardinalityType DEF Rows
<1>3. ASSUME NEW i \in DOMAIN p
      PROVE  Rank(p, i) \in 0..(Cardinality(DOMAIN p) - 1)
  <2>1. Below(i) \in SUBSET DOMAIN p /\ i \notin Below(i)
    BY <1>1
  <2>2. Cardinality(DOMAIN p) \in Nat
    BY <1>2
  <2> QED BY <1>2, <2>1, <2>2 DEF Rank
<1>4. ASSUME NEW i \in DOMAIN p, NEW j \in DOMAIN p, p[i] < p[j]
      PROVE  Rank(p, i) < Rank(p, j)
  <2>1. Below(i) \subseteq Below(j)
    BY <1>1, <1>4
  <2>2. i \in Below(j) /\ i \notin Below(i)
    BY <1>1, <1>4
  <2>3. IsFiniteSet(Below(j))
    BY <1>2
  <2>4. /\ Cardinality(Below(i)) <= Cardinality(Below(j))
        /\ Cardinality(Below(i)) # Cardinality(Below(j))
    BY <2>1, <2>2, <2>3, FS_Subset
  <2>5. Cardinality(Below(i)) \in Nat /\ Cardinality(Below(j)) \in Nat
    BY <1>2
  <2> QED BY <2>4, <2>5 DEF Rank
<1> QED BY <1>3, <1>4

LEMMA NormalisedNumbersEntries ==
    ASSUME NEW p, Rows(p)
    PROVE  Normalised(p) \in Bijection(DOMAIN p, 0..(Cardinality(DOMAIN p) - 1))
<1> DEFINE S == 0..(Cardinality(DOMAIN p) - 1)
<1>1. \A i, j \in DOMAIN p : p[i] # p[j] => Rank(p, i) # Rank(p, j)
  <2> SUFFICES ASSUME NEW i \in DOMAIN p, NEW j \in DOMAIN p, p[i] # p[j]
               PROVE  Rank(p, i) # Rank(p, j)
    OBVIOUS
  <2>1. p[i] < p[j] \/ p[j] < p[i]
    BY DEF Rows
  <2>2. Rank(p, i) < Rank(p, j) \/ Rank(p, j) < Rank(p, i)
    BY <2>1, RankIncreases
  <2>3. Rank(p, i) \in Int /\ Rank(p, j) \in Int
    BY RankIncreases
  <2> QED BY <2>2, <2>3
<1>2. Normalised(p) \in Injection(DOMAIN p, S)
  <2>1. Normalised(p) \in [DOMAIN p -> S]
    BY RankIncreases DEF Normalised
  <2>2. IsInjective(Normalised(p))
    BY <1>1 DEF Normalised, IsInjective, Rows
  <2> QED BY <2>1, <2>2 DEF Injection
<1>3. IsFiniteSet(S) /\ Cardinality(S) = Cardinality(DOMAIN p)
  <2>1. Cardinality(DOMAIN p) \in Nat
    BY FS_CardinalityType DEF Rows
  <2>2. IsFiniteSet(S) /\ Cardinality(S) =
           IF 0 > Cardinality(DOMAIN p) - 1 THEN 0 ELSE Cardinality(DOMAIN p) - 1 - 0 + 1
    BY <2>1, FS_Interval
  <2> QED BY <2>1, <2>2
<1>4. Normalised(p) \in Surjection(DOMAIN p, S)
  BY <1>2, <1>3, FS_Injection
<1> QED BY <1>2, <1>4 DEF Bijection

LEMMA NormalisedRows ==
    ASSUME NEW p, Rows(p)
    PROVE  /\ DOMAIN Normalised(p) = DOMAIN p
           /\ Rows(Normalised(p)) /\ NoGaps(Normalised(p))
<1> DEFINE q == Normalised(p)
           N == Cardinality(DOMAIN p)
<1>1. DOMAIN q = DOMAIN p
  BY DEF Normalised
<1>2. q \in Injection(DOMAIN p, 0..(N - 1)) /\ q \in Surjection(DOMAIN p, 0..(N - 1))
  BY NormalisedNumbersEntries DEF Bijection
<1>3. N \in Nat
  BY FS_CardinalityType DEF Rows
<1>4. q \in [DOMAIN p -> 0..(N - 1)] /\ IsInjective(q)
  BY <1>2 DEF Injection
<1>5. \A n \in 0..(N - 1) : \E j \in DOMAIN p : q[j] = n
  BY <1>2 DEF Surjection
<1> HIDE DEF q, N
<1>6. q \in [DOMAIN p -> Nat]
  BY <1>3, <1>4
<1>7. NoGaps(q)
  <2> SUFFICES ASSUME NEW i \in DOMAIN p, NEW n \in 0..q[i]
               PROVE  \E j \in DOMAIN p : q[j] = n
    BY <1>1 DEF NoGaps
  <2>1. n \in 0..(N - 1)
    BY <1>3, <1>4
  <2> QED BY <1>5, <2>1
<1> QED BY <1>1, <1>4, <1>6, <1>7 DEF Rows, q

(* Listing the rows in order lists each entry once. *)
LEMMA InOrderListsEntries ==
    ASSUME NEW p, Rows(p)
    PROVE  /\ InOrder(p) \in [1..Cardinality(DOMAIN p) -> DOMAIN p]
           /\ IsInjective(InOrder(p)) /\ Range(InOrder(p)) = DOMAIN p
<1> DEFINE N == Cardinality(DOMAIN p)
           q == InOrder(p)
<1>1. N \in Nat
  BY FS_CardinalityType DEF Rows
<1>2. /\ \A i \in DOMAIN p : Rank(p, i) \in 0..(N - 1)
      /\ \A i, j \in DOMAIN p : Rank(p, i) = Rank(p, j) => i = j
      /\ \A n \in 0..(N - 1) : \E i \in DOMAIN p : Rank(p, i) = n
  <2>1. Normalised(p) \in [DOMAIN p -> 0..(N - 1)] /\ IsInjective(Normalised(p))
    BY NormalisedNumbersEntries DEF Bijection, Injection
  <2>2. \A n \in 0..(N - 1) : \E i \in DOMAIN p : Normalised(p)[i] = n
    BY NormalisedNumbersEntries DEF Bijection, Surjection
  <2> QED BY <2>1, <2>2 DEF Normalised, IsInjective
<1>3. \A n \in 1..N : n - 1 \in 0..(N - 1)
  BY <1>1
<1>4. \A n \in 1..N : q[n] \in DOMAIN p /\ Rank(p, q[n]) = n - 1
  BY <1>2, <1>3 DEF InOrder
<1>5. DOMAIN q = 1..N /\ q \in [1..N -> DOMAIN p]
  BY <1>4 DEF InOrder
<1> HIDE DEF q, N
<1>6. IsInjective(q)
  BY <1>1, <1>4, <1>5 DEF IsInjective
<1>7. ASSUME NEW i \in DOMAIN p PROVE i \in Range(q)
  <2>1. Rank(p, i) + 1 \in 1..N
    BY <1>1, <1>2
  <2>2. Rank(p, q[Rank(p, i) + 1]) = Rank(p, i)
    BY <1>1, <1>2, <1>4, <2>1
  <2>3. q[Rank(p, i) + 1] = i
    BY <1>2, <1>4, <2>1, <2>2
  <2> QED BY <1>5, <2>1, <2>3 DEF Range
<1>8. Range(q) = DOMAIN p
  BY <1>5, <1>7 DEF Range
<1> QED BY <1>5, <1>6, <1>8 DEF q, N

-----------------------------------------------------------------------------
(* What each edit makes of the rows: distinct positions, and no gaps where  *)
(* there were none.                                                         *)
LEMMA NumberedRows ==
    ASSUME NEW S, NEW n \in Nat, NEW seq \in [1..n -> S], IsInjective(seq)
    PROVE  /\ DOMAIN Numbered(seq) = Range(seq) /\ Range(seq) \subseteq S
           /\ Rows(Numbered(seq)) /\ NoGaps(Numbered(seq))
           /\ \A i \in Range(seq) : Numbered(seq)[i] \in 0..(n - 1)
           /\ \A k \in 0..(n - 1) : \E i \in Range(seq) : Numbered(seq)[i] = k
           /\ Cardinality(Range(seq)) = n
<1> DEFINE q == Numbered(seq)
<1>1. DOMAIN q = Range(seq) /\ Range(seq) \subseteq S
  BY DEF Numbered, Range
<1>2. \A i \in Range(seq) : q[i] \in Int /\ q[i] + 1 \in 1..n /\ seq[q[i] + 1] = i
  <2> SUFFICES ASSUME NEW i \in Range(seq)
               PROVE  q[i] \in Int /\ q[i] + 1 \in 1..n /\ seq[q[i] + 1] = i
    OBVIOUS
  <2>1. \E k \in 1..n : seq[k] = i
    BY DEF Range
  <2>2. PICK c : c = (CHOOSE k \in DOMAIN seq : seq[k] = i)
    OBVIOUS
  <2>3. c \in 1..n /\ seq[c] = i
    BY <2>1, <2>2
  <2>4. q[i] = c - 1
    BY <2>2 DEF Numbered
  <2> QED BY <2>3, <2>4
<1>3. \A i \in Range(seq) : q[i] \in 0..(n - 1)
  BY <1>2
<1>4. \A k \in 0..(n - 1) : \E i \in Range(seq) : q[i] = k
  <2> SUFFICES ASSUME NEW k \in 0..(n - 1) PROVE \E i \in Range(seq) : q[i] = k
    OBVIOUS
  <2>1. k + 1 \in 1..n /\ seq[k + 1] \in Range(seq)
    BY DEF Range
  <2>2. q[seq[k + 1]] + 1 = k + 1
    BY <1>2, <2>1 DEF IsInjective
  <2> QED BY <1>2, <2>1, <2>2
<1>5. IsFiniteSet(1..n) /\ Cardinality(1..n) = n
  <2>1. IsFiniteSet(1..n) /\ Cardinality(1..n) = IF 1 > n THEN 0 ELSE n - 1 + 1
    BY FS_Interval
  <2> QED BY <2>1
<1>6. seq \in Surjection(1..n, Range(seq)) /\ seq \in Injection(1..n, Range(seq))
  BY DEF Surjection, Injection, Range
<1>7. IsFiniteSet(Range(seq)) /\ Cardinality(Range(seq)) = n
  BY <1>5, <1>6, FS_Surjection
<1>8. q = [i \in DOMAIN q |-> q[i]]
  BY DEF Numbered
<1> HIDE DEF q
<1>9. q \in [DOMAIN q -> Nat]
  BY <1>1, <1>3, <1>8
<1>10. IsInjective(q)
  BY <1>1, <1>2 DEF IsInjective
<1>11. NoGaps(q)
  <2> SUFFICES ASSUME NEW i \in Range(seq), NEW k \in 0..q[i]
               PROVE  \E j \in Range(seq) : q[j] = k
    BY <1>1 DEF NoGaps
  <2>1. k \in 0..(n - 1)
    BY <1>3
  <2> QED BY <1>4, <2>1
<1> QED BY <1>1, <1>3, <1>4, <1>7, <1>9, <1>10, <1>11 DEF Rows, q

LEMMA RestrictedRows ==
    ASSUME NEW p, Rows(p), NEW S \in SUBSET DOMAIN p
    PROVE  DOMAIN Restrict(p, S) = S /\ Rows(Restrict(p, S))
<1>1. IsFiniteSet(S)
  BY FS_Subset DEF Rows
<1> QED BY <1>1 DEF Restrict, Rows, IsInjective

LEMMA RemovedRows ==
    ASSUME NEW p, Rows(p), NEW item \in DOMAIN p
    PROVE  /\ DOMAIN Removed(p, item) = DOMAIN p \ {item}
           /\ Rows(Removed(p, item))
           /\ NoGaps(p) => NoGaps(Removed(p, item))
<1> DEFINE D == DOMAIN p \ {item}
           q == Removed(p, item)
<1>1. /\ Highest(p) \in Nat \cup {-1} /\ \A i \in DOMAIN p : p[i] <= Highest(p)
  BY HighestBounds
<1>2. \A i \in DOMAIN p : p[i] \in Nat
  BY DEF Rows
<1>3. q = [i \in D |-> IF p[i] > p[item] THEN p[i] - 1 ELSE p[i]]
  <2>1. q = [i \in D |-> IF p[i] \in (p[item] + 1)..Highest(p) THEN p[i] + (-1) ELSE p[i]]
    BY DEF Removed, Shift, Restrict
  <2>2. \A i \in D : p[i] \in (p[item] + 1)..Highest(p) <=> p[i] > p[item]
    BY <1>1, <1>2
  <2>3. \A i \in D : p[i] + (-1) = p[i] - 1
    BY <1>2
  <2> HIDE DEF q
  <2> QED BY <2>1, <2>2, <2>3
<1> HIDE DEF q
<1>4. \A i, j \in DOMAIN p : p[i] = p[j] => i = j
  BY DEF Rows, IsInjective
<1>5. IsFiniteSet(D)
  BY FS_RemoveElement DEF Rows
<1>6. q \in [D -> Nat]
  BY <1>2, <1>3
<1>7. IsInjective(q)
  <2> SUFFICES ASSUME NEW i \in D, NEW j \in D, q[i] = q[j] PROVE i = j
    BY <1>3 DEF IsInjective
  <2>1. p[i] # p[item] /\ p[j] # p[item]
    BY <1>4
  <2>2. p[i] = p[j]
    BY <1>2, <1>3, <2>1
  <2> QED BY <1>4, <2>2
<1>8. ASSUME NoGaps(p) PROVE NoGaps(q)
  <2> SUFFICES ASSUME NEW i \in D, NEW n \in 0..q[i]
               PROVE  \E j \in D : q[j] = n
    BY <1>3 DEF NoGaps
  <2>1. CASE n < p[item]
    <3>1. n \in 0..p[item]
      BY <1>2, <2>1
    <3>2. PICK j \in DOMAIN p : p[j] = n
      BY <1>8, <3>1 DEF NoGaps
    <3> QED BY <1>2, <1>3, <2>1, <3>2
  <2>2. CASE ~(n < p[item])
    <3>1. p[i] # p[item]
      BY <1>4
    <3>2. n + 1 \in 0..p[i] /\ n + 1 > p[item]
      BY <1>2, <1>3, <2>2, <3>1
    <3>3. PICK j \in DOMAIN p : p[j] = n + 1
      BY <1>8, <3>2 DEF NoGaps
    <3> QED BY <1>2, <1>3, <3>2, <3>3
  <2> QED BY <2>1, <2>2
<1> QED BY <1>3, <1>5, <1>6, <1>7, <1>8 DEF Rows, q

LEMMA InsertedRows ==
    ASSUME NEW p, Rows(p), NEW S, NEW k \in Nat, NEW block \in [1..k -> S],
           IsInjective(block), Range(block) \cap DOMAIN p = {},
           NEW before, NEW after, before # NoItem => before \in DOMAIN p,
           after # NoItem => after \in DOMAIN p
    PROVE  /\ DOMAIN Inserted(p, block, before, after) = DOMAIN p \cup Range(block)
           /\ Rows(Inserted(p, block, before, after))
           /\ NoGaps(p) => NoGaps(Inserted(p, block, before, after))
<1> DEFINE D == DOMAIN p
           B == Range(block)
           b == Numbered(block)
           at == InsertionPosition(p, before, after)
           q == Inserted(p, block, before, after)
<1>1. /\ Highest(p) \in Nat \cup {-1} /\ \A i \in D : p[i] <= Highest(p)
  BY HighestBounds
<1>2. /\ \A i \in D : p[i] \in Nat
      /\ \A i, j \in D : p[i] = p[j] => i = j
  BY DEF Rows, IsInjective
<1>3. /\ at \in Nat /\ at <= Highest(p) + 1
      /\ NoGaps(p) => \A n \in 0..(at - 1) : \E j \in D : p[j] = n
  <2>1. CASE before # NoItem
    BY <1>1, <1>2, <2>1 DEF InsertionPosition, NoGaps
  <2>2. CASE before = NoItem /\ after # NoItem
    BY <1>1, <1>2, <2>2 DEF InsertionPosition, NoGaps
  <2>3. CASE before = NoItem /\ after = NoItem
    <3>1. at = Highest(p) + 1
      BY <2>3 DEF InsertionPosition
    <3>2. ASSUME NoGaps(p), NEW n \in 0..(at - 1) PROVE \E j \in D : p[j] = n
      <4>1. Highest(p) # -1
        BY <1>1, <3>1
      <4>2. PICK i \in D : p[i] = Highest(p)
        BY <4>1, HighestBounds
      <4> QED BY <1>1, <3>1, <3>2, <4>2 DEF NoGaps
    <3> QED BY <1>1, <3>1, <3>2
  <2> QED BY <2>1, <2>2, <2>3
<1>4. /\ DOMAIN b = B /\ Rows(b)
      /\ \A i \in B : b[i] \in 0..(k - 1)
      /\ \A n \in 0..(k - 1) : \E i \in B : b[i] = n
  BY NumberedRows
<1>5. Len(block) = k
  BY DOMAIN block = 1..k
<1>6. q = [i \in D \cup B |-> IF i \in D THEN (IF p[i] >= at THEN p[i] + k ELSE p[i])
                              ELSE at + b[i]]
  <2>1. q = [i \in D \cup B |->
                IF i \in D THEN (IF p[i] \in at..Highest(p) THEN p[i] + k ELSE p[i])
                ELSE at + b[i]]
    BY <1>5 DEF Inserted, Shift
  <2>2. \A i \in D : p[i] \in at..Highest(p) <=> p[i] >= at
    BY <1>1, <1>2, <1>3
  <2> HIDE DEF q, at, b
  <2> QED BY <2>1, <2>2
<1> HIDE DEF q, at, b
<1>7. IsFiniteSet(D \cup B)
  BY <1>4, FS_Union DEF Rows
<1>8. q \in [D \cup B -> Nat]
  BY <1>2, <1>3, <1>4, <1>6
<1>9. \A i, j \in B : b[i] = b[j] => i = j
  BY <1>4 DEF Rows, IsInjective
<1>10. IsInjective(q)
  <2> SUFFICES ASSUME NEW i \in D \cup B, NEW j \in D \cup B, q[i] = q[j] PROVE i = j
    BY <1>6 DEF IsInjective
  <2>1. CASE i \in D /\ j \in D
    BY <1>2, <1>3, <1>6, <2>1
  <2>2. CASE i \notin D /\ j \notin D
    BY <1>3, <1>4, <1>6, <1>9, <2>2
  <2>3. CASE i \in D /\ j \notin D
    BY <1>2, <1>3, <1>4, <1>6, <2>3
  <2>4. CASE i \notin D /\ j \in D
    BY <1>2, <1>3, <1>4, <1>6, <2>4
  <2> QED BY <2>1, <2>2, <2>3, <2>4
<1>11. ASSUME NoGaps(p) PROVE NoGaps(q)
  <2> SUFFICES ASSUME NEW i \in D \cup B, NEW n \in 0..q[i]
               PROVE  \E j \in D \cup B : q[j] = n
    BY <1>6 DEF NoGaps
  <2>1. CASE n < at
    <3>1. n \in 0..(at - 1)
      BY <1>3, <1>8, <2>1
    <3>2. PICK j \in D : p[j] = n
      BY <1>3, <1>11, <3>1
    <3> QED BY <1>3, <1>6, <2>1, <3>2
  <2>2. CASE n >= at /\ n < at + k
    <3>1. n - at \in 0..(k - 1)
      BY <1>3, <1>8, <2>2
    <3>2. PICK j \in B : b[j] = n - at
      BY <1>4, <3>1
    <3>3. j \notin D
      OBVIOUS
    <3> QED BY <1>3, <1>6, <1>8, <3>2, <3>3
  <2>3. CASE n >= at + k
    <3>1. i \in D /\ p[i] >= at /\ q[i] = p[i] + k
      BY <1>2, <1>3, <1>4, <1>6, <1>8, <2>3
    <3>2. n - k \in 0..p[i] /\ n - k >= at
      BY <1>2, <1>3, <2>3, <3>1
    <3>3. PICK j \in D : p[j] = n - k
      BY <1>11, <3>1, <3>2 DEF NoGaps
    <3> QED BY <1>3, <1>6, <1>8, <3>1, <3>2, <3>3
  <2> QED BY <1>3, <1>8, <2>1, <2>2, <2>3
<1> QED BY <1>6, <1>7, <1>8, <1>10, <1>11 DEF Rows, q

(* Counting the entries without the moved one gives a place among the       *)
(* positions in use.                                                        *)
LEMMA MoveTargetBounds ==
    ASSUME NEW p, Rows(p), NEW item \in DOMAIN p, NEW before, NEW after,
           before # NoItem => before \in DOMAIN p \ {item},
           after # NoItem => after \in DOMAIN p \ {item}
    PROVE  /\ MoveTarget(p, item, before, after) \in Nat
           /\ MoveTarget(p, item, before, after) <= Highest(p)
           /\ Highest(p) \in Nat
<1> DEFINE D == DOMAIN p \ {item}
           rest == Restrict(p, D)
           t == MoveTarget(p, item, before, after)
<1>1. DOMAIN rest = D /\ Rows(rest)
  BY RestrictedRows
<1>2. /\ Cardinality(D) = Cardinality(DOMAIN p) - 1
      /\ Cardinality(D) \in Nat
  BY <1>1, FS_RemoveElement, FS_CardinalityType DEF Rows
<1>3. /\ Cardinality(DOMAIN p) \in Nat
      /\ Cardinality(DOMAIN p) <= Highest(p) + 1
  BY EntriesWithinHighest
<1>4. Highest(p) \in Nat
  <2>1. Highest(p) \in Nat \cup {-1} /\ p[item] <= Highest(p)
    BY HighestBounds
  <2> QED BY <2>1 DEF Rows
<1>5. \A i \in D : Rank(rest, i) \in 0..(Cardinality(D) - 1)
  BY <1>1, RankIncreases
<1>6. t \in 0..Cardinality(D)
  <2>1. t = IF before # NoItem THEN Rank(rest, before)
            ELSE IF after # NoItem THEN Rank(rest, after) + 1
            ELSE Cardinality(D)
    BY <1>1 DEF MoveTarget
  <2> HIDE DEF rest, t, D
  <2> QED BY <1>2, <1>5, <2>1 DEF D
<1> QED BY <1>2, <1>3, <1>4, <1>6

LEMMA MovedRows ==
    ASSUME NEW p, Rows(p), NEW item \in DOMAIN p, NEW before, NEW after,
           before # NoItem => before \in DOMAIN p \ {item},
           after # NoItem => after \in DOMAIN p \ {item}
    PROVE  /\ DOMAIN Moved(p, item, before, after) = DOMAIN p
           /\ Rows(Moved(p, item, before, after))
           /\ NoGaps(p) => NoGaps(Moved(p, item, before, after))
<1> DEFINE D == DOMAIN p
           q == Moved(p, item, before, after)
           t == MoveTarget(p, item, before, after)
           o == p[item]
<1>1. t \in Nat /\ t <= Highest(p) /\ Highest(p) \in Nat
  BY MoveTargetBounds
<1>2. /\ \A i \in D : p[i] \in Nat /\ p[i] <= Highest(p)
      /\ \A i, j \in D : p[i] = p[j] => i = j
  BY HighestBounds DEF Rows, IsInjective
<1>3. CASE t = o
  <2>1. q = p
    BY <1>3 DEF Moved
  <2> QED BY <2>1
<1>4. CASE t < o
  <2>1. MoveShift(o, t) = <<t, o - 1, 1>>
    BY <1>4 DEF MoveShift
  <2>2. q = [Shift(Parked(p, item), t, o - 1, 1) EXCEPT ![item] = t]
    BY <1>1, <1>2, <1>4, <2>1 DEF Moved
  <2>3. q = [i \in D |-> IF i = item THEN t
                         ELSE IF p[i] \in t..(o - 1) THEN p[i] + 1 ELSE p[i]]
    BY <2>2 DEF Shift, Parked, Rows
  <2> HIDE DEF q, t
  <2>4. q \in [D -> Nat]
    BY <1>1, <1>2, <2>3
  <2>5. IsInjective(q)
    BY <1>1, <1>2, <1>4, <2>3 DEF IsInjective
  <2>6. ASSUME NoGaps(p) PROVE NoGaps(q)
    <3> SUFFICES ASSUME NEW i \in D, NEW n \in 0..q[i]
                 PROVE  \E j \in D : q[j] = n
      BY <2>3 DEF NoGaps
    <3>1. \A m \in 0..o : \E j \in D : p[j] = m
      BY <2>6 DEF NoGaps
    <3>2. CASE n < t
      <4>1. PICK j \in D : p[j] = n
        BY <1>1, <1>2, <1>4, <2>4, <3>1, <3>2
      <4> QED BY <1>1, <1>2, <1>4, <2>3, <3>2, <4>1
    <3>3. CASE n = t
      BY <2>3, <3>3
    <3>4. CASE n > t /\ n <= o
      <4>1. n - 1 \in t..(o - 1) /\ n - 1 \in 0..o
        BY <1>1, <1>2, <2>4, <3>4
      <4>2. PICK j \in D : p[j] = n - 1
        BY <3>1, <4>1
      <4> QED BY <1>1, <1>2, <2>3, <2>4, <4>1, <4>2
    <3>5. CASE n > o
      <4>1. p[i] > o /\ n \in 0..p[i]
        BY <1>1, <1>2, <1>4, <2>3, <3>5
      <4>2. PICK j \in D : p[j] = n
        BY <2>6, <4>1 DEF NoGaps
      <4> QED BY <1>1, <1>2, <1>4, <2>3, <3>5, <4>2
    <3> QED BY <1>1, <1>2, <2>4, <3>2, <3>3, <3>4, <3>5
  <2> QED BY <2>3, <2>4, <2>5, <2>6 DEF Rows, q
<1>5. CASE t > o
  <2>1. MoveShift(o, t) = <<o + 1, t, -1>>
    BY <1>1, <1>2, <1>5 DEF MoveShift
  <2>2. q = [Shift(Parked(p, item), o + 1, t, -1) EXCEPT ![item] = t]
    BY <1>1, <1>2, <1>5, <2>1 DEF Moved
  <2>3. q = [i \in D |-> IF i = item THEN t
                         ELSE IF p[i] \in (o + 1)..t THEN p[i] + (-1) ELSE p[i]]
    BY <2>2 DEF Shift, Parked, Rows
  <2> HIDE DEF q, t
  <2>4. q \in [D -> Nat]
    BY <1>1, <1>2, <2>3
  <2>5. IsInjective(q)
    BY <1>1, <1>2, <1>5, <2>3 DEF IsInjective
  <2>6. ASSUME NoGaps(p) PROVE NoGaps(q)
    <3> SUFFICES ASSUME NEW i \in D, NEW n \in 0..q[i]
                 PROVE  \E j \in D : q[j] = n
      BY <2>3 DEF NoGaps
    <3>1. PICK top \in D : p[top] = Highest(p)
      BY HighestBounds
    <3>2. \A m \in 0..Highest(p) : \E j \in D : p[j] = m
      BY <2>6, <3>1 DEF NoGaps
    <3>3. CASE n = t
      BY <2>3, <3>3
    <3>4. CASE n < o \/ n > t
      <4>1. n \in 0..Highest(p)
        BY <1>1, <1>2, <2>3, <2>4
      <4>2. PICK j \in D : p[j] = n
        BY <3>2, <4>1
      <4> QED BY <1>1, <1>2, <1>5, <2>3, <3>4, <4>2
    <3>5. CASE n >= o /\ n < t
      <4>1. n + 1 \in (o + 1)..t /\ n + 1 \in 0..Highest(p)
        BY <1>1, <1>2, <2>4, <3>5
      <4>2. PICK j \in D : p[j] = n + 1
        BY <3>2, <4>1
      <4> QED BY <1>1, <1>2, <2>3, <2>4, <4>1, <4>2
    <3> QED BY <1>1, <1>2, <2>4, <3>3, <3>4, <3>5
  <2> QED BY <2>3, <2>4, <2>5, <2>6 DEF Rows, q
<1> QED BY <1>1, <1>2, <1>3, <1>4, <1>5

-----------------------------------------------------------------------------
(* The two statements of _shift_positions meet no row on the way unless the *)
(* places they end on are taken by rows that stay.                          *)
LEMMA ShiftDoesNotCollide ==
    ASSUME NEW p, Rows(p), NEW first \in Nat, NEW last \in Int, NEW delta \in Int,
           \A i, j \in DOMAIN p :
              p[i] \in first..last /\ p[j] \notin first..last => p[j] # p[i] + delta
    PROVE  ~ShiftCollides(p, first, last, delta)
<1> DEFINE D == DOMAIN p
           rows == {i \in D : p[i] \in first..last}
           off == Offset(p, first, last, delta)
           away == [i \in D |-> IF i \in rows THEN p[i] + off ELSE p[i]]
<1>1. /\ Highest(p) \in Nat \cup {-1}
      /\ \A i \in D : p[i] \in Nat /\ p[i] <= Highest(p)
  BY HighestBounds DEF Rows
<1>2. off \in Int
  BY <1>1 DEF Offset
<1>3. \A i \in rows : p[i] + off > Highest(p) /\ p[i] + off > last + delta
  <2> SUFFICES ASSUME NEW i \in rows
               PROVE  p[i] + off > Highest(p) /\ p[i] + off > last + delta
    OBVIOUS
  <2>1. first <= last /\ first <= p[i] /\ p[i] \in Nat
    BY <1>1
  <2>2. CASE delta < 0
    <3>1. off = Highest(p) + (last - first + 1) + (-delta) + 1
      BY <2>2 DEF Offset
    <3> HIDE DEF off
    <3> QED BY <1>1, <2>1, <2>2, <3>1
  <2>3. CASE ~(delta < 0)
    <3>1. off = Highest(p) + (last - first + 1) + delta + 1
      BY <2>3 DEF Offset
    <3> HIDE DEF off
    <3> QED BY <1>1, <2>1, <2>3, <3>1
  <2> QED BY <2>2, <2>3
<1>4. {away[i] : i \in rows} \cap Range(p) = {}
  <2> SUFFICES ASSUME NEW i \in rows, NEW j \in D, away[i] = p[j] PROVE FALSE
    BY DEF Range
  <2>1. away[i] = p[i] + off
    OBVIOUS
  <2>2. p[i] + off > Highest(p) /\ p[i] \in Nat
    BY <1>1, <1>3
  <2>3. p[j] \in Nat /\ p[j] <= Highest(p)
    BY <1>1
  <2> HIDE DEF off, away, rows
  <2> QED BY <1>1, <1>2, <2>1, <2>2, <2>3
<1>5. {p[i] + delta : i \in rows} \cap Range(away) = {}
  <2> SUFFICES ASSUME NEW i \in rows, NEW j \in D, p[i] + delta = away[j] PROVE FALSE
    BY DEF Range
  <2>1. away[j] = IF j \in rows THEN p[j] + off ELSE p[j]
    OBVIOUS
  <2> HIDE DEF off, away
  <2>2. CASE j \in rows
    BY <1>1, <1>2, <1>3, <2>1, <2>2
  <2>3. CASE j \notin rows
    BY <2>1, <2>3
  <2> QED BY <2>2, <2>3
<1>6. ShiftCollides(p, first, last, delta) <=>
         \/ {away[i] : i \in rows} \cap Range(p) # {}
         \/ {p[i] + delta : i \in rows} \cap Range(away) # {}
  BY DEF ShiftCollides
<1> QED BY <1>4, <1>5, <1>6

LEMMA RemovalDoesNotCollide ==
    ASSUME NEW item \in Entries, Rows(position)
    PROVE  ~RemoveCollides(item)
<1> DEFINE rest == Restrict(position, Entries \ {item})
<1>1. DOMAIN rest = Entries \ {item} /\ Rows(rest)
  BY RestrictedRows DEF Entries
<1>2. \A i \in Entries \ {item} : rest[i] = position[i]
  BY DEF Restrict
<1>3. /\ Highest(position) \in Int
      /\ \A i \in Entries : position[i] \in Nat /\ position[i] <= Highest(position)
      /\ \A i, j \in Entries : position[i] = position[j] => i = j
  BY HighestBounds DEF Rows, IsInjective, Entries
<1> HIDE DEF rest
<1>4. \A i, j \in DOMAIN rest :
         rest[i] \in (position[item] + 1)..Highest(position)
         /\ rest[j] \notin (position[item] + 1)..Highest(position) =>
            rest[j] # rest[i] + (-1)
  BY <1>1, <1>2, <1>3
<1>5. position[item] + 1 \in Nat /\ Highest(position) \in Int /\ -1 \in Int
  BY <1>3
<1>6. ~ShiftCollides(rest, position[item] + 1, Highest(position), -1)
  BY <1>1, <1>4, <1>5, ShiftDoesNotCollide
<1> QED BY <1>6 DEF RemoveCollides, rest

LEMMA InsertionDoesNotCollide ==
    ASSUME NEW n \in Nat, Rows(position),
           NEW before \in Entries \cup {NoItem}, NEW after \in Entries \cup {NoItem}
    PROVE  ~InsertCollides(n, before, after)
<1> DEFINE at == InsertionPosition(position, before, after)
           high == Highest(position)
           q == Shift(position, at, high, n)
<1>1. /\ high \in Nat \cup {-1}
      /\ \A i \in Entries : position[i] \in Nat /\ position[i] <= high
  BY HighestBounds DEF Rows, Entries
<1>2. at \in Nat
  BY <1>1 DEF InsertionPosition
<1>3. \A i \in Entries : q[i] = IF position[i] >= at THEN position[i] + n ELSE position[i]
  BY <1>1, <1>2 DEF Shift, Entries
<1>4. DOMAIN q = Entries
  BY DEF Shift, Entries
<1> HIDE DEF at, high, q
<1>5. ~ShiftCollides(position, at, high, n)
  <2>1. \A i, j \in DOMAIN position :
           position[i] \in at..high /\ position[j] \notin at..high =>
              position[j] # position[i] + n
    BY <1>1, <1>2 DEF Entries
  <2>2. high \in Int /\ n \in Int
    BY <1>1
  <2> QED BY <1>2, <2>1, <2>2, ShiftDoesNotCollide
<1>6. Range(q) \cap at..(at + n - 1) = {}
  <2> SUFFICES ASSUME NEW i \in Entries, q[i] \in at..(at + n - 1) PROVE FALSE
    BY <1>4 DEF Range
  <2> QED BY <1>1, <1>2, <1>3
<1> QED BY <1>5, <1>6 DEF InsertCollides, at, high, q

LEMMA MoveDoesNotCollide ==
    ASSUME NEW item \in Entries, Rows(position),
           NEW before, NEW after,
           before # NoItem => before \in Entries \ {item},
           after # NoItem => after \in Entries \ {item}
    PROVE  ~MoveCollides(item, before, after)
<1> DEFINE t == MoveTarget(position, item, before, after)
           o == position[item]
           high == Highest(position)
           p == Parked(position, item)
           s == MoveShift(o, t)
           q == Shift(p, s[1], s[2], s[3])
<1>1. t \in Nat /\ t <= high /\ high \in Nat
  BY MoveTargetBounds DEF Entries
<1>2. /\ \A i \in Entries : position[i] \in Nat /\ position[i] <= high
      /\ \A i, j \in Entries : position[i] = position[j] => i = j
  BY HighestBounds DEF Rows, IsInjective, Entries
<1>3. /\ DOMAIN p = Entries
      /\ \A i \in Entries : p[i] = IF i = item THEN high + 1 ELSE position[i]
  BY DEF Parked, Rows, Entries
<1>4. Rows(p)
  <2>1. p \in [Entries -> Nat]
    BY <1>1, <1>2 DEF Parked, Rows, Entries
  <2>2. IsInjective(p)
    <3> HIDE DEF p, high
    <3> QED BY <1>1, <1>2, <1>3 DEF IsInjective
  <2> QED BY <1>3, <2>1, <2>2 DEF Rows, Entries
<1> SUFFICES ASSUME t # o
             PROVE  /\ ~ShiftCollides(p, s[1], s[2], s[3])
                    /\ \A i \in Entries : q[i] # t
  BY <1>3 DEF MoveCollides, Range, Shift
<1>5. CASE t < o
  <2>1. s[1] = t /\ s[2] = o - 1 /\ s[3] = 1
    BY <1>5 DEF MoveShift
  <2>2. \A i \in Entries : q[i] = IF p[i] \in t..(o - 1) THEN p[i] + 1 ELSE p[i]
    BY <1>3, <2>1 DEF Shift
  <2>3. o \in Nat /\ o <= high
    BY <1>2
  <2>4. \A i \in Entries : p[i] \in Nat /\ p[i] # o
    BY <1>1, <1>2, <1>3
  <2> HIDE DEF t, p, s, q, high, o
  <2>5. ~ShiftCollides(p, t, o - 1, 1)
    <3>1. \A i, j \in DOMAIN p : p[i] \in t..(o - 1) /\ p[j] \notin t..(o - 1) =>
             p[j] # p[i] + 1
      BY <1>1, <1>3, <2>3, <2>4
    <3>2. o - 1 \in Int
      BY <2>3
    <3> QED BY <1>1, <1>4, <3>1, <3>2, ShiftDoesNotCollide
  <2>6. \A i \in Entries : q[i] # t
    BY <1>1, <1>5, <2>2, <2>3, <2>4
  <2> QED BY <2>1, <2>5, <2>6
<1>6. CASE ~(t < o)
  <2>1. s[1] = o + 1 /\ s[2] = t /\ s[3] = -1
    BY <1>6 DEF MoveShift
  <2>2. \A i \in Entries : q[i] = IF p[i] \in (o + 1)..t THEN p[i] + (-1) ELSE p[i]
    BY <1>3, <2>1 DEF Shift
  <2>3. o \in Nat /\ o <= high /\ t > o
    BY <1>1, <1>2, <1>6
  <2>4. \A i \in Entries : p[i] \in Nat /\ p[i] # o
    BY <1>1, <1>2, <1>3
  <2> HIDE DEF t, p, s, q, high, o
  <2>5. ~ShiftCollides(p, o + 1, t, -1)
    <3>1. \A i, j \in DOMAIN p : p[i] \in (o + 1)..t /\ p[j] \notin (o + 1)..t =>
             p[j] # p[i] + (-1)
      BY <1>1, <1>3, <2>3, <2>4
    <3>2. o + 1 \in Nat /\ t \in Int /\ -1 \in Int
      BY <1>1, <2>3
    <3> QED BY <1>4, <3>1, <3>2, ShiftDoesNotCollide
  <2>6. \A i \in Entries : q[i] # t
    BY <1>1, <2>2, <2>3, <2>4
  <2> QED BY <2>1, <2>5, <2>6
<1> QED BY <1>5, <1>6

-----------------------------------------------------------------------------
(* The inductive invariant: distinct positions, of items that exist, within *)
(* the limit.                                                               *)
OrderInv ==
    /\ catalogue \subseteq Items
    /\ Rows(position) /\ Entries \subseteq catalogue
    /\ Cardinality(Entries) <= MaxEntries

(* With it, and as long as items go by delete_item only, no gaps. *)
GapInv == OrderInv /\ NoGaps(position)

LEMMA DistinctIsInjective ==
    ASSUME NEW S \in SUBSET Items, NEW seq \in Distinct(S)
    PROVE  \E n \in Nat : n = Len(seq) /\ seq \in [1..n -> S] /\ IsInjective(seq)
<1>1. IsFiniteSet(S) /\ Cardinality(S) \in Nat
  BY WatchOrderAssumption, FS_Subset, FS_CardinalityType
<1>2. PICK n \in 0..Cardinality(S) : seq \in {f \in [1..n -> S] : IsInjective(f)}
  BY DEF Distinct
<1>3. n \in Nat /\ DOMAIN seq = 1..n
  BY <1>1, <1>2
<1>4. Len(seq) = n
  BY <1>3
<1> QED BY <1>2, <1>3, <1>4

(* A list of entries followed by others lists no item twice. *)
LEMMA ConcatenationIsInjective ==
    ASSUME NEW S, NEW s, NEW t,
           \E k \in Nat : s \in [1..k -> S], IsInjective(s),
           \E n \in Nat : t \in [1..n -> S \ Range(s)], IsInjective(t)
    PROVE  \E n \in Nat : /\ n = Len(s \o t) /\ s \o t \in [1..n -> S]
                          /\ IsInjective(s \o t)
<1>0. PICK k \in Nat, n \in Nat : s \in [1..k -> S] /\ t \in [1..n -> S \ Range(s)]
  OBVIOUS
<1>1. /\ s \in Seq(S) /\ Len(s) = k
      /\ t \in Seq(S) /\ Len(t) = n
  BY <1>0
<1>2. s \o t \in Seq(S) /\ Len(s \o t) = k + n
  BY <1>1
<1>3. \A m \in 1..(k + n) : (s \o t)[m] = IF m <= k THEN s[m] ELSE t[m - k]
  BY <1>1
<1>4. DOMAIN (s \o t) = 1..(k + n)
  BY <1>2
<1>5. DOMAIN s = 1..k /\ \A a \in 1..k : s[a] \in Range(s)
  BY <1>0 DEF Range
<1>6. DOMAIN t = 1..n /\ \A a \in 1..n : t[a] \notin Range(s)
  BY <1>0
<1>7. IsInjective(s \o t)
  <2> SUFFICES ASSUME NEW a \in 1..(k + n), NEW b \in 1..(k + n),
                      (s \o t)[a] = (s \o t)[b]
               PROVE  a = b
    BY <1>4 DEF IsInjective
  <2>1. CASE a <= k /\ b <= k
    <3>1. a \in 1..k /\ b \in 1..k /\ s[a] = s[b]
      BY <1>0, <1>3, <2>1
    <3> QED BY <1>5, <3>1 DEF IsInjective
  <2>2. CASE a > k /\ b > k
    <3>1. a - k \in 1..n /\ b - k \in 1..n /\ t[a - k] = t[b - k]
      BY <1>0, <1>3, <2>2
    <3>2. a - k = b - k
      BY <1>6, <3>1 DEF IsInjective
    <3> QED BY <3>2
  <2>3. CASE a <= k /\ b > k
    <3>1. a \in 1..k /\ b - k \in 1..n /\ s[a] = t[b - k]
      BY <1>0, <1>3, <2>3
    <3> QED BY <1>5, <1>6, <3>1
  <2>4. CASE a > k /\ b <= k
    <3>1. b \in 1..k /\ a - k \in 1..n /\ s[b] = t[a - k]
      BY <1>0, <1>3, <2>4
    <3> QED BY <1>5, <1>6, <3>1
  <2> QED BY <2>1, <2>2, <2>3, <2>4
<1>8. s \o t \in [1..(k + n) -> S]
  <2>1. \A u \in Seq(S) : u \in [1..Len(u) -> S]
    OBVIOUS
  <2> QED BY <1>2, <2>1
<1>9. k + n \in Nat
  OBVIOUS
<1> QED BY <1>2, <1>7, <1>8, <1>9

-----------------------------------------------------------------------------
(* _replace_watch_order_entries: every entry anew. *)
LEMMA ReplacingKeepsOrder ==
    ASSUME OrderInv, NEW n \in Nat, NEW seq \in [1..n -> catalogue], IsInjective(seq),
           n <= MaxEntries, position' = Numbered(seq), catalogue' = catalogue
    PROVE  GapInv'
<1>1. /\ DOMAIN Numbered(seq) = Range(seq) /\ Range(seq) \subseteq catalogue
      /\ Rows(Numbered(seq)) /\ NoGaps(Numbered(seq))
      /\ Cardinality(Range(seq)) = n
  BY NumberedRows
<1> QED BY <1>1 DEF GapInv, OrderInv, Entries

LEMMA InsertKeepsOrder ==
    ASSUME OrderInv, NEW e, NEW k \in Nat, NEW block \in [1..k -> catalogue],
           IsInjective(block), NEW before, NEW after, Insert(e, block, before, after),
           Cardinality(Entries) + k <= MaxEntries
    PROVE  OrderInv' /\ (NoGaps(position) => NoGaps(position)')
<1> DEFINE q == Inserted(position, block, before, after)
<1>1. position' = q /\ catalogue' = catalogue
  BY DEF Insert, Answer
<1>2. NoItem \notin Entries
  BY WatchOrderAssumption DEF OrderInv
<1>3. /\ before # NoItem => before \in DOMAIN position
      /\ after # NoItem => after \in DOMAIN position
  BY DEF Insert, AnchorExists, Entries
<1>4. Range(block) \cap DOMAIN position = {} /\ Rows(position)
  BY DEF Insert, Entries, OrderInv
<1>5. /\ DOMAIN q = DOMAIN position \cup Range(block)
      /\ Rows(q)
      /\ NoGaps(position) => NoGaps(q)
  BY <1>3, <1>4, InsertedRows
<1>6. IsFiniteSet(Range(block)) /\ Cardinality(Range(block)) = k /\ Range(block) \subseteq catalogue
  BY NumberedRows DEF Rows
<1>7. Cardinality(DOMAIN q) = Cardinality(Entries) + k
  <2>1. Cardinality(DOMAIN position \cup Range(block)) =
           Cardinality(DOMAIN position) + Cardinality(Range(block)) - Cardinality({})
    BY <1>4, <1>6, FS_Union DEF Rows
  <2>2. Cardinality(DOMAIN position) \in Nat /\ Cardinality({}) = 0
    BY <1>4, FS_CardinalityType, FS_EmptySet DEF Rows
  <2> HIDE DEF q
  <2> QED BY <1>5, <1>6, <2>1, <2>2 DEF Entries
<1> HIDE DEF q
<1> QED BY <1>1, <1>5, <1>6, <1>7 DEF OrderInv, Entries

LEMMA EditKeepsOrder ==
    ASSUME OrderInv, NEW e \in Editors, Edit(e)
    PROVE  OrderInv' /\ (NoGaps(position) => NoGaps(position)')
<1>1. CASE Save(e)
  <2>1. PICK seq \in Distinct(catalogue) :
           /\ Len(seq) <= MaxEntries /\ position' = Numbered(seq) /\ catalogue' = catalogue
    BY <1>1 DEF Save
  <2>2. \E n \in Nat : n = Len(seq) /\ seq \in [1..n -> catalogue] /\ IsInjective(seq)
    BY <2>1, DistinctIsInjective DEF OrderInv
  <2>3. GapInv'
    BY <2>1, <2>2, ReplacingKeepsOrder
  <2> QED BY <2>3 DEF GapInv
<1>2. CASE AddEntry(e)
  <2>1. PICK i \in catalogue, before \in Items \cup {NoItem}, after \in Items \cup {NoItem} :
           Insert(e, <<i>>, before, after)
    BY <1>2 DEF AddEntry
  <2>2. <<i>> \in [1..1 -> catalogue] /\ IsInjective(<<i>>)
    BY DEF IsInjective
  <2>3. Cardinality(Entries) + 1 <= MaxEntries
    <3>1. Highest(position) + 2 <= MaxEntries
      BY <1>2 DEF AddEntry
    <3>2. /\ Cardinality(Entries) \in Nat
          /\ Cardinality(Entries) <= Highest(position) + 1
      BY EntriesWithinHighest DEF OrderInv, Entries
    <3>3. Highest(position) \in Int /\ MaxEntries \in Int
      BY HighestBounds, WatchOrderAssumption DEF OrderInv
    <3> QED BY <3>1, <3>2, <3>3
  <2> QED BY <2>1, <2>2, <2>3, InsertKeepsOrder
<1>3. CASE AddEntries(e)
  <2>1. PICK block \in Distinct(catalogue), before \in Items \cup {NoItem},
             after \in Items \cup {NoItem} :
           /\ Cardinality(Entries) + Len(block) <= MaxEntries
           /\ Insert(e, block, before, after)
    BY <1>3 DEF AddEntries
  <2>2. \E n \in Nat : n = Len(block) /\ block \in [1..n -> catalogue] /\ IsInjective(block)
    BY <2>1, DistinctIsInjective DEF OrderInv
  <2> QED BY <2>1, <2>2, InsertKeepsOrder
<1>4. CASE MoveEntry(e)
  <2>1. PICK i \in Entries, before \in Items \cup {NoItem}, after \in Items \cup {NoItem} :
           /\ AnchorExists(before, after) /\ i \notin {before, after}
           /\ position' = Moved(position, i, before, after) /\ catalogue' = catalogue
    BY <1>4 DEF MoveEntry, Answer
  <2>2. /\ before # NoItem => before \in DOMAIN position \ {i}
        /\ after # NoItem => after \in DOMAIN position \ {i}
        /\ i \in DOMAIN position /\ Rows(position)
    BY <2>1 DEF AnchorExists, Entries, OrderInv
  <2>3. /\ DOMAIN position' = DOMAIN position /\ Rows(position')
        /\ NoGaps(position) => NoGaps(position')
    BY <2>1, <2>2, MovedRows
  <2> QED BY <2>1, <2>3 DEF OrderInv, Entries
<1>5. CASE RemoveEntry(e)
  <2>1. PICK i \in Entries :
           position' = Removed(position, i) /\ catalogue' = catalogue
    BY <1>5 DEF RemoveEntry, Answer
  <2>2. i \in DOMAIN position /\ Rows(position)
    BY <2>1 DEF Entries, OrderInv
  <2>3. /\ DOMAIN position' = DOMAIN position \ {i} /\ Rows(position')
        /\ NoGaps(position) => NoGaps(position')
    BY <2>1, <2>2, RemovedRows
  <2>4. Cardinality(DOMAIN position') <= MaxEntries
    <3>1. /\ Cardinality(DOMAIN position') <= Cardinality(DOMAIN position)
          /\ Cardinality(DOMAIN position') \in Nat /\ Cardinality(DOMAIN position) \in Nat
      BY <2>2, <2>3, FS_Subset, FS_CardinalityType DEF Rows
    <3> QED BY <3>1, WatchOrderAssumption DEF OrderInv, Entries
  <2> QED BY <2>1, <2>3, <2>4 DEF OrderInv, Entries
<1>6. CASE ApplyGeneration(e)
  <2>1. PICK kept \in {<<>>, InOrder(position)} :
        \E generated \in Distinct(catalogue \ Range(kept)) :
           /\ Len(kept \o generated) <= MaxEntries
           /\ position' = Numbered(kept \o generated) /\ catalogue' = catalogue
    BY <1>6 DEF ApplyGeneration, Answer
  <2>2. PICK generated \in Distinct(catalogue \ Range(kept)) :
           /\ Len(kept \o generated) <= MaxEntries
           /\ position' = Numbered(kept \o generated) /\ catalogue' = catalogue
    BY <2>1
  <2>3. \E k \in Nat : kept \in [1..k -> catalogue] /\ IsInjective(kept)
    <3>1. CASE kept = <<>>
      <4>1. kept \in [1..0 -> catalogue] /\ IsInjective(kept)
        BY <3>1 DEF IsInjective
      <4> QED BY <4>1
    <3>2. CASE kept = InOrder(position)
      <4>1. /\ kept \in [1..Cardinality(Entries) -> Entries] /\ IsInjective(kept)
            /\ Cardinality(Entries) \in Nat
        BY <3>2, InOrderListsEntries, FS_CardinalityType DEF OrderInv, Entries, Rows
      <4> QED BY <4>1 DEF OrderInv
    <3> QED BY <2>1, <3>1, <3>2
  <2>4. catalogue \ Range(kept) \in SUBSET Items
    BY DEF OrderInv
  <2>5. \E n \in Nat : generated \in [1..n -> catalogue \ Range(kept)] /\ IsInjective(generated)
    BY <2>2, <2>4, DistinctIsInjective
  <2>6. \E n \in Nat : /\ n = Len(kept \o generated)
                       /\ kept \o generated \in [1..n -> catalogue]
                       /\ IsInjective(kept \o generated)
    BY <2>3, <2>5, ConcatenationIsInjective
  <2>7. GapInv'
    BY <2>2, <2>6, ReplacingKeepsOrder
  <2> QED BY <2>7 DEF GapInv
<1> QED BY <1>1, <1>2, <1>3, <1>4, <1>5, <1>6 DEF Edit

-----------------------------------------------------------------------------
(* Fewer entries stay within the limit. *)
LEMMA SubsetWithinLimit ==
    ASSUME OrderInv, NEW S \in SUBSET Entries
    PROVE  IsFiniteSet(S) /\ Cardinality(S) \in Nat /\ Cardinality(S) <= MaxEntries
<1>1. IsFiniteSet(Entries) /\ Cardinality(Entries) \in Nat
  BY FS_CardinalityType DEF OrderInv, Rows, Entries
<1>2. IsFiniteSet(S) /\ Cardinality(S) \in Nat /\ Cardinality(S) <= Cardinality(Entries)
  BY <1>1, FS_Subset, FS_CardinalityType
<1> QED BY <1>1, <1>2, WatchOrderAssumption DEF OrderInv

LEMMA DeleteItemKeepsOrder ==
    ASSUME OrderInv, DeleteItem
    PROVE  OrderInv' /\ (NoGaps(position) => NoGaps(position)')
<1>1. PICK gone \in SUBSET catalogue :
         catalogue' = catalogue \ gone /\ position' = WithoutGone(gone)
  BY DEF DeleteItem
<1>2. CASE gone \cap Entries = {}
  <2>1. position' = position
    BY <1>1, <1>2 DEF WithoutGone
  <2> QED BY <1>1, <1>2, <2>1 DEF OrderInv, Entries
<1>3. CASE gone \cap Entries # {}
  <2> DEFINE S == Entries \ gone
             rest == Restrict(position, S)
  <2>1. position' = Normalised(rest)
    BY <1>1, <1>3 DEF WithoutGone
  <2>2. DOMAIN rest = S /\ Rows(rest)
    BY RestrictedRows DEF OrderInv, Entries
  <2> HIDE DEF rest
  <2>3. DOMAIN position' = S /\ Rows(position') /\ NoGaps(position')
    BY <2>1, <2>2, NormalisedRows
  <2>4. Cardinality(S) <= MaxEntries
    BY SubsetWithinLimit
  <2> QED BY <1>1, <2>3, <2>4 DEF OrderInv, Entries
<1> QED BY <1>2, <1>3

LEMMA MergeKeepsOrder ==
    ASSUME OrderInv, Merge
    PROVE  OrderInv'
<1>1. PICK item \in catalogue, target \in catalogue :
         /\ item # target /\ catalogue' = catalogue \ {item}
         /\ position' =
               IF item \in Entries /\ target \notin Entries
               THEN [i \in (Entries \ {item}) \cup {target} |->
                        IF i = target THEN position[item] ELSE position[i]]
               ELSE Restrict(position, Entries \ {item})
  BY DEF Merge
<1>2. CASE item \in Entries /\ target \notin Entries
  <2> DEFINE S == Entries \ {item}
  <2>1. position' = [i \in S \cup {target} |->
                        IF i = target THEN position[item] ELSE position[i]]
    BY <1>1, <1>2
  <2>2. /\ position \in [Entries -> Nat]
        /\ \A i, j \in Entries : position[i] = position[j] => i = j
    BY DEF OrderInv, Rows, IsInjective, Entries
  <2>3. IsFiniteSet(Entries) /\ Cardinality(Entries) \in Nat
    BY SubsetWithinLimit
  <2>4. /\ IsFiniteSet(S \cup {target})
        /\ Cardinality(S \cup {target}) = Cardinality(Entries)
    <3>1. IsFiniteSet(S) /\ Cardinality(S) = Cardinality(Entries) - 1
      BY <1>2, <2>3, FS_RemoveElement
    <3>2. /\ IsFiniteSet(S \cup {target})
          /\ Cardinality(S \cup {target}) = Cardinality(S) + 1
      BY <1>2, <3>1, FS_AddElement
    <3> QED BY <2>3, <3>1, <3>2
  <2>5. DOMAIN position' = S \cup {target} /\ position' \in [S \cup {target} -> Nat]
    BY <1>2, <2>1, <2>2
  <2>6. IsInjective(position')
    BY <1>2, <2>1, <2>2 DEF IsInjective
  <2>7. S \cup {target} \subseteq catalogue'
    BY <1>1 DEF OrderInv
  <2> QED BY <1>1, <2>4, <2>5, <2>6, <2>7 DEF OrderInv, Rows, Entries
<1>3. CASE ~(item \in Entries /\ target \notin Entries)
  <2>1. position' = Restrict(position, Entries \ {item})
    BY <1>1, <1>3
  <2>2. DOMAIN position' = Entries \ {item} /\ Rows(position')
    BY <2>1, RestrictedRows DEF OrderInv, Entries
  <2>3. Cardinality(Entries \ {item}) <= MaxEntries
    BY SubsetWithinLimit
  <2> QED BY <1>1, <2>2, <2>3 DEF OrderInv, Entries
<1> QED BY <1>2, <1>3

LEMMA DeleteRootKeepsOrder ==
    ASSUME OrderInv, DeleteRoot
    PROVE  OrderInv'
<1>1. PICK gone \in SUBSET catalogue :
         /\ catalogue' = catalogue \ gone
         /\ position' = Restrict(position, Entries \ gone)
  BY DEF DeleteRoot
<1>2. DOMAIN position' = Entries \ gone /\ Rows(position')
  BY <1>1, RestrictedRows DEF OrderInv, Entries
<1>3. Cardinality(Entries \ gone) <= MaxEntries
  BY SubsetWithinLimit
<1> QED BY <1>1, <1>2, <1>3 DEF OrderInv, Entries

LEMMA InitOrder == Init => GapInv
<1> SUFFICES ASSUME Init PROVE GapInv
  OBVIOUS
<1>1. PICK seq \in Distinct(Items) : Len(seq) <= MaxEntries /\ position = Numbered(seq)
  BY DEF Init
<1>2. PICK n \in Nat : n = Len(seq) /\ seq \in [1..n -> Items] /\ IsInjective(seq)
  BY <1>1, DistinctIsInjective
<1>3. /\ DOMAIN position = Range(seq) /\ Range(seq) \subseteq Items
      /\ Rows(position) /\ NoGaps(position)
      /\ Cardinality(Range(seq)) = n
  BY <1>1, <1>2, NumberedRows
<1>4. catalogue = Items
  BY DEF Init
<1> QED BY <1>1, <1>2, <1>3, <1>4 DEF GapInv, OrderInv, Entries

LEMMA NextKeepsOrder ==
    ASSUME OrderInv, [Next]_vars
    PROVE  /\ OrderInv'
           /\ NoGaps(position) /\ Upkeep \subseteq {"delete_item"} => NoGaps(position)'
<1>1. ASSUME NEW e \in Editors, Edit(e)
      PROVE  OrderInv' /\ (NoGaps(position) => NoGaps(position)')
  BY <1>1, EditKeepsOrder
<1>2. ASSUME NEW e \in Editors, Open(e) \/ LoadPage(e) \/ Conflict(e)
      PROVE  OrderInv' /\ (NoGaps(position) => NoGaps(position)')
  <2>1. UNCHANGED <<catalogue, position>>
    BY <1>2 DEF Open, LoadPage, Conflict
  <2> QED BY <2>1 DEF OrderInv, Entries
<1>3. CASE DeleteItem
  BY <1>3, DeleteItemKeepsOrder
<1>4. CASE Merge
  <2>1. "merge" \in Upkeep
    BY <1>4 DEF Merge
  <2> QED BY <1>4, <2>1, MergeKeepsOrder
<1>5. CASE DeleteRoot
  <2>1. "delete_root" \in Upkeep
    BY <1>5 DEF DeleteRoot
  <2> QED BY <1>5, <2>1, DeleteRootKeepsOrder
<1>6. CASE UNCHANGED vars
  BY <1>6 DEF vars, OrderInv, Entries
<1> QED BY <1>1, <1>2, <1>3, <1>4, <1>5, <1>6 DEF Next

LEMMA OrderInvariant == Spec => []OrderInv
<1>1. Init => OrderInv
  BY InitOrder DEF GapInv
<1>2. OrderInv /\ [Next]_vars => OrderInv'
  BY NextKeepsOrder
<1> QED BY <1>1, <1>2, PTL DEF Spec

(* Every entry is of an item that exists, through edits, deletions, merges  *)
(* and removals of library roots.                                           *)
THEOREM EntriesAlwaysHaveItems == Spec => []EntriesHaveItems
<1>1. OrderInv => EntriesHaveItems
  BY DEF OrderInv, EntriesHaveItems
<1> QED BY <1>1, OrderInvariant, PTL

(* An order never grows beyond MAX_WATCH_ORDER_ENTRIES, although single     *)
(* additions compare the highest position with it and batches the count.    *)
THEOREM LimitAlwaysRespected == Spec => []LimitRespected
<1>1. OrderInv => LimitRespected
  BY DEF OrderInv, LimitRespected
<1> QED BY <1>1, OrderInvariant, PTL

(* Two entries never have one position, and none of the edits a client may  *)
(* ask for next runs into the unique index at any row it writes on the way, *)
(* whether the positions have gaps or not.                                  *)
THEOREM EditsNeverCollide == Spec => []NoEditCollides
<1>1. OrderInv => NoEditCollides
  <2> SUFFICES ASSUME OrderInv PROVE NoEditCollides
    OBVIOUS
  <2>1. Rows(position) /\ IsInjective(position) /\ NoItem \notin Entries
    BY WatchOrderAssumption DEF OrderInv, Rows
  <2>2. \A i \in Entries : ~RemoveCollides(i)
    BY <2>1, RemovalDoesNotCollide
  <2>3. ASSUME NEW before \in Entries \cup {NoItem}, NEW after \in Entries \cup {NoItem}
        PROVE  /\ \A n \in 1..MaxBlock : ~InsertCollides(n, before, after)
               /\ \A i \in Entries \ {before, after} : ~MoveCollides(i, before, after)
    <3>1. \A n \in 1..MaxBlock : n \in Nat
      BY WatchOrderAssumption
    <3> QED BY <2>1, <3>1, InsertionDoesNotCollide, MoveDoesNotCollide
  <2> QED BY <2>1, <2>2, <2>3 DEF NoEditCollides
<1> QED BY <1>1, OrderInvariant, PTL

(* Where items go by delete_item only, which renumbers, the positions are   *)
(* 0, 1, ... without gaps; merges and root removals leave gaps.             *)
THEOREM PositionsStayContiguous ==
    ASSUME Upkeep \subseteq {"delete_item"}
    PROVE  Spec => []PositionsContiguous
<1>1. Init => GapInv
  BY InitOrder
<1>2. GapInv /\ [Next]_vars => GapInv'
  BY NextKeepsOrder DEF GapInv
<1>3. GapInv => PositionsContiguous
  <2> SUFFICES ASSUME GapInv PROVE PositionsContiguous
    OBVIOUS
  <2> DEFINE H == Highest(position)
  <2>1. /\ H \in Nat \cup {-1}
        /\ \A i \in Entries : position[i] \in 0..H
        /\ Entries # {} => \E i \in Entries : position[i] = H
        /\ Entries = {} => H = -1
    BY HighestBounds DEF GapInv, OrderInv, Entries, Rows
  <2>2. \A n \in 0..H : \E i \in Entries : position[i] = n
    <3>1. CASE Entries = {}
      BY <2>1, <3>1
    <3>2. CASE Entries # {}
      BY <2>1, <3>2 DEF GapInv, NoGaps, Entries
    <3> QED BY <3>1, <3>2
  <2> HIDE DEF H
  <2>3. {position[i] : i \in Entries} = 0..H
    BY <2>1, <2>2
  <2>4. position \in Bijection(Entries, 0..H)
    <3>1. position \in [Entries -> 0..H]
      BY <2>1 DEF GapInv, OrderInv, Rows, Entries
    <3> QED BY <2>2, <3>1 DEF Bijection, Injection, Surjection, GapInv, OrderInv, Rows
  <2>5. Cardinality(0..H) = Cardinality(Entries)
    BY <2>4, FS_Bijection DEF ExistsBijection, GapInv, OrderInv, Rows, Entries
  <2>6. Cardinality(0..H) = H + 1
    <3>1. Cardinality(0..H) = IF 0 > H THEN 0 ELSE H - 0 + 1
      BY <2>1, FS_Interval
    <3> QED BY <2>1, <3>1
  <2>7. Cardinality(Entries) - 1 = H
    BY <2>1, <2>5, <2>6
  <2> QED BY <2>3, <2>7 DEF PositionsContiguous
<1> QED BY <1>1, <1>2, <1>3, PTL DEF Spec


-----------------------------------------------------------------------------
(* The sequence that the rows stand for. *)

(* The entry at place k comes after k - 1 others.                           *)
LEMMA InOrderIncreases ==
    ASSUME NEW p, Rows(p)
    PROVE  /\ \A k \in 1..Cardinality(DOMAIN p) : Rank(p, InOrder(p)[k]) = k - 1
           /\ \A k, l \in 1..Cardinality(DOMAIN p) :
                 k < l => p[InOrder(p)[k]] < p[InOrder(p)[l]]
<1> DEFINE N == Cardinality(DOMAIN p)
           q == InOrder(p)
<1>1. N \in Nat
  BY FS_CardinalityType DEF Rows
<1>2. \A n \in 0..(N - 1) : \E i \in DOMAIN p : Rank(p, i) = n
  <2>1. \A n \in 0..(N - 1) : \E i \in DOMAIN p : Normalised(p)[i] = n
    BY NormalisedNumbersEntries DEF Bijection, Surjection
  <2> QED BY <2>1 DEF Normalised
<1>3. \A n \in 1..N : q[n] \in DOMAIN p /\ Rank(p, q[n]) = n - 1
  <2>1. \A n \in 1..N : n - 1 \in 0..(N - 1)
    BY <1>1
  <2> QED BY <1>2, <2>1 DEF InOrder
<1> HIDE DEF q
<1>4. ASSUME NEW k \in 1..N, NEW l \in 1..N, k < l PROVE p[q[k]] < p[q[l]]
  <2>1. ~(Rank(p, q[l]) < Rank(p, q[k])) /\ Rank(p, q[l]) # Rank(p, q[k])
    BY <1>1, <1>3, <1>4
  <2>2. p[q[k]] \in Nat /\ p[q[l]] \in Nat
    BY <1>3 DEF Rows
  <2>3. ~(p[q[l]] < p[q[k]])
    BY <1>3, <2>1, RankIncreases
  <2>4. p[q[l]] # p[q[k]]
    BY <1>3, <2>1 DEF Rows, IsInjective
  <2> QED BY <2>2, <2>3, <2>4
<1> QED BY <1>3, <1>4 DEF q

(* A sequence that lists the entries by increasing position is the order.   *)
Lists(seq, n, p) ==
    /\ seq \in [1..n -> DOMAIN p] /\ Range(seq) = DOMAIN p
    /\ \A k, l \in 1..n : k < l => p[seq[k]] < p[seq[l]]

LEMMA ListsInOrder ==
    ASSUME NEW p, Rows(p), NEW n \in Nat, NEW seq, Lists(seq, n, p)
    PROVE  seq = InOrder(p) /\ n = Cardinality(DOMAIN p)
<1> DEFINE N == Cardinality(DOMAIN p)
<1>1. /\ seq \in [1..n -> DOMAIN p] /\ Range(seq) = DOMAIN p
      /\ \A i \in DOMAIN p : p[i] \in Nat
  BY DEF Lists, Rows
<1>2. IsInjective(seq)
  <2>1. ASSUME NEW k \in 1..n, NEW l \in 1..n, seq[k] = seq[l] PROVE k = l
    <3>1. ~(p[seq[k]] < p[seq[l]]) /\ ~(p[seq[l]] < p[seq[k]])
      BY <1>1, <2>1
    <3> QED BY <2>1, <3>1 DEF Lists
  <2> QED BY <1>1, <2>1 DEF IsInjective
<1>3. n = N
  BY <1>1, <1>2, NumberedRows
<1>4. ASSUME NEW k \in 1..n PROVE Rank(p, seq[k]) = k - 1
  <2> DEFINE first == [l \in 1..(k - 1) |-> seq[l]]
  <2>1. first \in [1..(k - 1) -> DOMAIN p] /\ IsInjective(first) /\ k - 1 \in Nat
    BY <1>1, <1>2 DEF IsInjective
  <2>2. Cardinality(Range(first)) = k - 1
    BY <2>1, NumberedRows
  <2>3. Range(first) = {j \in DOMAIN p : p[j] < p[seq[k]]}
    <3>1. ASSUME NEW l \in 1..n PROVE p[seq[l]] < p[seq[k]] <=> l \in 1..(k - 1)
      <4>1. CASE l < k
        BY <3>1, <4>1 DEF Lists
      <4>2. CASE l = k
        BY <1>1, <4>2
      <4>3. CASE k < l
        <5>1. p[seq[k]] < p[seq[l]]
          BY <3>1, <4>3 DEF Lists
        <5> QED BY <1>1, <4>3, <5>1
      <4> QED BY <4>1, <4>2, <4>3
    <3>2. \A j \in DOMAIN p : \E l \in 1..n : j = seq[l]
      BY <1>1 DEF Range
    <3>3. Range(first) = {seq[l] : l \in 1..(k - 1)}
      BY DEF Range
    <3>4. \A l \in 1..(k - 1) : l \in 1..n
      BY <1>4
    <3> QED BY <1>1, <3>1, <3>2, <3>3, <3>4
  <2> QED BY <2>2, <2>3 DEF Rank
<1>5. \A k \in 1..n : InOrder(p)[k] \in DOMAIN p /\ Rank(p, InOrder(p)[k]) = k - 1
  BY <1>3, InOrderIncreases, InOrderListsEntries
<1>6. \A i, j \in DOMAIN p : Rank(p, i) = Rank(p, j) => i = j
  <2>1. IsInjective(Normalised(p)) /\ DOMAIN Normalised(p) = DOMAIN p
    BY NormalisedNumbersEntries DEF Bijection, Injection
  <2> QED BY <2>1 DEF Normalised, IsInjective
<1>7. \A k \in 1..n : seq[k] = InOrder(p)[k]
  BY <1>1, <1>4, <1>5, <1>6
<1>8. InOrder(p) \in [1..n -> DOMAIN p]
  BY <1>3, InOrderListsEntries
<1> QED BY <1>1, <1>3, <1>7, <1>8

LEMMA InOrderLists ==
    ASSUME NEW p, Rows(p)
    PROVE  Lists(InOrder(p), Cardinality(DOMAIN p), p) /\ Cardinality(DOMAIN p) \in Nat
BY InOrderListsEntries, InOrderIncreases, FS_CardinalityType DEF Lists, Rows

-----------------------------------------------------------------------------
LEMMA SequenceCounts == \A S : Sequence!Cardinality(S) = Cardinality(S)
BY DEF Sequence!Cardinality, Cardinality

(* What remains of a sequence: its members of S, from increasing places.    *)
Picks(left, seq, n, S) ==
    \E m \in Nat : \E places \in [1..m -> 1..n] :
        /\ \A k, l \in 1..m : k < l => places[k] < places[l]
        /\ Range(places) = {k \in 1..n : seq[k] \in S}
        /\ left = [k \in 1..m |-> seq[places[k]]]

LEMMA RemainingPlaces ==
    ASSUME NEW n \in Nat, NEW T, NEW seq \in [1..n -> T], NEW S
    PROVE  Picks(Sequence!Remaining(seq, S), seq, n, S)
<1> DEFINE P == {k \in 1..n : seq[k] \in S}
           p == [k \in P |-> k]
           places == InOrder(p)
           m == Cardinality(P)
           Place(k) == CHOOSE i \in P : Cardinality({j \in P : j < i}) = k - 1
<1>1. IsFiniteSet(P) /\ m \in Nat
  <2>1. IsFiniteSet(1..n)
    BY FS_Interval
  <2> QED BY <2>1, FS_Subset, FS_CardinalityType
<1>2. Rows(p) /\ DOMAIN p = P
  BY <1>1 DEF Rows, IsInjective
<1>3. \A i \in P : p[i] = i
  OBVIOUS
<1>4. Sequence!Remaining(seq, S) = [k \in 1..m |-> seq[Place(k)]]
  <2>1. P = {k \in DOMAIN seq : seq[k] \in S}
    OBVIOUS
  <2> DEFINE Q == {k \in DOMAIN seq : seq[k] \in S}
             First(k) == CHOOSE i \in Q : Cardinality({j \in Q : j < i}) = k - 1
  <2>2. Sequence!Remaining(seq, S) = [k \in 1..Cardinality(Q) |-> seq[First(k)]]
    BY Zenon DEF Sequence!Remaining, Sequence!Cardinality, Cardinality
  <2> HIDE DEF P
  <2>3. P = Q
    BY <2>1
  <2> HIDE DEF Q
  <2> QED BY <2>2, <2>3
<1>5. \A i \in P : Rank(p, i) = Cardinality({j \in P : j < i})
  <2>1. ASSUME NEW i \in P PROVE {j \in P : j < i} = {j \in DOMAIN p : p[j] < p[i]}
    OBVIOUS
  <2> QED BY <2>1 DEF Rank
<1>6. \A k \in 1..m : places[k] = Place(k)
  BY <1>2, <1>5 DEF InOrder
<1>7. places \in [1..m -> P] /\ Range(places) = P
  BY <1>2, InOrderListsEntries
<1>8. \A k, l \in 1..m : k < l => p[places[k]] < p[places[l]]
  BY <1>2, InOrderIncreases
<1> HIDE DEF p, places, m, Place
<1>9. \A k, l \in 1..m : k < l => places[k] < places[l]
  <2>1. \A k \in 1..m : p[places[k]] = places[k]
    BY <1>3, <1>7
  <2> QED BY <1>8, <2>1
<1>10. Sequence!Remaining(seq, S) = [k \in 1..m |-> seq[places[k]]]
  BY <1>4, <1>6
<1>11. places \in [1..m -> 1..n] /\ Range(places) = {k \in 1..n : seq[k] \in S}
  BY <1>7
<1> QED BY <1>1, <1>9, <1>10, <1>11 DEF Picks

(* What remains of the order is the order of what remains.                  *)
Holds(seq, n, S, p) ==
    /\ n \in Nat /\ seq \in [1..n -> Range(seq)]
    /\ Rows(p) /\ DOMAIN p = Range(seq) \cap S
    /\ \A k, l \in 1..n : k < l /\ seq[k] \in S /\ seq[l] \in S => p[seq[k]] < p[seq[l]]

LEMMA RemainingLists ==
    ASSUME NEW n, NEW seq, NEW S, NEW p, Holds(seq, n, S, p)
    PROVE  Sequence!Remaining(seq, S) = InOrder(p)
<1> USE DEF Holds
<1> DEFINE left == Sequence!Remaining(seq, S)
<1>0. PICK m \in Nat : \E places \in [1..m -> 1..n] :
           /\ \A k, l \in 1..m : k < l => places[k] < places[l]
           /\ Range(places) = {k \in 1..n : seq[k] \in S}
           /\ left = [k \in 1..m |-> seq[places[k]]]
  <2>1. Picks(left, seq, n, S)
    BY RemainingPlaces
  <2> HIDE DEF left
  <2> QED BY <2>1, Zenon DEF Picks
<1>1. PICK places \in [1..m -> 1..n] :
           /\ \A k, l \in 1..m : k < l => places[k] < places[l]
           /\ Range(places) = {k \in 1..n : seq[k] \in S}
           /\ left = [k \in 1..m |-> seq[places[k]]]
  BY <1>0
<1>2. \A k \in 1..m : places[k] \in 1..n /\ seq[places[k]] \in S
  BY <1>1 DEF Range
<1>3. left \in [1..m -> DOMAIN p]
  BY <1>1, <1>2 DEF Range
<1>4. Range(left) = DOMAIN p
  <2>1. ASSUME NEW i \in DOMAIN p PROVE \E k \in 1..m : left[k] = i
    <3>1. PICK k \in 1..n : seq[k] = i
      BY DEF Range
    <3>2. PICK l \in 1..m : places[l] = k
      BY <1>1, <3>1 DEF Range
    <3> QED BY <1>1, <3>1, <3>2
  <2> QED BY <1>3, <2>1 DEF Range
<1>5. \A k, l \in 1..m : k < l => p[left[k]] < p[left[l]]
  BY <1>1, <1>2
<1> HIDE DEF left
<1>6. Lists(left, m, p)
  BY <1>3, <1>4, <1>5 DEF Lists
<1> QED BY <1>6, ListsInOrder DEF left

(* A sequence of distinct items is the order of the rows it is stored as.   *)
LEMMA NumberedLists ==
    ASSUME NEW S, NEW n \in Nat, NEW seq \in [1..n -> S], IsInjective(seq)
    PROVE  Lists(seq, n, Numbered(seq))
<1>1. DOMAIN Numbered(seq) = Range(seq)
  BY DEF Numbered
<1>2. ASSUME NEW k \in 1..n PROVE Numbered(seq)[seq[k]] = k - 1
  <2>1. seq[k] \in Range(seq)
    BY DEF Range
  <2>2. \A m \in DOMAIN seq : seq[m] = seq[k] <=> m = k
    BY DEF IsInjective
  <2>3. (CHOOSE m \in DOMAIN seq : seq[m] = seq[k]) = k
    BY <2>2
  <2> QED BY <2>1, <2>3 DEF Numbered
<1>3. \A k, l \in 1..n : k < l => Numbered(seq)[seq[k]] < Numbered(seq)[seq[l]]
  <2> SUFFICES ASSUME NEW k \in 1..n, NEW l \in 1..n, k < l
               PROVE  Numbered(seq)[seq[k]] < Numbered(seq)[seq[l]]
    OBVIOUS
  <2>1. Numbered(seq)[seq[k]] = k - 1 /\ Numbered(seq)[seq[l]] = l - 1
    BY <1>2
  <2> QED BY <2>1
<1>4. seq \in [1..n -> Range(seq)]
  BY DEF Range
<1> QED BY <1>1, <1>3, <1>4 DEF Lists

-----------------------------------------------------------------------------
(* What an editor has read at the current revision.  Of the items that      *)
(* exist, its list holds entries only, by increasing position; it holds all *)
(* of them, or, while it reads on, those up to the cursor; and an entry on  *)
(* the cursor is the last it has read, which a next page leaves out.        *)
Sees(view, items, p) ==
    LET list == view.list
        n == Len(view.list)
    IN  /\ \A k \in 1..n : list[k] \in items =>
              list[k] \in DOMAIN p /\ (view.loading => p[list[k]] <= view.cursor)
        /\ \A k, l \in 1..n : k < l /\ list[k] \in items /\ list[l] \in items =>
              p[list[k]] < p[list[l]]
        /\ \A i \in DOMAIN p : ~view.loading \/ p[i] <= view.cursor =>
              \E k \in 1..n : list[k] = i
        /\ view.loading => \A i \in DOMAIN p : p[i] = view.cursor => n > 0 /\ list[n] = i

Views == [revision : Nat, list : Seq(Items), cursor : Int, loading : BOOLEAN]

EditorInv ==
    /\ revision \in Nat \ {0} /\ editor \in [Editors -> Views]
    /\ \A e \in Editors :
        /\ editor[e].revision <= revision
        /\ editor[e].revision = revision => Sees(editor[e], catalogue, position)

(* Items that go leave what an editor has seen of the others as it was.     *)
LEMMA SeenOutlivesItems ==
    ASSUME NEW view \in Views, NEW items, NEW p, Sees(view, items, p),
           NEW gone, DOMAIN p \subseteq items
    PROVE  Sees(view, items \ gone, Restrict(p, DOMAIN p \ gone))
<1> DEFINE q == Restrict(p, DOMAIN p \ gone)
<1>1. DOMAIN q = DOMAIN p \ gone /\ \A i \in DOMAIN q : q[i] = p[i]
  BY DEF Restrict
<1> HIDE DEF q
<1> QED BY <1>1 DEF Sees, q

(* A page extends what an editor has seen.                                  *)
LEMMA PageExtendsSeen ==
    ASSUME NEW view \in Views, NEW items, NEW p, Rows(p), DOMAIN p \subseteq items,
           items \subseteq Items, Sees(view, items, p), view.loading,
           NEW n \in Nat, NEW ahead \in Seq(Items), Len(ahead) = n,
           Range(ahead) = {i \in DOMAIN p : p[i] > view.cursor},
           \A k, l \in 1..n : k < l => p[ahead[k]] < p[ahead[l]],
           NEW size \in Nat, size = IF n < PageSize THEN n ELSE PageSize,
           NEW next \in Views, next.list = view.list \o SubSeq(ahead, 1, size),
           next.cursor = IF size = 0 THEN view.cursor ELSE p[ahead[size]],
           next.loading = (n > size)
    PROVE  Sees(next, items, p)
<1> DEFINE old == view.list
           m == Len(view.list)
           new == next.list
<1>1. /\ old \in Seq(Items) /\ m \in Nat /\ new \in Seq(Items)
      /\ view.cursor \in Int /\ size <= n /\ (n > size => size # 0)
      /\ next.loading <=> n > size
  BY WatchOrderAssumption DEF Views
<1>2. /\ Len(new) = m + size
      /\ \A k \in 1..(m + size) : new[k] = IF k <= m THEN old[k] ELSE ahead[k - m]
  <2>1. /\ SubSeq(ahead, 1, size) \in Seq(Items) /\ Len(SubSeq(ahead, 1, size)) = size
        /\ \A k \in 1..size : SubSeq(ahead, 1, size)[k] = ahead[k]
    BY <1>1
  <2> QED BY <1>1, <2>1
<1>3. \A k \in 1..n : ahead[k] \in DOMAIN p /\ p[ahead[k]] > view.cursor
  <2>1. DOMAIN ahead = 1..n
    OBVIOUS
  <2>2. \A k \in 1..n : ahead[k] \in Range(ahead)
    BY <2>1 DEF Range
  <2> QED BY <2>2
<1>4. \A i \in DOMAIN p : p[i] > view.cursor => \E k \in 1..n : ahead[k] = i
  <2>1. DOMAIN ahead = 1..n
    OBVIOUS
  <2> QED BY <2>1 DEF Range
<1>5. \A i \in DOMAIN p : p[i] \in Nat
  BY DEF Rows
<1>6. /\ \A k \in 1..m : old[k] \in items => old[k] \in DOMAIN p /\ p[old[k]] <= view.cursor
      /\ \A k, l \in 1..m : k < l /\ old[k] \in items /\ old[l] \in items =>
            p[old[k]] < p[old[l]]
      /\ \A i \in DOMAIN p : p[i] <= view.cursor => \E k \in 1..m : old[k] = i
  BY DEF Sees
<1>7. /\ next.cursor \in Int /\ view.cursor <= next.cursor
      /\ \A k \in 1..size : p[ahead[k]] <= next.cursor
      /\ \A k \in (size + 1)..n : p[ahead[k]] > next.cursor
  <2>1. CASE size = 0
    BY <1>1, <1>3, <2>1
  <2>2. CASE size # 0
    <3>1. size \in 1..n /\ next.cursor = p[ahead[size]]
      BY <1>1, <2>2
    <3>2. \A k \in 1..n : p[ahead[k]] \in Nat
      BY <1>3, <1>5
    <3>3. \A k \in 1..size : k \in 1..n /\ (k = size \/ k < size)
      BY <1>1
    <3>4. \A k \in (size + 1)..n : k \in 1..n /\ size < k
      BY <1>1
    <3>5. view.cursor < next.cursor
      BY <1>3, <3>1
    <3>6. ASSUME NEW k \in 1..size PROVE p[ahead[k]] <= next.cursor
      <4>1. k \in 1..n /\ (k = size \/ p[ahead[k]] < p[ahead[size]])
        BY <3>1, <3>3
      <4> QED BY <3>1, <3>2, <4>1
    <3>7. \A k \in (size + 1)..n : p[ahead[k]] > next.cursor
      BY <3>1, <3>2, <3>4
    <3> QED BY <1>1, <3>1, <3>2, <3>5, <3>6, <3>7
  <2> QED BY <2>1, <2>2
<1> HIDE DEF old, m, new
<1>8. \A k \in 1..(m + size) : new[k] \in items =>
         new[k] \in DOMAIN p /\ p[new[k]] <= next.cursor
  <2> SUFFICES ASSUME NEW k \in 1..(m + size), new[k] \in items
               PROVE  new[k] \in DOMAIN p /\ p[new[k]] <= next.cursor
    OBVIOUS
  <2>1. CASE k <= m
    <3>1. k \in 1..m /\ new[k] = old[k]
      BY <1>1, <1>2, <2>1
    <3> QED BY <1>1, <1>5, <1>6, <1>7, <3>1
  <2>2. CASE k > m
    <3>1. k - m \in 1..size /\ ~(k <= m)
      BY <1>1, <2>2
    <3>2. k - m \in 1..n /\ new[k] = ahead[k - m]
      BY <1>1, <1>2, <3>1
    <3> QED BY <1>3, <1>7, <3>1, <3>2
  <2> QED BY <1>1, <2>1, <2>2
<1>9. \A k, l \in 1..(m + size) : k < l /\ new[k] \in items /\ new[l] \in items =>
         p[new[k]] < p[new[l]]
  <2> SUFFICES ASSUME NEW k \in 1..(m + size), NEW l \in 1..(m + size), k < l,
                      new[k] \in items, new[l] \in items
               PROVE  p[new[k]] < p[new[l]]
    OBVIOUS
  <2>1. CASE l <= m
    <3>1. k \in 1..m /\ l \in 1..m /\ new[k] = old[k] /\ new[l] = old[l]
      BY <1>1, <1>2, <2>1
    <3> QED BY <1>6, <3>1
  <2>2. CASE k <= m /\ l > m
    <3>0. k \in 1..m /\ l - m \in 1..n /\ ~(l <= m)
      BY <1>1, <2>2
    <3>1. k \in 1..m /\ l - m \in 1..n /\ new[k] = old[k] /\ new[l] = ahead[l - m]
      BY <1>2, <2>2, <3>0
    <3>2. p[old[k]] <= view.cursor /\ p[ahead[l - m]] > view.cursor
      BY <1>3, <1>6, <3>1
    <3>3. p[old[k]] \in Nat /\ p[ahead[l - m]] \in Nat
      BY <1>3, <1>5, <1>6, <3>1
    <3> QED BY <1>1, <3>1, <3>2, <3>3
  <2>3. CASE k > m
    <3>1. /\ k - m \in 1..n /\ l - m \in 1..n /\ k - m < l - m
          /\ new[k] = ahead[k - m] /\ new[l] = ahead[l - m]
      BY <1>1, <1>2, <2>3
    <3> QED BY <3>1
  <2> QED BY <1>1, <2>1, <2>2, <2>3
<1>10. \A i \in DOMAIN p : ~next.loading \/ p[i] <= next.cursor =>
          \E k \in 1..(m + size) : new[k] = i
  <2> SUFFICES ASSUME NEW i \in DOMAIN p, ~next.loading \/ p[i] <= next.cursor
               PROVE  \E k \in 1..(m + size) : new[k] = i
    OBVIOUS
  <2>1. CASE p[i] <= view.cursor
    <3>1. PICK k \in 1..m : old[k] = i
      BY <1>6, <2>1
    <3>2. k \in 1..(m + size) /\ k <= m
      BY <1>1
    <3> QED BY <1>2, <3>1, <3>2
  <2>2. CASE p[i] > view.cursor
    <3>1. PICK k \in 1..n : ahead[k] = i
      BY <1>4, <2>2
    <3>2. k <= size
      <4>1. CASE k > size
        <5>1. k \in (size + 1)..n /\ next.loading
          BY <1>1, <4>1
        <5>2. p[i] > next.cursor /\ p[i] <= next.cursor
          BY <1>7, <3>1, <5>1
        <5> QED BY <1>5, <1>7, <5>2
      <4> QED BY <1>1, <4>1
    <3>3. k + m \in 1..(m + size) /\ ~(k + m <= m) /\ (k + m) - m = k
      BY <1>1, <3>2
    <3> QED BY <1>2, <3>1, <3>3
  <2> QED BY <1>1, <1>5, <2>1, <2>2
<1>11. ASSUME next.loading, NEW i \in DOMAIN p, p[i] = next.cursor
       PROVE  m + size > 0 /\ new[m + size] = i
  <2>1. size \in 1..n /\ size # 0 /\ next.cursor = p[ahead[size]]
    BY <1>1, <1>11
  <2>2. i = ahead[size]
    BY <1>3, <1>11, <2>1 DEF Rows, IsInjective
  <2>3. m + size \in 1..(m + size) /\ ~(m + size <= m) /\ (m + size) - m = size
    BY <1>1, <2>1
  <2> QED BY <1>2, <2>2, <2>3
<1> QED BY <1>2, <1>8, <1>9, <1>10, <1>11 DEF Sees, new

-----------------------------------------------------------------------------
(* Every step keeps what the editors have seen at the current revision.     *)
LEMMA ClosedView ==
    /\ Closed \in Views /\ Closed.revision = 0 /\ Closed.list = <<>>
    /\ Closed.cursor = -1 /\ Closed.loading = FALSE
<1>1. <<>> \in Seq(Items)
  OBVIOUS
<1> QED BY <1>1 DEF Closed, Views

LEMMA InitiallySeen == Init => EditorInv
<1> SUFFICES ASSUME Init PROVE EditorInv
  OBVIOUS
<1>1. Closed \in Views /\ Closed.revision = 0
  BY ClosedView
<1>2. revision = 1 /\ editor = [e \in Editors |-> Closed]
  BY DEF Init
<1> HIDE DEF Closed
<1> QED BY <1>1, <1>2 DEF EditorInv

LEMMA LoadPageSees ==
    ASSUME OrderInv, EditorInv, NEW e \in Editors, LoadPage(e)
    PROVE  EditorInv'
<1> DEFINE view == editor[e]
           c == view.cursor
<1>1. PICK again \in BOOLEAN :
       LET seen == Range(editor[e].list)
           rest == {i \in Entries : \/ position[i] > editor[e].cursor
                                    \/ /\ again /\ position[i] = editor[e].cursor
                                       /\ i # editor[e].list[Len(editor[e].list)]}
           ahead == InOrder(Restrict(position, rest))
           size == IF Len(ahead) < PageSize THEN Len(ahead) ELSE PageSize
       IN  editor' = [editor EXCEPT ![e] =
               [revision |-> @.revision,
                list     |-> @.list \o SubSeq(ahead, 1, size),
                cursor   |-> IF size = 0 THEN @.cursor ELSE position[ahead[size]],
                loading  |-> Len(ahead) > size]]
  BY DEF LoadPage
<1> DEFINE rest == {i \in Entries : \/ position[i] > c
                                    \/ again /\ position[i] = c /\ i # view.list[Len(view.list)]}
           rows == Restrict(position, rest)
           ahead == InOrder(rows)
           n == Len(ahead)
           size == IF n < PageSize THEN n ELSE PageSize
           next == [revision |-> view.revision,
                    list     |-> view.list \o SubSeq(ahead, 1, size),
                    cursor   |-> IF size = 0 THEN c ELSE position[ahead[size]],
                    loading  |-> n > size]
<1>2. editor' = [editor EXCEPT ![e] = next]
  BY <1>1
<1>3. UNCHANGED <<catalogue, position, revision>> /\ view.loading
  BY DEF LoadPage
<1>4. /\ view \in Views /\ view.revision <= revision /\ revision \in Nat
      /\ view.revision = revision => Sees(view, catalogue, position)
      /\ editor \in [Editors -> Views]
  BY DEF EditorInv
<1>5. /\ Rows(position) /\ Entries \subseteq catalogue /\ catalogue \subseteq Items
      /\ PageSize \in Nat \ {0}
  BY WatchOrderAssumption DEF OrderInv
<1>6. DOMAIN rows = rest /\ Rows(rows) /\ \A i \in rest : rows[i] = position[i]
  <2>1. rest \in SUBSET DOMAIN position
    BY DEF Entries
  <2>2. DOMAIN rows = rest /\ Rows(rows)
    BY <1>5, <2>1, RestrictedRows
  <2> QED BY <2>2 DEF Restrict
<1> HIDE DEF rows
<1>7. /\ n = Cardinality(rest) /\ n \in Nat /\ ahead \in [1..n -> rest]
      /\ Range(ahead) = rest
      /\ \A k, l \in 1..n : k < l => rows[ahead[k]] < rows[ahead[l]]
  <2>1. Lists(ahead, Cardinality(rest), rows) /\ Cardinality(rest) \in Nat
    BY <1>6, InOrderLists
  <2>2. ahead \in [1..Cardinality(rest) -> rest]
    BY <1>6, <2>1 DEF Lists
  <2> HIDE DEF ahead, rest
  <2>3. Len(ahead) = Cardinality(rest)
    BY <2>1, <2>2
  <2> QED BY <1>6, <2>1, <2>2, <2>3 DEF Lists
<1> HIDE DEF ahead
<1>8. \A k, l \in 1..n : k < l => position[ahead[k]] < position[ahead[l]]
  <2>1. \A k \in 1..n : ahead[k] \in rest
    BY <1>7
  <2> HIDE DEF rest, n
  <2> QED BY <1>6, <1>7, <2>1
<1>9. ahead \in Seq(Items) /\ \A k \in 1..n : position[ahead[k]] \in Nat
  <2>1. \A i \in rest : i \in Items /\ position[i] \in Nat
    BY <1>5 DEF Rows, Entries
  <2> HIDE DEF rest
  <2>2. ahead \in [1..n -> Items]
    BY <1>7, <2>1
  <2>3. ahead \in Seq(Items)
    BY <1>7, <2>2
  <2>4. \A k \in 1..n : ahead[k] \in rest
    BY <1>7
  <2> QED BY <2>1, <2>3, <2>4
<1> HIDE DEF n
<1>10. /\ size \in Nat /\ size <= n /\ (size # 0 => size \in 1..n)
  BY <1>5, <1>7
<1> HIDE DEF size, rest
<1>11. next \in Views
  <2>1. view.list \in Seq(Items) /\ c \in Int /\ view.revision \in Nat
    BY <1>4 DEF Views
  <2>2. SubSeq(ahead, 1, size) \in Seq(Items)
    BY <1>7, <1>9, <1>10 DEF n
  <2>3. view.list \o SubSeq(ahead, 1, size) \in Seq(Items)
    BY <2>1, <2>2
  <2>4. (IF size = 0 THEN c ELSE position[ahead[size]]) \in Int
    BY <1>9, <1>10, <2>1
  <2> HIDE DEF view, c
  <2> QED BY <2>1, <2>3, <2>4 DEF Views
<1>12. ASSUME view.revision = revision PROVE Sees(next, catalogue, position)
  <2>1. Sees(view, catalogue, position)
    BY <1>4, <1>12
  <2>2. rest = {i \in Entries : position[i] > c}
    <3>1. \A i \in Entries : position[i] = c => i = view.list[Len(view.list)]
      BY <1>3, <2>1 DEF Sees, Entries
    <3> QED BY <3>1 DEF rest
  <2>3. Range(ahead) = {i \in DOMAIN position : position[i] > view.cursor}
    BY <1>7, <2>2 DEF Entries
  <2>4. DOMAIN position \subseteq catalogue /\ Len(ahead) = n
    BY <1>5 DEF Entries, n
  <2>5. size = IF n < PageSize THEN n ELSE PageSize
    BY DEF size
  <2>6. /\ next.list = view.list \o SubSeq(ahead, 1, size)
        /\ next.cursor = IF size = 0 THEN view.cursor ELSE position[ahead[size]]
        /\ next.loading = (n > size)
    OBVIOUS
  <2> HIDE DEF next, view
  <2> QED BY <1>3, <1>4, <1>5, <1>7, <1>8, <1>9, <1>10, <1>11, <2>1, <2>3, <2>4, <2>5, <2>6,
             PageExtendsSeen
<1>13. next.revision = view.revision
  OBVIOUS
<1> HIDE DEF next
<1>14. editor' \in [Editors -> Views]
  BY <1>2, <1>4, <1>11
<1>15. ASSUME NEW o \in Editors
       PROVE  /\ editor'[o].revision <= revision
              /\ editor'[o].revision = revision => Sees(editor'[o], catalogue, position)
  <2>1. CASE o = e
    <3>1. editor'[o] = next
      BY <1>2, <1>4, <2>1
    <3> QED BY <1>4, <1>12, <1>13, <3>1
  <2>2. CASE o # e
    <3>1. editor'[o] = editor[o]
      BY <1>2, <1>4, <2>2
    <3> QED BY <3>1 DEF EditorInv
  <2> QED BY <2>1, <2>2
<1> QED BY <1>3, <1>14, <1>15 DEF EditorInv

(* An edit advances the revision; only a saved draft goes on at the new one.*)
LEMMA EditSees ==
    ASSUME OrderInv, EditorInv, NEW e \in Editors, Edit(e)
    PROVE  EditorInv'
<1>1. Closed \in Views /\ Closed.revision = 0 /\ Closed.loading = FALSE
  BY ClosedView
<1>2. /\ revision \in Nat \ {0} /\ editor \in [Editors -> Views]
      /\ \A o \in Editors : editor[o].revision \in Nat /\ editor[o].revision <= revision
  BY DEF EditorInv, Views
<1>3. CASE Save(e)
  <2>1. PICK seq \in Distinct(catalogue) :
           /\ position' = Numbered(seq) /\ catalogue' = catalogue
           /\ revision' = revision + 1
           /\ editor' = [editor EXCEPT ![e] =
                            [Closed EXCEPT !.revision = revision + 1, !.list = seq]]
    BY <1>3 DEF Save
  <2> DEFINE view == [Closed EXCEPT !.revision = revision + 1, !.list = seq]
  <2>2. PICK n \in Nat : n = Len(seq) /\ seq \in [1..n -> catalogue] /\ IsInjective(seq)
    BY <2>1, DistinctIsInjective DEF OrderInv
  <2> HIDE DEF Closed
  <2>3. view.revision = revision + 1 /\ view.list = seq /\ ~view.loading
    BY <1>1 DEF Views
  <2>4. view \in Views
    <3>1. seq \in [1..n -> Items]
      BY <2>2 DEF OrderInv
    <3>2. seq \in Seq(Items)
      BY <3>1
    <3>3. revision + 1 \in Nat
      BY <1>2
    <3> QED BY <1>1, <3>2, <3>3 DEF Views
  <2>5. Sees(view, catalogue, Numbered(seq))
    <3>1. Lists(seq, n, Numbered(seq))
      BY <2>2, NumberedLists
    <3>2. view.list = seq /\ Len(seq) = n /\ ~view.loading
      BY <2>2, <2>3
    <3>3. \A i \in DOMAIN Numbered(seq) : \E k \in 1..n : seq[k] = i
      BY <2>2, <3>1 DEF Lists, Range
    <3>4. \A k \in 1..n : seq[k] \in DOMAIN Numbered(seq)
      BY <3>1 DEF Lists
    <3> HIDE DEF view
    <3> QED BY <3>1, <3>2, <3>3, <3>4 DEF Sees, Lists
  <2>6. view.revision = revision + 1
    BY <2>3
  <2> HIDE DEF view
  <2>7. editor' = [editor EXCEPT ![e] = view]
    BY <2>1 DEF view
  <2>8. ASSUME NEW o \in Editors
        PROVE  /\ editor'[o].revision <= revision + 1
               /\ editor'[o].revision = revision + 1 =>
                     Sees(editor'[o], catalogue, Numbered(seq))
    <3>1. CASE o = e
      BY <1>2, <2>5, <2>6, <2>7, <3>1
    <3>2. CASE o # e
      BY <1>2, <2>7, <3>2
    <3> QED BY <3>1, <3>2
  <2>9. editor' \in [Editors -> Views]
    BY <1>2, <2>4, <2>7
  <2> QED BY <1>2, <2>1, <2>8, <2>9 DEF EditorInv
<1>4. CASE AddEntry(e) \/ AddEntries(e) \/ MoveEntry(e) \/ RemoveEntry(e) \/ ApplyGeneration(e)
  <2>1. revision' = revision + 1 /\ editor' = [editor EXCEPT ![e] = Closed]
    BY <1>4 DEF AddEntry, AddEntries, Insert, MoveEntry, RemoveEntry, ApplyGeneration, Answer
  <2> HIDE DEF Closed
  <2>2. editor' \in [Editors -> Views]
    BY <1>1, <1>2, <2>1
  <2>3. \A o \in Editors : editor'[o].revision \in Nat /\ editor'[o].revision <= revision
    BY <1>1, <1>2, <2>1
  <2> QED BY <1>2, <2>1, <2>2, <2>3 DEF EditorInv
<1> QED BY <1>3, <1>4 DEF Edit

(* Items that go without advancing the revision had no entry, or took it    *)
(* with them.                                                               *)
LEMMA LossSees ==
    ASSUME OrderInv, EditorInv, NEW gone, catalogue' = catalogue \ gone, UNCHANGED editor,
           \/ revision' = revision + 1
           \/ revision' = revision /\ position' = Restrict(position, DOMAIN position \ gone)
    PROVE  EditorInv'
<1>1. CASE revision' = revision + 1
  BY <1>1 DEF EditorInv, Views
<1>2. CASE revision' = revision /\ position' = Restrict(position, DOMAIN position \ gone)
  <2>1. \A o \in Editors : editor[o].revision = revision => Sees(editor[o], catalogue', position')
    BY <1>2, SeenOutlivesItems DEF EditorInv, OrderInv, Entries
  <2> QED BY <1>2, <2>1 DEF EditorInv
<1> QED BY <1>1, <1>2

LEMMA NextSees ==
    ASSUME OrderInv, EditorInv, [Next]_vars
    PROVE  EditorInv'
<1>1. Rows(position) /\ Entries \subseteq catalogue
  BY DEF OrderInv
<1>2. ASSUME NEW gone, gone \cap Entries = {}
      PROVE  position = Restrict(position, DOMAIN position \ gone)
  BY <1>1, <1>2 DEF Restrict, Entries, Rows
<1>3. ASSUME NEW e \in Editors, Open(e) PROVE EditorInv'
  <2> DEFINE view == [Closed EXCEPT !.revision = revision, !.loading = TRUE]
  <2> HIDE DEF Closed
  <2>1. /\ view.revision = revision /\ view.list = <<>> /\ view.cursor = -1
        /\ view.loading = TRUE
    BY ClosedView DEF Views
  <2>2. /\ editor' = [editor EXCEPT ![e] = view]
        /\ UNCHANGED <<catalogue, position, revision>>
    BY <1>3 DEF Open
  <2>3. view \in Views
    <3>1. revision \in Nat
      BY DEF EditorInv
    <3> QED BY <3>1, ClosedView DEF Views
  <2>4. Sees(view, catalogue, position)
    <3>1. \A i \in DOMAIN position : ~(position[i] <= -1) /\ position[i] # -1
      BY <1>1 DEF Rows
    <3>2. view.list = <<>> /\ view.cursor = -1 /\ view.loading
      BY <2>1
    <3>3. Len(<<>>) = 0
      OBVIOUS
    <3> HIDE DEF view
    <3> QED BY <3>1, <3>2, <3>3 DEF Sees
  <2>5. view.revision = revision
    BY <2>1
  <2> HIDE DEF view
  <2> QED BY <2>2, <2>3, <2>4, <2>5 DEF EditorInv
<1>4. ASSUME NEW e \in Editors, Conflict(e) PROVE EditorInv'
  <2>1. Closed \in Views /\ Closed.revision = 0
    BY ClosedView
  <2>2. /\ editor' = [editor EXCEPT ![e] = Closed]
        /\ UNCHANGED <<catalogue, position, revision>>
    BY <1>4 DEF Conflict
  <2> HIDE DEF Closed
  <2> QED BY <2>1, <2>2 DEF EditorInv
<1>5. CASE DeleteItem
  <2>1. PICK gone \in SUBSET catalogue :
           /\ catalogue' = catalogue \ gone /\ position' = WithoutGone(gone)
           /\ revision' = IF gone \cap Entries # {} THEN revision + 1 ELSE revision
           /\ UNCHANGED editor
    BY <1>5 DEF DeleteItem
  <2>2. CASE gone \cap Entries # {}
    BY <2>1, <2>2, LossSees
  <2>3. CASE gone \cap Entries = {}
    BY <1>2, <2>1, <2>3, LossSees DEF WithoutGone
  <2> QED BY <2>2, <2>3
<1>6. CASE Merge
  <2>1. PICK item \in catalogue :
           /\ catalogue' = catalogue \ {item} /\ UNCHANGED editor
           /\ item \notin Entries => position' = Restrict(position, Entries \ {item})
           /\ revision' = IF item \in Entries THEN revision + 1 ELSE revision
    BY <1>6 DEF Merge
  <2> QED BY <2>1, LossSees DEF Entries
<1>7. CASE DeleteRoot
  <2>1. PICK gone \in SUBSET catalogue :
           /\ catalogue' = catalogue \ gone /\ UNCHANGED <<editor, revision>>
           /\ position' = Restrict(position, Entries \ gone)
    BY <1>7 DEF DeleteRoot
  <2> QED BY <2>1, LossSees DEF Entries
<1>8. CASE UNCHANGED vars
  BY <1>8 DEF vars, EditorInv
<1> QED BY <1>3, <1>4, <1>5, <1>6, <1>7, <1>8, LoadPageSees, EditSees DEF Next

LEMMA EditorInvariant == Spec => [](OrderInv /\ EditorInv)
<1>1. Init => OrderInv /\ EditorInv
  BY InitOrder, InitiallySeen DEF GapInv
<1>2. OrderInv /\ EditorInv /\ [Next]_vars => (OrderInv /\ EditorInv)'
  BY NextKeepsOrder, NextSees
<1> QED BY <1>1, <1>2, PTL DEF Spec

(* An edit is carried out only for an editor whose pages, read one by one   *)
(* while others edited and items went, add up to the entries in their       *)
(* order, whatever the page size.                                           *)
THEOREM AcceptedEditsAlwaysSawTheOrder == Spec => AcceptedEditsSawTheOrder
<1>1. ASSUME OrderInv, EditorInv, Next, NEW e \in Editors, revision' # revision,
             "by" \in DOMAIN answered', answered'.by = e
      PROVE  Sequence!Remaining(editor[e].list, catalogue) = InOrder(position)
  <2>1. revision \in Nat /\ editor \in [Editors -> Views]
    BY <1>1 DEF EditorInv
  <2>2. PICK o \in Editors : Edit(o)
    <3>1. ASSUME NEW o \in Editors, Open(o) \/ LoadPage(o) \/ Conflict(o) PROVE FALSE
      BY <1>1, <3>1 DEF Open, LoadPage, Conflict
    <3>2. ~DeleteItem
      BY <1>1 DEF DeleteItem
    <3>3. ~Merge
      <4>1. ASSUME NEW item, NEW target,
                   answered' = [op |-> "merge", item |-> item, target |-> target]
            PROVE  FALSE
        <5>1. DOMAIN answered' = {"op", "item", "target"}
          BY <4>1
        <5> QED BY <1>1, <5>1
      <4> QED BY <4>1 DEF Merge
    <3>4. ~DeleteRoot
      BY <1>1 DEF DeleteRoot
    <3> QED BY <1>1, <3>1, <3>2, <3>3, <3>4 DEF Next
  <2>3. MayEdit(o) /\ answered'.by = o
    <3>1. CASE Save(o)
      BY <3>1 DEF Save
    <3>2. CASE AddEntry(o) \/ AddEntries(o)
      <4>1. ASSUME NEW block, NEW before, NEW after, Insert(o, block, before, after)
            PROVE  MayEdit(o) /\ answered'.by = o
        BY <4>1 DEF Insert, Answer
      <4> QED BY <3>2, <4>1 DEF AddEntry, AddEntries
    <3>3. CASE MoveEntry(o)
      BY <3>3 DEF MoveEntry, Answer
    <3>4. CASE RemoveEntry(o)
      BY <3>4 DEF RemoveEntry, Answer
    <3>5. CASE ApplyGeneration(o)
      BY <3>5 DEF ApplyGeneration, Answer
    <3> QED BY <2>2, <3>1, <3>2, <3>3, <3>4, <3>5 DEF Edit
  <2>4. editor[e].revision = revision /\ ~editor[e].loading
    BY <1>1, <2>3 DEF MayEdit
  <2> DEFINE list == editor[e].list
             n == Len(list)
  <2>5. Sees(editor[e], catalogue, position)
    BY <1>1, <2>4 DEF EditorInv
  <2>6. n \in Nat /\ list \in [1..n -> Items]
    <3>1. list \in Seq(Items)
      BY <2>1 DEF Views
    <3> QED BY <3>1
  <2>7. /\ \A k \in 1..n : list[k] \in catalogue => list[k] \in DOMAIN position
        /\ \A k, l \in 1..n : k < l /\ list[k] \in catalogue /\ list[l] \in catalogue =>
              position[list[k]] < position[list[l]]
        /\ \A i \in DOMAIN position : \E k \in 1..n : list[k] = i
    BY <2>4, <2>5 DEF Sees
  <2>8. Rows(position) /\ DOMAIN position \subseteq catalogue
    BY <1>1 DEF OrderInv, Entries
  <2> HIDE DEF list, n
  <2>9. DOMAIN position = Range(list) \cap catalogue
    BY <2>6, <2>7, <2>8 DEF Range
  <2>10. Holds(list, n, catalogue, position)
    BY <2>6, <2>7, <2>8, <2>9 DEF Holds, Range
  <2>11. Sequence!Remaining(list, catalogue) = InOrder(position)
    BY <2>10, RemainingLists
  <2> QED BY <2>11 DEF list
<1>2. OrderInv /\ EditorInv /\ [Next]_vars =>
         [\A e \in Editors :
             (revision' # revision /\ "by" \in DOMAIN answered' /\ answered'.by = e) =>
                 Sequence!Remaining(editor[e].list, catalogue) = InOrder(position)]_vars
  BY <1>1
<1> QED BY <1>2, EditorInvariant, PTL DEF Spec, AcceptedEditsSawTheOrder

-----------------------------------------------------------------------------
(* The rows as the sequence they stand for. *)

(* Two numberings that put the entries in one order.                        *)
LEMMA SameOrder ==
    ASSUME NEW p, Rows(p), NEW q, Rows(q), DOMAIN q = DOMAIN p,
           \A i, j \in DOMAIN p : p[i] < p[j] => q[i] < q[j]
    PROVE  InOrder(q) = InOrder(p)
<1> DEFINE N == Cardinality(DOMAIN p)
           seq == InOrder(p)
<1>1. Lists(seq, N, p) /\ N \in Nat
  BY InOrderLists
<1> HIDE DEF seq, N
<1>2. \A k \in 1..N : seq[k] \in DOMAIN p
  BY <1>1 DEF Lists
<1>3. Lists(seq, N, q)
  BY <1>1, <1>2 DEF Lists
<1> QED BY <1>1, <1>3, ListsInOrder DEF seq

(* Without gaps an entry's position counts the entries before it.           *)
LEMMA ContiguousRank ==
    ASSUME NEW p, Rows(p), NoGaps(p), NEW i \in DOMAIN p
    PROVE  Rank(p, i) = p[i]
<1> DEFINE B == {j \in DOMAIN p : p[j] < p[i]}
           f == [j \in B |-> p[j]]
<1>1. /\ \A j \in DOMAIN p : p[j] \in Nat
      /\ \A j, k \in DOMAIN p : p[j] = p[k] => j = k
  BY DEF Rows, IsInjective
<1>2. IsFiniteSet(B)
  BY FS_Subset DEF Rows
<1>3. \A j \in B : f[j] \in 0..(p[i] - 1)
  BY <1>1
<1>4. \A n \in 0..(p[i] - 1) : \E j \in B : f[j] = n
  <2> SUFFICES ASSUME NEW n \in 0..(p[i] - 1) PROVE \E j \in B : f[j] = n
    OBVIOUS
  <2>1. n \in 0..p[i] /\ n < p[i]
    BY <1>1
  <2>2. PICK j \in DOMAIN p : p[j] = n
    BY <2>1 DEF NoGaps
  <2> QED BY <2>1, <2>2
<1>5. f \in [B -> 0..(p[i] - 1)] /\ IsInjective(f)
  BY <1>1, <1>3 DEF IsInjective
<1> HIDE DEF f, B
<1>6. f \in Bijection(B, 0..(p[i] - 1))
  BY <1>4, <1>5 DEF Bijection, Injection, Surjection
<1>7. Cardinality(0..(p[i] - 1)) = Cardinality(B)
  BY <1>2, <1>6, FS_Bijection DEF ExistsBijection
<1>8. Cardinality(0..(p[i] - 1)) = p[i]
  <2>1. p[i] \in Nat
    BY <1>1
  <2>2. PICK h \in Int : h = p[i] - 1
    BY <2>1
  <2>3. Cardinality(0..h) = IF 0 > h THEN 0 ELSE h - 0 + 1
    BY FS_Interval
  <2> QED BY <2>1, <2>2, <2>3
<1> QED BY <1>7, <1>8 DEF Rank, B

(* Where an entry is found in the order.                                    *)
LEMMA IndexIsPlace ==
    ASSUME NEW p, Rows(p), NEW i \in DOMAIN p
    PROVE  /\ Sequence!Index(InOrder(p), i) = Rank(p, i) + 1
           /\ Rank(p, i) \in 0..(Cardinality(DOMAIN p) - 1)
<1> DEFINE N == Cardinality(DOMAIN p)
           seq == InOrder(p)
<1>1. /\ seq \in [1..N -> DOMAIN p] /\ IsInjective(seq) /\ Range(seq) = DOMAIN p
      /\ N \in Nat
  BY InOrderListsEntries, FS_CardinalityType DEF Rows
<1>2. \A k \in 1..N : Rank(p, seq[k]) = k - 1
  BY InOrderIncreases
<1> HIDE DEF seq, N
<1>3. PICK k \in 1..N : seq[k] = i
  BY <1>1 DEF Range
<1>4. \A n \in DOMAIN seq : seq[n] = i <=> n = k
  BY <1>1, <1>3 DEF IsInjective
<1>5. Sequence!Index(seq, i) = k
  BY <1>1, <1>3, <1>4 DEF Sequence!Index
<1>6. Rank(p, i) = k - 1
  BY <1>2, <1>3
<1>7. k - 1 + 1 = k /\ k - 1 \in 0..(N - 1)
  BY <1>1
<1> QED BY <1>5, <1>6, <1>7 DEF seq, N

(* Leaving items out of the order is leaving out their rows.                *)
LEMMA WithoutIsOrder ==
    ASSUME NEW p, Rows(p), DOMAIN p \subseteq Items, NEW gone
    PROVE  Sequence!Remaining(InOrder(p), Items \ gone) =
              InOrder(Restrict(p, DOMAIN p \ gone))
<1> DEFINE N == Cardinality(DOMAIN p)
           seq == InOrder(p)
           D == DOMAIN p \ gone
           q == Restrict(p, D)
<1>1. Lists(seq, N, p) /\ N \in Nat
  BY InOrderLists
<1>2. DOMAIN q = D /\ Rows(q) /\ \A i \in D : q[i] = p[i]
  <2>1. DOMAIN q = D /\ Rows(q)
    BY RestrictedRows
  <2> QED BY <2>1 DEF Restrict
<1> HIDE DEF seq, N, q
<1>3. \A k \in 1..N : seq[k] \in Items \ gone => seq[k] \in D
  BY <1>1 DEF Lists
<1>4. Holds(seq, N, Items \ gone, q)
  <2>1. \A k, l \in 1..N : k < l => p[seq[k]] < p[seq[l]]
    BY <1>1 DEF Lists
  <2>2. seq \in [1..N -> Range(seq)] /\ Range(seq) = DOMAIN p
    BY <1>1 DEF Lists
  <2> HIDE DEF D
  <2>3. \A k, l \in 1..N : k < l /\ seq[k] \in Items \ gone /\ seq[l] \in Items \ gone =>
           q[seq[k]] < q[seq[l]]
    BY <1>2, <1>3, <2>1
  <2>4. D = Range(seq) \cap (Items \ gone)
    BY <2>2 DEF D
  <2> QED BY <1>1, <1>2, <2>2, <2>3, <2>4 DEF Holds
<1> QED BY <1>4, RemainingLists DEF seq, q

(* A sequence with a block put after its first t members.                   *)
Spliced(seq, block, t) == SubSeq(seq, 1, t) \o block \o SubSeq(seq, t + 1, Len(seq))

SplicedAs(seq, m, block, k, t, T) ==
    /\ Spliced(seq, block, t) \in [1..(m + k) -> T]
    /\ \A x \in 1..(m + k) :
          Spliced(seq, block, t)[x] = IF x <= t THEN seq[x]
                                      ELSE IF x <= t + k THEN block[x - t]
                                      ELSE seq[x - k]

LEMMA Concatenated ==
    ASSUME NEW T, NEW r \in Seq(T), NEW s \in Seq(T)
    PROVE  /\ r \o s \in Seq(T) /\ Len(r \o s) = Len(r) + Len(s)
           /\ \A x \in 1..(Len(r) + Len(s)) :
                 (r \o s)[x] = IF x <= Len(r) THEN r[x] ELSE s[x - Len(r)]
OBVIOUS

LEMMA SplicedMembers ==
    ASSUME NEW T, NEW m \in Nat, NEW seq \in [1..m -> T],
           NEW k \in Nat, NEW block \in [1..k -> T], NEW t \in 0..m
    PROVE  SplicedAs(seq, m, block, k, t, T)
<1> DEFINE a == SubSeq(seq, 1, t)
           c == SubSeq(seq, t + 1, Len(seq))
<1>1. /\ seq \in Seq(T) /\ Len(seq) = m
      /\ block \in Seq(T) /\ Len(block) = k
  OBVIOUS
<1>2. /\ a \in Seq(T) /\ Len(a) = t
      /\ \A x \in 1..t : a[x] = seq[x]
  BY <1>1
<1>3. /\ c \in Seq(T) /\ Len(c) = m - t
      /\ \A x \in 1..(m - t) : c[x] = seq[t + x]
  <2>1. Len(seq) = m /\ t + 1 \in 1..(m + 1)
    BY <1>1
  <2>2. c \in Seq(T) /\ Len(c) = m - t
    BY <1>1, <2>1
  <2>3. \A x \in 1..(m - t) : c[x] = seq[t + 1 + x - 1]
    BY <1>1, <2>1
  <2>4. \A x \in 1..(m - t) : t + 1 + x - 1 = t + x
    OBVIOUS
  <2> HIDE DEF c
  <2> QED BY <2>2, <2>3, <2>4
<1> HIDE DEF a, c
<1>4. /\ a \o block \in Seq(T) /\ Len(a \o block) = t + k
      /\ \A x \in 1..(t + k) : (a \o block)[x] = IF x <= t THEN a[x] ELSE block[x - t]
  BY <1>1, <1>2
<1> DEFINE b == a \o block
<1> HIDE DEF b
<1>5. b \in Seq(T) /\ Len(b) = t + k
  BY <1>4 DEF b
<1>6. /\ b \o c \in Seq(T) /\ Len(b \o c) = (t + k) + (m - t)
      /\ \A x \in 1..((t + k) + (m - t)) :
            (b \o c)[x] = IF x <= t + k THEN b[x] ELSE c[x - (t + k)]
  <2>1. /\ b \o c \in Seq(T) /\ Len(b \o c) = Len(b) + Len(c)
        /\ \A x \in 1..(Len(b) + Len(c)) :
              (b \o c)[x] = IF x <= Len(b) THEN b[x] ELSE c[x - Len(b)]
    BY <1>3, <1>5, Concatenated
  <2> QED BY <1>3, <1>5, <2>1
<1>7. (t + k) + (m - t) = m + k
  OBVIOUS
<1>8. b \o c \in [1..(m + k) -> T]
  <2>1. \A u \in Seq(T) : u \in [1..Len(u) -> T]
    OBVIOUS
  <2> QED BY <1>6, <1>7, <2>1
<1>9. ASSUME NEW x \in 1..(m + k)
      PROVE  (b \o c)[x] = IF x <= t THEN seq[x]
                           ELSE IF x <= t + k THEN block[x - t] ELSE seq[x - k]
  <2>1. CASE x <= t
    <3>1. x \in 1..t /\ x \in 1..(t + k) /\ x <= t + k
      BY <2>1
    <3> QED BY <1>2, <1>4, <1>6, <1>7, <2>1, <3>1 DEF b
  <2>2. CASE ~(x <= t) /\ x <= t + k
    <3>1. x \in 1..(t + k)
      BY <2>2
    <3> QED BY <1>4, <1>6, <1>7, <2>2, <3>1 DEF b
  <2>3. CASE ~(x <= t + k)
    <3>1. x - (t + k) \in 1..(m - t) /\ ~(x <= t) /\ t + (x - (t + k)) = x - k
      BY <2>3
    <3>2. (b \o c)[x] = c[x - (t + k)]
      BY <1>6, <1>7, <2>3
    <3> QED BY <1>3, <2>3, <3>1, <3>2
  <2> QED BY <2>1, <2>2, <2>3
<1>10. Spliced(seq, block, t) = b \o c
  BY DEF Spliced, a, b, c
<1> QED BY <1>8, <1>9, <1>10 DEF SplicedAs

(* Rows numbered so that a block stands after the first t of the others.    *)
PutsInto(q, p, block, k, t) ==
    /\ Rows(p) /\ k \in Nat /\ block \in [1..k -> Range(block)]
    /\ Range(block) \cap DOMAIN p = {} /\ t \in 0..Cardinality(DOMAIN p)
    /\ Rows(q) /\ DOMAIN q = DOMAIN p \cup Range(block)
    /\ \A i, j \in DOMAIN p : p[i] < p[j] => q[i] < q[j]
    /\ \A i \in DOMAIN p : \A x \in 1..k :
          IF Rank(p, i) < t THEN q[i] < q[block[x]] ELSE q[block[x]] < q[i]
    /\ \A x, y \in 1..k : x < y => q[block[x]] < q[block[y]]

LEMMA SplicedIsOrder ==
    ASSUME NEW p, NEW k, NEW block, NEW t, NEW q, PutsInto(q, p, block, k, t)
    PROVE  InOrder(q) = Spliced(InOrder(p), block, t)
<1> USE DEF PutsInto
<1> DEFINE m == Cardinality(DOMAIN p)
           seq == InOrder(p)
           T == DOMAIN p \cup Range(block)
           W == Spliced(seq, block, t)
<1>1. /\ Lists(seq, m, p) /\ m \in Nat
      /\ \A x \in 1..m : Rank(p, seq[x]) = x - 1
  BY InOrderLists, InOrderIncreases
<1> HIDE DEF seq, m
<1>2. t \in 0..m
  BY DEF m
<1>3. seq \in [1..m -> T] /\ block \in [1..k -> T] /\ \A x \in 1..m : seq[x] \in DOMAIN p
  BY <1>1 DEF Lists
<1>4. /\ W \in [1..(m + k) -> T]
      /\ \A x \in 1..(m + k) :
            W[x] = IF x <= t THEN seq[x] ELSE IF x <= t + k THEN block[x - t] ELSE seq[x - k]
  <2>1. SplicedAs(seq, m, block, k, t, T)
    BY <1>1, <1>2, <1>3, SplicedMembers
  <2> QED BY <2>1 DEF SplicedAs
<1> HIDE DEF W, T
<1>5. \A x, y \in 1..m : x < y => q[seq[x]] < q[seq[y]]
  BY <1>1, <1>3 DEF Lists
<1>6. \A x \in 1..m : \A y \in 1..k :
         IF x <= t THEN q[seq[x]] < q[block[y]] ELSE q[block[y]] < q[seq[x]]
  <2> SUFFICES ASSUME NEW x \in 1..m, NEW y \in 1..k
               PROVE  IF x <= t THEN q[seq[x]] < q[block[y]] ELSE q[block[y]] < q[seq[x]]
    OBVIOUS
  <2>1. Rank(p, seq[x]) < t <=> x <= t
    BY <1>1, <1>2
  <2> QED BY <1>3, <2>1
<1>7. ASSUME NEW x \in 1..(m + k), NEW y \in 1..(m + k), x < y PROVE q[W[x]] < q[W[y]]
  <2>1. CASE y <= t
    <3>1. x \in 1..m /\ y \in 1..m /\ x <= t
      BY <1>1, <1>2, <1>7, <2>1
    <3> QED BY <1>4, <1>5, <1>7, <2>1, <3>1
  <2>2. CASE x <= t /\ ~(y <= t) /\ y <= t + k
    <3>1. x \in 1..m /\ y - t \in 1..k
      BY <1>1, <1>2, <2>2
    <3>2. q[seq[x]] < q[block[y - t]]
      BY <1>6, <2>2, <3>1
    <3> QED BY <1>4, <2>2, <3>2
  <2>3. CASE x <= t /\ ~(y <= t + k)
    <3>1. x \in 1..m /\ y - k \in 1..m /\ x < y - k /\ ~(y <= t)
      BY <1>1, <1>2, <2>3
    <3>2. q[seq[x]] < q[seq[y - k]]
      BY <1>5, <3>1
    <3> QED BY <1>4, <2>3, <3>1, <3>2
  <2>4. CASE ~(x <= t) /\ y <= t + k
    <3>1. x - t \in 1..k /\ y - t \in 1..k /\ x - t < y - t /\ ~(y <= t) /\ x <= t + k
      BY <1>1, <1>2, <1>7, <2>4
    <3>2. q[block[x - t]] < q[block[y - t]]
      BY <3>1
    <3> QED BY <1>4, <2>4, <3>1, <3>2
  <2>5. CASE ~(x <= t) /\ x <= t + k /\ ~(y <= t + k)
    <3>1. x - t \in 1..k /\ y - k \in 1..m /\ ~(y - k <= t) /\ ~(y <= t)
      BY <1>1, <1>2, <2>5
    <3>2. q[block[x - t]] < q[seq[y - k]]
      BY <1>6, <3>1
    <3> QED BY <1>4, <2>5, <3>1, <3>2
  <2>6. CASE ~(x <= t + k)
    <3>1. /\ x - k \in 1..m /\ y - k \in 1..m /\ x - k < y - k
          /\ ~(x <= t) /\ ~(y <= t) /\ ~(y <= t + k)
      BY <1>1, <1>2, <1>7, <2>6
    <3>2. q[seq[x - k]] < q[seq[y - k]]
      BY <1>5, <3>1
    <3> QED BY <1>4, <2>6, <3>1, <3>2
  <2>7. y <= t \/ (~(y <= t) /\ y <= t + k) \/ ~(y <= t + k)
    OBVIOUS
  <2>8. x <= t \/ (~(x <= t) /\ x <= t + k) \/ ~(x <= t + k)
    OBVIOUS
  <2> QED BY <1>2, <1>7, <2>1, <2>2, <2>3, <2>4, <2>5, <2>6, <2>7, <2>8
<1>8. Range(W) = T
  <2>1. ASSUME NEW i \in DOMAIN p PROVE \E x \in 1..(m + k) : W[x] = i
    <3>1. PICK y \in 1..m : seq[y] = i
      BY <1>1 DEF Lists, Range
    <3>2. CASE y <= t
      <4>1. y \in 1..(m + k)
        BY <1>1
      <4> QED BY <1>4, <3>1, <3>2, <4>1
    <3>3. CASE ~(y <= t)
      <4>1. y + k \in 1..(m + k) /\ ~(y + k <= t) /\ ~(y + k <= t + k) /\ (y + k) - k = y
        BY <1>1, <1>2, <3>3
      <4> QED BY <1>4, <3>1, <4>1
    <3> QED BY <3>2, <3>3
  <2>2. ASSUME NEW i \in Range(block) PROVE \E x \in 1..(m + k) : W[x] = i
    <3>1. PICK y \in 1..k : block[y] = i
      BY DEF Range
    <3>2. y + t \in 1..(m + k) /\ ~(y + t <= t) /\ y + t <= t + k /\ (y + t) - t = y
      BY <1>1, <1>2
    <3> QED BY <1>4, <3>1, <3>2
  <2>3. \A i \in T : \E x \in 1..(m + k) : W[x] = i
    BY <2>1, <2>2 DEF T
  <2> QED BY <1>4, <2>3 DEF Range
<1>9. Lists(W, m + k, q) /\ m + k \in Nat
  BY <1>1, <1>4, <1>7, <1>8 DEF Lists, T
<1>10. W = InOrder(q)
  BY <1>9, ListsInOrder
<1> QED BY <1>10 DEF W, seq

(* Put is a splice at the place its anchor names.                           *)
PutPlace(p, before, after) ==
    IF before # NoItem THEN Rank(p, before)
    ELSE IF after # NoItem THEN Rank(p, after) + 1
    ELSE Cardinality(DOMAIN p)

LEMMA PutSplices ==
    ASSUME NEW p, Rows(p), NEW block, NEW before, NEW after,
           before # NoItem => before \in DOMAIN p,
           after # NoItem => after \in DOMAIN p
    PROVE  /\ Sequence!Put(InOrder(p), block, before, after) =
                 Spliced(InOrder(p), block, PutPlace(p, before, after))
           /\ PutPlace(p, before, after) \in 0..Cardinality(DOMAIN p)
<1> DEFINE seq == InOrder(p)
           m == Cardinality(DOMAIN p)
           n == IF before # NoItem THEN Sequence!Index(seq, before) - 1
                ELSE IF after # NoItem THEN Sequence!Index(seq, after)
                ELSE Len(seq)
<1>1. m \in Nat /\ Len(seq) = m
  <2>1. seq \in [1..m -> DOMAIN p] /\ m \in Nat
    BY InOrderListsEntries, FS_CardinalityType DEF Rows
  <2> HIDE DEF seq, m
  <2> QED BY <2>1
<1>2. \A i \in DOMAIN p : Sequence!Index(seq, i) = Rank(p, i) + 1 /\ Rank(p, i) \in 0..(m - 1)
  BY IndexIsPlace
<1>3. Sequence!Put(seq, block, before, after) = Spliced(seq, block, n)
  BY DEF Sequence!Put, Spliced
<1> HIDE DEF seq, m
<1>4. PutPlace(p, before, after) =
         IF before # NoItem THEN Rank(p, before)
         ELSE IF after # NoItem THEN Rank(p, after) + 1 ELSE m
  BY DEF PutPlace, m
<1>5. n = PutPlace(p, before, after) /\ n \in 0..m
  <2>1. CASE before # NoItem
    BY <1>1, <1>2, <1>4, <2>1
  <2>2. CASE before = NoItem /\ after # NoItem
    BY <1>1, <1>2, <1>4, <2>2
  <2>3. CASE before = NoItem /\ after = NoItem
    BY <1>1, <1>4, <2>3
  <2> QED BY <2>1, <2>2, <2>3
<1> QED BY <1>3, <1>5 DEF seq, m

LEMMA InsertedIsSpliced ==
    ASSUME NEW p, Rows(p), NoGaps(p), NEW S, NEW k \in Nat, NEW block \in [1..k -> S],
           IsInjective(block), Range(block) \cap DOMAIN p = {},
           NEW before, NEW after, before # NoItem => before \in DOMAIN p,
           after # NoItem => after \in DOMAIN p
    PROVE  InOrder(Inserted(p, block, before, after)) =
              Sequence!Put(InOrder(p), block, before, after)
<1> DEFINE D == DOMAIN p
           B == Range(block)
           b == Numbered(block)
           at == InsertionPosition(p, before, after)
           q == Inserted(p, block, before, after)
           t == PutPlace(p, before, after)
<1>1. /\ \A i \in D : p[i] \in Nat /\ p[i] <= Highest(p) /\ Rank(p, i) = p[i]
      /\ Highest(p) \in Int
  BY HighestBounds, ContiguousRank DEF Rows
<1>2. Highest(p) + 1 = Cardinality(D)
  <2>1. CASE D = {}
    BY <2>1, HighestBounds, FS_EmptySet
  <2>2. CASE D # {}
    <3>1. PICK i \in D : p[i] = Highest(p)
      BY <2>2, HighestBounds
    <3>2. Highest(p) \in 0..(Cardinality(D) - 1) /\ Cardinality(D) \in Nat
      BY <1>1, <3>1, RankIncreases, FS_CardinalityType DEF Rows
    <3>3. Cardinality(D) <= Highest(p) + 1
      BY EntriesWithinHighest
    <3> QED BY <3>2, <3>3
  <2> QED BY <2>1, <2>2
<1>3. at = t
  BY <1>1, <1>2 DEF InsertionPosition, PutPlace
<1>4. /\ Sequence!Put(InOrder(p), block, before, after) = Spliced(InOrder(p), block, t)
      /\ t \in 0..Cardinality(D)
  BY PutSplices
<1>5. DOMAIN q = D \cup B /\ Rows(q)
  BY InsertedRows
<1>6. Lists(block, k, b)
  BY NumberedLists
<1>7. /\ block \in [1..k -> B] /\ Len(block) = k
      /\ \A x \in 1..k : block[x] \in B /\ block[x] \notin D
      /\ \A i \in B : b[i] \in 0..(k - 1)
  <2>1. Len(block) = k
    OBVIOUS
  <2>2. \A i \in B : b[i] \in 0..(k - 1)
    BY NumberedRows
  <2>3. block \in [1..k -> B] /\ \A x \in 1..k : block[x] \in B
    BY DEF Range
  <2> QED BY <2>1, <2>2, <2>3
<1>8. /\ \A i \in D : q[i] = IF p[i] >= t THEN p[i] + k ELSE p[i]
      /\ \A i \in B : q[i] = t + b[i]
  <2>1. q = [i \in D \cup B |->
                IF i \in D THEN (IF p[i] \in t..Highest(p) THEN p[i] + k ELSE p[i])
                ELSE t + b[i]]
    BY <1>3, <1>7 DEF Inserted, Shift
  <2>2. \A i \in D : p[i] \in t..Highest(p) <=> p[i] >= t
    BY <1>1, <1>4
  <2> HIDE DEF q, t, b
  <2> QED BY <2>1, <2>2
<1> HIDE DEF q, t, b, at, B
<1>9. t \in Nat
  BY <1>1, <1>2, <1>4
<1>10. \A i, j \in D : p[i] < p[j] => q[i] < q[j]
  BY <1>1, <1>8, <1>9
<1>11. \A i \in D : \A x \in 1..k :
          IF Rank(p, i) < t THEN q[i] < q[block[x]] ELSE q[block[x]] < q[i]
  <2> SUFFICES ASSUME NEW i \in D, NEW x \in 1..k
               PROVE  IF Rank(p, i) < t THEN q[i] < q[block[x]] ELSE q[block[x]] < q[i]
    OBVIOUS
  <2>1. /\ q[block[x]] = t + b[block[x]] /\ b[block[x]] \in 0..(k - 1)
        /\ q[i] = IF p[i] >= t THEN p[i] + k ELSE p[i]
        /\ Rank(p, i) = p[i] /\ p[i] \in Nat
    BY <1>1, <1>7, <1>8
  <2> QED BY <1>9, <2>1
<1>12. \A x, y \in 1..k : x < y => q[block[x]] < q[block[y]]
  <2> SUFFICES ASSUME NEW x \in 1..k, NEW y \in 1..k, x < y
               PROVE  q[block[x]] < q[block[y]]
    OBVIOUS
  <2>1. /\ q[block[x]] = t + b[block[x]] /\ q[block[y]] = t + b[block[y]]
        /\ b[block[x]] \in 0..(k - 1) /\ b[block[y]] \in 0..(k - 1)
    BY <1>7, <1>8
  <2>2. b[block[x]] < b[block[y]]
    BY <1>6 DEF Lists
  <2> QED BY <1>9, <2>1, <2>2
<1>13. PutsInto(q, p, block, k, t)
  BY <1>4, <1>5, <1>7, <1>10, <1>11, <1>12 DEF B, PutsInto
<1>14. InOrder(q) = Spliced(InOrder(p), block, t)
  BY <1>13, SplicedIsOrder
<1> QED BY <1>4, <1>14 DEF q

(* Counting without the moved entry closes the gap it leaves.               *)
LEMMA RankWithout ==
    ASSUME NEW p, Rows(p), NoGaps(p), NEW item \in DOMAIN p, NEW i \in DOMAIN p \ {item}
    PROVE  Rank(Restrict(p, DOMAIN p \ {item}), i) = IF p[i] > p[item] THEN p[i] - 1 ELSE p[i]
<1> DEFINE D == DOMAIN p \ {item}
           rest == Restrict(p, D)
           q == Removed(p, item)
<1>1. /\ \A j \in DOMAIN p : p[j] \in Nat /\ p[j] <= Highest(p)
      /\ \A j, k \in DOMAIN p : p[j] = p[k] => j = k
      /\ Highest(p) \in Int
  BY HighestBounds DEF Rows, IsInjective
<1>2. DOMAIN q = D /\ Rows(q) /\ NoGaps(q)
  BY RemovedRows
<1>3. \A j \in D : q[j] = IF p[j] > p[item] THEN p[j] - 1 ELSE p[j]
  <2>1. q = [j \in D |-> IF p[j] \in (p[item] + 1)..Highest(p) THEN p[j] + (-1) ELSE p[j]]
    BY DEF Removed, Shift, Restrict
  <2>2. \A j \in D : p[j] \in (p[item] + 1)..Highest(p) <=> p[j] > p[item]
    BY <1>1
  <2>3. \A j \in D : p[j] + (-1) = p[j] - 1
    BY <1>1
  <2> HIDE DEF q
  <2> QED BY <2>1, <2>2, <2>3
<1>4. DOMAIN rest = D /\ \A j \in D : rest[j] = p[j]
  BY DEF Restrict
<1> HIDE DEF rest, q
<1>5. \A j, k \in D : q[j] < q[k] <=> rest[j] < rest[k]
  <2> SUFFICES ASSUME NEW j \in D, NEW k \in D PROVE q[j] < q[k] <=> rest[j] < rest[k]
    OBVIOUS
  <2>1. p[j] # p[item] /\ p[k] # p[item] /\ p[j] \in Nat /\ p[k] \in Nat /\ p[item] \in Nat
    BY <1>1
  <2> QED BY <1>3, <1>4, <2>1
<1>6. {j \in D : rest[j] < rest[i]} = {j \in D : q[j] < q[i]}
  BY <1>5
<1>7. Rank(rest, i) = Rank(q, i)
  BY <1>2, <1>4, <1>6 DEF Rank
<1>8. Rank(q, i) = q[i]
  BY <1>2, ContiguousRank
<1> QED BY <1>3, <1>7, <1>8 DEF rest

LEMMA MovedIsSpliced ==
    ASSUME NEW p, Rows(p), NoGaps(p), NEW item \in DOMAIN p, NEW before, NEW after,
           before # NoItem => before \in DOMAIN p \ {item},
           after # NoItem => after \in DOMAIN p \ {item}
    PROVE  InOrder(Moved(p, item, before, after)) =
              Sequence!Put(InOrder(Restrict(p, DOMAIN p \ {item})), <<item>>, before, after)
<1> DEFINE D == DOMAIN p \ {item}
           rest == Restrict(p, D)
           q == Moved(p, item, before, after)
           t == MoveTarget(p, item, before, after)
           o == p[item]
<1>1. /\ t \in Nat /\ o \in Nat
      /\ \A i \in D : p[i] \in Nat /\ p[i] # o
  BY MoveTargetBounds DEF Rows, IsInjective
<1>2. DOMAIN rest = D /\ Rows(rest) /\ \A i \in D : rest[i] = p[i]
  <2>1. DOMAIN rest = D /\ Rows(rest)
    BY RestrictedRows
  <2> QED BY <2>1 DEF Restrict
<1>3. t = PutPlace(rest, before, after)
  BY DEF MoveTarget, PutPlace
<1>4. /\ Sequence!Put(InOrder(rest), <<item>>, before, after) = Spliced(InOrder(rest), <<item>>, t)
      /\ t \in 0..Cardinality(D)
  BY <1>2, <1>3, PutSplices
<1>5. DOMAIN q = DOMAIN p /\ Rows(q)
  BY MovedRows
<1>6. \A i \in D : Rank(rest, i) = IF p[i] > o THEN p[i] - 1 ELSE p[i]
  BY RankWithout
<1>7. /\ q[item] = t
      /\ \A i \in D : q[i] = IF p[i] < o THEN (IF p[i] >= t THEN p[i] + 1 ELSE p[i])
                             ELSE (IF p[i] <= t THEN p[i] - 1 ELSE p[i])
  <2>1. CASE t = o
    <3>1. q = p
      BY <2>1 DEF Moved
    <3> HIDE DEF q, t
    <3> QED BY <1>1, <2>1, <3>1
  <2>2. CASE t < o
    <3>1. MoveShift(o, t) = <<t, o - 1, 1>>
      BY <2>2 DEF MoveShift
    <3>2. q = [Shift(Parked(p, item), t, o - 1, 1) EXCEPT ![item] = t]
      BY <1>1, <2>2, <3>1 DEF Moved
    <3>3. q = [i \in DOMAIN p |-> IF i = item THEN t
                                  ELSE IF p[i] \in t..(o - 1) THEN p[i] + 1 ELSE p[i]]
      BY <3>2 DEF Shift, Parked, Rows
    <3> HIDE DEF q, t
    <3>4. q[item] = t
      BY <3>3
    <3>5. \A i \in D : q[i] = IF p[i] \in t..(o - 1) THEN p[i] + 1 ELSE p[i]
      BY <3>3
    <3> QED BY <1>1, <2>2, <3>4, <3>5
  <2>3. CASE t > o
    <3>1. MoveShift(o, t) = <<o + 1, t, -1>>
      BY <1>1, <2>3 DEF MoveShift
    <3>2. q = [Shift(Parked(p, item), o + 1, t, -1) EXCEPT ![item] = t]
      BY <1>1, <2>3, <3>1 DEF Moved
    <3>3. q = [i \in DOMAIN p |-> IF i = item THEN t
                                  ELSE IF p[i] \in (o + 1)..t THEN p[i] + (-1) ELSE p[i]]
      BY <3>2 DEF Shift, Parked, Rows
    <3> HIDE DEF q, t
    <3>4. q[item] = t
      BY <3>3
    <3>5. \A i \in D : q[i] = IF p[i] \in (o + 1)..t THEN p[i] + (-1) ELSE p[i]
      BY <3>3
    <3> QED BY <1>1, <2>3, <3>4, <3>5
  <2> QED BY <1>1, <2>1, <2>2, <2>3
<1> HIDE DEF q, t, o, rest
<1>8. \A i, j \in D : rest[i] < rest[j] => q[i] < q[j]
  <2> SUFFICES ASSUME NEW i \in D, NEW j \in D, p[i] < p[j] PROVE q[i] < q[j]
    BY <1>2
  <2>1. /\ q[i] = IF p[i] < o THEN (IF p[i] >= t THEN p[i] + 1 ELSE p[i])
                  ELSE (IF p[i] <= t THEN p[i] - 1 ELSE p[i])
        /\ q[j] = IF p[j] < o THEN (IF p[j] >= t THEN p[j] + 1 ELSE p[j])
                  ELSE (IF p[j] <= t THEN p[j] - 1 ELSE p[j])
        /\ p[i] \in Nat /\ p[i] # o /\ p[j] \in Nat /\ p[j] # o
    BY <1>1, <1>7
  <2> QED BY <1>1, <2>1
<1>9. \A i \in D : IF Rank(rest, i) < t THEN q[i] < q[item] ELSE q[item] < q[i]
  <2> SUFFICES ASSUME NEW i \in D
               PROVE  IF Rank(rest, i) < t THEN q[i] < q[item] ELSE q[item] < q[i]
    OBVIOUS
  <2>1. /\ q[i] = IF p[i] < o THEN (IF p[i] >= t THEN p[i] + 1 ELSE p[i])
                  ELSE (IF p[i] <= t THEN p[i] - 1 ELSE p[i])
        /\ Rank(rest, i) = IF p[i] > o THEN p[i] - 1 ELSE p[i]
        /\ p[i] \in Nat /\ p[i] # o /\ q[item] = t
    BY <1>1, <1>6, <1>7
  <2> QED BY <1>1, <2>1
<1> DEFINE block == <<item>>
<1>10. /\ block \in [1..1 -> Range(block)] /\ Range(block) = {item}
       /\ \A x \in 1..1 : block[x] = item
  <2>1. block \in [1..1 -> {item}] /\ \A x \in 1..1 : block[x] = item
    OBVIOUS
  <2>2. Range(block) = {item}
    <3> HIDE DEF block
    <3> QED BY <2>1 DEF Range
  <2> QED BY <2>1, <2>2
<1>11. InOrder(q) = Spliced(InOrder(rest), block, t)
  <2>1. Range(block) \cap DOMAIN rest = {} /\ DOMAIN q = DOMAIN rest \cup Range(block)
    BY <1>2, <1>5, <1>10
  <2>2. \A i \in DOMAIN rest : \A x \in 1..1 :
           IF Rank(rest, i) < t THEN q[i] < q[block[x]] ELSE q[block[x]] < q[i]
    BY <1>2, <1>9, <1>10
  <2>3. \A x, y \in 1..1 : x < y => q[block[x]] < q[block[y]]
    OBVIOUS
  <2>4. t \in 0..Cardinality(DOMAIN rest) /\ 1 \in Nat
    BY <1>2, <1>4
  <2>5. \A i, j \in DOMAIN rest : rest[i] < rest[j] => q[i] < q[j]
    BY <1>2, <1>8
  <2> HIDE DEF block
  <2>6. PutsInto(q, rest, block, 1, t)
    BY <1>2, <1>5, <1>10, <2>1, <2>2, <2>3, <2>4, <2>5 DEF PutsInto
  <2> QED BY <2>6, SplicedIsOrder
<1> QED BY <1>4, <1>11 DEF q, rest

-----------------------------------------------------------------------------
(* Every step is the step of the sequence that its request asks for.        *)
LEMMA ReplacingIsSequence ==
    ASSUME GapInv, NEW n \in Nat, NEW seq \in [1..n -> catalogue], IsInjective(seq),
           position' = Numbered(seq), NEW r, answered' = r, r.op = "replace", r.block = seq
    PROVE  InOrder(position)' = Sequence!Result(answered')
<1>1. Lists(seq, n, Numbered(seq)) /\ Rows(Numbered(seq))
  BY NumberedLists, NumberedRows
<1>2. seq = InOrder(Numbered(seq))
  BY <1>1, ListsInOrder
<1>3. Sequence!Result(answered') = seq
  BY DEF Sequence!Result
<1> QED BY <1>2, <1>3

LEMMA InsertIsSequence ==
    ASSUME GapInv, NEW e, NEW k \in Nat, NEW block \in [1..k -> catalogue],
           IsInjective(block), NEW before, NEW after, Insert(e, block, before, after)
    PROVE  InOrder(position)' = Sequence!Result(answered')
<1>1. /\ position' = Inserted(position, block, before, after)
      /\ answered' = [op |-> "insert", by |-> e, block |-> block, before |-> before,
                      after |-> after]
      /\ Range(block) \cap DOMAIN position = {}
  BY DEF Insert, Answer, Entries
<1>2. /\ before # NoItem => before \in DOMAIN position
      /\ after # NoItem => after \in DOMAIN position
  BY DEF Insert, AnchorExists, Entries
<1>3. Rows(position) /\ NoGaps(position)
  BY DEF GapInv, OrderInv
<1>4. InOrder(Inserted(position, block, before, after)) =
         Sequence!Put(InOrder(position), block, before, after)
  BY <1>1, <1>2, <1>3, InsertedIsSpliced
<1>5. /\ answered'.op = "insert" /\ answered'.block = block
      /\ answered'.before = before /\ answered'.after = after
  BY <1>1
<1>6. Sequence!Result(answered') = Sequence!Put(InOrder(position), block, before, after)
  BY <1>5 DEF Sequence!Result
<1> QED BY <1>1, <1>4, <1>6

LEMMA WithoutIsSequence ==
    ASSUME GapInv, NEW gone
    PROVE  /\ Sequence!Without(gone) = InOrder(Restrict(position, Entries \ gone))
           /\ DOMAIN Restrict(position, Entries \ gone) = Entries \ gone
           /\ Rows(Restrict(position, Entries \ gone))
<1>1. Rows(position) /\ DOMAIN position \subseteq Items
  BY DEF GapInv, OrderInv, Entries
<1>2. Sequence!Remaining(InOrder(position), Items \ gone) =
         InOrder(Restrict(position, DOMAIN position \ gone))
  BY <1>1, WithoutIsOrder
<1> QED BY <1>1, <1>2, RestrictedRows DEF Sequence!Without, Entries

LEMMA MoveIsSequence ==
    ASSUME GapInv, NEW e, MoveEntry(e)
    PROVE  InOrder(position)' = Sequence!Result(answered')
<1>1. PICK i \in Entries, before \in Items \cup {NoItem}, after \in Items \cup {NoItem} :
         /\ AnchorExists(before, after) /\ i \notin {before, after}
         /\ position' = Moved(position, i, before, after)
         /\ answered' = [op |-> "move", by |-> e, item |-> i, before |-> before,
                         after |-> after]
  BY DEF MoveEntry, Answer
<1>2. /\ before # NoItem => before \in DOMAIN position \ {i}
      /\ after # NoItem => after \in DOMAIN position \ {i}
      /\ i \in DOMAIN position /\ Rows(position) /\ NoGaps(position)
  BY <1>1 DEF AnchorExists, Entries, GapInv, OrderInv
<1>3. InOrder(Moved(position, i, before, after)) =
         Sequence!Put(InOrder(Restrict(position, DOMAIN position \ {i})), <<i>>, before, after)
  BY <1>2, MovedIsSpliced
<1>4. /\ answered'.op = "move" /\ answered'.item = i
      /\ answered'.before = before /\ answered'.after = after
  BY <1>1
<1>5. Sequence!Result(answered') = Sequence!Put(Sequence!Without({i}), <<i>>, before, after)
  BY <1>4 DEF Sequence!Result
<1>6. Sequence!Without({i}) = InOrder(Restrict(position, DOMAIN position \ {i}))
  BY WithoutIsSequence DEF Entries
<1> QED BY <1>1, <1>3, <1>5, <1>6

LEMMA RemoveIsSequence ==
    ASSUME GapInv, NEW e, RemoveEntry(e)
    PROVE  InOrder(position)' = Sequence!Result(answered')
<1>1. PICK i \in Entries :
         position' = Removed(position, i) /\ answered' = [op |-> "remove", by |-> e, item |-> i]
  BY DEF RemoveEntry, Answer
<1> DEFINE rest == Restrict(position, Entries \ {i})
           q == Removed(position, i)
<1>2. Sequence!Without({i}) = InOrder(rest) /\ DOMAIN rest = Entries \ {i} /\ Rows(rest)
  BY WithoutIsSequence
<1>3. /\ Rows(position) /\ i \in DOMAIN position
      /\ \A j \in Entries : position[j] \in Nat /\ position[j] <= Highest(position)
      /\ \A j, k \in Entries : position[j] = position[k] => j = k
      /\ Highest(position) \in Int
  BY HighestBounds DEF GapInv, OrderInv, Rows, IsInjective, Entries
<1>4. DOMAIN q = Entries \ {i} /\ Rows(q)
  BY <1>3, RemovedRows DEF Entries
<1>5. \A j \in Entries \ {i} : q[j] = IF position[j] > position[i] THEN position[j] - 1
                                      ELSE position[j]
  <2>1. q = [j \in Entries \ {i} |->
                IF position[j] \in (position[i] + 1)..Highest(position)
                THEN position[j] + (-1) ELSE position[j]]
    BY DEF Removed, Shift, Restrict, Entries
  <2>2. \A j \in Entries : position[j] \in (position[i] + 1)..Highest(position)
                              <=> position[j] > position[i]
    BY <1>3
  <2>3. \A j \in Entries : position[j] + (-1) = position[j] - 1
    BY <1>3
  <2> HIDE DEF q
  <2> QED BY <2>1, <2>2, <2>3
<1>6. \A j \in Entries \ {i} : rest[j] = position[j]
  BY DEF Restrict
<1> HIDE DEF rest, q
<1>7. \A j, k \in Entries \ {i} : rest[j] < rest[k] => q[j] < q[k]
  <2> SUFFICES ASSUME NEW j \in Entries \ {i}, NEW k \in Entries \ {i}, position[j] < position[k]
               PROVE  q[j] < q[k]
    BY <1>6
  <2>1. /\ position[j] # position[i] /\ position[k] # position[i]
        /\ position[j] \in Nat /\ position[k] \in Nat /\ position[i] \in Nat
    BY <1>3
  <2> QED BY <1>5, <2>1
<1>8. InOrder(q) = InOrder(rest)
  BY <1>2, <1>4, <1>7, SameOrder
<1>9. answered'.op = "remove" /\ answered'.item = i
  BY <1>1
<1>10. Sequence!Result(answered') = Sequence!Without({i})
  BY <1>9 DEF Sequence!Result
<1> QED BY <1>1, <1>2, <1>8, <1>10 DEF q

LEMMA DeleteIsSequence ==
    ASSUME GapInv, DeleteItem
    PROVE  InOrder(position)' = Sequence!Result(answered')
<1>1. PICK gone : position' = WithoutGone(gone) /\ answered' = [op |-> "vanish", gone |-> gone]
  BY DEF DeleteItem
<1> DEFINE rest == Restrict(position, Entries \ gone)
<1>2. Sequence!Without(gone) = InOrder(rest) /\ DOMAIN rest = Entries \ gone /\ Rows(rest)
  BY WithoutIsSequence
<1>3. InOrder(WithoutGone(gone)) = InOrder(rest)
  <2>1. CASE gone \cap Entries = {}
    <3>1. rest = position
      BY <2>1 DEF Restrict, Entries, GapInv, OrderInv, Rows
    <3> QED BY <2>1, <3>1 DEF WithoutGone
  <2>2. CASE gone \cap Entries # {}
    <3>1. WithoutGone(gone) = Normalised(rest)
      BY <2>2 DEF WithoutGone
    <3> HIDE DEF rest
    <3>2. DOMAIN Normalised(rest) = DOMAIN rest /\ Rows(Normalised(rest))
      BY <1>2, NormalisedRows
    <3>3. \A i, j \in DOMAIN rest : rest[i] < rest[j] => Normalised(rest)[i] < Normalised(rest)[j]
      BY <1>2, RankIncreases DEF Normalised
    <3> QED BY <1>2, <3>1, <3>2, <3>3, SameOrder
  <2> QED BY <2>1, <2>2
<1> HIDE DEF rest
<1>4. answered'.op = "vanish" /\ answered'.gone = gone
  BY <1>1
<1>5. Sequence!Result(answered') = Sequence!Without(gone)
  BY <1>4 DEF Sequence!Result
<1> QED BY <1>1, <1>2, <1>3, <1>5

LEMMA EditIsSequence ==
    ASSUME GapInv, NEW e \in Editors, Edit(e)
    PROVE  InOrder(position)' = Sequence!Result(answered')
<1>1. CASE Save(e)
  <2>1. PICK seq \in Distinct(catalogue) :
           /\ position' = Numbered(seq)
           /\ answered' = [op |-> "replace", by |-> e, block |-> seq]
    BY <1>1 DEF Save
  <2>2. PICK n \in Nat : seq \in [1..n -> catalogue] /\ IsInjective(seq)
    BY <2>1, DistinctIsInjective DEF GapInv, OrderInv
  <2>3. answered'.op = "replace" /\ answered'.block = seq
    BY <2>1
  <2> QED BY <2>1, <2>2, <2>3, ReplacingIsSequence
<1>2. CASE AddEntry(e)
  <2>1. PICK i \in catalogue, before \in Items \cup {NoItem}, after \in Items \cup {NoItem} :
           Insert(e, <<i>>, before, after)
    BY <1>2 DEF AddEntry
  <2>2. <<i>> \in [1..1 -> catalogue] /\ IsInjective(<<i>>)
    BY DEF IsInjective
  <2> QED BY <2>1, <2>2, InsertIsSequence
<1>3. CASE AddEntries(e)
  <2>1. PICK block \in Distinct(catalogue), before \in Items \cup {NoItem},
             after \in Items \cup {NoItem} : Insert(e, block, before, after)
    BY <1>3 DEF AddEntries
  <2>2. \E n \in Nat : block \in [1..n -> catalogue] /\ IsInjective(block)
    BY <2>1, DistinctIsInjective DEF GapInv, OrderInv
  <2> QED BY <2>1, <2>2, InsertIsSequence
<1>4. CASE MoveEntry(e)
  BY <1>4, MoveIsSequence
<1>5. CASE RemoveEntry(e)
  BY <1>5, RemoveIsSequence
<1>6. CASE ApplyGeneration(e)
  <2>1. PICK kept \in {<<>>, InOrder(position)} :
        \E generated \in Distinct(catalogue \ Range(kept)) :
           /\ position' = Numbered(kept \o generated)
           /\ answered' = [op |-> "replace", by |-> e, block |-> kept \o generated]
    BY <1>6 DEF ApplyGeneration, Answer
  <2>2. PICK generated \in Distinct(catalogue \ Range(kept)) :
           /\ position' = Numbered(kept \o generated)
           /\ answered' = [op |-> "replace", by |-> e, block |-> kept \o generated]
    BY <2>1
  <2>3. \E k \in Nat : kept \in [1..k -> catalogue] /\ IsInjective(kept)
    <3>1. CASE kept = <<>>
      <4>1. kept \in [1..0 -> catalogue] /\ IsInjective(kept)
        BY <3>1 DEF IsInjective
      <4> QED BY <4>1
    <3>2. CASE kept = InOrder(position)
      <4>1. /\ kept \in [1..Cardinality(Entries) -> Entries] /\ IsInjective(kept)
            /\ Cardinality(Entries) \in Nat
        BY <3>2, InOrderListsEntries, FS_CardinalityType DEF GapInv, OrderInv, Entries, Rows
      <4> QED BY <4>1 DEF GapInv, OrderInv
    <3> QED BY <2>1, <3>1, <3>2
  <2>4. catalogue \ Range(kept) \in SUBSET Items
    BY DEF GapInv, OrderInv
  <2>5. \E n \in Nat : generated \in [1..n -> catalogue \ Range(kept)] /\ IsInjective(generated)
    BY <2>2, <2>4, DistinctIsInjective
  <2> DEFINE seq == kept \o generated
  <2>6. \E n \in Nat : seq \in [1..n -> catalogue] /\ IsInjective(seq)
    BY <2>3, <2>5, ConcatenationIsInjective
  <2>7. /\ position' = Numbered(seq) /\ answered'.op = "replace" /\ answered'.block = seq
    BY <2>2
  <2> HIDE DEF seq
  <2> QED BY <2>6, <2>7, ReplacingIsSequence
<1> QED BY <1>1, <1>2, <1>3, <1>4, <1>5, <1>6 DEF Edit

LEMMA OrderIsSequence ==
    ASSUME NEW p, Rows(p), DOMAIN p \subseteq Items
    PROVE  InOrder(p) \in Seq(Items) /\ Sequence!IsInjective(InOrder(p))
<1> DEFINE N == Cardinality(DOMAIN p)
           seq == InOrder(p)
<1>1. /\ seq \in [1..N -> DOMAIN p] /\ IsInjective(seq) /\ N \in Nat
  BY InOrderListsEntries, FS_CardinalityType DEF Rows
<1> HIDE DEF seq, N
<1>2. seq \in [1..N -> Items]
  BY <1>1
<1>3. seq \in Seq(Items)
  BY <1>1, <1>2
<1> QED BY <1>1, <1>3 DEF seq, IsInjective, Sequence!IsInjective

(* Where items go by delete_item only, the numbered rows behave as the      *)
(* sequence of distinct items that WatchSequence promises: a request puts   *)
(* its entries where it says and leaves the others in their order, although *)
(* moves count entries where the rows hold positions.                       *)
THEOREM OrderImplementsSequence ==
    ASSUME Upkeep \subseteq {"delete_item"}
    PROVE  Spec => SequenceSpec
<1>1. Init => GapInv
  BY InitOrder
<1>2. GapInv /\ [Next]_vars => GapInv'
  BY NextKeepsOrder DEF GapInv
<1>3. GapInv => Sequence!Init
  BY OrderIsSequence DEF GapInv, OrderInv, Entries, Sequence!Init
<1>4. GapInv /\ GapInv' /\ [Next]_vars => [Sequence!Next]_<<InOrder(position), answered>>
  <2> SUFFICES ASSUME GapInv, GapInv', [Next]_vars
               PROVE  [Sequence!Next]_<<InOrder(position), answered>>
    OBVIOUS
  <2>1. Sequence!IsInjective(InOrder(position)')
    <3>1. Rows(position') /\ DOMAIN position' \subseteq Items
      BY DEF GapInv, OrderInv, Entries
    <3> QED BY <3>1, OrderIsSequence
  <2>2. ASSUME NEW e \in Editors, Edit(e) PROVE Sequence!Next
    BY <2>1, <2>2, EditIsSequence DEF Sequence!Next
  <2>3. ASSUME NEW e \in Editors, Open(e) \/ LoadPage(e) \/ Conflict(e)
        PROVE  UNCHANGED <<InOrder(position), answered>>
    BY <2>3 DEF Open, LoadPage, Conflict
  <2>4. CASE DeleteItem
    BY <2>1, <2>4, DeleteIsSequence DEF Sequence!Next
  <2>5. ~Merge /\ ~DeleteRoot
    BY DEF Merge, DeleteRoot
  <2>6. CASE UNCHANGED vars
    BY <2>6 DEF vars
  <2> QED BY <2>2, <2>3, <2>4, <2>5, <2>6 DEF Next
<1> QED BY <1>1, <1>2, <1>3, <1>4, PTL DEF Spec, SequenceSpec, Sequence!Spec

-----------------------------------------------------------------------------
(* The entry with so many others before it stands at the next place.        *)
LEMMA PlaceOfRank ==
    ASSUME NEW p, Rows(p), NEW i \in DOMAIN p
    PROVE  Rank(p, i) + 1 \in 1..Cardinality(DOMAIN p) /\ InOrder(p)[Rank(p, i) + 1] = i
<1> DEFINE N == Cardinality(DOMAIN p)
           seq == InOrder(p)
           k == Rank(p, i) + 1
<1>1. N \in Nat /\ k \in 1..N
  <2>1. N \in Nat /\ Rank(p, i) \in 0..(N - 1)
    BY RankIncreases, FS_CardinalityType DEF Rows
  <2> QED BY <2>1
<1>2. seq[k] \in DOMAIN p /\ Rank(p, seq[k]) = Rank(p, i)
  <2>1. seq[k] \in DOMAIN p
    BY <1>1, InOrderListsEntries
  <2>2. Rank(p, seq[k]) = k - 1
    BY <1>1, InOrderIncreases
  <2>3. Rank(p, i) \in Int
    BY RankIncreases
  <2> QED BY <2>1, <2>2, <2>3
<1>3. \A j \in DOMAIN p : Rank(p, j) = Rank(p, i) => j = i
  <2>1. IsInjective(Normalised(p)) /\ DOMAIN Normalised(p) = DOMAIN p
    BY NormalisedNumbersEntries DEF Bijection, Injection
  <2> QED BY <2>1 DEF Normalised, IsInjective
<1> QED BY <1>1, <1>2, <1>3

(* Where a moved entry ends up.                                             *)
LEMMA MoveKeepsAnchor ==
    ASSUME NEW p, Rows(p), NoGaps(p), NEW item \in DOMAIN p, NEW before, NEW after,
           before # NoItem => before \in DOMAIN p \ {item},
           after # NoItem => after \in DOMAIN p \ {item}
    PROVE  LET seq == InOrder(Moved(p, item, before, after))
               n == CHOOSE k \in DOMAIN seq : seq[k] = item
           IN  IF before # NoItem THEN n < Len(seq) /\ seq[n + 1] = before
               ELSE IF after # NoItem THEN n > 1 /\ seq[n - 1] = after
               ELSE n = Len(seq)
<1> DEFINE rest == Restrict(p, DOMAIN p \ {item})
           left == InOrder(rest)
           m == Cardinality(DOMAIN rest)
           block == <<item>>
           t == PutPlace(rest, before, after)
           seq == InOrder(Moved(p, item, before, after))
           n == CHOOSE k \in DOMAIN seq : seq[k] = item
<1>1. DOMAIN rest = DOMAIN p \ {item} /\ Rows(rest)
  BY RestrictedRows
<1> HIDE DEF rest
<1>2. m \in Nat /\ left \in [1..m -> DOMAIN rest]
  BY <1>1, InOrderListsEntries, FS_CardinalityType DEF Rows
<1>3. seq = Spliced(left, block, t) /\ t \in 0..m
  <2>1. seq = Sequence!Put(left, block, before, after)
    BY MovedIsSpliced DEF rest
  <2> HIDE DEF seq
  <2> QED BY <1>1, <2>1, PutSplices
<1>4. /\ before # NoItem => Rank(rest, before) + 1 \in 1..m /\ left[Rank(rest, before) + 1] = before
      /\ after # NoItem => Rank(rest, after) + 1 \in 1..m /\ left[Rank(rest, after) + 1] = after
  BY <1>1, PlaceOfRank
<1>5. t = IF before # NoItem THEN Rank(rest, before)
          ELSE IF after # NoItem THEN Rank(rest, after) + 1 ELSE m
  BY DEF PutPlace
<1>6. \A i \in DOMAIN rest : Rank(rest, i) \in Nat
  <2>1. \A i \in DOMAIN rest : Rank(rest, i) \in 0..(m - 1)
    BY <1>1, RankIncreases
  <2> QED BY <2>1
<1> HIDE DEF left, m, t, seq
<1>7. SplicedAs(left, m, block, 1, t, DOMAIN p)
  <2>1. left \in [1..m -> DOMAIN p] /\ block \in [1..1 -> DOMAIN p]
    BY <1>1, <1>2
  <2> QED BY <1>2, <1>3, <2>1, SplicedMembers
<1>8. /\ seq \in [1..(m + 1) -> DOMAIN p]
      /\ \A x \in 1..(m + 1) : seq[x] = IF x <= t THEN left[x]
                                        ELSE IF x <= t + 1 THEN block[x - t]
                                        ELSE left[x - 1]
  BY <1>3, <1>7 DEF SplicedAs
<1>9. Len(seq) = m + 1
  BY <1>2, <1>8
<1>10. \A x \in 1..m : left[x] # item
  BY <1>1, <1>2
<1>11. t + 1 \in 1..(m + 1) /\ seq[t + 1] = item
  <2>1. t + 1 \in 1..(m + 1) /\ ~(t + 1 <= t) /\ t + 1 <= t + 1 /\ (t + 1) - t = 1
    BY <1>2, <1>3
  <2>2. block[1] = item
    OBVIOUS
  <2> QED BY <1>8, <2>1, <2>2
<1>12. \A x \in 1..(m + 1) : seq[x] = item => x = t + 1
  <2> SUFFICES ASSUME NEW x \in 1..(m + 1), x # t + 1 PROVE seq[x] # item
    OBVIOUS
  <2>1. CASE x <= t
    <3>1. x \in 1..m
      BY <1>2, <1>3, <2>1
    <3> QED BY <1>8, <1>10, <2>1, <3>1
  <2>2. CASE ~(x <= t)
    <3>1. x - 1 \in 1..m /\ ~(x <= t + 1)
      BY <1>2, <1>3, <2>2
    <3> QED BY <1>8, <1>10, <2>2, <3>1
  <2> QED BY <2>1, <2>2
<1>13. n = t + 1
  <2>1. DOMAIN seq = 1..(m + 1)
    BY <1>8
  <2> QED BY <1>11, <1>12, <2>1
<1> HIDE DEF n, block
<1>14. CASE before # NoItem
  <2>1. t + 1 \in 1..m /\ left[t + 1] = before
    BY <1>4, <1>5, <1>14
  <2>2. t + 2 \in 1..(m + 1) /\ ~(t + 2 <= t) /\ ~(t + 2 <= t + 1) /\ (t + 2) - 1 = t + 1
    BY <1>2, <1>3, <2>1
  <2>3. seq[t + 2] = before
    BY <1>8, <2>1, <2>2
  <2>4. n + 1 = t + 2 /\ n < m + 1
    BY <1>2, <1>3, <1>13, <2>1
  <2> QED BY <1>9, <1>14, <2>3, <2>4 DEF n, seq
<1>15. CASE before = NoItem /\ after # NoItem
  <2>1. t \in 1..m /\ left[t] = after
    BY <1>4, <1>5, <1>15
  <2>2. seq[t] = after
    <3>1. t \in 1..(m + 1) /\ t <= t
      BY <1>2, <2>1
    <3> QED BY <1>8, <2>1, <3>1
  <2>3. n - 1 = t /\ n > 1
    BY <1>13, <2>1
  <2> QED BY <1>15, <2>2, <2>3 DEF n, seq
<1>16. CASE before = NoItem /\ after = NoItem
  BY <1>5, <1>9, <1>13, <1>16 DEF n, seq
<1> QED BY <1>14, <1>15, <1>16

(* Where items go by delete_item only, a moved entry ends up right before   *)
(* or after its anchor, or at the end; after a merge has left a gap it may  *)
(* not, as the run of that property shows.                                  *)
THEOREM MovesKeepTheirAnchorWithoutGaps ==
    ASSUME Upkeep \subseteq {"delete_item"}
    PROVE  Spec => MovesKeepTheirAnchor
<1> DEFINE Anchored ==
      (answered'.op = "move" /\ revision' # revision) =>
          LET seq == InOrder(position')
              n == CHOOSE k \in DOMAIN seq : seq[k] = answered'.item
          IN  IF answered'.before # NoItem
              THEN n < Len(seq) /\ seq[n + 1] = answered'.before
              ELSE IF answered'.after # NoItem
              THEN n > 1 /\ seq[n - 1] = answered'.after
              ELSE n = Len(seq)
<1>1. Init => GapInv
  BY InitOrder
<1>2. GapInv /\ [Next]_vars => GapInv'
  BY NextKeepsOrder DEF GapInv
<1>3. GapInv /\ [Next]_vars => [Anchored]_vars
  <2> SUFFICES ASSUME GapInv, Next, answered'.op = "move", revision' # revision
               PROVE  Anchored
    OBVIOUS
  <2>1. PICK e \in Editors : MoveEntry(e)
    <3>1. ASSUME NEW e \in Editors, Open(e) \/ LoadPage(e) \/ Conflict(e) PROVE FALSE
      BY <3>1 DEF Open, LoadPage, Conflict
    <3>2. ASSUME NEW e \in Editors, NEW block, NEW before, NEW after,
                 Insert(e, block, before, after)
          PROVE  FALSE
      BY <3>2 DEF Insert, Answer
    <3>3. ASSUME NEW e \in Editors,
                 Save(e) \/ AddEntry(e) \/ AddEntries(e) \/ RemoveEntry(e) \/ ApplyGeneration(e)
          PROVE  FALSE
      <4>1. ~AddEntry(e) /\ ~AddEntries(e)
        BY <3>2 DEF AddEntry, AddEntries
      <4>2. ~Save(e)
        <5>1. ASSUME NEW seq, answered' = [op |-> "replace", by |-> e, block |-> seq]
              PROVE  FALSE
          BY <5>1
        <5> QED BY <5>1 DEF Save
      <4>3. ~RemoveEntry(e)
        BY DEF RemoveEntry, Answer
      <4>4. ~ApplyGeneration(e)
        BY DEF ApplyGeneration, Answer
      <4> QED BY <3>3, <4>1, <4>2, <4>3, <4>4
    <3>4. ~DeleteItem /\ ~Merge /\ ~DeleteRoot
      <4>1. ASSUME NEW gone, answered' = [op |-> "vanish", gone |-> gone] PROVE FALSE
        BY <4>1
      <4>2. ~DeleteItem
        BY <4>1 DEF DeleteItem
      <4>3. ~Merge /\ ~DeleteRoot
        BY DEF Merge, DeleteRoot
      <4> QED BY <4>2, <4>3
    <3> QED BY <3>1, <3>3, <3>4 DEF Next, Edit
  <2>2. PICK i \in Entries, before \in Items \cup {NoItem}, after \in Items \cup {NoItem} :
           /\ AnchorExists(before, after) /\ i \notin {before, after}
           /\ position' = Moved(position, i, before, after)
           /\ answered' = [op |-> "move", by |-> e, item |-> i, before |-> before,
                           after |-> after]
    BY <2>1 DEF MoveEntry, Answer
  <2>3. /\ before # NoItem => before \in DOMAIN position \ {i}
        /\ after # NoItem => after \in DOMAIN position \ {i}
        /\ i \in DOMAIN position /\ Rows(position) /\ NoGaps(position)
    BY <2>2 DEF AnchorExists, Entries, GapInv, OrderInv
  <2>4. answered'.item = i /\ answered'.before = before /\ answered'.after = after
    BY <2>2
  <2>5. LET seq == InOrder(position')
            n == CHOOSE k \in DOMAIN seq : seq[k] = i
        IN  IF before # NoItem THEN n < Len(seq) /\ seq[n + 1] = before
            ELSE IF after # NoItem THEN n > 1 /\ seq[n - 1] = after
            ELSE n = Len(seq)
    BY <2>2, <2>3, MoveKeepsAnchor
  <2> QED BY <2>4, <2>5
<1> QED BY <1>1, <1>2, <1>3, PTL DEF Spec, MovesKeepTheirAnchor
=============================================================================
