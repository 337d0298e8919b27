--------------------------- MODULE Release_proofs ---------------------------
(* Proofs about Release, for any configs, contracts, pools of addresses,   *)
(* gas estimates and limits.  The selector, the batcher and the library's  *)
(* folds go through sequences: what each makes of the first i elements is  *)
(* one member of a family h[0], h[1], ..., and what holds of h[0] and goes *)
(* from h[i - 1] to h[i] holds of them all (UpTo).  SoundInv is the        *)
(* invariant of the configs, WiringInv that of the code deployed from      *)
(* them; files may be of any age.                                          *)
EXTENDS Release, WellFoundedInduction, TLAPS

-----------------------------------------------------------------------------
(* Numbers up to n                                                         *)

LEMMA UpTo ==
  ASSUME NEW n \in Nat, NEW G, 0 \in G, \A i \in 1..n : i - 1 \in G => i \in G
  PROVE  \A i \in 0..n : i \in G
<1> DEFINE B == {i \in 0..n : i \notin G}
           R == {p \in Nat \X Nat : p[1] < p[2]}
<1> SUFFICES ASSUME B # {} PROVE FALSE
  OBVIOUS
<1>1. IsWellFoundedOn(R, Nat)
  BY NatLessThanWellFounded, Zenon DEF OpToRel
<1>2. PICK x \in B : \A y \in B : <<y, x>> \notin R
  <2>1. B \subseteq Nat /\ B # {}
    OBVIOUS
  <2> HIDE DEF R, B
  <2>2. \A T : T \subseteq Nat /\ T # {} =>
                 \E x \in T : \A y \in T : ~ (<<y, x>> \in R)
    BY <1>1, WFMin
  <2> QED
    BY <2>1, <2>2
<1>3. x \in 1..n /\ x - 1 \in 0..n
  OBVIOUS
<1>4. x - 1 \in B
  BY <1>3
<1>5. <<x - 1, x>> \in R
  BY <1>3
<1> QED
  BY <1>2, <1>4, <1>5

LEMMA MaxUpTo ==
  ASSUME NEW n \in Nat, NEW t \in SUBSET (1..n), t # {}
  PROVE  Max(t) \in t /\ \A x \in t : x <= Max(t)
<1> DEFINE G == {i \in Nat : t \cap 1..i = {} \/ \E m \in t : \A x \in t \cap 1..i : x <= m}
<1>1. 0 \in G
  OBVIOUS
<1>2. ASSUME NEW i \in 1..n, i - 1 \in G PROVE i \in G
  <2>1. CASE i \in t
    BY <2>1
  <2>2. CASE i \notin t
    <3>1. t \cap 1..i = t \cap 1..(i - 1)
      BY <2>2
    <3> QED
      BY <1>2, <3>1
  <2> QED
    BY <2>1, <2>2
<1>3. n \in G
  <2> HIDE DEF G
  <2>1. \A i \in 0..n : i \in G
    BY <1>1, <1>2, UpTo
  <2> QED
    BY <2>1
<1>4. t \cap 1..n = t
  OBVIOUS
<1>5. \E m \in t : \A x \in t : m >= x
  BY <1>3, <1>4
<1>6. Max(t) \in t /\ \A x \in t : Max(t) >= x
  BY <1>5 DEF Max
<1> QED
  BY <1>6

LEMMA MaxIs ==
  ASSUME NEW n \in Nat, NEW t \in SUBSET (1..n), NEW m \in t, \A x \in t : x <= m
  PROVE  Max(t) = m
<1>1. Max(t) \in t /\ m <= Max(t) /\ Max(t) <= m
  <2>1. t # {}
    OBVIOUS
  <2> QED
    BY <2>1, MaxUpTo
<1>2. \A x \in t : x \in Nat
  OBVIOUS
<1>3. Max(t) \in Nat /\ m \in Nat
  BY <1>1, <1>2
<1> QED
  BY <1>1, <1>3

-----------------------------------------------------------------------------
(* Folds                                                                   *)

(* What the library's fold of a sequence of length n tabulates: a value    *)
(* for every set of positions, the last of them folded in last.            *)
IsTable(g, base, step, n) ==
    g = [t \in SUBSET (1..n) |-> IF t = {} THEN base ELSE step[Max(t)][g[t \ {Max(t)}]]]

LEMMA TableExists ==
  ASSUME NEW n \in Nat, NEW A, NEW base \in A, NEW step \in [1..n -> [A -> A]]
  PROVE  \E g \in [SUBSET (1..n) -> A] : IsTable(g, base, step, n)
<1> DEFINE G == {i \in 0..n : \E g \in [SUBSET (1..i) -> A] : IsTable(g, base, step, i)}
<1>1. 0 \in G
  <2> DEFINE g == [t \in SUBSET (1..0) |-> base]
  <2>1. SUBSET (1..0) = {{}}
    OBVIOUS
  <2>2. g \in [SUBSET (1..0) -> A]
    OBVIOUS
  <2>3. g = [t \in SUBSET (1..0) |-> IF t = {} THEN base ELSE step[Max(t)][g[t \ {Max(t)}]]]
    BY <2>1
  <2> QED
    BY <2>2, <2>3 DEF IsTable
<1>2. ASSUME NEW i \in 1..n, i - 1 \in G PROVE i \in G
  <2>1. PICK f \in [SUBSET (1..(i - 1)) -> A] : IsTable(f, base, step, i - 1)
    BY <1>2
  <2> DEFINE g == [t \in SUBSET (1..i) |-> IF i \in t THEN step[i][f[t \ {i}]] ELSE f[t]]
  <2>2. ASSUME NEW t \in SUBSET (1..i)
        PROVE  /\ i \in t => t \ {i} \in SUBSET (1..(i - 1)) /\ Max(t) = i
               /\ i \notin t => t \in SUBSET (1..(i - 1))
    <3>1. \A x \in 1..i : x <= i /\ (x # i => x \in 1..(i - 1))
      OBVIOUS
    <3>2. ASSUME i \in t PROVE Max(t) = i
      <4>1. i \in Nat /\ \A x \in t : x <= i
        BY <3>1
      <4> HIDE DEF G, g
      <4> QED
        BY <3>2, <4>1, MaxIs
    <3> QED
      BY <3>1, <3>2
  <2>3. ASSUME NEW t \in SUBSET (1..(i - 1))
        PROVE  t \in SUBSET (1..i) /\ i \notin t /\ g[t] = f[t]
    OBVIOUS
  <2>4. g \in [SUBSET (1..i) -> A]
    BY <2>2
  <2>5. ASSUME NEW t \in SUBSET (1..i)
        PROVE  g[t] = IF t = {} THEN base ELSE step[Max(t)][g[t \ {Max(t)}]]
    <3>1. CASE i \in t
      <4>1. g[t] = step[i][f[t \ {i}]]
        BY <3>1
      <4> QED
        BY <2>2, <2>3, <3>1, <4>1
    <3>2. CASE i \notin t
      <4>1. t \in SUBSET (1..(i - 1)) /\ g[t] = f[t]
        BY <2>2, <3>2
      <4>2. f[t] = IF t = {} THEN base ELSE step[Max(t)][f[t \ {Max(t)}]]
        BY <2>1, <4>1 DEF IsTable
      <4>3. t \ {Max(t)} \in SUBSET (1..(i - 1))
        BY <4>1
      <4>4. g[t \ {Max(t)}] = f[t \ {Max(t)}]
        BY <2>3, <4>3
      <4> HIDE DEF g
      <4> QED
        BY <4>1, <4>2, <4>4
    <3> QED
      BY <3>1, <3>2
  <2>6. IsTable(g, base, step, i)
    <3>1. g = [t \in SUBSET (1..i) |-> g[t]]
      OBVIOUS
    <3> HIDE DEF g
    <3> QED
      BY <2>5, <3>1 DEF IsTable
  <2> HIDE DEF g
  <2> QED
    BY <2>4, <2>6
<1>3. n \in G
  <2> HIDE DEF G
  <2>1. \A i \in 0..n : i \in G
    BY <1>1, <1>2, UpTo
  <2> QED
    BY <2>1
<1> QED
  BY <1>3

LEMMA PositionsUpTo ==
  ASSUME NEW n \in Nat
  PROVE  /\ 1..0 = {}
         /\ \A i \in 1..n : /\ 1..i \in SUBSET (1..n) /\ 1..i # {} /\ Max(1..i) = i
                            /\ 1..i \ {i} = 1..(i - 1)
<1>1. ASSUME NEW i \in 1..n PROVE Max(1..i) = i
  <2>1. 1..i \in SUBSET (1..n) /\ i \in 1..i /\ \A x \in 1..i : x <= i
    OBVIOUS
  <2> DEFINE t == 1..i
  <2> HIDE DEF t
  <2>2. t \in SUBSET (1..n) /\ i \in t /\ \A x \in t : x <= i
    BY <2>1 DEF t
  <2>3. Max(t) = i
    BY <2>2, MaxIs
  <2> QED
    BY <2>3 DEF t
<1> QED
  BY <1>1

(* What is kept of a sequence, one element at a time.                      *)
KeepsBy(h, T, s, S) ==
    /\ h \in [0..Len(s) -> Seq(T)] /\ h[0] = <<>> /\ Kept(s, S) = h[Len(s)]
    /\ \A i \in 1..Len(s) : h[i] = IF s[i] \in S THEN Append(h[i - 1], s[i]) ELSE h[i - 1]

LEMMA KeptSteps ==
  ASSUME NEW T, NEW s \in Seq(T), NEW S
  PROVE  \E h : KeepsBy(h, T, s, S)
<1> DEFINE n == Len(s)
           Eq(g) == g = [t \in SUBSET (1..n) |->
                           IF t = {} THEN <<>> ELSE IF s[Max(t)] \in S THEN Append(g[t \ {Max(t)}], s[Max(t)]) ELSE g[t \ {Max(t)}]]
           step == [i \in 1..n |-> [v \in Seq(T) |-> IF s[i] \in S THEN Append(v, s[i]) ELSE v]]
<1>1. n \in Nat /\ DOMAIN s = 1..n /\ <<>> \in Seq(T)
  OBVIOUS
<1>2. Kept(s, S) = (CHOOSE g : Eq(g))[1..n]
  BY <1>1 DEF Kept, FoldLeft, MapThenFoldSet
<1>3. ASSUME NEW i \in 1..n, NEW v \in Seq(T) PROVE (IF s[i] \in S THEN Append(v, s[i]) ELSE v) \in Seq(T)
  OBVIOUS
<1>4. step \in [1..n -> [Seq(T) -> Seq(T)]]
  BY <1>3
<1>5. PICK g \in [SUBSET (1..n) -> Seq(T)] : IsTable(g, <<>>, step, n)
  <2> HIDE DEF n, step
  <2> QED
    BY <1>1, <1>4, TableExists
<1>6. Eq(g)
  <2>1. ASSUME NEW t \in SUBSET (1..n), t # {}
        PROVE  step[Max(t)][g[t \ {Max(t)}]] = IF s[Max(t)] \in S THEN Append(g[t \ {Max(t)}], s[Max(t)]) ELSE g[t \ {Max(t)}]
    <3>1. Max(t) \in 1..n
      BY <1>1, <2>1, MaxUpTo
    <3>2. g[t \ {Max(t)}] \in Seq(T)
      OBVIOUS
    <3> QED
      BY <3>1, <3>2
  <2> HIDE DEF step, n
  <2> QED
    BY <1>5, <2>1 DEF IsTable
<1> DEFINE it == CHOOSE f : Eq(f)
           h  == [i \in 0..n |-> it[1..i]]
<1>7. Eq(it)
  <2> HIDE DEF Eq
  <2> QED
    BY <1>6
<1>8. Kept(s, S) = it[1..n]
  BY <1>2
<1> HIDE DEF it
<1>9. h[0] = <<>>
  BY <1>1, <1>7, PositionsUpTo
<1>10. ASSUME NEW i \in 1..n
       PROVE  h[i] = IF s[i] \in S THEN Append(h[i - 1], s[i]) ELSE h[i - 1]
  <2>1. /\ 1..i \in SUBSET (1..n) /\ 1..i # {} /\ Max(1..i) = i /\ 1..i \ {i} = 1..(i - 1)
        /\ i \in 0..n /\ i - 1 \in 0..n
    BY <1>1, PositionsUpTo
  <2>2. it[1..i] = IF s[i] \in S THEN Append(it[1..(i - 1)], s[i]) ELSE it[1..(i - 1)]
    BY <1>7, <2>1
  <2> QED
    BY <2>1, <2>2
<1>11. Kept(s, S) = h[n]
  BY <1>1, <1>8
<1>12. h \in [0..n -> Seq(T)]
  <2> DEFINE G == {i \in 0..n : h[i] \in Seq(T)}
  <2>1. 0 \in G
    <3> HIDE DEF h
    <3>1. h[0] \in Seq(T)
      BY <1>1, <1>9
    <3>2. 0 \in 0..n
      BY <1>1
    <3> QED
      BY <3>1, <3>2
  <2>2. ASSUME NEW i \in 1..n, i - 1 \in G PROVE i \in G
    <3> HIDE DEF h
    <3>1. h[i - 1] \in Seq(T) /\ i \in 0..n
      BY <2>2
    <3>2. (IF s[i] \in S THEN Append(h[i - 1], s[i]) ELSE h[i - 1]) \in Seq(T)
      BY <1>3, <3>1
    <3>3. h[i] \in Seq(T)
      BY <1>10, <3>2
    <3> QED
      BY <3>1, <3>3
  <2>3. \A i \in 0..n : i \in G
    <3> HIDE DEF G
    <3> QED
      BY <1>1, <2>1, <2>2, UpTo
  <2> QED
    BY <2>3
<1> HIDE DEF h
<1> QED
  BY <1>9, <1>10, <1>11, <1>12 DEF KeepsBy

(* The gas of a list of contracts.                                         *)
GasBy(h, s) ==
    /\ h \in [0..Len(s) -> Nat] /\ h[0] = 0 /\ GasOf(s) = h[Len(s)]
    /\ \A i \in 1..Len(s) : h[i] = h[i - 1] + Gas[s[i]]

LEMMA GasSteps ==
  ASSUME NEW s \in Seq(Names)
  PROVE  \E h : GasBy(h, s)
<1> DEFINE n == Len(s)
           Eq(g) == g = [t \in SUBSET (1..n) |->
                           IF t = {} THEN 0 ELSE g[t \ {Max(t)}] + Gas[s[Max(t)]]]
           step == [i \in 1..n |-> [v \in Nat |-> v + Gas[s[i]]]]
<1>1. n \in Nat /\ DOMAIN s = 1..n /\ 0 \in Nat
  OBVIOUS
<1>2. GasOf(s) = (CHOOSE g : Eq(g))[1..n]
  BY <1>1 DEF GasOf, FoldLeft, MapThenFoldSet
<1>3. ASSUME NEW i \in 1..n, NEW v \in Nat PROVE (v + Gas[s[i]]) \in Nat
  BY ConstantsAssumption
<1>4. step \in [1..n -> [Nat -> Nat]]
  BY <1>3
<1>5. PICK g \in [SUBSET (1..n) -> Nat] : IsTable(g, 0, step, n)
  <2> HIDE DEF n, step
  <2> QED
    BY <1>1, <1>4, TableExists
<1>6. Eq(g)
  <2>1. ASSUME NEW t \in SUBSET (1..n), t # {}
        PROVE  step[Max(t)][g[t \ {Max(t)}]] = g[t \ {Max(t)}] + Gas[s[Max(t)]]
    <3>1. Max(t) \in 1..n
      BY <1>1, <2>1, MaxUpTo
    <3>2. g[t \ {Max(t)}] \in Nat
      OBVIOUS
    <3> QED
      BY <3>1, <3>2
  <2> HIDE DEF step, n
  <2> QED
    BY <1>5, <2>1 DEF IsTable
<1> DEFINE it == CHOOSE f : Eq(f)
           h  == [i \in 0..n |-> it[1..i]]
<1>7. Eq(it)
  <2> HIDE DEF Eq
  <2> QED
    BY <1>6
<1>8. GasOf(s) = it[1..n]
  BY <1>2
<1> HIDE DEF it
<1>9. h[0] = 0
  BY <1>1, <1>7, PositionsUpTo
<1>10. ASSUME NEW i \in 1..n
       PROVE  h[i] = h[i - 1] + Gas[s[i]]
  <2>1. /\ 1..i \in SUBSET (1..n) /\ 1..i # {} /\ Max(1..i) = i /\ 1..i \ {i} = 1..(i - 1)
        /\ i \in 0..n /\ i - 1 \in 0..n
    BY <1>1, PositionsUpTo
  <2>2. it[1..i] = it[1..(i - 1)] + Gas[s[i]]
    BY <1>7, <2>1
  <2> QED
    BY <2>1, <2>2
<1>11. GasOf(s) = h[n]
  BY <1>1, <1>8
<1>12. h \in [0..n -> Nat]
  <2> DEFINE G == {i \in 0..n : h[i] \in Nat}
  <2>1. 0 \in G
    <3> HIDE DEF h
    <3>1. h[0] \in Nat
      BY <1>1, <1>9
    <3>2. 0 \in 0..n
      BY <1>1
    <3> QED
      BY <3>1, <3>2
  <2>2. ASSUME NEW i \in 1..n, i - 1 \in G PROVE i \in G
    <3> HIDE DEF h
    <3>1. h[i - 1] \in Nat /\ i \in 0..n
      BY <2>2
    <3>2. (h[i - 1] + Gas[s[i]]) \in Nat
      BY <1>3, <3>1
    <3>3. h[i] \in Nat
      BY <1>10, <3>2
    <3> QED
      BY <3>1, <3>3
  <2>3. \A i \in 0..n : i \in G
    <3> HIDE DEF G
    <3> QED
      BY <1>1, <2>1, <2>2, UpTo
  <2> QED
    BY <2>3
<1> HIDE DEF h
<1> QED
  BY <1>9, <1>10, <1>11, <1>12 DEF GasBy

LEMMA PlacedIn ==
  ASSUME NEW bs \in Seq(Seq(Names)), NEW n \in Names, NEW limit
  PROVE  Placed(bs, n, limit) \in Seq(Seq(Names))
<1>1. CASE bs = <<>> \/ GasOf(Last(bs)) + Gas[n] > limit
  <2>1. <<n>> \in Seq(Names)
    OBVIOUS
  <2> QED
    BY <1>1, <2>1 DEF Placed
<1>2. CASE ~ (bs = <<>> \/ GasOf(Last(bs)) + Gas[n] > limit)
  <2>1. Len(bs) \in DOMAIN bs
    BY <1>2
  <2>2. Append(bs[Len(bs)], n) \in Seq(Names)
    BY <2>1
  <2> QED
    BY <1>2, <2>1, <2>2 DEF Placed
<1> QED
  BY <1>1, <1>2

(* The batches for a list of contracts.                                    *)
BatchesBy(h, k, others, limit, s) ==
    /\ h \in [0..Len(s) -> Seq(Seq(Names))] /\ h[0] = <<>> /\ Batches(k, others, limit) = h[Len(s)]
    /\ \A i \in 1..Len(s) : h[i] = Placed(h[i - 1], s[i], limit)

LEMMA BatchSteps ==
  ASSUME NEW k, NEW others, NEW limit, NEW s \in Seq(Names), s = ToDeploy(k, others)
  PROVE  \E h : BatchesBy(h, k, others, limit, s)
<1> DEFINE n == Len(s)
           Eq(g) == g = [t \in SUBSET (1..n) |->
                           IF t = {} THEN <<>> ELSE Placed(g[t \ {Max(t)}], s[Max(t)], limit)]
           step == [i \in 1..n |-> [v \in Seq(Seq(Names)) |-> Placed(v, s[i], limit)]]
<1>1. n \in Nat /\ DOMAIN s = 1..n /\ <<>> \in Seq(Seq(Names))
  OBVIOUS
<1>2. Batches(k, others, limit) = (CHOOSE g : Eq(g))[1..n]
  BY <1>1 DEF Batches, FoldLeft, MapThenFoldSet
<1>3. ASSUME NEW i \in 1..n, NEW v \in Seq(Seq(Names)) PROVE (Placed(v, s[i], limit)) \in Seq(Seq(Names))
  BY <1>1, PlacedIn
<1>4. step \in [1..n -> [Seq(Seq(Names)) -> Seq(Seq(Names))]]
  BY <1>3
<1>5. PICK g \in [SUBSET (1..n) -> Seq(Seq(Names))] : IsTable(g, <<>>, step, n)
  <2> HIDE DEF n, step
  <2> QED
    BY <1>1, <1>4, TableExists
<1>6. Eq(g)
  <2>1. ASSUME NEW t \in SUBSET (1..n), t # {}
        PROVE  step[Max(t)][g[t \ {Max(t)}]] = Placed(g[t \ {Max(t)}], s[Max(t)], limit)
    <3>1. Max(t) \in 1..n
      BY <1>1, <2>1, MaxUpTo
    <3>2. g[t \ {Max(t)}] \in Seq(Seq(Names))
      OBVIOUS
    <3> QED
      BY <3>1, <3>2
  <2> HIDE DEF step, n
  <2> QED
    BY <1>5, <2>1 DEF IsTable
<1> DEFINE it == CHOOSE f : Eq(f)
           h  == [i \in 0..n |-> it[1..i]]
<1>7. Eq(it)
  <2> HIDE DEF Eq
  <2> QED
    BY <1>6
<1>8. Batches(k, others, limit) = it[1..n]
  BY <1>2
<1> HIDE DEF it
<1>9. h[0] = <<>>
  BY <1>1, <1>7, PositionsUpTo
<1>10. ASSUME NEW i \in 1..n
       PROVE  h[i] = Placed(h[i - 1], s[i], limit)
  <2>1. /\ 1..i \in SUBSET (1..n) /\ 1..i # {} /\ Max(1..i) = i /\ 1..i \ {i} = 1..(i - 1)
        /\ i \in 0..n /\ i - 1 \in 0..n
    BY <1>1, PositionsUpTo
  <2>2. it[1..i] = Placed(it[1..(i - 1)], s[i], limit)
    BY <1>7, <2>1
  <2> QED
    BY <2>1, <2>2
<1>11. Batches(k, others, limit) = h[n]
  BY <1>1, <1>8
<1>12. h \in [0..n -> Seq(Seq(Names))]
  <2> DEFINE G == {i \in 0..n : h[i] \in Seq(Seq(Names))}
  <2>1. 0 \in G
    <3> HIDE DEF h
    <3>1. h[0] \in Seq(Seq(Names))
      BY <1>1, <1>9
    <3>2. 0 \in 0..n
      BY <1>1
    <3> QED
      BY <3>1, <3>2
  <2>2. ASSUME NEW i \in 1..n, i - 1 \in G PROVE i \in G
    <3> HIDE DEF h
    <3>1. h[i - 1] \in Seq(Seq(Names)) /\ i \in 0..n
      BY <2>2
    <3>2. (Placed(h[i - 1], s[i], limit)) \in Seq(Seq(Names))
      BY <1>3, <3>1
    <3>3. h[i] \in Seq(Seq(Names))
      BY <1>10, <3>2
    <3> QED
      BY <3>1, <3>3
  <2>3. \A i \in 0..n : i \in G
    <3> HIDE DEF G
    <3> QED
      BY <1>1, <2>1, <2>2, UpTo
  <2> QED
    BY <2>3
<1> HIDE DEF h
<1> QED
  BY <1>9, <1>10, <1>11, <1>12 DEF BatchesBy

(* A sequence of sequences, one after the other.                           *)
FlattensBy(h, T, s) ==
    /\ h \in [0..Len(s) -> Seq(T)] /\ h[0] = <<>> /\ FlattenSeq(s) = h[Len(s)]
    /\ \A i \in 1..Len(s) : h[i] = h[i - 1] \o s[i]

LEMMA FlattenSteps ==
  ASSUME NEW T, NEW s \in Seq(Seq(T))
  PROVE  \E h : FlattensBy(h, T, s)
<1> DEFINE n == Len(s)
           Eq(f) == f = [i \in 1..n |-> IF i = 1 THEN s[i] ELSE f[i - 1] \o s[i]]
           step == [i \in 1..n |-> [v \in Seq(T) |-> v \o s[i]]]
<1>1. n \in Nat /\ DOMAIN s = 1..n /\ (\A i \in 1..n : s[i] \in Seq(T)) /\ <<>> \in Seq(T)
  OBVIOUS
<1>2. n # 0 => FlattenSeq(s) = (CHOOSE f : Eq(f))[n]
  BY <1>1 DEF FlattenSeq
<1>3. step \in [1..n -> [Seq(T) -> Seq(T)]]
  BY <1>1
<1>4. PICK g \in [SUBSET (1..n) -> Seq(T)] : IsTable(g, <<>>, step, n)
  <2> HIDE DEF n, step
  <2> QED
    BY <1>1, <1>3, TableExists
<1> DEFINE f == [i \in 1..n |-> g[1..i]]
<1>5. ASSUME NEW i \in 1..n
      PROVE  f[i] = IF i = 1 THEN s[i] ELSE f[i - 1] \o s[i]
  <2>1. /\ 1..i \in SUBSET (1..n) /\ 1..i # {} /\ Max(1..i) = i /\ 1..i \ {i} = 1..(i - 1)
        /\ 1..0 = {} /\ {} \in SUBSET (1..n)
    BY <1>1, PositionsUpTo
  <2>2. g[1..i] = step[i][g[1..(i - 1)]] /\ g[{}] = <<>>
    <3> HIDE DEF step, n
    <3> QED
      BY <1>4, <2>1 DEF IsTable
  <2>3. g[1..(i - 1)] \in Seq(T)
    BY <2>1
  <2>4. g[1..i] = g[1..(i - 1)] \o s[i]
    BY <2>2, <2>3
  <2>5. CASE i = 1
    <3>1. g[1..(i - 1)] = <<>> /\ s[i] \in Seq(T)
      BY <1>1, <2>1, <2>2, <2>5
    <3>2. <<>> \o s[i] = s[i]
      BY <3>1
    <3> QED
      BY <2>4, <2>5, <3>1, <3>2
  <2>6. CASE i # 1
    <3>1. i - 1 \in 1..n
      BY <1>1, <2>6
    <3> QED
      BY <2>4, <2>6, <3>1
  <2> QED
    BY <2>5, <2>6
<1>6. Eq(f)
  BY <1>5
<1> DEFINE it == CHOOSE e : Eq(e)
           h  == [i \in 0..n |-> IF i = 0 THEN <<>> ELSE it[i]]
<1>7. Eq(it)
  <2> HIDE DEF Eq, f
  <2> QED
    BY <1>6
<1>8. n # 0 => FlattenSeq(s) = it[n]
  BY <1>2
<1>9. n = 0 => FlattenSeq(s) = <<>>
  BY <1>1 DEF FlattenSeq
<1> HIDE DEF it, f
<1>10. h[0] = <<>> /\ FlattenSeq(s) = h[n]
  BY <1>1, <1>8, <1>9
<1>11. ASSUME NEW i \in 1..n
       PROVE  h[i] = h[i - 1] \o s[i]
  <2>1. i \in 0..n /\ i - 1 \in 0..n
    BY <1>1
  <2>2. it[i] = IF i = 1 THEN s[i] ELSE it[i - 1] \o s[i]
    BY <1>7
  <2>3. CASE i = 1
    <3>1. <<>> \o s[i] = s[i]
      BY <1>1
    <3> QED
      BY <2>1, <2>2, <2>3, <3>1
  <2>4. CASE i # 1
    <3>1. i - 1 # 0 /\ i # 0
      BY <1>1, <2>4
    <3> QED
      BY <2>1, <2>2, <2>4, <3>1
  <2> QED
    BY <2>3, <2>4
<1>12. h \in [0..n -> Seq(T)]
  <2> DEFINE G == {i \in 0..n : h[i] \in Seq(T)}
  <2>1. 0 \in G
    <3> HIDE DEF h
    <3>1. h[0] \in Seq(T)
      BY <1>1, <1>10
    <3>2. 0 \in 0..n
      BY <1>1
    <3> QED
      BY <3>1, <3>2
  <2>2. ASSUME NEW i \in 1..n, i - 1 \in G PROVE i \in G
    <3> HIDE DEF h
    <3>1. h[i - 1] \in Seq(T) /\ i \in 0..n /\ s[i] \in Seq(T)
      BY <1>1, <2>2
    <3>2. h[i - 1] \o s[i] \in Seq(T)
      BY <3>1
    <3>3. h[i] \in Seq(T)
      BY <1>11, <3>2
    <3> QED
      BY <3>1, <3>3
  <2>3. \A i \in 0..n : i \in G
    <3> HIDE DEF G
    <3> QED
      BY <1>1, <2>1, <2>2, UpTo
  <2> QED
    BY <2>3
<1> HIDE DEF h
<1> QED
  BY <1>10, <1>11, <1>12 DEF FlattensBy

-----------------------------------------------------------------------------
(* What is kept                                                            *)

(* The elements of t stand in s in the same order.                         *)
InOrder(t, s) ==
    \A a, b \in DOMAIN t : a < b => \E c, d \in DOMAIN s : c < d /\ s[c] = t[a] /\ s[d] = t[b]

LEMMA KeptIs ==
  ASSUME NEW T, NEW s \in Seq(T), NEW S
  PROVE  Kept(s, S) \in Seq(T) /\ Range(Kept(s, S)) = Range(s) \cap S /\ InOrder(Kept(s, S), s)
<1>0. \E h : KeepsBy(h, T, s, S)
  BY KeptSteps
<1> DEFINE n == Len(s)
<1>1. PICK h : /\ h \in [0..n -> Seq(T)] /\ h[0] = <<>> /\ Kept(s, S) = h[n]
               /\ \A i \in 1..n : h[i] = IF s[i] \in S THEN Append(h[i - 1], s[i]) ELSE h[i - 1]
  BY <1>0 DEF KeepsBy
<1>2. n \in Nat /\ DOMAIN s = 1..n /\ \A i \in 1..n : s[i] \in T
  OBVIOUS
<1> HIDE DEF n
<1> DEFINE Same(i) == \A x : (\E a \in DOMAIN h[i] : h[i][a] = x) <=> x \in S /\ \E j \in 1..i : s[j] = x
           Order(i) == \A a, b \in DOMAIN h[i] : a < b =>
                         \E c, d \in 1..i : c < d /\ s[c] = h[i][a] /\ s[d] = h[i][b]
           G == {i \in 0..n : Same(i) /\ Order(i)}
<1>3. 0 \in G
  <2>1. h[0] = <<>> /\ DOMAIN h[0] = {}
    BY <1>1
  <2>2. 1..0 = {} /\ 0 \in 0..n
    BY <1>2
  <2> QED
    BY <2>1, <2>2
<1>4. ASSUME NEW i \in 1..n, i - 1 \in G PROVE i \in G
  <2> DEFINE p == h[i - 1]
  <2>1. i \in 0..n /\ p \in Seq(T) /\ s[i] \in T /\ i \in Nat
    BY <1>1, <1>2
  <2>2. Same(i - 1) /\ Order(i - 1)
    BY <1>4
  <2>3. \A j : j \in 1..i <=> j \in 1..(i - 1) \/ j = i
    BY <2>1
  <2>4. CASE s[i] \notin S
    <3>1. h[i] = p
      BY <1>1, <2>4
    <3>2. Same(i)
      BY <2>2, <2>3, <2>4, <3>1
    <3>3. Order(i)
      BY <2>2, <2>3, <3>1
    <3> HIDE DEF Same, Order
    <3> QED
      BY <2>1, <3>2, <3>3
  <2>5. CASE s[i] \in S
    <3>1. h[i] = Append(p, s[i])
      BY <1>1, <2>5
    <3>2. /\ DOMAIN p = 1..Len(p) /\ Len(p) \in Nat /\ DOMAIN h[i] = 1..(Len(p) + 1)
          /\ h[i][Len(p) + 1] = s[i] /\ \A a \in DOMAIN p : h[i][a] = p[a]
      BY <2>1, <3>1
    <3>3. /\ \A a : a \in DOMAIN h[i] <=> a \in DOMAIN p \/ a = Len(p) + 1
          /\ \A a \in DOMAIN p : a \in Nat /\ a < Len(p) + 1
      BY <3>2
    <3>4. Same(i)
      <4> HIDE DEF p
      <4>1. \A x : (\E a \in DOMAIN h[i] : h[i][a] = x) <=> (\E a \in DOMAIN p : p[a] = x) \/ x = s[i]
        BY <3>2, <3>3
      <4>2. \A x : (\E a \in DOMAIN p : p[a] = x) <=> x \in S /\ \E j \in 1..(i - 1) : s[j] = x
        BY <2>2 DEF p
      <4> QED
        BY <2>3, <2>5, <4>1, <4>2
    <3>5. Order(i)
      <4> SUFFICES ASSUME NEW a \in DOMAIN h[i], NEW b \in DOMAIN h[i], a < b
                   PROVE  \E c, d \in 1..i : c < d /\ s[c] = h[i][a] /\ s[d] = h[i][b]
        OBVIOUS
      <4>1. a \in DOMAIN p
        BY <3>2, <3>3
      <4>2. CASE b \in DOMAIN p
        <5>1. PICK c, d \in 1..(i - 1) : c < d /\ s[c] = p[a] /\ s[d] = p[b]
          BY <2>2, <4>1, <4>2
        <5>2. c \in 1..i /\ d \in 1..i /\ h[i][a] = p[a] /\ h[i][b] = p[b]
          BY <2>3, <3>2, <4>1, <4>2
        <5> QED
          BY <5>1, <5>2
      <4>3. CASE b = Len(p) + 1
        <5>1. PICK c \in 1..(i - 1) : s[c] = p[a]
          BY <2>2, <4>1
        <5>2. c \in 1..i /\ i \in 1..i /\ c < i /\ h[i][a] = p[a] /\ h[i][b] = s[i]
          BY <2>1, <2>3, <3>2, <4>1, <4>3
        <5> QED
          BY <5>1, <5>2
      <4> QED
        BY <3>3, <4>2, <4>3
    <3> HIDE DEF Same, Order
    <3> QED
      BY <2>1, <3>4, <3>5
  <2> QED
    BY <2>4, <2>5
<1>5. n \in G
  <2> HIDE DEF G
  <2>1. \A i \in 0..n : i \in G
    BY <1>2, <1>3, <1>4, UpTo
  <2> QED
    BY <1>2, <2>1
<1>6. h[n] \in Seq(T)
  BY <1>1, <1>2
<1>7. Same(n) /\ Order(n)
  BY <1>5
<1>8. Range(h[n]) = Range(s) \cap S
  BY <1>2, <1>7 DEF Range
<1>9. InOrder(h[n], s)
  BY <1>2, <1>7 DEF InOrder
<1> QED
  BY <1>1, <1>6, <1>8, <1>9

(* All of it.                                                              *)
LEMMA KeptAll ==
  ASSUME NEW T, NEW s \in Seq(T), NEW S, Range(s) \subseteq S
  PROVE  Kept(s, S) = s
<1>0. \E h : KeepsBy(h, T, s, S)
  BY KeptSteps
<1> DEFINE n == Len(s)
<1>1. PICK h : /\ h \in [0..n -> Seq(T)] /\ h[0] = <<>> /\ Kept(s, S) = h[n]
               /\ \A i \in 1..n : h[i] = IF s[i] \in S THEN Append(h[i - 1], s[i]) ELSE h[i - 1]
  BY <1>0 DEF KeepsBy
<1>2. n \in Nat /\ DOMAIN s = 1..n /\ \A i \in 1..n : s[i] \in T /\ s[i] \in S
  BY DEF Range
<1> HIDE DEF n
<1> DEFINE G == {i \in 0..n : Len(h[i]) = i /\ \A j \in 1..i : h[i][j] = s[j]}
<1>3. 0 \in G
  BY <1>1, <1>2
<1>4. ASSUME NEW i \in 1..n, i - 1 \in G PROVE i \in G
  <2> DEFINE p == h[i - 1]
  <2>1. i \in 0..n /\ i - 1 \in 0..n
    BY <1>2
  <2>2. p \in Seq(T) /\ s[i] \in T /\ Len(p) = i - 1 /\ \A j \in 1..(i - 1) : p[j] = s[j]
    BY <1>1, <1>2, <1>4, <2>1
  <2>3. h[i] = Append(p, s[i])
    BY <1>1, <1>2
  <2> HIDE DEF p
  <2>4. Len(h[i]) = i /\ \A j \in 1..i : h[i][j] = s[j]
    BY <1>2, <2>1, <2>2, <2>3
  <2> QED
    BY <2>1, <2>4
<1>5. n \in G
  <2> HIDE DEF G
  <2>1. \A i \in 0..n : i \in G
    BY <1>2, <1>3, <1>4, UpTo
  <2> QED
    BY <1>2, <2>1
<1>6. h[n] \in Seq(T) /\ Len(h[n]) = n /\ \A j \in 1..n : h[n][j] = s[j]
  BY <1>1, <1>2, <1>5
<1>7. h[n] = s
  BY <1>2, <1>6 DEF n
<1> QED
  BY <1>1, <1>7

LEMMA InjectiveInOrder ==
  ASSUME NEW T, NEW t \in Seq(T), NEW s \in Seq(T), IsInjective(s), InOrder(t, s)
  PROVE  IsInjective(t)
<1> SUFFICES ASSUME NEW a \in DOMAIN t, NEW b \in DOMAIN t, t[a] = t[b], a # b PROVE FALSE
  BY DEF IsInjective
<1>1. \A e, f \in DOMAIN t : e < f => t[e] # t[f]
  <2> SUFFICES ASSUME NEW e \in DOMAIN t, NEW f \in DOMAIN t, e < f, t[e] = t[f] PROVE FALSE
    OBVIOUS
  <2>1. PICK c, d \in DOMAIN s : c < d /\ s[c] = t[e] /\ s[d] = t[f]
    BY DEF InOrder
  <2>2. c = d
    BY <2>1 DEF IsInjective
  <2>3. c \in Nat
    OBVIOUS
  <2> QED
    BY <2>1, <2>2, <2>3
<1>2. a \in Nat /\ b \in Nat
  OBVIOUS
<1>3. a < b \/ b < a
  BY <1>2
<1> QED
  BY <1>1, <1>3

-----------------------------------------------------------------------------
(* Batches                                                                 *)

SameUpTo(s, t, T, m) ==
    /\ s \in Seq(Seq(T)) /\ t \in Seq(Seq(T)) /\ m \in Nat /\ m <= Len(s) /\ m <= Len(t)
    /\ \A i \in 1..m : s[i] = t[i]

LEMMA FlattenPrefix ==
  ASSUME NEW T, NEW s, NEW t, NEW m, SameUpTo(s, t, T, m),
         NEW h, FlattensBy(h, T, s), NEW g, FlattensBy(g, T, t)
  PROVE  h[m] = g[m]
<1>0. /\ s \in Seq(Seq(T)) /\ t \in Seq(Seq(T)) /\ m \in Nat /\ m <= Len(s) /\ m <= Len(t)
      /\ \A i \in 1..m : s[i] = t[i]
  BY DEF SameUpTo
<1> DEFINE G == {i \in 0..m : h[i] = g[i]}
<1>1. 0 \in G
  BY <1>0 DEF FlattensBy
<1>2. ASSUME NEW i \in 1..m, i - 1 \in G PROVE i \in G
  <2>1. i \in 1..Len(s) /\ i \in 1..Len(t) /\ i \in 0..m
    BY <1>0
  <2>2. h[i] = h[i - 1] \o s[i] /\ g[i] = g[i - 1] \o t[i]
    BY <2>1 DEF FlattensBy
  <2>3. h[i - 1] = g[i - 1] /\ s[i] = t[i]
    BY <1>0, <1>2
  <2> QED
    BY <2>1, <2>2, <2>3
<1>3. \A i \in 0..m : i \in G
  <2> HIDE DEF G
  <2> QED
    BY <1>0, <1>1, <1>2, UpTo
<1> QED
  BY <1>0, <1>3

LEMMA FlattenIn ==
  ASSUME NEW T, NEW b \in Seq(Seq(T))
  PROVE  FlattenSeq(b) \in Seq(T)
<1>1. PICK h : FlattensBy(h, T, b)
  BY FlattenSteps
<1>2. Len(b) \in 0..Len(b)
  OBVIOUS
<1> QED
  BY <1>1, <1>2 DEF FlattensBy

LEMMA FlattenAppend ==
  ASSUME NEW T, NEW b \in Seq(Seq(T)), NEW x \in Seq(T)
  PROVE  FlattenSeq(Append(b, x)) = FlattenSeq(b) \o x
<1> DEFINE c == Append(b, x)
           m == Len(b)
<1>1. /\ c \in Seq(Seq(T)) /\ m \in Nat /\ Len(c) = m + 1 /\ c[m + 1] = x
      /\ m <= Len(b) /\ m <= Len(c) /\ m + 1 \in 1..Len(c) /\ \A i \in 1..m : c[i] = b[i]
  OBVIOUS
<1> HIDE DEF c
<1>2. PICK g : FlattensBy(g, T, c)
  BY <1>1, FlattenSteps
<1>3. PICK h : FlattensBy(h, T, b)
  BY FlattenSteps
<1>4. g[m] = h[m]
  <2>1. SameUpTo(c, b, T, m)
    BY <1>1 DEF SameUpTo
  <2> HIDE DEF m
  <2> QED
    BY <1>2, <1>3, <2>1, FlattenPrefix
<1>5. FlattenSeq(c) = g[m + 1] /\ FlattenSeq(b) = h[m]
  <2>1. FlattenSeq(c) = g[Len(c)]
    BY <1>2 DEF FlattensBy
  <2>2. FlattenSeq(b) = h[Len(b)]
    BY <1>3 DEF FlattensBy
  <2> QED
    BY <1>1, <2>1, <2>2
<1>6. g[m + 1] = g[m] \o c[m + 1]
  <2> DEFINE l == m + 1
  <2>1. l \in 1..Len(c) /\ l - 1 = m
    BY <1>1
  <2> HIDE DEF l, m
  <2>2. g[l] = g[l - 1] \o c[l]
    BY <1>2, <2>1 DEF FlattensBy
  <2> QED
    BY <2>1, <2>2 DEF l
<1> QED
  BY <1>1, <1>4, <1>5, <1>6 DEF c

(* An element that joins the last batch comes last.                        *)
LEMMA FlattenGrown ==
  ASSUME NEW T, NEW b \in Seq(Seq(T)), b # <<>>, NEW n \in T
  PROVE  FlattenSeq([b EXCEPT ![Len(b)] = Append(@, n)]) = Append(FlattenSeq(b), n)
<1> DEFINE c == [b EXCEPT ![Len(b)] = Append(@, n)]
           l == Len(b)
           m == l - 1
<1>1. l \in 1..Len(b) /\ l \in Nat /\ m \in Nat /\ m <= Len(b) /\ b[l] \in Seq(T)
  OBVIOUS
<1>2. /\ c \in Seq(Seq(T)) /\ Len(c) = l /\ c[l] = Append(b[l], n)
      /\ \A i \in 1..m : c[i] = b[i]
  BY <1>1
<1> HIDE DEF c
<1>3. PICK g : FlattensBy(g, T, c)
  BY <1>2, FlattenSteps
<1>4. PICK h : FlattensBy(h, T, b)
  BY FlattenSteps
<1>5. m <= Len(c) /\ m <= Len(b) /\ l \in 1..Len(c) /\ m \in 0..Len(b)
  BY <1>1, <1>2
<1>6. g[m] = h[m]
  <2>1. SameUpTo(c, b, T, m)
    BY <1>1, <1>2, <1>5 DEF SameUpTo
  <2> HIDE DEF m
  <2> QED
    BY <1>3, <1>4, <2>1, FlattenPrefix
<1>7. FlattenSeq(c) = g[l] /\ FlattenSeq(b) = h[l]
  BY <1>2, <1>3, <1>4 DEF FlattensBy
<1>8. g[l] = g[m] \o c[l] /\ h[l] = h[m] \o b[l]
  BY <1>1, <1>2, <1>3, <1>4, <1>5 DEF FlattensBy
<1>9. h[m] \in Seq(T)
  BY <1>4, <1>5 DEF FlattensBy
<1>10. h[m] \o Append(b[l], n) = Append(h[m] \o b[l], n)
  <2> DEFINE u == h[m]
             v == b[l]
  <2>1. u \in Seq(T) /\ v \in Seq(T)
    BY <1>1, <1>9
  <2> HIDE DEF u, v
  <2>2. u \o Append(v, n) = Append(u \o v, n)
    BY <2>1
  <2> QED
    BY <2>2 DEF u, v
<1> QED
  BY <1>2, <1>6, <1>7, <1>8, <1>10 DEF c

LEMMA GasIn ==
  ASSUME NEW b \in Seq(Names)
  PROVE  GasOf(b) \in Nat
<1>1. PICK h : GasBy(h, b)
  BY GasSteps
<1>2. Len(b) \in 0..Len(b)
  OBVIOUS
<1> QED
  BY <1>1, <1>2 DEF GasBy

LEMMA GasAppend ==
  ASSUME NEW b \in Seq(Names), NEW n \in Names
  PROVE  GasOf(Append(b, n)) = GasOf(b) + Gas[n]
<1> DEFINE c == Append(b, n)
           m == Len(b)
<1>1. /\ c \in Seq(Names) /\ m \in Nat /\ Len(c) = m + 1 /\ c[m + 1] = n
      /\ m + 1 \in 1..Len(c) /\ \A i \in 1..m : c[i] = b[i]
  OBVIOUS
<1> HIDE DEF c
<1>2. PICK g : GasBy(g, c)
  BY <1>1, GasSteps
<1>3. PICK h : GasBy(h, b)
  BY GasSteps
<1> DEFINE G == {i \in 0..m : g[i] = h[i]}
<1>4. 0 \in G
  BY <1>1, <1>2, <1>3 DEF GasBy
<1>5. ASSUME NEW i \in 1..m, i - 1 \in G PROVE i \in G
  <2>1. i \in 1..Len(c) /\ i \in 1..Len(b) /\ i \in 0..m
    BY <1>1
  <2>2. g[i] = g[i - 1] + Gas[c[i]] /\ h[i] = h[i - 1] + Gas[b[i]]
    BY <1>2, <1>3, <2>1 DEF GasBy
  <2>3. g[i - 1] = h[i - 1] /\ c[i] = b[i]
    BY <1>1, <1>5
  <2> QED
    BY <2>1, <2>2, <2>3
<1>6. g[m] = h[m]
  <2>1. \A i \in 0..m : i \in G
    <3> HIDE DEF G, m
    <3> QED
      BY <1>1, <1>4, <1>5, UpTo
  <2>2. m \in 0..m
    BY <1>1
  <2> QED
    BY <2>1, <2>2
<1>7. GasOf(c) = g[m + 1] /\ GasOf(b) = h[m]
  BY <1>1, <1>2, <1>3 DEF GasBy
<1>8. g[m + 1] = g[m + 1 - 1] + Gas[c[m + 1]]
  BY <1>1, <1>2 DEF GasBy
<1>9. m + 1 - 1 = m
  BY <1>1
<1> QED
  BY <1>1, <1>6, <1>7, <1>8, <1>9 DEF c

(* Only a contract alone in a batch may exceed the limit.                  *)
Within(bs, limit) == \A x \in DOMAIN bs : Len(bs[x]) > 1 => GasOf(bs[x]) <= limit

LEMMA PlacedIs ==
  ASSUME NEW bs \in Seq(Seq(Names)), NEW n \in Names, NEW limit \in Nat
  PROVE  /\ FlattenSeq(Placed(bs, n, limit)) = Append(FlattenSeq(bs), n)
         /\ Within(bs, limit) => Within(Placed(bs, n, limit), limit)
<1>1. CASE bs = <<>> \/ GasOf(Last(bs)) + Gas[n] > limit
  <2>1. Placed(bs, n, limit) = Append(bs, <<n>>) /\ <<n>> \in Seq(Names) /\ Len(<<n>>) = 1
    BY <1>1 DEF Placed
  <2>2. FlattenSeq(Append(bs, <<n>>)) = FlattenSeq(bs) \o <<n>>
    BY <2>1, FlattenAppend
  <2>3. FlattenSeq(bs) \o <<n>> = Append(FlattenSeq(bs), n)
    <3> DEFINE f == FlattenSeq(bs)
    <3>1. f \in Seq(Names)
      BY FlattenIn
    <3> HIDE DEF f
    <3>2. f \o <<n>> = Append(f, n)
      BY <3>1
    <3> QED
      BY <3>2 DEF f
  <2>4. ASSUME Within(bs, limit), NEW x \in DOMAIN Append(bs, <<n>>), Len(Append(bs, <<n>>)[x]) > 1
        PROVE  GasOf(Append(bs, <<n>>)[x]) <= limit
    <3>1. x \in DOMAIN bs /\ Append(bs, <<n>>)[x] = bs[x]
      BY <2>1, <2>4
    <3> QED
      BY <2>4, <3>1 DEF Within
  <2> QED
    BY <2>1, <2>2, <2>3, <2>4 DEF Within
<1>2. CASE ~ (bs = <<>> \/ GasOf(Last(bs)) + Gas[n] > limit)
  <2> DEFINE c == [bs EXCEPT ![Len(bs)] = Append(@, n)]
  <2>1. Placed(bs, n, limit) = c /\ bs # <<>>
    BY <1>2 DEF Placed
  <2>2. FlattenSeq(c) = Append(FlattenSeq(bs), n)
    BY <2>1, FlattenGrown
  <2>3. /\ Len(bs) \in DOMAIN bs /\ bs[Len(bs)] \in Seq(Names) /\ Last(bs) = bs[Len(bs)]
        /\ DOMAIN c = DOMAIN bs /\ c[Len(bs)] = Append(bs[Len(bs)], n)
        /\ \A x \in DOMAIN bs : x # Len(bs) => c[x] = bs[x]
    BY <2>1 DEF Last
  <2> HIDE DEF c
  <2>4. GasOf(c[Len(bs)]) <= limit
    <3>1. GasOf(c[Len(bs)]) = GasOf(Last(bs)) + Gas[n]
      BY <2>3, GasAppend
    <3>2. GasOf(Last(bs)) \in Nat /\ Gas[n] \in Nat
      BY <2>3, GasIn, ConstantsAssumption
    <3> QED
      BY <1>2, <3>1, <3>2
  <2> QED
    BY <2>1, <2>2, <2>3, <2>4 DEF Within
<1> QED
  BY <1>1, <1>2

LEMMA BatchesAre ==
  ASSUME NEW k, NEW others, NEW limit \in Nat, ToDeploy(k, others) \in Seq(Names)
  PROVE  /\ Batches(k, others, limit) \in Seq(Seq(Names))
         /\ FlattenSeq(Batches(k, others, limit)) = ToDeploy(k, others)
         /\ Within(Batches(k, others, limit), limit)
<1> DEFINE s == ToDeploy(k, others)
<1>1. s \in Seq(Names) /\ s = ToDeploy(k, others)
  OBVIOUS
<1> HIDE DEF s
<1>2. PICK h : BatchesBy(h, k, others, limit, s)
  BY <1>1, BatchSteps
<1> DEFINE n == Len(s)
<1>3. n \in Nat /\ DOMAIN s = 1..n /\ \A i \in 1..n : s[i] \in Names
  BY <1>1
<1>4. /\ h \in [0..n -> Seq(Seq(Names))] /\ h[0] = <<>> /\ Batches(k, others, limit) = h[n]
      /\ \A i \in 1..n : h[i] = Placed(h[i - 1], s[i], limit)
  BY <1>2 DEF BatchesBy
<1> HIDE DEF n
<1> DEFINE Flat(i) == FlattenSeq(h[i]) \in Seq(Names) /\ Len(FlattenSeq(h[i])) = i
                        /\ \A j \in 1..i : FlattenSeq(h[i])[j] = s[j]
           G == {i \in 0..n : Flat(i) /\ Within(h[i], limit)}
<1>5. 0 \in G
  <2>1. h[0] = <<>> /\ 0 \in 0..n /\ DOMAIN h[0] = {}
    BY <1>3, <1>4
  <2>2. FlattenSeq(<<>>) = <<>>
    BY DEF FlattenSeq
  <2>3. Flat(0)
    <3>1. <<>> \in Seq(Names) /\ Len(<<>>) = 0 /\ 1..0 = {}
      OBVIOUS
    <3>2. FlattenSeq(h[0]) = <<>>
      BY <2>1, <2>2
    <3> QED
      BY <3>1, <3>2
  <2>4. Within(h[0], limit)
    BY <2>1 DEF Within
  <2> HIDE DEF Flat
  <2> QED
    BY <2>1, <2>3, <2>4
<1>6. ASSUME NEW i \in 1..n, i - 1 \in G PROVE i \in G
  <2>1. i \in 0..n /\ i - 1 \in 0..n /\ s[i] \in Names /\ i \in Nat
    BY <1>3
  <2> DEFINE p == h[i - 1]
             f == FlattenSeq(p)
  <2>2. p \in Seq(Seq(Names)) /\ h[i] = Placed(p, s[i], limit) /\ h[i] \in Seq(Seq(Names))
    BY <1>4, <2>1
  <2>3. f \in Seq(Names) /\ Len(f) = i - 1 /\ (\A j \in 1..(i - 1) : f[j] = s[j]) /\ Within(p, limit)
    BY <1>6
  <2> HIDE DEF p
  <2>4. FlattenSeq(h[i]) = Append(f, s[i]) /\ Within(h[i], limit)
    BY <2>1, <2>2, <2>3, PlacedIs
  <2> HIDE DEF f
  <2>5. Len(Append(f, s[i])) = i /\ (\A j \in 1..i : Append(f, s[i])[j] = s[j]) /\ Append(f, s[i]) \in Seq(Names)
    BY <2>1, <2>3
  <2>6. Flat(i)
    BY <2>4, <2>5
  <2> HIDE DEF Flat
  <2> QED
    BY <2>1, <2>4, <2>6
<1>7. Flat(n) /\ Within(h[n], limit) /\ h[n] \in Seq(Seq(Names))
  <2>1. \A i \in 0..n : i \in G
    <3> HIDE DEF G
    <3> QED
      BY <1>3, <1>5, <1>6, UpTo
  <2>2. n \in 0..n
    BY <1>3
  <2> HIDE DEF Flat
  <2> QED
    BY <1>4, <2>1, <2>2
<1>8. FlattenSeq(h[n]) = s
  <2> DEFINE f == FlattenSeq(h[n])
  <2>1. f \in Seq(Names) /\ Len(f) = Len(s) /\ \A j \in 1..Len(s) : f[j] = s[j]
    BY <1>7 DEF n
  <2> HIDE DEF f
  <2>2. f = s
    BY <1>1, <2>1
  <2> QED
    BY <2>2 DEF f
<1> QED
  BY <1>1, <1>4, <1>7, <1>8

LEMMA ToDeployIs ==
  ASSUME NEW k, NEW others
  PROVE  /\ ToDeploy(k, others) \in Seq(Names) /\ InOrder(ToDeploy(k, others), BuildOrder)
         /\ Range(ToDeploy(k, others)) = {n \in Names : info[k][n].address \notin InfoAddresses(others)}
<1> DEFINE S == {n \in Names : info[k][n].address \notin InfoAddresses(others)}
<1>1. BuildOrder \in Seq(Names) /\ Range(BuildOrder) = Names
  BY ConstantsAssumption DEF IsSeqOf, Names
<1>2. ToDeploy(k, others) = Kept(BuildOrder, S)
  BY DEF ToDeploy
<1> HIDE DEF S
<1>3. Kept(BuildOrder, S) \in Seq(Names) /\ Range(Kept(BuildOrder, S)) = Range(BuildOrder) \cap S
      /\ InOrder(Kept(BuildOrder, S), BuildOrder)
  BY <1>1, KeptIs
<1> QED
  BY <1>1, <1>2, <1>3 DEF S

LEMMA AlwaysCovered == BatchesCover
<1> SUFFICES ASSUME NEW k \in Configs, NEW j \in Configs, NEW limit \in Limits
             PROVE  LET batches == Batches(k, {j}, limit)
                        all     == FlattenSeq(batches)
                        new     == {n \in Names : ~ \E m \in Names : info[j][m].address = info[k][n].address}
                    IN  /\ Range(all) = new
                        /\ \A a, b \in DOMAIN all : a < b =>
                               \E c, d \in DOMAIN BuildOrder :
                                   c < d /\ BuildOrder[c] = all[a] /\ BuildOrder[d] = all[b]
                        /\ \A i \in DOMAIN batches : Len(batches[i]) > 1 => GasOf(batches[i]) <= limit
  BY DEF BatchesCover
<1>1. limit \in Nat
  BY ConstantsAssumption
<1>2. /\ ToDeploy(k, {j}) \in Seq(Names) /\ InOrder(ToDeploy(k, {j}), BuildOrder)
      /\ Range(ToDeploy(k, {j})) = {n \in Names : info[k][n].address \notin InfoAddresses({j})}
  BY ToDeployIs
<1>3. FlattenSeq(Batches(k, {j}, limit)) = ToDeploy(k, {j}) /\ Within(Batches(k, {j}, limit), limit)
  BY <1>1, <1>2, BatchesAre
<1>4. {n \in Names : info[k][n].address \notin InfoAddresses({j})}
        = {n \in Names : ~ \E m \in Names : info[j][m].address = info[k][n].address}
  BY DEF InfoAddresses
<1> DEFINE batches == Batches(k, {j}, limit)
           all     == FlattenSeq(batches)
           new     == {n \in Names : ~ \E m \in Names : info[j][m].address = info[k][n].address}
<1>5. all = ToDeploy(k, {j}) /\ Range(ToDeploy(k, {j})) = new
  BY <1>2, <1>3, <1>4
<1>6. Within(batches, limit)
  BY <1>3
<1> HIDE DEF batches, all, new
<1>7. Range(all) = new /\ InOrder(all, BuildOrder)
  BY <1>2, <1>5
<1>8. \A a, b \in DOMAIN all : a < b =>
         \E c, d \in DOMAIN BuildOrder : c < d /\ BuildOrder[c] = all[a] /\ BuildOrder[d] = all[b]
  BY <1>7 DEF InOrder
<1>9. \A i \in DOMAIN batches : Len(batches[i]) > 1 => GasOf(batches[i]) <= limit
  BY <1>6 DEF Within
<1> QED
  BY <1>7, <1>8, <1>9 DEF batches, all, new

LEMMA FlattenRange ==
  ASSUME NEW T, NEW b \in Seq(Seq(T))
  PROVE  Range(FlattenSeq(b)) = UNION {Range(b[i]) : i \in DOMAIN b}
<1>1. PICK h : FlattensBy(h, T, b)
  BY FlattenSteps
<1> DEFINE n == Len(b)
           U(i) == UNION {Range(b[j]) : j \in 1..i}
           G == {i \in 0..n : Range(h[i]) = U(i)}
<1>2. n \in Nat /\ DOMAIN b = 1..n /\ \A i \in 1..n : b[i] \in Seq(T)
  OBVIOUS
<1>3. /\ h \in [0..n -> Seq(T)] /\ h[0] = <<>> /\ FlattenSeq(b) = h[n]
      /\ \A i \in 1..n : h[i] = h[i - 1] \o b[i]
  BY <1>1 DEF FlattensBy
<1> HIDE DEF n
<1>4. 0 \in G
  <2>1. Range(<<>>) = {} /\ U(0) = {} /\ 0 \in 0..n
    BY <1>2 DEF Range
  <2> QED
    BY <1>3, <2>1
<1>5. ASSUME NEW i \in 1..n, i - 1 \in G PROVE i \in G
  <2>1. i \in 0..n /\ i - 1 \in 0..n /\ i \in Nat
    BY <1>2
  <2> DEFINE p == h[i - 1]
             q == b[i]
  <2>2. p \in Seq(T) /\ q \in Seq(T) /\ h[i] = p \o q /\ Range(p) = U(i - 1)
    BY <1>2, <1>3, <1>5, <2>1
  <2>3. U(i) = U(i - 1) \cup Range(q)
    <3>1. \A j : j \in 1..i <=> j \in 1..(i - 1) \/ j = i
      BY <2>1
    <3> HIDE DEF G
    <3> QED
      BY <3>1
  <2> HIDE DEF p, q, U
  <2>4. Range(p \o q) = Range(p) \cup Range(q)
    <3>1. DOMAIN (p \o q) = 1..(Len(p) + Len(q)) /\ DOMAIN p = 1..Len(p) /\ DOMAIN q = 1..Len(q)
          /\ Len(p) \in Nat /\ Len(q) \in Nat
      BY <2>2
    <3>2. ASSUME NEW x \in DOMAIN (p \o q) PROVE (p \o q)[x] \in Range(p) \cup Range(q)
      <4>1. CASE x \in 1..Len(p)
        BY <2>2, <3>1, <4>1 DEF Range
      <4>2. CASE x \notin 1..Len(p)
        <5>1. x - Len(p) \in DOMAIN q /\ (p \o q)[x] = q[x - Len(p)]
          BY <2>2, <3>1, <3>2, <4>2
        <5> QED
          BY <5>1 DEF Range
      <4> QED
        BY <4>1, <4>2
    <3>3. ASSUME NEW x \in DOMAIN p PROVE p[x] \in Range(p \o q)
      <4>1. x \in DOMAIN (p \o q) /\ (p \o q)[x] = p[x]
        BY <2>2, <3>1, <3>3
      <4> QED
        BY <4>1 DEF Range
    <3>4. ASSUME NEW x \in DOMAIN q PROVE q[x] \in Range(p \o q)
      <4>1. Len(p) + x \in DOMAIN (p \o q) /\ (p \o q)[Len(p) + x] = q[x]
        BY <2>2, <3>1, <3>4
      <4> QED
        BY <4>1 DEF Range
    <3>5. \A z \in Range(p \o q) : z \in Range(p) \cup Range(q)
      BY <3>2, Zenon DEF Range
    <3>6. \A z \in Range(p) : z \in Range(p \o q)
      BY <3>3, Zenon DEF Range
    <3>7. \A z \in Range(q) : z \in Range(p \o q)
      BY <3>4, Zenon DEF Range
    <3> QED
      BY <3>5, <3>6, <3>7, Zenon
  <2>5. Range(h[i]) = U(i)
    BY <2>2, <2>3, <2>4
  <2> QED
    BY <2>1, <2>5
<1>6. Range(h[n]) = U(n)
  <2>1. \A i \in 0..n : i \in G
    <3> HIDE DEF G
    <3> QED
      BY <1>2, <1>4, <1>5, UpTo
  <2>2. n \in 0..n
    BY <1>2
  <2> HIDE DEF U
  <2> QED
    BY <2>1, <2>2
<1> QED
  BY <1>2, <1>3, <1>6

(* The locations a target stands for.                                      *)
IsTargetOf(t, n, cs, mode) ==
    IF mode = "shared" /\ n \in Common
      THEN Range(t) = Range(cs) \X {n}
      ELSE \E k \in Range(cs) : Range(t) = {<<k, n>>}

LEMMA TargetsOfIs ==
  ASSUME NEW n \in Names, NEW cs \in Seq(Configs), NEW mode
  PROVE  /\ TargetsOf(n, cs, mode) \in Seq(Seq(Configs \X Names))
         /\ \A t \in Range(TargetsOf(n, cs, mode)) : IsTargetOf(t, n, cs, mode)
         /\ \A k \in Range(cs) : \E t \in Range(TargetsOf(n, cs, mode)) : <<k, n>> \in Range(t)
<1>1. DOMAIN cs = 1..Len(cs) /\ Len(cs) \in Nat /\ \A i \in DOMAIN cs : cs[i] \in Configs
  OBVIOUS
<1>2. CASE mode = "shared" /\ n \in Common
  <2> DEFINE u == [i \in DOMAIN cs |-> <<cs[i], n>>]
  <2>1. TargetsOf(n, cs, mode) = <<u>>
    BY <1>2 DEF TargetsOf
  <2>2. u \in Seq(Configs \X Names) /\ Range(u) = Range(cs) \X {n}
    <3>1. u \in Seq(Configs \X Names)
      BY <1>1
    <3>2. \A z \in Range(u) : z \in Range(cs) \X {n}
      BY <1>1 DEF Range
    <3>3. \A k \in Range(cs) : <<k, n>> \in Range(u)
      BY <1>1 DEF Range
    <3> QED
      BY <3>1, <3>2, <3>3
  <2> HIDE DEF u
  <2>3. Range(<<u>>) = {u} /\ <<u>> \in Seq(Seq(Configs \X Names))
    BY <2>2 DEF Range
  <2>4. \A k \in Range(cs) : <<k, n>> \in Range(u)
    BY <2>2
  <2>5. IsTargetOf(u, n, cs, mode)
    BY <1>2, <2>2 DEF IsTargetOf
  <2> QED
    BY <2>1, <2>3, <2>4, <2>5
<1>3. CASE ~ (mode = "shared" /\ n \in Common)
  <2> DEFINE u == [i \in DOMAIN cs |-> <<<<cs[i], n>>>>]
  <2>1. TargetsOf(n, cs, mode) = u
    BY <1>3 DEF TargetsOf
  <2>2. ASSUME NEW i \in DOMAIN cs
        PROVE  /\ <<<<cs[i], n>>>> \in Seq(Configs \X Names)
               /\ Range(<<<<cs[i], n>>>>) = {<<cs[i], n>>}
    BY <1>1 DEF Range
  <2>3. u \in Seq(Seq(Configs \X Names))
    BY <1>1, <2>2
  <2>4. ASSUME NEW t \in Range(u) PROVE IsTargetOf(t, n, cs, mode)
    <3>1. PICK i \in DOMAIN cs : t = <<<<cs[i], n>>>>
      BY DEF Range
    <3>2. Range(t) = {<<cs[i], n>>} /\ cs[i] \in Range(cs)
      BY <2>2, <3>1 DEF Range
    <3> QED
      BY <1>3, <3>2 DEF IsTargetOf
  <2>5. ASSUME NEW k \in Range(cs) PROVE \E t \in Range(u) : <<k, n>> \in Range(t)
    <3>1. PICK i \in DOMAIN cs : k = cs[i]
      BY DEF Range
    <3>2. <<<<cs[i], n>>>> \in Range(u)
      BY DEF Range
    <3> QED
      BY <2>2, <3>1, <3>2
  <2> QED
    BY <2>1, <2>3, <2>4, <2>5
<1> QED
  BY <1>2, <1>3

(* A target is one slot, or a common one of all the configs selected; and  *)
(* every slot of theirs has a target.                                      *)
LEMMA BuildTargetsIs ==
  ASSUME NEW names \in Seq(Names), NEW cs \in Seq(Configs), NEW mode
  PROVE  /\ BuildTargets(names, cs, mode) \in Seq(Seq(Configs \X Names))
         /\ \A t \in Range(BuildTargets(names, cs, mode)) :
              \E n \in Range(names) : IsTargetOf(t, n, cs, mode)
         /\ \A k \in Range(cs), n \in Range(names) :
              \E t \in Range(BuildTargets(names, cs, mode)) : <<k, n>> \in Range(t)
<1> DEFINE T == Seq(Configs \X Names)
           b == [i \in DOMAIN names |-> TargetsOf(names[i], cs, mode)]
<1>1. DOMAIN names = 1..Len(names) /\ Len(names) \in Nat /\ \A i \in DOMAIN names : names[i] \in Names
  OBVIOUS
<1>2. ASSUME NEW i \in DOMAIN names
      PROVE  /\ b[i] \in Seq(T)
             /\ \A t \in Range(b[i]) : IsTargetOf(t, names[i], cs, mode)
             /\ \A k \in Range(cs) : \E t \in Range(b[i]) : <<k, names[i]>> \in Range(t)
  <2>1. names[i] \in Names /\ b[i] = TargetsOf(names[i], cs, mode)
    BY <1>1
  <2> HIDE DEF b
  <2> QED
    BY <2>1, TargetsOfIs
<1>3. b \in Seq(Seq(T)) /\ DOMAIN b = DOMAIN names
  <2> HIDE DEF T
  <2> QED
    BY <1>1, <1>2
<1>4. BuildTargets(names, cs, mode) = FlattenSeq(b)
  BY DEF BuildTargets
<1> HIDE DEF b, T
<1>5. FlattenSeq(b) \in Seq(T) /\ Range(FlattenSeq(b)) = UNION {Range(b[i]) : i \in DOMAIN b}
  BY <1>3, FlattenIn, FlattenRange
<1>6. ASSUME NEW t \in Range(FlattenSeq(b)) PROVE \E n \in Range(names) : IsTargetOf(t, n, cs, mode)
  <2>1. PICK i \in DOMAIN names : t \in Range(b[i])
    BY <1>3, <1>5
  <2>2. names[i] \in Range(names)
    BY DEF Range
  <2> QED
    BY <1>2, <2>1, <2>2
<1>7. ASSUME NEW k \in Range(cs), NEW n \in Range(names)
      PROVE  \E t \in Range(FlattenSeq(b)) : <<k, n>> \in Range(t)
  <2>1. PICK i \in DOMAIN names : n = names[i]
    BY DEF Range
  <2>2. PICK t \in Range(b[i]) : <<k, n>> \in Range(t)
    BY <1>2, <2>1
  <2>3. t \in Range(FlattenSeq(b))
    BY <1>3, <1>5, <2>2
  <2> QED
    BY <2>2, <2>3
<1> QED
  BY <1>4, <1>5, <1>6, <1>7 DEF T

-----------------------------------------------------------------------------
(* Constants                                                               *)

PoolOf(n) == IF n \in Range(DataNames) THEN "data" ELSE "logic"

LEMMA SequencesAre ==
  /\ ConfigOrder \in Seq(Configs) /\ Configs = Range(ConfigOrder)
  /\ DataNames \in Seq(Names) /\ LogicNames \in Seq(Names)
  /\ \A n \in Names : n \in Range(DataNames) <=> n \notin Range(LogicNames)
  /\ Range(DataNames) \subseteq Names /\ Range(LogicNames) \subseteq Names
BY ConstantsAssumption DEF IsSeqOf, Configs

LEMMA SlotsAre ==
  /\ \A n \in Names : Slots(n) = Range(Entries[PoolOf(n)]) /\ Slots(n) \subseteq Addresses
  /\ \A n \in Range(DataNames) : PoolOf(n) = "data"
  /\ \A n \in Range(LogicNames) : PoolOf(n) = "logic"
  /\ \A n, m \in Names : PoolOf(n) # PoolOf(m) => Slots(n) \cap Slots(m) = {}
<1>1. Range(Entries["data"]) \cap Range(Entries["logic"]) = {}
  BY ConstantsAssumption
<1>2. \A n \in Names : Slots(n) = Range(Entries[PoolOf(n)]) /\ Slots(n) \subseteq Addresses
  BY DEF Slots, PoolOf, Addresses
<1>3. \A n \in Range(DataNames) : PoolOf(n) = "data"
  BY DEF PoolOf
<1>4. \A n \in Range(LogicNames) : PoolOf(n) = "logic"
  BY SequencesAre DEF PoolOf
<1>5. \A n \in Names : PoolOf(n) = "data" \/ PoolOf(n) = "logic"
  BY DEF PoolOf
<1>6. \A n, m \in Names : PoolOf(n) # PoolOf(m) => Slots(n) \cap Slots(m) = {}
  BY <1>1, <1>2, <1>5
<1> QED
  BY <1>2, <1>3, <1>4, <1>6

(* A config, slot by slot.                                                 *)
LEMMA ConfigIs ==
  ASSUME NEW c
  PROVE  c \in [Configs -> Config] <=>
           /\ c = [k \in Configs |-> [n \in Names |-> c[k][n]]]
           /\ \A k \in Configs, n \in Names : c[k][n] \in [address : Slots(n), at : Slots(n)]
<1>1. ASSUME c \in [Configs -> Config], NEW k \in Configs, NEW n \in Names
      PROVE  c[k][n] \in [address : Slots(n), at : Slots(n)]
  <2>1. c[k] \in Config
    BY <1>1
  <2>2. c[k][n] \in [address : Addresses, at : Addresses] /\ {c[k][n].address, c[k][n].at} \subseteq Slots(n)
    BY <2>1 DEF Config
  <2> QED
    BY <2>2
<1>2. ASSUME c \in [Configs -> Config] PROVE c = [k \in Configs |-> [n \in Names |-> c[k][n]]]
  <2>1. \A k \in Configs : c[k] = [n \in Names |-> c[k][n]]
    <3> TAKE k \in Configs
    <3>1. c[k] \in [Names -> [address : Addresses, at : Addresses]]
      BY <1>2 DEF Config
    <3> QED
      BY <3>1
  <2> QED
    BY <1>2, <2>1
<1>3. ASSUME c = [k \in Configs |-> [n \in Names |-> c[k][n]]],
             \A k \in Configs, n \in Names : c[k][n] \in [address : Slots(n), at : Slots(n)]
      PROVE  c \in [Configs -> Config]
  <2>1. ASSUME NEW k \in Configs PROVE c[k] \in Config
    <3>1. c[k] = [n \in Names |-> c[k][n]]
      BY <1>3
    <3>2. \A n \in Names : c[k][n] \in [address : Addresses, at : Addresses]
      BY <1>3, SlotsAre
    <3>3. c[k] \in [Names -> [address : Addresses, at : Addresses]]
      BY <3>1, <3>2
    <3>4. \A n \in Names : {c[k][n].address, c[k][n].at} \subseteq Slots(n)
      BY <1>3
    <3> QED
      BY <3>3, <3>4 DEF Config
  <2> QED
    BY <1>3, <2>1
<1> QED
  BY <1>1, <1>2, <1>3

-----------------------------------------------------------------------------
(* Selection                                                               *)

Triple(a) == [address |-> a, at |-> a]

(* The entry an allotment gives to a slot.                                 *)
LEMMA ApplyIs ==
  ASSUME NEW cfg, NEW targets, NEW entries, NEW k \in Configs, NEW n \in Names
  PROVE  \/ /\ ~ \E i \in DOMAIN targets : <<k, n>> \in Range(targets[i])
            /\ Apply(cfg, targets, entries)[k][n] = cfg[k][n]
         \/ \E i \in DOMAIN targets :
              /\ <<k, n>> \in Range(targets[i])
              /\ Apply(cfg, targets, entries)[k][n] = Triple(entries[i])
<1>1. CASE \E i \in DOMAIN targets : <<k, n>> \in Range(targets[i])
  <2> DEFINE i == CHOOSE j \in DOMAIN targets : <<k, n>> \in Range(targets[j])
  <2>1. Apply(cfg, targets, entries)[k][n] = [address |-> entries[i], at |-> entries[i]]
    BY <1>1 DEF Apply
  <2>2. i \in DOMAIN targets /\ <<k, n>> \in Range(targets[i])
    BY <1>1
  <2> QED
    BY <2>1, <2>2 DEF Triple
<1>2. CASE ~ \E i \in DOMAIN targets : <<k, n>> \in Range(targets[i])
  <2>1. Apply(cfg, targets, entries)[k][n] = cfg[k][n]
    BY <1>2 DEF Apply
  <2> QED
    BY <1>2, <2>1
<1> QED
  BY <1>1, <1>2

(* Targets of names of one pool, for some of the configs.                  *)
AreTargets(targets, names, cs, mode) ==
    /\ targets \in Seq(Seq(Configs \X Names))
    /\ \A t \in Range(targets) : \E n \in Range(names) : IsTargetOf(t, n, cs, mode)

LEMMA ApplyIn ==
  ASSUME NEW names \in Seq(Names), NEW cs \in Seq(Configs), NEW mode,
         NEW targets, AreTargets(targets, names, cs, mode),
         NEW pool, \A n \in Range(names) : PoolOf(n) = pool,
         NEW entries \in Seq(Addresses), Range(entries) \subseteq Range(Entries[pool]),
         Len(entries) >= Len(targets),
         NEW cfg \in [Configs -> Config]
  PROVE  Apply(cfg, targets, entries) \in [Configs -> Config]
<1> DEFINE new == Apply(cfg, targets, entries)
<1>1. new = [k \in Configs |-> [n \in Names |-> new[k][n]]]
  BY DEF Apply
<1>2. ASSUME NEW k \in Configs, NEW n \in Names
      PROVE  new[k][n] \in [address : Slots(n), at : Slots(n)]
  <2>1. CASE new[k][n] = cfg[k][n]
    BY <2>1, ConfigIs
  <2>2. CASE \E i \in DOMAIN targets :
              /\ <<k, n>> \in Range(targets[i])
              /\ new[k][n] = Triple(entries[i])
    <3>1. PICK i \in DOMAIN targets : <<k, n>> \in Range(targets[i]) /\ new[k][n] = Triple(entries[i])
      BY <2>2
    <3> HIDE DEF new
    <3>2. targets[i] \in Range(targets)
      BY <3>1 DEF Range
    <3>3. PICK m \in Range(names) : IsTargetOf(targets[i], m, cs, mode)
      BY <3>2 DEF AreTargets
    <3>4. n = m
      BY <3>1, <3>3 DEF IsTargetOf
    <3>5. entries[i] \in Range(entries)
      <4>1. i \in DOMAIN entries
        BY <3>1 DEF AreTargets
      <4> QED
        BY <4>1 DEF Range
    <3>6. entries[i] \in Slots(n)
      BY <3>3, <3>4, <3>5, SlotsAre
    <3> QED
      BY <3>1, <3>6 DEF Triple
  <2> HIDE DEF new
  <2> QED
    BY <2>1, <2>2, ApplyIs DEF new
<1> HIDE DEF new
<1>3. new \in [Configs -> Config]
  BY <1>1, <1>2, ConfigIs
<1> QED
  BY <1>3 DEF new

(* What is left of a pool: none that a config outside the selection holds, *)
(* and none twice.                                                         *)
LEMMA PoolIs ==
  ASSUME NEW pool \in {"data", "logic"}, NEW rest
  PROVE  /\ Pool(pool, rest) \in Seq(Addresses) /\ IsInjective(Pool(pool, rest))
         /\ Range(Pool(pool, rest)) \subseteq Range(Entries[pool])
         /\ Range(Pool(pool, rest)) \cap ConfigAddresses(rest) = {}
<1> DEFINE S == Addresses \ (Legacy \cup ConfigAddresses(rest))
<1>1. Pool(pool, rest) = Kept(Entries[pool], S)
  BY DEF Pool
<1>2. Entries[pool] \in Seq(Addresses) /\ IsInjective(Entries[pool])
  BY ConstantsAssumption DEF IsSeqOf
<1>3. S \cap ConfigAddresses(rest) = {}
  OBVIOUS
<1> HIDE DEF S
<1>4. /\ Kept(Entries[pool], S) \in Seq(Addresses)
      /\ Range(Kept(Entries[pool], S)) = Range(Entries[pool]) \cap S
      /\ InOrder(Kept(Entries[pool], S), Entries[pool])
  BY <1>2, KeptIs
<1>5. IsInjective(Kept(Entries[pool], S))
  BY <1>2, <1>4, InjectiveInOrder
<1> QED
  BY <1>1, <1>3, <1>4, <1>5

(* What may be skipped, and that nothing is without a freeze file.         *)
LEMMA EligibleIs ==
  ASSUME NEW names \in Seq(Names), NEW cs \in Seq(Configs), NEW mode, NEW frozen
  PROVE  /\ AreTargets(Eligible(BuildTargets(names, cs, mode), frozen), names, cs, mode)
         /\ frozen = {} => Eligible(BuildTargets(names, cs, mode), frozen) = BuildTargets(names, cs, mode)
<1> DEFINE ts == BuildTargets(names, cs, mode)
           S == {t \in Range(ts) : config[t[1][1]][t[1][2]].address \notin frozen}
<1>1. /\ ts \in Seq(Seq(Configs \X Names))
      /\ \A t \in Range(ts) : \E n \in Range(names) : IsTargetOf(t, n, cs, mode)
  BY BuildTargetsIs
<1>2. Eligible(ts, frozen) = Kept(ts, S)
  BY DEF Eligible
<1>3. frozen = {} => Range(ts) \subseteq S
  OBVIOUS
<1> HIDE DEF ts, S
<1>4. Kept(ts, S) \in Seq(Seq(Configs \X Names)) /\ Range(Kept(ts, S)) = Range(ts) \cap S
  BY <1>1, KeptIs
<1>5. frozen = {} => Kept(ts, S) = ts
  BY <1>1, <1>3, KeptAll
<1>6. AreTargets(Kept(ts, S), names, cs, mode)
  BY <1>1, <1>4 DEF AreTargets
<1> QED
  BY <1>2, <1>5, <1>6 DEF ts

LEMMA SelectIn ==
  ASSUME NEW cs \in Seq(Configs), NEW mode, NEW frozen, NEW excluded, NEW written,
         Select(cs, mode, frozen, excluded, written),
         config \in [Configs -> Config]
  PROVE  config' \in [Configs -> Config]
<1> DEFINE large == Eligible(BuildTargets(DataNames, cs, mode), frozen)
           small == Eligible(BuildTargets(LogicNames, cs, mode), frozen)
           first == Apply(config, large, Pool("data", excluded))
           final == Apply(first, small, Pool("logic", excluded))
           saved == Range(SubSeq(cs, 1, written))
<1>1. /\ Len(Pool("data", excluded)) >= Len(large) /\ Len(Pool("logic", excluded)) >= Len(small)
      /\ config' = [k \in Configs |-> IF k \in saved THEN final[k] ELSE config[k]]
  BY DEF Select
<1>2. AreTargets(large, DataNames, cs, mode) /\ AreTargets(small, LogicNames, cs, mode)
  BY SequencesAre, EligibleIs
<1>3. /\ Pool("data", excluded) \in Seq(Addresses) /\ Range(Pool("data", excluded)) \subseteq Range(Entries["data"])
      /\ Pool("logic", excluded) \in Seq(Addresses) /\ Range(Pool("logic", excluded)) \subseteq Range(Entries["logic"])
  BY PoolIs
<1>4. /\ \A n \in Range(DataNames) : PoolOf(n) = "data"
      /\ \A n \in Range(LogicNames) : PoolOf(n) = "logic"
  BY SlotsAre
<1> HIDE DEF large, small, saved
<1>5. first \in [Configs -> Config]
  BY <1>1, <1>2, <1>3, <1>4, SequencesAre, ApplyIn
<1> HIDE DEF first
<1>6. final \in [Configs -> Config]
  BY <1>1, <1>2, <1>3, <1>4, <1>5, SequencesAre, ApplyIn
<1> HIDE DEF final
<1>7. \A k \in Configs : (IF k \in saved THEN final[k] ELSE config[k]) \in Config
  BY <1>6
<1> QED
  BY <1>1, <1>7

(* What an allotment of the entries E to the targets of `names` makes of a *)
(* config: the slots that have a target hold a triple of E, two of them    *)
(* the same one only for a contract the configs share, and then always.    *)
Allots(new, old, names, cs, mode, E) ==
    /\ \A k \in Configs, n \in Names :
         ~ (k \in Range(cs) /\ n \in Range(names)) => new[k][n] = old[k][n]
    /\ \A k \in Range(cs), n \in Range(names) : \E a \in E : new[k][n] = Triple(a)
    /\ \A k, j \in Range(cs), n, m \in Range(names) :
         new[k][n].at = new[j][m].at => n = m /\ (k = j \/ (mode = "shared" /\ n \in Common))
    /\ mode = "shared" =>
         \A k, j \in Range(cs), n \in Range(names) \cap Common : new[k][n] = new[j][n]

LEMMA ApplyAllots ==
  ASSUME NEW names \in Seq(Names), NEW cs \in Seq(Configs), NEW mode, NEW cfg,
         NEW entries \in Seq(Addresses), IsInjective(entries),
         Len(entries) >= Len(BuildTargets(names, cs, mode))
  PROVE  Allots(Apply(cfg, BuildTargets(names, cs, mode), entries), cfg,
                names, cs, mode, Range(entries))
<1> DEFINE ts == BuildTargets(names, cs, mode)
           D  == DOMAIN ts
           new == Apply(cfg, ts, entries)
           P(k, n) == CHOOSE i \in D : <<k, n>> \in Range(ts[i])
<1>1. /\ ts \in Seq(Seq(Configs \X Names))
      /\ \A t \in Range(ts) : \E n \in Range(names) : IsTargetOf(t, n, cs, mode)
      /\ \A k \in Range(cs), n \in Range(names) : \E t \in Range(ts) : <<k, n>> \in Range(t)
  BY BuildTargetsIs
<1>2. ASSUME NEW k \in Configs, NEW n \in Names
      PROVE  new[k][n] = IF \E i \in D : <<k, n>> \in Range(ts[i])
                           THEN Triple(entries[P(k, n)]) ELSE cfg[k][n]
  BY DEF Apply, Triple
<1>3. D = 1..Len(ts) /\ Len(ts) \in Nat /\ DOMAIN entries = 1..Len(entries) /\ Len(entries) \in Nat
  BY <1>1
<1>4. D \subseteq DOMAIN entries
  BY <1>3
<1>5. Range(names) \subseteq Names /\ Range(cs) \subseteq Configs
  BY DEF Range
<1> HIDE DEF ts, D, new
<1>6. ASSUME NEW i \in D, NEW k, NEW n, <<k, n>> \in Range(ts[i])
      PROVE  k \in Range(cs) /\ n \in Range(names) /\ IsTargetOf(ts[i], n, cs, mode)
  <2>1. ts[i] \in Range(ts)
    BY DEF Range, D
  <2>2. PICK m \in Range(names) : IsTargetOf(ts[i], m, cs, mode)
    BY <1>1, <2>1
  <2>3. n = m /\ k \in Range(cs)
    BY <1>6, <2>2 DEF IsTargetOf
  <2> QED
    BY <2>2, <2>3
<1>7. ASSUME NEW k \in Range(cs), NEW n \in Range(names)
      PROVE  P(k, n) \in D /\ <<k, n>> \in Range(ts[P(k, n)]) /\ new[k][n] = Triple(entries[P(k, n)])
  <2>1. PICK t \in Range(ts) : <<k, n>> \in Range(t)
    BY <1>1
  <2>2. \E i \in D : <<k, n>> \in Range(ts[i])
    BY <2>1 DEF Range, D
  <2>3. P(k, n) \in D /\ <<k, n>> \in Range(ts[P(k, n)])
    BY <2>2
  <2>4. k \in Configs /\ n \in Names
    BY <1>5
  <2> HIDE DEF P
  <2> QED
    BY <1>2, <2>2, <2>3, <2>4
<1>8. ASSUME NEW k \in Configs, NEW n \in Names, ~ (k \in Range(cs) /\ n \in Range(names))
      PROVE  new[k][n] = cfg[k][n]
  BY <1>2, <1>6, <1>8
<1>9. ASSUME NEW k \in Range(cs), NEW n \in Range(names)
      PROVE  \E a \in Range(entries) : new[k][n] = Triple(a)
  <2>1. P(k, n) \in DOMAIN entries /\ new[k][n] = Triple(entries[P(k, n)])
    BY <1>4, <1>7
  <2> HIDE DEF P
  <2>2. entries[P(k, n)] \in Range(entries)
    BY <2>1 DEF Range
  <2> QED
    BY <2>1, <2>2
<1>10. ASSUME NEW k \in Range(cs), NEW j \in Range(cs), NEW n \in Range(names), NEW m \in Range(names),
              new[k][n].at = new[j][m].at
       PROVE  n = m /\ (k = j \/ (mode = "shared" /\ n \in Common))
  <2>1. /\ P(k, n) \in D /\ <<k, n>> \in Range(ts[P(k, n)]) /\ new[k][n] = Triple(entries[P(k, n)])
        /\ P(j, m) \in D /\ <<j, m>> \in Range(ts[P(j, m)]) /\ new[j][m] = Triple(entries[P(j, m)])
    BY <1>7
  <2> HIDE DEF P
  <2>2. entries[P(k, n)] = entries[P(j, m)]
    BY <1>10, <2>1 DEF Triple
  <2>3. P(k, n) = P(j, m)
    BY <1>4, <2>1, <2>2 DEF IsInjective
  <2> DEFINE t == ts[P(k, n)]
  <2>4. <<k, n>> \in Range(t) /\ <<j, m>> \in Range(t)
    BY <2>1, <2>3
  <2>5. IsTargetOf(t, n, cs, mode) /\ IsTargetOf(t, m, cs, mode)
    BY <1>6, <2>1, <2>3
  <2> HIDE DEF t
  <2> QED
    BY <2>4, <2>5 DEF IsTargetOf
<1>11. ASSUME mode = "shared", NEW k \in Range(cs), NEW j \in Range(cs), NEW n \in Range(names) \cap Common
       PROVE  new[k][n] = new[j][n]
  <2>1. ASSUME NEW l \in Range(cs), NEW i \in D
        PROVE  <<l, n>> \in Range(ts[i]) <=> Range(ts[i]) = Range(cs) \X {n}
    <3>1. ASSUME <<l, n>> \in Range(ts[i]) PROVE Range(ts[i]) = Range(cs) \X {n}
      <4>1. IsTargetOf(ts[i], n, cs, mode)
        BY <1>6, <3>1
      <4> QED
        BY <1>11, <4>1 DEF IsTargetOf
    <3>2. ASSUME Range(ts[i]) = Range(cs) \X {n} PROVE <<l, n>> \in Range(ts[i])
      BY <3>2
    <3> QED
      BY <3>1, <3>2
  <2>2. \A i \in D : <<k, n>> \in Range(ts[i]) <=> <<j, n>> \in Range(ts[i])
    BY <2>1
  <2>3. P(k, n) = P(j, n)
    BY <2>2
  <2> HIDE DEF P
  <2> QED
    BY <1>7, <2>3
<1>12. Allots(new, cfg, names, cs, mode, Range(entries))
  BY <1>8, <1>9, <1>10, <1>11 DEF Allots
<1> QED
  BY <1>12 DEF new, ts

-----------------------------------------------------------------------------
(* Two configs, one selection                                              *)

(* What selecting for all the names makes of a config.                     *)
Selected(new, old, cs, mode) ==
    /\ \A k \in Configs \ Range(cs), n \in Names : new[k][n] = old[k][n]
    /\ \A k \in Range(cs), n \in Names :
         /\ new[k][n].at \in Slots(n) /\ new[k][n].address = new[k][n].at
         /\ \A j \in Configs \ Range(cs), m \in Names : new[k][n].at # old[j][m].address
    /\ \A k, j \in Range(cs), n, m \in Names :
         new[k][n].at = new[j][m].at => n = m /\ (k = j \/ (mode = "shared" /\ n \in Common))
    /\ mode = "shared" => \A k, j \in Range(cs), n \in Common : new[k][n] = new[j][n]

LEMMA SelectIs ==
  ASSUME NEW cs \in Seq(Configs), NEW mode, NEW excluded, NEW written,
         config \in [Configs -> Config],
         Select(cs, mode, {}, excluded, written),
         Range(SubSeq(cs, 1, written)) = Range(cs), Configs \ Range(cs) \subseteq excluded
  PROVE  Selected(config', config, cs, mode)
<1> DEFINE rest  == excluded
           large == BuildTargets(DataNames, cs, mode)
           small == BuildTargets(LogicNames, cs, mode)
           first == Apply(config, large, Pool("data", rest))
           final == Apply(first, small, Pool("logic", rest))
           A == Range(Pool("data", rest))
           B == Range(Pool("logic", rest))
<1>1. /\ Eligible(large, {}) = large /\ Eligible(small, {}) = small
  BY SequencesAre, EligibleIs
<1>2. /\ Len(Pool("data", rest)) >= Len(large) /\ Len(Pool("logic", rest)) >= Len(small)
      /\ \A k \in Configs : config'[k] = IF k \in Range(cs) THEN final[k] ELSE config[k]
  BY <1>1 DEF Select
<1>3. /\ Pool("data", rest) \in Seq(Addresses) /\ IsInjective(Pool("data", rest))
      /\ Pool("logic", rest) \in Seq(Addresses) /\ IsInjective(Pool("logic", rest))
      /\ A \subseteq Range(Entries["data"]) /\ A \cap ConfigAddresses(rest) = {}
      /\ B \subseteq Range(Entries["logic"]) /\ B \cap ConfigAddresses(rest) = {}
  BY PoolIs
<1>4. Allots(first, config, DataNames, cs, mode, A)
  BY <1>2, <1>3, SequencesAre, ApplyAllots
<1>5. Allots(final, first, LogicNames, cs, mode, B)
  <2> HIDE DEF first
  <2> QED
    BY <1>2, <1>3, SequencesAre, ApplyAllots
<1>6. Range(cs) \subseteq Configs /\ Common \subseteq Names
  BY ConstantsAssumption DEF Range
<1>7. \A j \in rest, m \in Names : config[j][m].address \in ConfigAddresses(rest)
  BY DEF ConfigAddresses
<1>8. Configs \ Range(cs) \subseteq rest
  OBVIOUS
<1> HIDE DEF rest, A, B, first, final
<1>9. ASSUME NEW k \in Configs \ Range(cs), NEW n \in Names PROVE final[k][n] = config[k][n]
  BY <1>4, <1>5 DEF Allots
<1>10. ASSUME NEW k \in Range(cs), NEW n \in Names
       PROVE  \E a \in (A \cup B) \cap Slots(n) : final[k][n] = Triple(a)
  <2>1. CASE n \in Range(DataNames)
    <3>1. final[k][n] = first[k][n]
      BY <1>5, <1>6, <2>1, SequencesAre DEF Allots
    <3>2. PICK a \in A : first[k][n] = Triple(a)
      BY <1>4, <2>1 DEF Allots
    <3>3. a \in Slots(n)
      BY <1>3, <2>1, SlotsAre
    <3> QED
      BY <3>1, <3>2, <3>3
  <2>2. CASE n \in Range(LogicNames)
    <3>1. PICK a \in B : final[k][n] = Triple(a)
      BY <1>5, <2>2 DEF Allots
    <3>2. a \in Slots(n)
      BY <1>3, <2>2, SlotsAre
    <3> QED
      BY <3>1, <3>2
  <2> QED
    BY <2>1, <2>2, SequencesAre
<1>11. ASSUME NEW k \in Range(cs), NEW n \in Names
       PROVE  /\ final[k][n].at \in Slots(n) /\ final[k][n].address = final[k][n].at
              /\ \A j \in rest, m \in Names : final[k][n].at # config[j][m].address
  <2>1. PICK a \in (A \cup B) \cap Slots(n) : final[k][n] = Triple(a)
    BY <1>10
  <2>2. final[k][n].at = a /\ final[k][n].address = a
    BY <2>1 DEF Triple
  <2> QED
    BY <1>3, <1>7, <2>1, <2>2
<1>12. ASSUME NEW k \in Range(cs), NEW j \in Range(cs), NEW n \in Names, NEW m \in Names,
              final[k][n].at = final[j][m].at
       PROVE  n = m /\ (k = j \/ (mode = "shared" /\ n \in Common))
  <2>1. final[k][n].at \in Slots(n) /\ final[k][n].at \in Slots(m)
    BY <1>11, <1>12
  <2>2. PoolOf(n) = PoolOf(m)
    BY <2>1, SlotsAre
  <2>3. CASE n \in Range(DataNames) /\ m \in Range(DataNames)
    <3>1. final[k][n] = first[k][n] /\ final[j][m] = first[j][m]
      BY <1>5, <1>6, <2>3, SequencesAre DEF Allots
    <3> QED
      BY <1>4, <1>12, <2>3, <3>1 DEF Allots
  <2>4. CASE n \in Range(LogicNames) /\ m \in Range(LogicNames)
    BY <1>5, <1>12, <2>4 DEF Allots
  <2>5. CASE n \in Range(DataNames) /\ m \in Range(LogicNames)
    BY <2>2, <2>5, SlotsAre
  <2>6. CASE n \in Range(LogicNames) /\ m \in Range(DataNames)
    BY <2>2, <2>6, SlotsAre
  <2> QED
    BY <2>3, <2>4, <2>5, <2>6, SequencesAre
<1>13. ASSUME mode = "shared", NEW k \in Range(cs), NEW j \in Range(cs), NEW n \in Common
       PROVE  final[k][n] = final[j][n]
  <2>1. n \in Names
    BY <1>6
  <2>2. CASE n \in Range(DataNames)
    <3>1. final[k][n] = first[k][n] /\ final[j][n] = first[j][n]
      BY <1>5, <1>6, <2>1, <2>2, SequencesAre DEF Allots
    <3> QED
      BY <1>4, <1>13, <2>2, <3>1 DEF Allots
  <2>3. CASE n \in Range(LogicNames)
    BY <1>5, <1>13, <2>3 DEF Allots
  <2> QED
    BY <2>1, <2>2, <2>3, SequencesAre
<1>14. Selected(final, config, cs, mode)
  BY <1>8, <1>9, <1>11, <1>12, <1>13 DEF Selected
<1> DEFINE new == config'
<1>15. /\ \A k \in Range(cs) : new[k] = final[k]
       /\ \A k \in Configs \ Range(cs) : new[k] = config[k]
  BY <1>2, <1>6
<1> HIDE DEF new
<1>16. Selected(new, config, cs, mode)
  BY <1>14, <1>15 DEF Selected
<1> QED
  BY <1>16 DEF new

(* Slots apart, each with the address of its triple.                       *)
Sound(cfg) ==
    /\ \A k \in Configs, n \in Names : cfg[k][n].at = cfg[k][n].address
    /\ SlotsApart(cfg) /\ CommonTogether(cfg)

(* Selecting for some configs keeps sound ones sound, and selecting for    *)
(* all makes any sound.                                                    *)
LEMMA SelectedSound ==
  ASSUME NEW new, NEW old, NEW cs \in Seq(Configs), NEW mode, Selected(new, old, cs, mode),
         Sound(old) \/ Range(cs) = Configs
  PROVE  Sound(new)
<1> DEFINE R == Range(cs)
<1>1. R \subseteq Configs /\ Common \subseteq Names
  BY ConstantsAssumption DEF Range
<1>2. /\ \A k \in Configs \ R, n \in Names : new[k][n] = old[k][n]
      /\ \A k \in R, n \in Names :
           /\ new[k][n].address = new[k][n].at
           /\ \A j \in Configs \ R, m \in Names : new[k][n].at # old[j][m].address
      /\ \A k, j \in R, n, m \in Names :
           new[k][n].at = new[j][m].at => n = m /\ (k = j \/ (mode = "shared" /\ n \in Common))
      /\ mode = "shared" => \A k, j \in R, n \in Common : new[k][n] = new[j][n]
      /\ (\E k \in Configs : k \notin R) => Sound(old)
  BY DEF Selected
<1> HIDE DEF R
<1>3. ASSUME NEW k \in Configs, NEW n \in Names PROVE new[k][n].at = new[k][n].address
  BY <1>2 DEF Sound
<1>4. ASSUME NEW k \in R, NEW j \in Configs \ R, NEW n \in Names, NEW m \in Names
      PROVE  new[k][n].at # new[j][m].at
  <2>1. new[j][m].at = old[j][m].address
    BY <1>2 DEF Sound
  <2> QED
    BY <1>2, <2>1
<1>5. ASSUME NEW k \in Configs, NEW j \in Configs, NEW n \in Names, NEW m \in Names,
             new[k][n].at = new[j][m].at
      PROVE  n = m /\ (k = j \/ n \in Common)
  <2>1. CASE k \in R /\ j \in R
    BY <1>2, <1>5, <2>1
  <2>2. CASE k \notin R /\ j \notin R
    <3>1. old[k][n].at = old[j][m].at
      BY <1>2, <1>5, <2>2
    <3> QED
      BY <1>2, <2>2, <3>1 DEF Sound, SlotsApart
  <2>3. CASE k \in R /\ j \notin R
    BY <1>4, <1>5, <2>3
  <2>4. CASE k \notin R /\ j \in R
    BY <1>4, <1>5, <2>4
  <2> QED
    BY <2>1, <2>2, <2>3, <2>4
<1>6. ASSUME NEW k \in Configs, NEW j \in Configs, NEW n \in Common, NEW m \in Common,
             new[k][n].at = new[j][n].at
      PROVE  new[k][m].at = new[j][m].at
  <2>1. CASE k \in R /\ j \in R
    BY <1>1, <1>2, <1>6, <2>1
  <2>2. CASE k \notin R /\ j \notin R
    <3>1. old[k][n].at = old[j][n].at
      BY <1>1, <1>2, <1>6, <2>2
    <3>2. old[k][m].at = old[j][m].at
      BY <1>2, <2>2, <3>1 DEF Sound, CommonTogether
    <3> QED
      BY <1>1, <1>2, <2>2, <3>2
  <2>3. CASE k \in R /\ j \notin R
    BY <1>1, <1>4, <1>6, <2>3
  <2>4. CASE k \notin R /\ j \in R
    BY <1>1, <1>4, <1>6, <2>4
  <2> QED
    BY <2>1, <2>2, <2>3, <2>4
<1> QED
  BY <1>3, <1>5, <1>6 DEF Sound, SlotsApart, CommonTogether

-----------------------------------------------------------------------------
(* Batch files                                                             *)

LEMMA FilesIn ==
  ASSUME NEW k, NEW others, NEW limit \in Nat, NEW S, \A n \in Names : TxPair(k, n, info[k]) \in S
  PROVE  Files(k, others, limit) \in Seq(Seq(S))
<1> DEFINE bs == Batches(k, others, limit)
<1>1. bs \in Seq(Seq(Names))
  <2>1. ToDeploy(k, others) \in Seq(Names)
    BY ToDeployIs
  <2> QED
    BY <2>1, BatchesAre
<1>2. Files(k, others, limit) = [i \in DOMAIN bs |-> [j \in DOMAIN bs[i] |-> TxPair(k, bs[i][j], info[k])]]
  BY DEF Files
<1> HIDE DEF bs
<1>3. DOMAIN bs = 1..Len(bs) /\ Len(bs) \in Nat
  BY <1>1
<1>4. ASSUME NEW i \in DOMAIN bs PROVE [j \in DOMAIN bs[i] |-> TxPair(k, bs[i][j], info[k])] \in Seq(S)
  <2> DEFINE b == bs[i]
  <2>1. b \in Seq(Names)
    BY <1>1
  <2> HIDE DEF b
  <2>2. DOMAIN b = 1..Len(b) /\ Len(b) \in Nat /\ \A j \in DOMAIN b : TxPair(k, b[j], info[k]) \in S
    BY <2>1
  <2>3. [j \in DOMAIN b |-> TxPair(k, b[j], info[k])] \in Seq(S)
    BY <2>2
  <2> QED
    BY <2>3 DEF b
<1>5. [i \in DOMAIN bs |-> [j \in DOMAIN bs[i] |-> TxPair(k, bs[i][j], info[k])]] \in Seq(Seq(S))
  BY <1>3, <1>4
<1> QED
  BY <1>2, <1>5

(* Files written over those of an earlier run, some or all.                *)
LEMMA GenerateIn ==
  ASSUME NEW k \in Configs, NEW others, NEW limit \in Limits, NEW S,
         info[k] # NoFile => \A n \in Names : TxPair(k, n, info[k]) \in S,
         dir \in [Configs -> Seq(Seq(S))],
         Generate(k, others, limit)
  PROVE  dir' \in [Configs -> Seq(Seq(S))]
<1> DEFINE new == Files(k, others, limit)
           old == dir[k]
<1>1. new \in Seq(Seq(S)) /\ old \in Seq(Seq(S))
  <2>1. limit \in Nat
    BY ConstantsAssumption
  <2>2. info[k] # NoFile
    BY DEF Generate
  <2> QED
    BY <2>1, <2>2, FilesIn
<1>2. PICK w \in 0..Len(new) :
        dir' = [dir EXCEPT ![k] = SubSeq(new, 1, w) \o SubSeq(old, w + 1, Len(old))]
  BY DEF Generate
<1> HIDE DEF new, old
<1>3. SubSeq(new, 1, w) \o SubSeq(old, w + 1, Len(old)) \in Seq(Seq(S))
  <2> DEFINE T == Seq(S)
  <2>1. new \in Seq(T) /\ old \in Seq(T) /\ Len(new) \in Nat /\ Len(old) \in Nat /\ w \in 0..Len(new)
    BY <1>1
  <2> HIDE DEF T
  <2>2. SubSeq(new, 1, w) \in Seq(T)
    <3>1. \A i \in 1..w : new[i] \in T
      BY <2>1
    <3> QED
      BY <2>1, <3>1
  <2>3. SubSeq(old, w + 1, Len(old)) \in Seq(T)
    <3>1. \A i \in (w + 1)..Len(old) : old[i] \in T
      BY <2>1
    <3> QED
      BY <2>1, <3>1
  <2>4. SubSeq(new, 1, w) \o SubSeq(old, w + 1, Len(old)) \in Seq(T)
    BY <2>2, <2>3
  <2> QED
    BY <2>4 DEF T
<1> QED
  BY <1>2, <1>3

LEMMA MergeIn ==
  ASSUME NEW S, dir \in [Configs -> Seq(Seq(S))],
         NEW k \in Configs, NEW j \in Configs, dir[k] # <<>>, dir[j] # <<>>,
         Merge(k, Len(dir[k]), j, 1)
  PROVE  combined' \in Seq(S)
<1>1. dir[k][Len(dir[k])] \in Seq(S) /\ dir[j][1] \in Seq(S)
  <2> DEFINE T == Seq(S)
             a == dir[k]
             b == dir[j]
  <2>1. a \in Seq(T) /\ b \in Seq(T) /\ a # <<>> /\ b # <<>>
    OBVIOUS
  <2> HIDE DEF T, a, b
  <2>2. a[Len(a)] \in T /\ b[1] \in T
    BY <2>1
  <2> QED
    BY <2>2 DEF T, a, b
<1>2. combined' = dir[k][Len(dir[k])] \o dir[j][1]
  BY DEF Merge
<1> QED
  BY <1>1, <1>2

-----------------------------------------------------------------------------
(* Types                                                                   *)

(* What any transaction of a batch file looks like.                        *)
AnyTx ==
    UNION {[name : {n}, at : Addresses,
            initcode : [code : {Code(k, n) : k \in Configs}, refs : [Refs[n] -> Addresses]]] :
               n \in Names}

TypeInv ==
    /\ config \in [Configs -> Config]
    /\ info \in [Configs -> Config \cup {NoFile}]
    /\ dir \in [Configs -> Seq(Seq(AnyTx))]
    /\ combined = NoFile \/ combined \in Seq(AnyTx)
    /\ DOMAIN deployed = Addresses
    /\ careful \in BOOLEAN /\ current \in BOOLEAN
    /\ commands \in 0..MaxCommands

LEMMA TypesOf == TypeInv => TypeOK
<1> SUFFICES ASSUME TypeInv PROVE TypeOK
  OBVIOUS
<1>1. ASSUME NEW txs \in Seq(AnyTx) PROVE IsBatch(txs)
  <2> SUFFICES ASSUME NEW i \in DOMAIN txs
               PROVE  /\ txs[i].name \in Names /\ txs[i].at \in Addresses
                      /\ txs[i].initcode.refs \in [Refs[txs[i].name] -> Addresses]
    BY DEF IsBatch
  <2> DEFINE tx == txs[i]
  <2>1. tx \in AnyTx
    OBVIOUS
  <2> HIDE DEF tx
  <2>2. PICK n \in Names :
          tx \in [name : {n}, at : Addresses,
                  initcode : [code : {Code(k, n) : k \in Configs}, refs : [Refs[n] -> Addresses]]]
    BY <2>1 DEF AnyTx
  <2>3. tx.name = n /\ tx.at \in Addresses /\ tx.initcode.refs \in [Refs[n] -> Addresses]
    BY <2>2
  <2> QED
    BY <2>3 DEF tx
<1>2. ASSUME NEW k \in Configs PROVE \A i \in DOMAIN dir[k] : IsBatch(dir[k][i])
  <2> TAKE i \in DOMAIN dir[k]
  <2> DEFINE T == Seq(AnyTx)
             d == dir[k]
  <2>1. d \in Seq(T) /\ i \in DOMAIN d
    BY DEF TypeInv
  <2> HIDE DEF T, d
  <2>2. d[i] \in T
    BY <2>1
  <2>3. dir[k][i] \in Seq(AnyTx)
    BY <2>2 DEF T, d
  <2> QED
    BY <1>1, <2>3
<1>3. combined = NoFile \/ IsBatch(combined)
  BY <1>1 DEF TypeInv
<1> QED
  BY <1>2, <1>3 DEF TypeInv, TypeOK

LEMMA TypesFirst == Init => TypeInv
<1> SUFFICES ASSUME Init PROVE TypeInv
  OBVIOUS
<1>1. config \in [Configs -> Config]
  BY CommittedAssumption DEF Init
<1>2. <<>> \in Seq(Seq(AnyTx))
  OBVIOUS
<1>3. 0 \in 0..MaxCommands
  BY ConstantsAssumption
<1> QED
  BY <1>1, <1>2, <1>3 DEF Init, TypeInv

LEMMA TxIsAny ==
  ASSUME NEW k \in Configs, NEW c \in Config, NEW n \in Names
  PROVE  TxPair(k, n, c) \in AnyTx
<1>1. Refs[n] \subseteq Names
  BY ConstantsAssumption
<1>2. \A m \in Names : c[m].address \in Addresses /\ c[m].at \in Addresses
  BY DEF Config
<1>3. [r \in Refs[n] |-> c[r].address] \in [Refs[n] -> Addresses] /\ c[n].at \in Addresses
  BY <1>1, <1>2
<1>4. TxPair(k, n, c) = [name |-> n, at |-> c[n].at,
                      initcode |-> [code |-> Code(k, n), refs |-> [r \in Refs[n] |-> c[r].address]]]
  BY DEF TxPair, Initcode
<1>5. TxPair(k, n, c) \in [name : {n}, at : Addresses,
            initcode : [code : {Code(l, n) : l \in Configs}, refs : [Refs[n] -> Addresses]]]
  BY <1>3, <1>4
<1> QED
  BY <1>5 DEF AnyTx

LEMMA SelectionsAre ==
  ASSUME NEW cs \in {ConfigOrder} \cup {<<k>> : k \in Configs}
  PROVE  cs \in Seq(Configs)
<1>1. CASE cs = ConfigOrder
  BY <1>1, SequencesAre
<1>2. CASE cs # ConfigOrder
  <2>1. PICK k \in Configs : cs = <<k>>
    BY <1>2
  <2>2. <<k>> \in Seq(Configs)
    OBVIOUS
  <2> QED
    BY <2>1, <2>2
<1> QED
  BY <1>1, <1>2

LEMMA TypesStay == TypeInv /\ [Next]_vars => TypeInv'
<1> SUFFICES ASSUME TypeInv, [Next]_vars PROVE TypeInv'
  OBVIOUS
<1>1. CASE Reselect
  <2>0. PICK cs \in {ConfigOrder} \cup {<<k>> : k \in Configs}, mode \in {"shared", "disjoint"} :
          \E excluded \in SUBSET (Configs \ Range(cs)), written \in 1..Len(cs) :
            Select(cs, mode, Live, excluded, written)
    BY <1>1 DEF Reselect
  <2>1. PICK excluded, written : Select(cs, mode, Live, excluded, written)
    BY <2>0
  <2>2. cs \in Seq(Configs)
    BY SelectionsAre
  <2>3. config' \in [Configs -> Config]
    BY <2>1, <2>2, SelectIn DEF TypeInv
  <2>4. /\ UNCHANGED <<info, dir, combined, deployed>>
        /\ careful' \in BOOLEAN /\ current' \in BOOLEAN
        /\ commands + 2 <= MaxCommands /\ commands' = commands + 2
    BY <2>1 DEF Select
  <2>5. commands' \in 0..MaxCommands
    BY <2>4, ConstantsAssumption DEF TypeInv
  <2> QED
    BY <2>3, <2>4, <2>5 DEF TypeInv
<1>2. CASE EditByHand
  <2>1. PICK k \in Configs, j \in Configs, n \in Names : Edit(k, n, j)
    BY <1>2 DEF EditByHand
  <2>2. /\ config' = [config EXCEPT ![k][n].address = config[j][n].address]
        /\ UNCHANGED <<info, dir, combined, deployed>>
        /\ careful' = FALSE /\ current' = current
        /\ commands + 2 <= MaxCommands /\ commands' = commands + 2
    BY <2>1 DEF Edit
  <2>3. config' \in [Configs -> Config]
    <3> DEFINE c == [config EXCEPT ![k][n].address = config[j][n].address]
    <3>1. config[j][n].address \in Slots(n)
      BY ConfigIs DEF TypeInv
    <3>2. /\ config = [l \in Configs |-> [m \in Names |-> config[l][m]]]
          /\ \A l \in Configs, m \in Names : config[l][m] \in [address : Slots(m), at : Slots(m)]
      BY ConfigIs DEF TypeInv
    <3>3. c = [l \in Configs |-> [m \in Names |-> c[l][m]]]
      BY <3>2
    <3>4. \A l \in Configs, m \in Names : c[l][m] \in [address : Slots(m), at : Slots(m)]
      BY <3>1, <3>2
    <3> HIDE DEF c
    <3>5. c \in [Configs -> Config]
      BY <3>3, <3>4, ConfigIs
    <3> QED
      BY <2>2, <3>5 DEF c
  <2>4. commands' \in 0..MaxCommands
    BY <2>2, ConstantsAssumption DEF TypeInv
  <2> QED
    BY <2>2, <2>3, <2>4 DEF TypeInv
<1>3. CASE \E k \in Configs : Build(k)
  <2>1. PICK k \in Configs : Build(k)
    BY <1>3
  <2>2. config[k] \in Config
    BY DEF TypeInv
  <2>3. info' \in [Configs -> Config \cup {NoFile}]
    BY <2>1, <2>2 DEF Build, TypeInv
  <2>4. commands' \in 0..MaxCommands
    BY <2>1, ConstantsAssumption DEF Build, TypeInv
  <2> QED
    BY <2>1, <2>3, <2>4 DEF Build, TypeInv
<1>4. CASE GenerateBatches
  <2>0. PICK k \in Configs, limit \in Limits :
          \E others \in {{}} \cup {{j} : j \in Configs \ {k}} : Generate(k, others, limit)
    BY <1>4 DEF GenerateBatches
  <2>1. PICK others \in {{}} \cup {{j} : j \in Configs \ {k}} : Generate(k, others, limit)
    BY <2>0
  <2>2. info[k] # NoFile => \A n \in Names : TxPair(k, n, info[k]) \in AnyTx
    BY TxIsAny DEF TypeInv
  <2>3. dir' \in [Configs -> Seq(Seq(AnyTx))]
    BY <2>1, <2>2, GenerateIn DEF TypeInv
  <2> QED
    BY <2>1, <2>3 DEF Generate, TypeInv, history
<1>5. CASE MergeFiles
  <2>0. ConfigOrder # <<>> => Last(ConfigOrder) \in Configs
    <3>1. ConfigOrder \in Seq(Configs)
      BY SequencesAre
    <3> QED
      BY <3>1 DEF Last
  <2>1. PICK j \in Configs :
          /\ dir[Last(ConfigOrder)] # <<>> /\ dir[j] # <<>>
          /\ Merge(Last(ConfigOrder), Len(dir[Last(ConfigOrder)]), j, 1)
    BY <1>5 DEF MergeFiles
  <2>2. ConfigOrder # <<>>
    BY SequencesAre DEF Configs, Range
  <2>3. combined' \in Seq(AnyTx)
    BY <2>0, <2>1, <2>2, MergeIn DEF TypeInv
  <2> QED
    BY <2>1, <2>3 DEF Merge, TypeInv, history
<1>6. CASE ExecuteFiles \/ ExecuteCombined
  <2>1. PICK batch : Execute(batch)
    BY <1>6 DEF ExecuteFiles, ExecuteFile, ExecuteCombined
  <2> QED
    BY <2>1 DEF Execute, TypeInv
<1>7. CASE UNCHANGED vars
  BY <1>7 DEF vars, history, TypeInv
<1> QED
  BY <1>1, <1>2, <1>3, <1>4, <1>5, <1>6, <1>7 DEF Next

-----------------------------------------------------------------------------
(* Slots                                                                   *)

(* An address cannot part from its triple while selections are careful.    *)
SoundInv == TypeInv /\ (careful => Sound(config))

LEMMA SoundFirst == Init => SoundInv
BY TypesFirst, CommittedAssumption DEF Init, SoundInv, Sound

LEMMA SoundStays == SoundInv /\ [Next]_vars => SoundInv'
<1> SUFFICES ASSUME SoundInv, [Next]_vars PROVE SoundInv'
  OBVIOUS
<1>1. TypeInv'
  BY TypesStay DEF SoundInv
<1>2. CASE Reselect
  <2>0. PICK cs \in {ConfigOrder} \cup {<<k>> : k \in Configs}, mode \in {"shared", "disjoint"} :
          \E excluded \in SUBSET (Configs \ Range(cs)), written \in 1..Len(cs) :
            Select(cs, mode, Live, excluded, written)
    BY <1>2 DEF Reselect
  <2>1. PICK excluded, written : Select(cs, mode, Live, excluded, written)
    BY <2>0
  <2>2. cs \in Seq(Configs)
    BY SelectionsAre
  <2> DEFINE saved == Range(SubSeq(cs, 1, written))
             new == config'
  <2>3. careful' = (/\ saved = Range(cs) /\ saved \cup excluded = Configs
                    /\ Live = {} /\ (careful \/ saved = Configs))
    BY <2>1 DEF Select
  <2>4. ASSUME careful' PROVE Sound(new)
    <3>1. /\ saved = Range(cs) /\ saved \cup excluded = Configs
          /\ Live = {} /\ (careful \/ saved = Configs)
      BY <2>3, <2>4
    <3>2. config \in [Configs -> Config] /\ Configs \ Range(cs) \subseteq excluded
      BY <3>1 DEF SoundInv, TypeInv
    <3>3. Selected(config', config, cs, mode)
      BY <2>1, <2>2, <3>1, <3>2, SelectIs
    <3>4. Sound(config) \/ Range(cs) = Configs
      BY <3>1 DEF SoundInv
    <3> HIDE DEF saved
    <3>5. Selected(new, config, cs, mode)
      BY <3>3
    <3> HIDE DEF new
    <3> QED
      BY <2>2, <3>4, <3>5, SelectedSound
  <2>5. careful' => Sound(config)'
    BY <2>4 DEF Sound, SlotsApart, CommonTogether
  <2> QED
    BY <1>1, <2>5 DEF SoundInv
<1>3. CASE EditByHand
  <2>1. careful' = FALSE
    BY <1>3 DEF EditByHand, Edit
  <2> QED
    BY <1>1, <2>1 DEF SoundInv
<1>4. ASSUME UNCHANGED <<config, careful>> PROVE SoundInv'
  BY <1>1, <1>4 DEF SoundInv, Sound, SlotsApart, CommonTogether
<1>5. CASE (\E k \in Configs : Build(k)) \/ GenerateBatches \/ MergeFiles
  BY <1>4, <1>5 DEF Build, GenerateBatches, Generate, MergeFiles, Merge, history
<1>6. CASE ExecuteFiles \/ ExecuteCombined
  BY <1>4, <1>6 DEF ExecuteFiles, ExecuteFile, ExecuteCombined, Execute
<1>7. CASE UNCHANGED vars
  BY <1>4, <1>7 DEF vars, history
<1> QED
  BY <1>2, <1>3, <1>5, <1>6, <1>7 DEF Next

-----------------------------------------------------------------------------
(* Wiring                                                                  *)

(* Whatever was executed of the configs as they are, in which order, code  *)
(* is where one of them now says.                                          *)
DeployedCurrent ==
    \A a \in Live : \E k \in Configs, n \in Names :
        config[k][n].at = a /\ deployed[a] = Initcode(k, n, config[k])

WiringInv == TypeInv /\ (current => DeployedCurrent)

LEMMA WiringFirst == Init => WiringInv
BY TypesFirst DEF Init, WiringInv, DeployedCurrent, Live

LEMMA WiringStays == WiringInv /\ [Next]_vars => WiringInv'
<1> SUFFICES ASSUME WiringInv, [Next]_vars PROVE WiringInv'
  OBVIOUS
<1>1. TypeInv'
  BY TypesStay DEF WiringInv
<1>2. ASSUME Live = {}, UNCHANGED deployed PROVE WiringInv'
  BY <1>1, <1>2 DEF WiringInv, DeployedCurrent, Live
<1>3. CASE Reselect
  <2>1. UNCHANGED deployed /\ current' = (current /\ Live = {})
    BY <1>3 DEF Reselect, Select
  <2> QED
    BY <1>1, <1>2, <2>1 DEF WiringInv
<1>4. CASE EditByHand
  BY <1>2, <1>4 DEF EditByHand, Edit
<1>5. ASSUME UNCHANGED <<config, deployed, current>> PROVE WiringInv'
  <2>1. DeployedCurrent' <=> DeployedCurrent
    BY <1>5 DEF DeployedCurrent, Live, Initcode
  <2> QED
    BY <1>1, <1>5, <2>1 DEF WiringInv
<1>6. CASE (\E k \in Configs : Build(k)) \/ GenerateBatches \/ MergeFiles
  BY <1>5, <1>6 DEF Build, GenerateBatches, Generate, MergeFiles, Merge, history
<1>7. CASE ExecuteFiles \/ ExecuteCombined
  <2>1. PICK batch : Execute(batch)
    BY <1>7 DEF ExecuteFiles, ExecuteFile, ExecuteCombined
  <2>2. config' = config /\ current' = (current /\ IsCurrent(batch))
    BY <2>1 DEF Execute
  <2>3. ASSUME NEW a \in Addresses
        PROVE  deployed'[a] = IF \E i \in DOMAIN batch : batch[i].at = a
                                THEN (CHOOSE tx \in Range(batch) : tx.at = a).initcode
                                ELSE deployed[a]
    BY <2>1 DEF Execute
  <2>4. ASSUME current' PROVE DeployedCurrent'
    <3> SUFFICES ASSUME NEW a \in Addresses, deployed'[a] # NoCode
                 PROVE  \E k \in Configs, n \in Names :
                          config[k][n].at = a /\ deployed'[a] = Initcode(k, n, config[k])
      <4>1. \A k, n : Initcode(k, n, config[k])' = Initcode(k, n, config[k])
        BY <2>2 DEF Initcode
      <4> QED
        BY <2>2, <4>1, Zenon DEF DeployedCurrent, Live
    <3>1. current /\ IsCurrent(batch)
      BY <2>2, <2>4
    <3>2. CASE \E i \in DOMAIN batch : batch[i].at = a
      <4> DEFINE t == CHOOSE tx \in Range(batch) : tx.at = a
      <4>1. t \in Range(batch) /\ t.at = a
        BY <3>2 DEF Range
      <4>2. deployed'[a] = t.initcode
        BY <2>3, <3>2
      <4> HIDE DEF t
      <4>3. PICK k \in Configs, n \in Names : t = TxPair(k, n, config[k])
        BY <3>1, <4>1 DEF IsCurrent
      <4>4. t.at = config[k][n].at /\ t.initcode = Initcode(k, n, config[k])
        BY <4>3 DEF TxPair
      <4> QED
        BY <4>1, <4>2, <4>4
    <3>3. CASE ~ \E i \in DOMAIN batch : batch[i].at = a
      <4>1. deployed'[a] = deployed[a]
        BY <2>3, <3>3
      <4>2. a \in Live
        BY <4>1 DEF Live
      <4> QED
        BY <3>1, <4>1, <4>2 DEF WiringInv, DeployedCurrent
    <3> QED
      BY <3>2, <3>3
  <2> QED
    BY <1>1, <2>4 DEF WiringInv
<1>8. CASE UNCHANGED vars
  BY <1>5, <1>8 DEF vars, history
<1> QED
  BY <1>3, <1>4, <1>6, <1>7, <1>8 DEF Next

(* The code at an address is that of some slot; that slot is the same, or  *)
(* the same common contract of a config that shares all of them.           *)
LEMMA WiringVerifies == WiringInv => VerifiedMeansWired
<1> SUFFICES ASSUME WiringInv, current, SlotsApart(config), CommonTogether(config),
                    \A j \in Configs : VerifyPasses(j) /\ CodePresent(j),
                    NEW k \in Configs, NEW n \in Names
             PROVE  deployed[config[k][n].address] = Initcode(k, n, config[k])
  BY DEF VerifiedMeansWired
<1>1. \A j \in Configs, m \in Names :
         /\ config[j][m].address = config[j][m].at /\ deployed[config[j][m].address] # NoCode
         /\ config[j][m].address \in Addresses
  <2> TAKE j \in Configs, m \in Names
  <2>1. info[j][m] = config[j][m]
    BY DEF VerifyPasses, ConfigMatches
  <2>2. config[j][m].address \in Addresses
    BY ConfigIs, SlotsAre DEF WiringInv, TypeInv
  <2> QED
    BY <2>1, <2>2 DEF VerifyPasses, DerivationMatches, CodePresent
<1>2. PICK j \in Configs, m \in Names :
         /\ config[j][m].at = config[k][n].address
         /\ deployed[config[k][n].address] = Initcode(j, m, config[j])
  BY <1>1 DEF WiringInv, DeployedCurrent, Live
<1>3. n = m /\ (k = j \/ n \in Common)
  BY <1>1, <1>2 DEF SlotsApart
<1>4. CASE k = j
  BY <1>2, <1>3, <1>4
<1>5. CASE n \in Common
  <2>1. Refs[n] \subseteq Common /\ Common \subseteq Names
    BY <1>5, ConstantsAssumption
  <2>2. config[k][n].at = config[j][n].at
    BY <1>1, <1>2, <1>3
  <2>3. \A r \in Refs[n] : config[k][r].at = config[j][r].at
    BY <1>5, <2>1, <2>2 DEF CommonTogether
  <2>4. \A r \in Refs[n] : config[k][r].address = config[j][r].address
    BY <1>1, <2>1, <2>3
  <2>5. Initcode(j, n, config[j]) = Initcode(k, n, config[k])
    BY <1>5, <2>4 DEF Initcode, Code
  <2> QED
    BY <1>2, <1>3, <2>5
<1> QED
  BY <1>3, <1>4, <1>5

-----------------------------------------------------------------------------
(* Theorems                                                                *)

(* Every file of every command is a config, a deployment-info, or a list   *)
(* of transactions that have a contract, a slot and an address for each    *)
(* contract they refer to.                                                 *)
THEOREM TypesHold == Spec => []TypeOK
<1>1. Init => TypeInv
  BY TypesFirst
<1>2. TypeInv /\ [Next]_vars => TypeInv'
  BY TypesStay
<1>3. TypeInv => TypeOK
  BY TypesOf
<1> QED
  BY <1>1, <1>2, <1>3, PTL DEF Spec

(* gen_safetx: for any gas estimates and limit, the batches of one config  *)
(* hold what the other does not, each contract once and in order, and no   *)
(* batch of several exceeds the limit.                                     *)
THEOREM BatchesAlwaysCover == Spec => []BatchesCover
<1>1. BatchesCover
  BY AlwaysCovered
<1> QED
  BY <1>1, PTL

(* select_vanity_addresses: after any selections that run to their end and *)
(* exclude every config they do not cover, or one of all configs after     *)
(* whatever else, two slots have one triple only when they are one common  *)
(* contract, and configs share all of these or none.                       *)
THEOREM SlotsStayApart == Spec => []DistinctSlots
<1>1. Init => SoundInv
  BY SoundFirst
<1>2. SoundInv /\ [Next]_vars => SoundInv'
  BY SoundStays
<1>3. SoundInv => DistinctSlots
  BY DEF SoundInv, Sound, DistinctSlots
<1> QED
  BY <1>1, <1>2, <1>3, PTL DEF Spec

(* verify_deployment: configs with slots apart that verify without failure *)
(* and warning have every contract at its address, with the addresses of   *)
(* the contracts it refers to, if only batches of these configs were       *)
(* executed: whatever else was built, written half, left behind, merged or *)
(* edited before.                                                          *)
THEOREM WhatVerifiesIsWired == Spec => []VerifiedMeansWired
<1>1. Init => WiringInv
  BY WiringFirst
<1>2. WiringInv /\ [Next]_vars => WiringInv'
  BY WiringStays
<1>3. WiringInv => VerifiedMeansWired
  BY WiringVerifies
<1> QED
  BY <1>1, <1>2, <1>3, PTL DEF Spec

=============================================================================
