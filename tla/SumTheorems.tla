---------------------------- MODULE SumTheorems ----------------------------
(***************************************************************************)
(* Facts about SumFunctionOnSet and SumFunction over finite sets, which    *)
(* the totals of the collateral vault and of the chunks are written with.  *)
(* The sum is defined by a recursive function on the subsets of a set that *)
(* picks one element at a time; the facts say what does not depend on the  *)
(* element picked.  Each is proved by taking a smallest counterexample:    *)
(* the library's induction theorems take an operator as a parameter, which *)
(* no prover here can instantiate, and well-foundedness needs none.        *)
(***************************************************************************)
EXTENDS Integers, FiniteSets, Functions, FiniteSetTheorems, WellFoundedInduction, TLAPS

-----------------------------------------------------------------------------
(* Induction over the subsets of a finite set.                             *)

\* A set of subsets of a finite set has a member none of whose strict
\* subsets is a member.
LEMMA SmallestSubset ==
  ASSUME NEW S, IsFiniteSet(S), NEW Bad, Bad \subseteq SUBSET S, Bad # {}
  PROVE  \E T \in Bad : /\ T \subseteq S /\ IsFiniteSet(T)
                        /\ \A U \in SUBSET T : U # T => U \notin Bad
<1>1. IsWellFoundedOn(StrictSubsetOrdering(S), FiniteSubsetsOf(S))
  BY FS_StrictSubsetOrderingWellFounded
<1>2. FiniteSubsetsOf(S) = SUBSET S
  BY FS_FiniteSubsetsOfFinite
<1>3. PICK T \in Bad : \A U \in Bad : ~ (<<U, T>> \in StrictSubsetOrdering(S))
  <2>1. IsWellFoundedOn(StrictSubsetOrdering(S), SUBSET S)
    BY <1>1, <1>2
  <2> QED BY <2>1, WFMin
<1>4. T \subseteq S /\ IsFiniteSet(T)
  BY <1>3, FS_Subset
<1>5. ASSUME NEW U \in SUBSET T, U # T PROVE U \notin Bad
  BY <1>3, <1>4, <1>5 DEF StrictSubsetOrdering
<1> QED BY <1>4, <1>5

-----------------------------------------------------------------------------
(* The recursive function behind the sum.                                  *)

Picked(s) == CHOOSE x \in s : TRUE

IsTable(g, f, S) ==
    g = [s \in SUBSET S |->
           IF s = {} THEN 0 ELSE f[Picked(s)] + g[s \ {Picked(s)}]]

Table(f, S) == CHOOSE g : IsTable(g, f, S)

\* The library's definition, one fold at a time.
LEMMA SumIsTable ==
  ASSUME NEW f, NEW S
  PROVE  SumFunctionOnSet(f, S) = Table(f, S)[S]
BY DEF SumFunctionOnSet, FoldFunctionOnSet, MapThenFoldSet, Table, IsTable, Picked

LEMMA PickedIn ==
  ASSUME NEW s, s # {} PROVE Picked(s) \in s
BY DEF Picked

LEMMA TableAt ==
  ASSUME NEW f, NEW S, NEW g, IsTable(g, f, S), NEW s \in SUBSET S
  PROVE  g[s] = IF s = {} THEN 0 ELSE f[Picked(s)] + g[s \ {Picked(s)}]
BY DEF IsTable

\* Two tables agree where both are defined.
LEMMA TablesAgree ==
  ASSUME NEW f, NEW S, NEW R, IsFiniteSet(S),
         NEW g, IsTable(g, f, S), NEW h, IsTable(h, f, R),
         NEW T, T \subseteq S, T \subseteq R
  PROVE  g[T] = h[T]
<1> DEFINE Bad == {s \in SUBSET T : g[s] # h[s]}
<1> SUFFICES ASSUME Bad # {} PROVE FALSE
  OBVIOUS
<1>0. IsFiniteSet(T)
  BY FS_Subset
<1>1. PICK s \in Bad : s \subseteq T /\ \A U \in SUBSET s : U # s => U \notin Bad
  <2>1. Bad \subseteq SUBSET T
    OBVIOUS
  <2> HIDE DEF Bad
  <2> QED BY <1>0, <2>1, SmallestSubset
<1>2. CASE s = {}
  BY <1>1, <1>2, TableAt
<1>3. CASE s # {}
  <2>1. Picked(s) \in s
    BY <1>3, PickedIn
  <2>2. s \ {Picked(s)} \notin Bad /\ s \ {Picked(s)} \in SUBSET T
    BY <1>1, <2>1
  <2>3. g[s \ {Picked(s)}] = h[s \ {Picked(s)}]
    BY <2>2
  <2>4. /\ g[s] = f[Picked(s)] + g[s \ {Picked(s)}]
        /\ h[s] = f[Picked(s)] + h[s \ {Picked(s)}]
    <3>1. s \in SUBSET S /\ s \in SUBSET R
      BY <1>1
    <3> QED BY <1>3, <3>1, TableAt
  <2> QED BY <1>1, <2>3, <2>4
<1> QED BY <1>2, <1>3

\* A finite set has a table: one is built from those of its strict subsets.
LEMMA TableExists ==
  ASSUME NEW f, NEW S, IsFiniteSet(S)
  PROVE  IsTable(Table(f, S), f, S)
<1> DEFINE Bad == {T \in SUBSET S : ~ IsTable(Table(f, T), f, T)}
<1> SUFFICES ASSUME Bad # {} PROVE FALSE
  OBVIOUS
<1>1. PICK T \in Bad : /\ T \subseteq S /\ IsFiniteSet(T)
                       /\ \A U \in SUBSET T : U # T => U \notin Bad
  <2>1. Bad \subseteq SUBSET S
    OBVIOUS
  <2> HIDE DEF Bad
  <2> QED BY <2>1, SmallestSubset
<1> DEFINE At(s) == Table(f, s)[s]
           g == [s \in SUBSET T |->
                   IF s = {} THEN 0 ELSE f[Picked(s)] + At(s \ {Picked(s)})]
<1>2. ASSUME NEW t \in SUBSET T, t # T
      PROVE  IsTable(Table(f, t), f, t) /\ IsFiniteSet(t)
  BY <1>1, <1>2, FS_Subset
<1>3. ASSUME NEW t \in SUBSET T, t # T
      PROVE  At(t) = IF t = {} THEN 0 ELSE f[Picked(t)] + At(t \ {Picked(t)})
  <2>1. IsTable(Table(f, t), f, t) /\ IsFiniteSet(t)
    BY <1>2, <1>3
  <2>2. Table(f, t)[t] = IF t = {} THEN 0
                         ELSE f[Picked(t)] + Table(f, t)[t \ {Picked(t)}]
    BY <2>1, TableAt
  <2>3. CASE t # {}
    <3> DEFINE r == t \ {Picked(t)}
    <3>1. r \in SUBSET T /\ r # T /\ r \subseteq t
      BY <2>3, PickedIn
    <3>2. IsTable(Table(f, r), f, r)
      BY <1>2, <3>1
    <3>3. Table(f, t)[r] = Table(f, r)[r]
      <4> HIDE DEF r
      <4> QED BY <2>1, <3>1, <3>2, TablesAgree
    <3> QED BY <2>2, <2>3, <3>3
  <2> QED BY <2>2, <2>3
<1>4. ASSUME NEW s \in SUBSET T, s # {}
      PROVE  At(s \ {Picked(s)}) = g[s \ {Picked(s)}]
  <2> DEFINE t == s \ {Picked(s)}
  <2>1. t \in SUBSET T /\ t # T
    BY <1>4, PickedIn
  <2>2. g[t] = IF t = {} THEN 0 ELSE f[Picked(t)] + At(t \ {Picked(t)})
    BY <2>1
  <2> HIDE DEF t, At, g
  <2>3. At(t) = g[t]
    BY <1>3, <2>1, <2>2
  <2> QED BY <2>3 DEF t
<1>5. IsTable(g, f, T)
  <2> HIDE DEF At
  <2>1. g = [s \in SUBSET T |->
               IF s = {} THEN 0 ELSE f[Picked(s)] + g[s \ {Picked(s)}]]
    BY <1>4
  <2> QED BY <2>1 DEF IsTable
<1>6. IsTable(Table(f, T), f, T)
  <2> HIDE DEF g
  <2> QED BY <1>5 DEF Table
<1> QED BY <1>1, <1>6

-----------------------------------------------------------------------------
(* The sum over a set, one element at a time.                              *)

LEMMA SumEmpty ==
  ASSUME NEW f PROVE SumFunctionOnSet(f, {}) = 0
<1>1. IsTable(Table(f, {}), f, {})
  BY FS_EmptySet, TableExists
<1> QED BY <1>1, TableAt, SumIsTable

LEMMA SumPicked ==
  ASSUME NEW f, NEW S, IsFiniteSet(S), S # {}
  PROVE  SumFunctionOnSet(f, S)
           = f[Picked(S)] + SumFunctionOnSet(f, S \ {Picked(S)})
<1> DEFINE r == S \ {Picked(S)}
<1>1. r \subseteq S /\ IsFiniteSet(r)
  BY FS_Subset
<1>2. IsTable(Table(f, S), f, S) /\ IsTable(Table(f, r), f, r)
  BY <1>1, TableExists
<1>3. Table(f, S)[S] = f[Picked(S)] + Table(f, S)[r]
  BY <1>2, TableAt
<1>4. Table(f, S)[r] = Table(f, r)[r]
  <2> HIDE DEF r
  <2> QED BY <1>1, <1>2, TablesAgree
<1> QED BY <1>3, <1>4, SumIsTable

\* The type of a sum.
LEMMA SumInt ==
  ASSUME NEW f, NEW S, IsFiniteSet(S), \A x \in S : f[x] \in Int
  PROVE  SumFunctionOnSet(f, S) \in Int
<1> DEFINE Bad == {T \in SUBSET S : SumFunctionOnSet(f, T) \notin Int}
<1> SUFFICES ASSUME Bad # {} PROVE FALSE
  OBVIOUS
<1>1. PICK T \in Bad : /\ T \subseteq S /\ IsFiniteSet(T)
                       /\ \A U \in SUBSET T : U # T => U \notin Bad
  <2>1. Bad \subseteq SUBSET S
    OBVIOUS
  <2> HIDE DEF Bad
  <2> QED BY <2>1, SmallestSubset
<1>2. T # {}
  <2>1. SumFunctionOnSet(f, {}) \in Int
    BY SumEmpty
  <2> QED BY <1>1, <2>1
<1>3. Picked(T) \in T
  BY <1>2, PickedIn
<1>4. SumFunctionOnSet(f, T \ {Picked(T)}) \in Int
  BY <1>1, <1>3
<1>5. f[Picked(T)] \in Int
  BY <1>1, <1>3
<1>6. SumFunctionOnSet(f, T) = f[Picked(T)] + SumFunctionOnSet(f, T \ {Picked(T)})
  BY <1>1, <1>2, SumPicked
<1>7. SumFunctionOnSet(f, T) \in Int
  BY <1>4, <1>5, <1>6
<1> QED BY <1>1, <1>7

\* Any element can be taken out of a sum.
LEMMA SumRemove ==
  ASSUME NEW f, NEW S, IsFiniteSet(S), \A x \in S : f[x] \in Int, NEW y \in S
  PROVE  SumFunctionOnSet(f, S) = f[y] + SumFunctionOnSet(f, S \ {y})
<1> DEFINE Off(T) == \E x \in T : SumFunctionOnSet(f, T)
                                    # f[x] + SumFunctionOnSet(f, T \ {x})
           Bad == {T \in SUBSET S : Off(T)}
<1> SUFFICES ASSUME Bad # {} PROVE FALSE
  OBVIOUS
<1>1. PICK T \in Bad : /\ T \subseteq S /\ IsFiniteSet(T)
                       /\ \A U \in SUBSET T : U # T => U \notin Bad
  <2>1. Bad \subseteq SUBSET S
    OBVIOUS
  <2> HIDE DEF Bad
  <2> QED BY <2>1, SmallestSubset
<1>2. PICK x \in T : SumFunctionOnSet(f, T) # f[x] + SumFunctionOnSet(f, T \ {x})
  BY <1>1
<1> DEFINE p == Picked(T)
           rest == T \ {p, x}
<1>3. p \in T
  BY <1>2, PickedIn
<1>4. SumFunctionOnSet(f, T) = f[p] + SumFunctionOnSet(f, T \ {p})
  BY <1>1, <1>2, SumPicked
<1>5. p # x
  BY <1>2, <1>4
<1>6. ~ Off(T \ {p}) /\ ~ Off(T \ {x})
  <2> HIDE DEF Off, p
  <2> QED BY <1>1, <1>2, <1>3
<1>7. SumFunctionOnSet(f, T \ {p}) = f[x] + SumFunctionOnSet(f, rest)
  <2>1. x \in T \ {p} /\ (T \ {p}) \ {x} = rest
    BY <1>2, <1>5
  <2> HIDE DEF p, rest
  <2> QED BY <1>6, <2>1
<1>8. SumFunctionOnSet(f, T \ {x}) = f[p] + SumFunctionOnSet(f, rest)
  <2>1. p \in T \ {x} /\ (T \ {x}) \ {p} = rest
    BY <1>3, <1>5
  <2> HIDE DEF p, rest
  <2> QED BY <1>6, <2>1
<1>9. f[x] \in Int /\ f[p] \in Int /\ SumFunctionOnSet(f, rest) \in Int
  <2>1. rest \subseteq S /\ IsFiniteSet(rest)
    BY <1>1, FS_Subset
  <2> HIDE DEF rest, p
  <2> QED BY <1>1, <1>2, <1>3, <2>1, SumInt
<1> HIDE DEF p, rest
<1> QED BY <1>2, <1>4, <1>7, <1>8, <1>9

\* An element that is not in a set can be added to its sum.
LEMMA SumAdd ==
  ASSUME NEW f, NEW S, IsFiniteSet(S), NEW y, y \notin S,
         \A x \in S \cup {y} : f[x] \in Int
  PROVE  SumFunctionOnSet(f, S \cup {y}) = f[y] + SumFunctionOnSet(f, S)
<1> DEFINE T == S \cup {y}
<1>1. IsFiniteSet(T) /\ y \in T /\ T \ {y} = S
  BY FS_AddElement
<1>2. \A x \in T : f[x] \in Int
  OBVIOUS
<1> HIDE DEF T
<1>3. SumFunctionOnSet(f, T) = f[y] + SumFunctionOnSet(f, S)
  BY <1>1, <1>2, SumRemove
<1> QED BY <1>3 DEF T

\* Functions that are ordered on a set have ordered sums.
LEMMA SumOrdered ==
  ASSUME NEW f, NEW g, NEW S, IsFiniteSet(S),
         \A x \in S : f[x] \in Int /\ g[x] \in Int /\ f[x] <= g[x]
  PROVE  SumFunctionOnSet(f, S) <= SumFunctionOnSet(g, S)
<1> DEFINE Bad == {T \in SUBSET S :
                     ~ (SumFunctionOnSet(f, T) <= SumFunctionOnSet(g, T))}
<1> SUFFICES ASSUME Bad # {} PROVE FALSE
  OBVIOUS
<1>1. PICK T \in Bad : /\ T \subseteq S /\ IsFiniteSet(T)
                       /\ \A U \in SUBSET T : U # T => U \notin Bad
  <2>1. Bad \subseteq SUBSET S
    OBVIOUS
  <2> HIDE DEF Bad
  <2> QED BY <2>1, SmallestSubset
<1>2. T # {}
  <2>1. SumFunctionOnSet(f, {}) <= SumFunctionOnSet(g, {})
    BY SumEmpty
  <2> QED BY <1>1, <2>1
<1> DEFINE p == Picked(T)
           r == T \ {p}
<1>3. p \in T /\ r \in SUBSET T /\ r # T
  BY <1>2, PickedIn
<1>4. IsFiniteSet(r) /\ r \subseteq S
  BY <1>1, FS_Subset
<1>5. /\ SumFunctionOnSet(f, T) = f[p] + SumFunctionOnSet(f, r)
      /\ SumFunctionOnSet(g, T) = g[p] + SumFunctionOnSet(g, r)
  BY <1>1, <1>2, SumPicked
<1> HIDE DEF p, r
<1>6. SumFunctionOnSet(f, r) <= SumFunctionOnSet(g, r)
  BY <1>1, <1>3, <1>4
<1>7. /\ SumFunctionOnSet(f, r) \in Int /\ SumFunctionOnSet(g, r) \in Int
      /\ f[p] \in Int /\ g[p] \in Int /\ f[p] <= g[p]
  BY <1>1, <1>3, <1>4, SumInt
<1>8. SumFunctionOnSet(f, T) <= SumFunctionOnSet(g, T)
  BY <1>5, <1>6, <1>7
<1> QED BY <1>1, <1>8

\* Functions that agree on a set have the same sum.
LEMMA SumAgrees ==
  ASSUME NEW f, NEW g, NEW S, IsFiniteSet(S), \A x \in S : f[x] = g[x]
  PROVE  SumFunctionOnSet(f, S) = SumFunctionOnSet(g, S)
<1> DEFINE Bad == {T \in SUBSET S :
                     SumFunctionOnSet(f, T) # SumFunctionOnSet(g, T)}
<1> SUFFICES ASSUME Bad # {} PROVE FALSE
  OBVIOUS
<1>1. PICK T \in Bad : /\ T \subseteq S /\ IsFiniteSet(T)
                       /\ \A U \in SUBSET T : U # T => U \notin Bad
  <2>1. Bad \subseteq SUBSET S
    OBVIOUS
  <2> HIDE DEF Bad
  <2> QED BY <2>1, SmallestSubset
<1>2. T # {}
  BY <1>1, SumEmpty
<1>3. Picked(T) \in T
  BY <1>2, PickedIn
<1>4. SumFunctionOnSet(f, T \ {Picked(T)}) = SumFunctionOnSet(g, T \ {Picked(T)})
  BY <1>1, <1>3
<1>5. /\ SumFunctionOnSet(f, T) = f[Picked(T)] + SumFunctionOnSet(f, T \ {Picked(T)})
      /\ SumFunctionOnSet(g, T) = g[Picked(T)] + SumFunctionOnSet(g, T \ {Picked(T)})
  BY <1>1, <1>2, SumPicked
<1> QED BY <1>1, <1>3, <1>4, <1>5

-----------------------------------------------------------------------------
(* What the totals of a ledger need.                                       *)

\* A sum of zeros.
LEMMA SumZeros ==
  ASSUME NEW f, NEW S, IsFiniteSet(S), \A x \in S : f[x] = 0
  PROVE  SumFunctionOnSet(f, S) = 0
<1> DEFINE Bad == {T \in SUBSET S : SumFunctionOnSet(f, T) # 0}
<1> SUFFICES ASSUME Bad # {} PROVE FALSE
  OBVIOUS
<1>1. PICK T \in Bad : /\ T \subseteq S /\ IsFiniteSet(T)
                       /\ \A U \in SUBSET T : U # T => U \notin Bad
  <2>1. Bad \subseteq SUBSET S
    OBVIOUS
  <2> HIDE DEF Bad
  <2> QED BY <2>1, SmallestSubset
<1>2. T # {}
  BY <1>1, SumEmpty
<1>3. Picked(T) \in T
  BY <1>2, PickedIn
<1>4. SumFunctionOnSet(f, T \ {Picked(T)}) = 0 /\ f[Picked(T)] = 0
  BY <1>1, <1>3
<1>5. SumFunctionOnSet(f, T) = 0 + 0
  BY <1>1, <1>2, <1>4, SumPicked
<1> QED BY <1>1, <1>5

\* A sum of naturals is one.
LEMMA SumNat ==
  ASSUME NEW f, NEW S, IsFiniteSet(S), \A x \in S : f[x] \in Nat
  PROVE  SumFunctionOnSet(f, S) \in Nat
<1> DEFINE zero == [x \in S |-> 0]
<1>1. \A x \in S : zero[x] = 0
  OBVIOUS
<1>2. \A x \in S : zero[x] \in Int /\ f[x] \in Int /\ zero[x] <= f[x]
  OBVIOUS
<1> HIDE DEF zero
<1>3. SumFunctionOnSet(zero, S) = 0
  BY <1>1, SumZeros
<1>4. SumFunctionOnSet(zero, S) <= SumFunctionOnSet(f, S)
  BY <1>2, SumOrdered
<1>5. SumFunctionOnSet(f, S) \in Int
  BY SumInt
<1> QED BY <1>3, <1>4, <1>5

\* A natural is at most a sum it is part of.
LEMMA SumMember ==
  ASSUME NEW f, NEW S, IsFiniteSet(S), \A x \in S : f[x] \in Nat, NEW y \in S
  PROVE  f[y] <= SumFunctionOnSet(f, S)
<1>1. IsFiniteSet(S \ {y}) /\ \A x \in S \ {y} : f[x] \in Nat
  BY FS_Subset
<1>2. SumFunctionOnSet(f, S \ {y}) \in Nat
  BY <1>1, SumNat
<1>3. SumFunctionOnSet(f, S) = f[y] + SumFunctionOnSet(f, S \ {y})
  BY SumRemove
<1> QED BY <1>2, <1>3

\* Changing one value changes the sum by as much.
LEMMA SumChanged ==
  ASSUME NEW f, NEW g, NEW S, IsFiniteSet(S), NEW y \in S,
         \A x \in S : f[x] \in Int /\ g[x] \in Int,
         \A x \in S : x # y => g[x] = f[x]
  PROVE  SumFunctionOnSet(g, S) = SumFunctionOnSet(f, S) - f[y] + g[y]
<1>1. IsFiniteSet(S \ {y}) /\ \A x \in S \ {y} : f[x] = g[x]
  BY FS_Subset
<1>2. SumFunctionOnSet(f, S \ {y}) = SumFunctionOnSet(g, S \ {y})
  BY <1>1, SumAgrees
<1>3. SumFunctionOnSet(f, S \ {y}) \in Int
  BY <1>1, SumInt
<1>4. /\ SumFunctionOnSet(f, S) = f[y] + SumFunctionOnSet(f, S \ {y})
      /\ SumFunctionOnSet(g, S) = g[y] + SumFunctionOnSet(g, S \ {y})
  BY SumRemove
<1> QED BY <1>2, <1>3, <1>4

\* A factor can be taken out of a sum.
LEMMA SumScaled ==
  ASSUME NEW S, IsFiniteSet(S), NEW f, NEW g, NEW k \in Int,
         \A x \in S : f[x] \in Int /\ g[x] = k * f[x]
  PROVE  SumFunctionOnSet(g, S) = k * SumFunctionOnSet(f, S)
<1> DEFINE Bad == {T \in SUBSET S :
                     SumFunctionOnSet(g, T) # k * SumFunctionOnSet(f, T)}
<1> SUFFICES ASSUME Bad # {} PROVE FALSE
  OBVIOUS
<1>1. PICK T \in Bad : /\ T \subseteq S /\ IsFiniteSet(T)
                       /\ \A U \in SUBSET T : U # T => U \notin Bad
  <2>1. Bad \subseteq SUBSET S
    OBVIOUS
  <2> HIDE DEF Bad
  <2> QED BY <2>1, SmallestSubset
<1>2. T # {}
  <2>1. SumFunctionOnSet(f, {}) = 0 /\ SumFunctionOnSet(g, {}) = 0
    BY SumEmpty
  <2>2. k * 0 = 0 BY SMT
  <2> QED BY <1>1, <2>1, <2>2
<1> DEFINE p == Picked(T)
           r == T \ {p}
<1>3. p \in T /\ r \in SUBSET T /\ r # T
  BY <1>2, PickedIn
<1>4. IsFiniteSet(r) /\ r \subseteq S
  BY <1>1, FS_Subset
<1>5. /\ SumFunctionOnSet(f, T) = f[p] + SumFunctionOnSet(f, r)
      /\ SumFunctionOnSet(g, T) = g[p] + SumFunctionOnSet(g, r)
  BY <1>1, <1>2, SumPicked
<1>6. SumFunctionOnSet(g, r) = k * SumFunctionOnSet(f, r)
  BY <1>1, <1>3, <1>4
<1> HIDE DEF p, r
<1>7. f[p] \in Int /\ g[p] = k * f[p] /\ SumFunctionOnSet(f, r) \in Int
  BY <1>1, <1>3, <1>4, SumInt
<1>8. k * (f[p] + SumFunctionOnSet(f, r)) = k * f[p] + k * SumFunctionOnSet(f, r)
  BY <1>7, SMT
<1>9. SumFunctionOnSet(g, T) = k * SumFunctionOnSet(f, T)
  BY <1>5, <1>6, <1>7, <1>8
<1> QED BY <1>1, <1>9

\* The sum of a function over the whole of its domain.
LEMMA SumWhole ==
  ASSUME NEW S, NEW f, DOMAIN f = S
  PROVE  SumFunction(f) = SumFunctionOnSet(f, S)
BY DEF SumFunction

\* One entry of a ledger is changed by d.
LEMMA SumShifted ==
  ASSUME NEW S, IsFiniteSet(S), NEW f \in [S -> Int], NEW y \in S, NEW d \in Int
  PROVE  SumFunction([f EXCEPT ![y] = @ + d]) = SumFunction(f) + d
<1> DEFINE g == [f EXCEPT ![y] = @ + d]
<1>1. DOMAIN f = S /\ DOMAIN g = S
  OBVIOUS
<1>2. \A x \in S : f[x] \in Int /\ g[x] \in Int
  OBVIOUS
<1>3. (\A x \in S : x # y => g[x] = f[x]) /\ g[y] = f[y] + d
  OBVIOUS
<1> HIDE DEF g
<1>4. SumFunction(f) = SumFunctionOnSet(f, S) /\ SumFunction(g) = SumFunctionOnSet(g, S)
  BY <1>1, SumWhole
<1>5. SumFunctionOnSet(g, S) = SumFunctionOnSet(f, S) - f[y] + g[y]
  BY <1>2, <1>3, SumChanged
<1>6. SumFunctionOnSet(f, S) \in Int /\ f[y] \in Int
  BY <1>2, SumInt
<1>7. SumFunction(g) = SumFunction(f) + d
  BY <1>3, <1>4, <1>5, <1>6
<1> QED BY <1>7 DEF g
=============================================================================
