------------------------- MODULE OptimizeRuns_proofs -------------------------
(* Proofs about OptimizeRuns, for any contracts, groups and range, and for *)
(* any set of runs that may fit: the search assumes nothing of the         *)
(* compiler.                                                               *)
EXTENDS OptimizeRuns, WellFoundedInduction, TLAPS

-----------------------------------------------------------------------------
(* The least of a set of numbers                                           *)

LEMMA LeastOfNumbers ==
  ASSUME NEW S \in SUBSET Nat, S # {}
  PROVE  Min(S) \in S /\ \A n \in S : Min(S) <= n
<1> DEFINE R == {p \in Nat \X Nat : p[1] < p[2]}
<1>1. IsWellFoundedOn(R, Nat)
  BY NatLessThanWellFounded, Zenon DEF OpToRel
<1>2. PICK x \in S : \A y \in S : <<y, x>> \notin R
  <2> HIDE DEF R
  <2>1. S \subseteq Nat
    OBVIOUS
  <2>2. \A T : T \subseteq Nat /\ T # {} =>
                 \E x \in T : \A y \in T : ~ (<<y, x>> \in R)
    BY <1>1, WFMin
  <2> QED
    BY <2>1, <2>2
<1>3. ASSUME NEW y \in S PROVE x <= y
  <2>1. ~ (<<y, x>>[1] < <<y, x>>[2])
    BY <1>2
  <2> QED
    BY <2>1
<1> QED
  BY <1>3 DEF Min

USE ConstantsAssumption

LEMMA LeastOfResults ==
  ASSUME results \in Seq(Result), NEW able, able \subseteq DOMAIN results,
         NEW i \in able
  PROVE  Least(able) \in {results[k].runs : k \in able} /\ Least(able) <= results[i].runs
<1> DEFINE S == {results[k].runs : k \in able}
<1>1. S \in SUBSET Nat /\ results[i].runs \in S
  BY DEF Result
<1> HIDE DEF S
<1>2. Min(S) \in S /\ \A n \in S : Min(S) <= n
  BY <1>1, LeastOfNumbers
<1> QED
  BY <1>1, <1>2 DEF Least, S

-----------------------------------------------------------------------------
(* The inductive invariant                                                 *)

InSearch == {"current", "max", "min", "search"}

(* While a contract is measured there is one, and past its second          *)
(* measurement the largest number is known not to fit.                     *)
Placed ==
    /\ step \in InSearch => at \in DOMAIN Contracts
    /\ step = "min" => MaxRuns \notin fits[Contract]

(* Nothing is recommended beyond what was measured: clamping only lowers.  *)
NeverBeyondMeasured ==
    \A i \in DOMAIN results : results[i].runs <= results[i].measured

IInv == TypeOK /\ Placed /\ Bracketed /\ NeverBeyondMeasured

LEMMA InitIInv == Init => IInv
  BY DEF Init, IInv, TypeOK, Placed, InSearch, Bracketed, EndsHold,
         NeverBeyondMeasured

(* A contract of the config has a name.                                    *)
LEMMA ContractIsNamed ==
  ASSUME at \in DOMAIN Contracts
  PROVE  Contract \in Names
  BY DEF Contract, Names

(* A result that is right may be added.                                    *)
LEMMA ReportKeeps ==
  ASSUME TypeOK, Bracketed, NeverBeyondMeasured, at \in DOMAIN Contracts,
         NEW kind \in Kinds, NEW n \in Nat, NEW measured \in Nat \ {0},
         kind = "too_large" <=> n = NoRuns, n <= measured,
         ResultHolds([contract |-> Contract, kind |-> kind, runs |-> n, measured |-> measured]),
         Report(kind, n, measured), UNCHANGED <<input, at, lo, hi>>
  PROVE  IInv'
<1> DEFINE r == [contract |-> Contract, kind |-> kind, runs |-> n, measured |-> measured]
<1>1. r \in Result
  BY ContractIsNamed DEF Result
<1>2. results' = Append(results, r) /\ step' = "next"
  BY DEF Report
<1>3. results' \in Seq(Result)
  BY <1>1, <1>2 DEF TypeOK
<1>4. \A i \in DOMAIN results' : results'[i] = r \/ (i \in DOMAIN results /\ results'[i] = results[i])
  BY <1>1, <1>2 DEF TypeOK
<1>5. TypeOK'
  BY <1>2, <1>3 DEF TypeOK, input
<1>6. \A i \in DOMAIN results' : ResultHolds(results'[i])
  BY <1>4 DEF Bracketed
<1>7. Bracketed'
  <2>1. (\A i \in DOMAIN results : ResultHolds(results[i]))'
    BY <1>6 DEF ResultHolds, input
  <2> QED
    BY <2>1, <1>2 DEF Bracketed, EndsHold
<1>8. NeverBeyondMeasured'
  BY <1>4 DEF NeverBeyondMeasured
<1> QED
  BY <1>2, <1>5, <1>7, <1>8 DEF IInv, Placed, InSearch

(* Measuring what the config has, the largest number and the least.        *)
LEMMA MeasuringKeeps ==
  ASSUME IInv, MeasureCurrent \/ MeasureMax \/ MeasureMin
  PROVE  IInv'
<1> USE DEF IInv
<1>1. at \in DOMAIN Contracts /\ Contract \in Names
  BY ContractIsNamed
  DEF Placed, InSearch, MeasureCurrent, MeasureMax, MeasureMin
<1>2. /\ fits[Contract] \subseteq Nat \ {0} /\ current[Contract] \in Nat \ {0}
      /\ MaxRuns \in Nat \ {0}
  BY <1>1 DEF TypeOK
<1>3. CASE results' = results
  <2>1. TypeOK'
    BY <1>3 DEF TypeOK, MeasureCurrent, MeasureMax, MeasureMin, Report, input
  <2>2. Placed'
    BY <1>1, <1>3
    DEF Placed, InSearch, MeasureCurrent, MeasureMax, MeasureMin, Report, input, Contract
  <2>3. EndsHold'
    BY <1>2, <1>3
    DEF EndsHold, Placed, MeasureCurrent, MeasureMax, MeasureMin, Report, input, Contract
  <2>4. (\A i \in DOMAIN results : ResultHolds(results[i]))'
    BY <1>3 DEF Bracketed, ResultHolds, MeasureCurrent, MeasureMax, MeasureMin, input
  <2> QED
    BY <1>3, <2>1, <2>2, <2>3, <2>4 DEF Bracketed, NeverBeyondMeasured
<1>4. CASE MeasureCurrent /\ Report("lower_bound", current[Contract], current[Contract])
                         /\ current[Contract] > MaxRuns /\ current[Contract] \in fits[Contract]
  BY <1>1, <1>2, <1>4, ReportKeeps DEF MeasureCurrent, ResultHolds, Kinds, NoRuns
<1>5. CASE MeasureMax /\ Report("lower_bound", MaxRuns, MaxRuns) /\ MaxRuns \in fits[Contract]
  BY <1>1, <1>2, <1>5, ReportKeeps DEF MeasureMax, ResultHolds, Kinds, NoRuns
<1>6. CASE MeasureMin /\ Report("too_large", NoRuns, 1) /\ 1 \notin fits[Contract]
  <2>1. MaxRuns \notin fits[Contract]
    BY <1>6 DEF Placed, MeasureMin
  <2> QED
    BY <1>1, <1>6, <2>1, ReportKeeps DEF MeasureMin, ResultHolds, Kinds, NoRuns
<1> QED
  BY <1>3, <1>4, <1>5, <1>6 DEF MeasureCurrent, MeasureMax, MeasureMin

LEMMA BisectKeeps ==
  ASSUME IInv, Bisect
  PROVE  IInv'
<1> USE DEF IInv
<1> DEFINE mid == (lo + hi) \div 2
<1>1. lo \in Nat /\ hi \in Nat /\ lo + 1 < hi /\ EndsHold
  BY DEF TypeOK, Bisect, Open, Bracketed
<1>2. mid \in Nat /\ lo < mid /\ mid < hi
  BY <1>1
<1> HIDE DEF mid
<1>3. /\ lo' \in {lo, mid} /\ hi' \in {hi, mid} /\ lo' < hi'
      /\ lo' \in fits[Contract] /\ hi' \notin fits[Contract]
  BY <1>1, <1>2 DEF Bisect, Narrowed, EndsHold, mid
<1>4. TypeOK'
  BY <1>2, <1>3 DEF TypeOK, Bisect, input
<1>5. EndsHold'
  BY <1>1, <1>2, <1>3 DEF EndsHold, Bisect, input, Contract
<1>6. (\A i \in DOMAIN results : ResultHolds(results[i]))'
  BY DEF Bracketed, ResultHolds, Bisect, input
<1> QED
  BY <1>4, <1>5, <1>6 DEF Bracketed, Placed, InSearch, NeverBeyondMeasured, Bisect, input, Contract

LEMMA FoundKeeps ==
  ASSUME IInv, Found
  PROVE  IInv'
<1>1. at \in DOMAIN Contracts /\ lo \in Nat \ {0} /\ hi = lo + 1
      /\ lo \in fits[Contract] /\ hi \notin fits[Contract]
  BY DEF IInv, TypeOK, Placed, InSearch, Bracketed, EndsHold, Found, Open
<1>2. ResultHolds([contract |-> Contract, kind |-> "exact", runs |-> lo, measured |-> lo])
  BY <1>1 DEF ResultHolds
<1> QED
  BY <1>1, <1>2, ReportKeeps DEF IInv, Found, Kinds, NoRuns

(* A group is lowered to the least of its members that fit.                *)
LEMMA ClampGroupKeeps ==
  ASSUME TypeOK, Bracketed, NeverBeyondMeasured, NEW group, ClampGroup(group),
         UNCHANGED input, step' \notin {"search"}
  PROVE  results' \in Seq(Result) /\ Bracketed' /\ NeverBeyondMeasured'
<1> DEFINE able  == {i \in Members(group) : results[i].runs # NoRuns}
           least == Least(able)
<1>1. able \subseteq DOMAIN results /\ results \in Seq(Result)
  BY DEF TypeOK, Members
<1>2. ASSUME NEW i \in able
      PROVE  least \in Nat \ {0} /\ least <= results[i].runs
  <2>1. least \in {results[k].runs : k \in able} /\ least <= results[i].runs
    BY <1>1, <1>2, LeastOfResults
  <2>2. \A k \in able : results[k].runs \in Nat \ {0}
    BY <1>1 DEF Result, NoRuns
  <2> HIDE DEF able, least
  <2> QED
    BY <2>1, <2>2
<1>3. results' = [i \in DOMAIN results |->
          IF i \in able /\ results[i].runs # least
            THEN [results[i] EXCEPT !.kind = "clamped", !.runs = least]
            ELSE results[i]]
  BY DEF ClampGroup
<1> HIDE DEF able, least
<1>4. ASSUME NEW i \in DOMAIN results
      PROVE  /\ results'[i] \in Result /\ ResultHolds(results'[i])
             /\ results'[i].runs <= results'[i].measured
  <2>1. /\ results[i] \in Result /\ ResultHolds(results[i])
        /\ results[i].runs <= results[i].measured
    BY <1>1 DEF Bracketed, NeverBeyondMeasured
  <2>2. CASE i \in able /\ results[i].runs # least
    <3>1. results'[i] = [contract |-> results[i].contract, kind |-> "clamped",
                         runs |-> least, measured |-> results[i].measured]
      BY <1>3, <2>1, <2>2 DEF Result
    <3>2. least \in Nat \ {0} /\ least <= results[i].measured
      BY <1>2, <2>1, <2>2 DEF Result
    <3> QED
      BY <2>1, <3>1, <3>2 DEF Result, ResultHolds, Kinds, NoRuns
  <2>3. CASE ~ (i \in able /\ results[i].runs # least)
    BY <1>3, <2>1, <2>3
  <2> QED
    BY <2>2, <2>3
<1>5. DOMAIN results' = DOMAIN results
  BY <1>3
<1>6. results' \in Seq(Result)
  <2>1. DOMAIN results = 1..Len(results) /\ Len(results) \in Nat
    BY <1>1
  <2>2. results' \in [1..Len(results) -> Result]
    BY <1>3, <1>4, <2>1
  <2> QED
    BY <2>1, <2>2
<1>7. (\A i \in DOMAIN results : ResultHolds(results[i]))'
  BY <1>4, <1>5 DEF ResultHolds, input
<1> QED
  BY <1>4, <1>5, <1>6, <1>7 DEF Bracketed, EndsHold, NeverBeyondMeasured

LEMMA ClampKeeps ==
  ASSUME IInv, Clamp
  PROVE  IInv'
<1> USE DEF IInv
<1>1. at' \in Nat /\ step' \in {"clamp", "done"}
  BY DEF Clamp, TypeOK
<1>2. results' \in Seq(Result) /\ Bracketed' /\ NeverBeyondMeasured'
  <2>1. CASE at < Len(Groups)
    BY <1>1, <2>1, ClampGroupKeeps DEF Clamp
  <2>2. CASE results' = results
    <3>1. (\A i \in DOMAIN results : ResultHolds(results[i]))'
      BY <2>2 DEF Bracketed, ResultHolds, Clamp, input
    <3> QED
      BY <1>1, <2>2, <3>1 DEF TypeOK, Bracketed, EndsHold, NeverBeyondMeasured
  <2> QED
    BY <2>1, <2>2 DEF Clamp
<1>3. TypeOK'
  BY <1>1, <1>2 DEF TypeOK, Clamp, input
<1> QED
  BY <1>1, <1>2, <1>3 DEF Placed, InSearch

LEMMA StepIInv == IInv /\ [Next]_vars => IInv'
<1> SUFFICES ASSUME IInv, [Next]_vars PROVE IInv'
  OBVIOUS
<1>1. CASE NextContract \/ BuildFails \/ UNCHANGED vars
  <2> USE DEF IInv
  <2>1. UNCHANGED <<input, lo, hi, results>> /\ at' \in Nat
    BY <1>1 DEF NextContract, BuildFails, vars, input, TypeOK
  <2>2. TypeOK'
    BY <1>1, <2>1 DEF TypeOK, NextContract, BuildFails, vars, input
  <2>3. Placed'
    <3>1. CASE NextContract
      BY <3>1, <2>1 DEF TypeOK, Placed, InSearch, NextContract
    <3>2. CASE BuildFails \/ UNCHANGED vars
      BY <3>2 DEF Placed, InSearch, BuildFails, vars, input, Contract
    <3> QED
      BY <1>1, <3>1, <3>2
  <2>4. EndsHold'
    BY <1>1, <2>1 DEF Bracketed, EndsHold, NextContract, BuildFails, vars, input, Contract
  <2>5. (\A i \in DOMAIN results : ResultHolds(results[i]))'
    BY <2>1 DEF Bracketed, ResultHolds, input
  <2> QED
    BY <2>1, <2>2, <2>3, <2>4, <2>5 DEF Bracketed, NeverBeyondMeasured
<1> QED
  BY <1>1, MeasuringKeeps, BisectKeeps, FoundKeeps, ClampKeeps DEF Next, Run

-----------------------------------------------------------------------------
LEMMA IInvHolds == Spec => []IInv
  BY InitIInv, StepIInv, PTL DEF Spec

(* The table of optimize_runs.py has a name, a kind and a number on every  *)
(* line, "none" where nothing fits and only there.                         *)
THEOREM TypeCorrect == Spec => []TypeOK
  BY IInvHolds, PTL DEF IInv

(* Whatever the compiler makes of a number of runs, what find_max_runs     *)
(* reports fits, the next number does not, and clamping only lowers it.    *)
THEOREM SearchIsBracketed == Spec => []Bracketed
  BY IInvHolds, PTL DEF IInv

-----------------------------------------------------------------------------
(* The steps that are left                                                 *)

(* What is left to do for the contract at hand: its three measurements and *)
(* a bracket that can be halved no more often than it is wide.             *)
OwnStepsLeft ==
    CASE step = "current" -> MaxRuns + 3
      [] step = "max"     -> MaxRuns + 2
      [] step = "min"     -> MaxRuns + 1
      [] step = "search"  -> hi - lo
      [] OTHER            -> 0

ContractsLeft == Len(Contracts) - at

GroupsLeft == Len(Groups) + 1 - at

StepsLeft ==
    CASE step \in {"done", "failed"} -> 0
      [] step = "clamp" -> GroupsLeft
      [] OTHER -> Len(Groups) + 2 + ContractsLeft * (MaxRuns + 4) + OwnStepsLeft

InRange ==
    IF step = "clamp" THEN at <= Len(Groups) ELSE step \in InSearch \cup {"next"} => at <= Len(Contracts)

LEMMA OneTurnLess ==
  ASSUME NEW n \in Nat, NEW w \in Nat
  PROVE  n * w \in Nat /\ (n - 1) * w = n * w - w
  BY SMT

LEMMA InRangeStays == IInv /\ InRange /\ [Next]_vars => InRange'
<1> SUFFICES ASSUME IInv, InRange, [Next]_vars PROVE InRange'
  OBVIOUS
<1> USE DEF InRange, InSearch
<1>1. at \in Nat /\ Len(Contracts) \in Nat /\ Len(Groups) \in Nat
  BY DEF IInv, TypeOK
<1>2. CASE NextContract
  BY <1>1, <1>2 DEF NextContract
<1>3. CASE Clamp
  BY <1>1, <1>3 DEF Clamp
<1>4. CASE MeasureCurrent \/ MeasureMax \/ MeasureMin \/ Bisect \/ Found \/ BuildFails
  BY <1>1, <1>4
  DEF MeasureCurrent, MeasureMax, MeasureMin, Bisect, Found, BuildFails, Report
<1>5. CASE UNCHANGED vars
  BY <1>5 DEF vars
<1> QED
  BY <1>2, <1>3, <1>4, <1>5 DEF Next, Run

LEMMA OwnStepsBound ==
  ASSUME IInv
  PROVE  OwnStepsLeft \in 0..(MaxRuns + 3) /\ (step = "search" => OwnStepsLeft > 0)
<1>1. step = "search" => lo \in Nat /\ hi \in Nat /\ 0 < lo /\ lo < hi /\ hi <= MaxRuns
  BY DEF IInv, TypeOK, Bracketed, EndsHold
<1> QED
  BY <1>1 DEF OwnStepsLeft, IInv, TypeOK

LEMMA StepsLeftNat ==
  ASSUME IInv, InRange
  PROVE  StepsLeft \in Nat
<1>1. /\ at \in Nat /\ Len(Contracts) \in Nat /\ Len(Groups) \in Nat
      /\ MaxRuns + 4 \in Nat /\ OwnStepsLeft \in Nat
  BY OwnStepsBound DEF IInv, TypeOK
<1>2. CASE step = "clamp"
  BY <1>1, <1>2 DEF StepsLeft, GroupsLeft, InRange
<1>3. CASE step \in InSearch \cup {"next"}
  <2>1. ContractsLeft \in Nat
    BY <1>1, <1>3 DEF ContractsLeft, InRange, InSearch
  <2>2. ContractsLeft * (MaxRuns + 4) \in Nat
    BY <1>1, <2>1
  <2> QED
    BY <1>1, <1>3, <2>2 DEF StepsLeft, InSearch
<1> QED
  BY <1>2, <1>3 DEF StepsLeft, IInv, TypeOK, InSearch

(* Whatever the script does next, a failing build included, uses up a step.*)
LEMMA StepsRunOut ==
  ASSUME IInv, InRange, Next
  PROVE  StepsLeft' < StepsLeft
<1>1. /\ at \in Nat /\ Len(Contracts) \in Nat /\ Len(Groups) \in Nat
      /\ MaxRuns \in Nat \ {0} /\ OwnStepsLeft \in 0..(MaxRuns + 3)
  BY OwnStepsBound DEF IInv, TypeOK
<1>2. StepsLeft \in Nat
  BY StepsLeftNat
<1> DEFINE w == MaxRuns + 4
           before == Len(Groups) + 2 + ContractsLeft * w
<1>3. step \in InSearch \cup {"next"} =>
        ContractsLeft \in Nat /\ before \in Nat /\ StepsLeft = before + OwnStepsLeft
  <2>1. step \in InSearch \cup {"next"} => ContractsLeft \in Nat
    BY <1>1 DEF ContractsLeft, InRange, InSearch
  <2>2. ASSUME ContractsLeft \in Nat PROVE before \in Nat
    BY <1>1, <2>2
  <2>3. step \in InSearch \cup {"next"} => StepsLeft = before + OwnStepsLeft
    BY DEF StepsLeft, InSearch
  <2> QED
    BY <2>1, <2>2, <2>3
<1>4. CASE NextContract
  <2>1. CASE at < Len(Contracts)
    <3>1. /\ at' = at + 1 /\ step' \in {"current", "next"}
          /\ ContractsLeft' = ContractsLeft - 1
      BY <1>1, <1>4, <2>1 DEF NextContract, ContractsLeft
    <3>2. OwnStepsLeft' <= MaxRuns + 3 /\ OwnStepsLeft' \in Nat /\ OwnStepsLeft = 0
      BY <1>1, <1>4, <3>1 DEF OwnStepsLeft, NextContract
    <3>3. StepsLeft' = Len(Groups) + 2 + ContractsLeft' * w + OwnStepsLeft'
      BY <3>1 DEF StepsLeft
    <3>4. (ContractsLeft - 1) * w = ContractsLeft * w - w /\ ContractsLeft * w \in Nat
      <4>1. ContractsLeft \in Nat /\ w \in Nat
        BY <1>1, <1>3, <1>4 DEF NextContract
      <4> HIDE DEF w
      <4> QED
        BY <4>1, OneTurnLess
    <3>5. StepsLeft = Len(Groups) + 2 + ContractsLeft * w
      BY <1>1, <1>3, <1>4, <3>2, <3>4 DEF NextContract
    <3> HIDE DEF w
    <3>6. w = MaxRuns + 4
      BY DEF w
    <3> QED
      BY <1>1, <3>1, <3>2, <3>3, <3>4, <3>5, <3>6
  <2>2. CASE ~ (at < Len(Contracts))
    <3>1. at' = 0 /\ step' = "clamp"
      BY <1>4, <2>2 DEF NextContract
    <3>2. StepsLeft' = Len(Groups) + 1
      BY <1>1, <3>1 DEF StepsLeft, GroupsLeft
    <3>3. ContractsLeft = 0
      BY <1>1, <1>4, <2>2 DEF ContractsLeft, InRange, NextContract
    <3>4. ContractsLeft * w = 0
      BY <1>1, <3>3
    <3>5. StepsLeft >= Len(Groups) + 2
      BY <1>1, <1>3, <1>4, <3>4 DEF NextContract
    <3> QED
      BY <1>1, <1>2, <3>2, <3>5
  <2> QED
    BY <2>1, <2>2
<1>5. CASE Clamp
  <2>1. step = "clamp" /\ StepsLeft = Len(Groups) + 1 - at /\ at <= Len(Groups)
    BY <1>5 DEF Clamp, StepsLeft, GroupsLeft, InRange
  <2>2. \/ step' = "clamp" /\ at' = at + 1
        \/ step' = "done"
    BY <1>5, <2>1 DEF Clamp
  <2> QED
    BY <1>1, <2>1, <2>2 DEF StepsLeft, GroupsLeft
<1>6. CASE BuildFails
  <2>1. StepsLeft' = 0
    BY <1>6 DEF BuildFails, StepsLeft
  <2>2. step \in InSearch
    BY <1>6 DEF BuildFails, InSearch
  <2> QED
    BY <1>1, <1>3, <2>1, <2>2
<1>7. CASE MeasureCurrent \/ MeasureMax \/ MeasureMin \/ Bisect \/ Found
  <2>1. /\ at' = at /\ step \in InSearch /\ step' \in InSearch \cup {"next"}
    BY <1>7
    DEF MeasureCurrent, MeasureMax, MeasureMin, Bisect, Found, Report, InSearch
  <2>2. StepsLeft' = before + OwnStepsLeft'
    BY <2>1 DEF StepsLeft, ContractsLeft, InSearch
  <2>3. OwnStepsLeft' \in Int /\ OwnStepsLeft' < OwnStepsLeft
    <3>1. step = "search" => lo \in Nat /\ hi \in Nat /\ lo < hi
      BY DEF IInv, TypeOK, Bracketed, EndsHold
    <3>2. CASE MeasureCurrent \/ MeasureMax \/ MeasureMin
      BY <1>1, <3>2
      DEF MeasureCurrent, MeasureMax, MeasureMin, Report, OwnStepsLeft
    <3>3. CASE Bisect
      <4> DEFINE mid == (lo + hi) \div 2
      <4>1. lo < mid /\ mid < hi /\ mid \in Nat
        BY <3>1, <3>3 DEF Bisect, Open
      <4> HIDE DEF mid
      <4>2. \/ lo' = mid /\ hi' = hi
            \/ lo' = lo /\ hi' = mid
        BY <3>3 DEF Bisect, Narrowed, mid
      <4> QED
        BY <3>1, <3>3, <4>1, <4>2 DEF Bisect, OwnStepsLeft
    <3>4. CASE Found
      BY <3>1, <3>4 DEF Found, Report, OwnStepsLeft
    <3> QED
      BY <1>7, <3>2, <3>3, <3>4
  <2> HIDE DEF before
  <2> QED
    BY <1>1, <1>3, <2>1, <2>2, <2>3
<1> QED
  BY <1>4, <1>5, <1>6, <1>7 DEF Next, Run

(* The search ends: every build and every turn of main's loops uses up one *)
(* of a number of steps that is fixed by the config and --max-runs, before *)
(* anything is known of what the compiler will say.                        *)
THEOREM SearchRunsOut ==
  Spec => [](StepsLeft \in Nat) /\ [][StepsLeft' < StepsLeft]_vars
<1>1. Init => IInv /\ InRange
  BY InitIInv DEF Init, InRange, InSearch
<1>2. IInv /\ InRange /\ [Next]_vars => (IInv /\ InRange)'
  BY StepIInv, InRangeStays
<1>3. IInv /\ InRange => StepsLeft \in Nat
  BY StepsLeftNat
<1>4. IInv /\ InRange /\ [Next]_vars => [StepsLeft' < StepsLeft]_vars
  BY StepsRunOut
<1> QED
  BY <1>1, <1>2, <1>3, <1>4, PTL DEF Spec

-----------------------------------------------------------------------------
(* The best number of runs                                                 *)

LEMMA GreatestOfNumbers ==
  ASSUME NEW S \in SUBSET Nat, S # {}, NEW bound \in Nat, \A n \in S : n <= bound
  PROVE  Max(S) \in S /\ \A n \in S : n <= Max(S)
<1> DEFINE B == {b \in Nat : \A n \in S : n <= b}
<1>1. B \in SUBSET Nat /\ B # {}
  OBVIOUS
<1>2. Min(B) \in B /\ \A k \in B : Min(B) <= k
  <2> HIDE DEF B
  <2> QED
    BY <1>1, LeastOfNumbers
<1>3. PICK b \in B : \A k \in B : b <= k
  <2> HIDE DEF B
  <2> QED
    BY <1>2
<1>4. b \in Nat /\ \A n \in S : n <= b
  OBVIOUS
<1>5. b \in S
  <2> SUFFICES ASSUME b \notin S PROVE FALSE
    OBVIOUS
  <2>1. PICK n \in S : n <= b
    BY <1>4
  <2>2. \A k \in S : k \in Nat /\ k <= b /\ k # b
    BY <1>4
  <2>3. b - 1 \in Nat
    BY <1>4, <2>1, <2>2
  <2>4. \A k \in S : k <= b - 1
    BY <1>4, <2>2
  <2>5. b - 1 \in B
    BY <2>3, <2>4
  <2>6. b <= b - 1
    BY <1>3, <2>5
  <2> QED
    BY <1>4, <2>6
<1>6. \E x \in S : \A y \in S : x >= y
  BY <1>4, <1>5
<1>7. Max(S) \in S /\ \A y \in S : Max(S) >= y
  BY <1>6 DEF Max
<1> QED
  BY <1>7

LEMMA MaxIs ==
  ASSUME NEW S \in SUBSET Nat, NEW m \in S, \A n \in S : n <= m
  PROVE  Max(S) = m
<1>1. Max(S) \in S /\ \A n \in S : n <= Max(S)
  <2>1. m \in Nat /\ S # {}
    OBVIOUS
  <2> QED
    BY <2>1, GreatestOfNumbers
<1>2. Max(S) <= m /\ m <= Max(S) /\ Max(S) \in Nat /\ m \in Nat
  BY <1>1
<1> QED
  BY <1>2

LEMMA MinIs ==
  ASSUME NEW S \in SUBSET Nat, NEW m \in S, \A n \in S : m <= n
  PROVE  Min(S) = m
<1>1. Min(S) \in S /\ \A n \in S : Min(S) <= n
  <2>1. S # {}
    OBVIOUS
  <2> QED
    BY <2>1, LeastOfNumbers
<1>2. Min(S) <= m /\ m <= Min(S) /\ Min(S) \in Nat /\ m \in Nat
  BY <1>1
<1> QED
  BY <1>2

(* What the search looks at.                                               *)
Tried(c) == {r \in 1..MaxRuns : r \in fits[c]} \cup ({current[c]} \cap fits[c])

LEMMA TriedNat ==
  ASSUME TypeOK, NEW c \in Names
  PROVE  /\ Tried(c) \in SUBSET Nat /\ Best(c) = Max(Tried(c))
         /\ current[c] \in Nat \ {0} /\ fits[c] \subseteq Nat \ {0}
         /\ MaxRuns \in Nat \ {0}
         /\ \A r \in Tried(c) : r <= MaxRuns + current[c]
<1>1. current[c] \in Nat \ {0} /\ fits[c] \subseteq Nat \ {0} /\ MaxRuns \in Nat \ {0}
  BY DEF TypeOK
<1>2. \A r \in Tried(c) : r \in fits[c] /\ (r \in 1..MaxRuns \/ r = current[c])
  BY DEF Tried
<1>3. \A r \in Tried(c) : r \in Nat /\ r <= MaxRuns + current[c]
  BY <1>1, <1>2
<1>4. Best(c) = Max(Tried(c))
  BY DEF Tried, Best
<1> QED
  BY <1>1, <1>3, <1>4

LEMMA BestPositive ==
  ASSUME TypeOK, NEW c \in Names, 1 \in fits[c]
  PROVE  Best(c) \in Nat \ {0}
<1> DEFINE S == Tried(c)
           bound == MaxRuns + current[c]
<1>1. /\ S \in SUBSET Nat /\ Best(c) = Max(S) /\ bound \in Nat
      /\ \A r \in S : r <= bound
  BY TriedNat
<1>2. 1 \in S
  <2>1. 1 \in 1..MaxRuns
    BY TriedNat
  <2> QED
    BY <2>1 DEF Tried
<1> HIDE DEF S, bound
<1>3. S # {}
  BY <1>2
<1>4. Max(S) \in S /\ \A n \in S : n <= Max(S)
  BY <1>1, <1>3, GreatestOfNumbers
<1>5. Max(S) \in Nat /\ 1 <= Max(S)
  BY <1>1, <1>2, <1>4
<1> QED
  BY <1>1, <1>5

(* What is tried and is no less than all that is tried is the best.        *)
LEMMA BestIs ==
  ASSUME TypeOK, NEW c \in Names, NEW m \in Tried(c), \A r \in Tried(c) : r <= m
  PROVE  Best(c) = m
<1> DEFINE S == Tried(c)
<1>1. S \in SUBSET Nat /\ Best(c) = Max(S) /\ m \in S /\ \A r \in S : r <= m
  BY TriedNat
<1> HIDE DEF S
<1>2. Max(S) = m
  BY <1>1, MaxIs
<1> QED
  BY <1>1, <1>2

(* What the config has, where it is beyond the range and fits.             *)
LEMMA BestIsCurrent ==
  ASSUME TypeOK, NEW c \in Names, current[c] > MaxRuns, current[c] \in fits[c]
  PROVE  Best(c) = current[c]
<1>1. current[c] \in Nat /\ MaxRuns \in Nat
  BY TriedNat
<1>2. current[c] \in Tried(c)
  BY DEF Tried
<1>3. \A r \in Tried(c) : r \in 1..MaxRuns \/ r = current[c]
  BY DEF Tried
<1>4. \A r \in Tried(c) : r <= current[c]
  BY <1>1, <1>3
<1> QED
  BY <1>2, <1>4, BestIs

(* The end of the range, where that fits.                                  *)
LEMMA BestIsMax ==
  ASSUME TypeOK, NEW c \in Names, MaxRuns \in fits[c],
         ~(current[c] > MaxRuns /\ current[c] \in fits[c])
  PROVE  Best(c) = MaxRuns
<1>1. current[c] \in Nat /\ MaxRuns \in Nat \ {0}
  BY TriedNat
<1>2. MaxRuns \in Tried(c)
  BY <1>1 DEF Tried
<1>3. \A r \in Tried(c) : r \in 1..MaxRuns \/ (r = current[c] /\ r \in fits[c])
  BY DEF Tried
<1>4. \A r \in Tried(c) : r <= MaxRuns
  BY <1>1, <1>3
<1> QED
  BY <1>2, <1>4, BestIs

(* Where code grows with the runs, the only step from fitting to not.      *)
LEMMA BestIsFound ==
  ASSUME TypeOK, NEW c \in Names, Monotone(c), NEW n \in Nat \ {0}, n < MaxRuns,
         n \in fits[c], n + 1 \notin fits[c]
  PROVE  Best(c) = n
<1>1. ASSUME NEW r \in fits[c] PROVE r <= n
  <2>1. r \in Nat
    BY TriedNat
  <2> SUFFICES ASSUME n + 1 <= r PROVE FALSE
    BY <2>1
  <2>2. n + 1 \in 1..r
    BY <2>1
  <2> QED
    BY <2>2 DEF Monotone
<1>2. MaxRuns \in Nat
  BY TriedNat
<1>3. n \in Tried(c)
  BY <1>2 DEF Tried
<1>4. \A r \in Tried(c) : r <= n
  BY <1>1 DEF Tried
<1> QED
  BY <1>3, <1>4, BestIs

-----------------------------------------------------------------------------
(* What the table recommends                                               *)

AllGrow == \A c \in selected : Monotone(c)

(* Whom a contract shares one of the first n groups with.                  *)
MatesWithin(c, n) ==
    {c} \cup {d \in selected : /\ 1 \in fits[d]
                               /\ \E g \in DOMAIN Groups : g <= n /\ {c, d} \subseteq Groups[g]}

(* The number of c after n groups.                                         *)
RunsAfter(c, n) ==
    IF 1 \notin fits[c] THEN NoRuns ELSE Min({Best(d) : d \in MatesWithin(c, n)})

(* The groups that are done.                                               *)
Clamped ==
    CASE step = "clamp" -> at [] step = "done" -> Len(Groups) [] OTHER -> 0

(* The contracts that are done.                                            *)
Searched(k) ==
    \/ step \in {"clamp", "done"}
    \/ step = "next" /\ k <= at
    \/ step \in InSearch /\ k < at

IsReported(c) == \E i \in DOMAIN results : results[i].contract = c

Progress ==
    /\ step = "clamp" => at <= Len(Groups)
    /\ step \in InSearch => Contract \in selected
    /\ step = "max" => ~(current[Contract] > MaxRuns /\ current[Contract] \in fits[Contract])
    /\ \A i \in DOMAIN results : results[i].contract \in selected
    /\ step # "failed" =>
         \A k \in DOMAIN Contracts :
             Contracts[k] \in selected /\ Searched(k) => IsReported(Contracts[k])

InTable ==
    AllGrow /\ step # "failed" =>
        \A i \in DOMAIN results :
            results[i].runs = RunsAfter(results[i].contract, Clamped)

BestInv == IInv /\ Progress /\ InTable

(* No two groups have a member in common.                                  *)
GroupsApart == \A g, h \in DOMAIN Groups : g # h => Groups[g] \cap Groups[h] = {}

LEMMA SelectedNamed ==
  ASSUME TypeOK, NEW c \in selected
  PROVE  c \in Names
  BY DEF TypeOK

(* Before the first group a contract has its own best.                     *)
LEMMA OwnBest ==
  ASSUME TypeOK, NEW c \in Names, 1 \in fits[c]
  PROVE  RunsAfter(c, 0) = Best(c)
<1>1. \A g \in DOMAIN Groups : ~ (g <= 0)
  OBVIOUS
<1>2. MatesWithin(c, 0) = {c}
  BY <1>1 DEF MatesWithin
<1> DEFINE b == Best(c)
<1>3. RunsAfter(c, 0) = Min({b})
  <2>1. {Best(d) : d \in MatesWithin(c, 0)} = {b}
    <3> HIDE DEF b
    <3>1. \A d \in MatesWithin(c, 0) : Best(d) = b
      BY <1>2 DEF b
    <3>2. \E d \in MatesWithin(c, 0) : TRUE
      BY <1>2
    <3> QED
      BY <3>1, <3>2
  <2> QED
    BY <2>1 DEF RunsAfter
<1>4. b \in Nat
  BY BestPositive
<1> HIDE DEF b
<1>5. Min({b}) = b
  <2> DEFINE S == {b}
  <2>1. S \in SUBSET Nat /\ b \in S /\ \A n \in S : b <= n
    BY <1>4
  <2> HIDE DEF S
  <2>2. Min(S) = b
    BY <2>1, MinIs
  <2> QED
    BY <2>2 DEF S
<1> QED
  BY <1>3, <1>5 DEF b

(* The numbers of a contract and its mates.                                *)
LEMMA MatesBest ==
  ASSUME TypeOK, NEW c \in Names, 1 \in fits[c], NEW n \in Nat
  PROVE  /\ \A d \in MatesWithin(c, n) : Best(d) \in Nat \ {0} /\ RunsAfter(c, n) <= Best(d)
         /\ \E d \in MatesWithin(c, n) : RunsAfter(c, n) = Best(d)
         /\ RunsAfter(c, n) \in Nat \ {0}
<1> DEFINE S == {Best(d) : d \in MatesWithin(c, n)}
<1>1. ASSUME NEW d \in MatesWithin(c, n) PROVE d \in Names /\ 1 \in fits[d]
  BY SelectedNamed DEF MatesWithin
<1>2. \A d \in MatesWithin(c, n) : Best(d) \in Nat \ {0}
  BY <1>1, BestPositive
<1>3. c \in MatesWithin(c, n)
  BY DEF MatesWithin
<1>4. S \in SUBSET (Nat \ {0}) /\ S # {}
  BY <1>2, <1>3
<1>5. RunsAfter(c, n) = Min(S)
  BY DEF RunsAfter
<1>6. Min(S) \in S /\ \A b \in S : Min(S) <= b
  <2> HIDE DEF S
  <2> QED
    BY <1>4, LeastOfNumbers
<1>7. RunsAfter(c, n) \in S /\ \A b \in S : RunsAfter(c, n) <= b
  <2> HIDE DEF S
  <2> QED
    BY <1>5, <1>6
<1> QED
  BY <1>2, <1>7

(* A number that one of them has and none is below is the least.           *)
LEMMA RunsAfterIs ==
  ASSUME TypeOK, NEW c \in Names, 1 \in fits[c], NEW n \in Nat, NEW m \in Nat,
         \E d \in MatesWithin(c, n) : m = Best(d),
         \A d \in MatesWithin(c, n) : m <= Best(d)
  PROVE  RunsAfter(c, n) = m
<1>1. PICK d \in MatesWithin(c, n) : RunsAfter(c, n) = Best(d) /\ RunsAfter(c, n) \in Nat
  BY MatesBest
<1>2. m <= RunsAfter(c, n)
  BY <1>1
<1>3. RunsAfter(c, n) <= m
  BY MatesBest
<1> QED
  BY <1>1, <1>2, <1>3

-----------------------------------------------------------------------------
(* The searches                                                            *)

(* What is recommended depends on the inputs only.                         *)
LEMMA RunsAfterStays ==
  ASSUME UNCHANGED input, NEW c, NEW n
  PROVE  RunsAfter(c, n)' = RunsAfter(c, n)
<1>1. fits' = fits /\ current' = current /\ selected' = selected
  BY DEF input
<1>2. \A d : Best(d)' = Best(d)
  BY <1>1 DEF Best
<1>3. MatesWithin(c, n)' = MatesWithin(c, n)
  BY <1>1 DEF MatesWithin
<1>4. {Best(d) : d \in MatesWithin(c, n)}' = {Best(d) : d \in MatesWithin(c, n)}
  BY <1>2, <1>3
<1> QED
  BY <1>1, <1>4 DEF RunsAfter

LEMMA AllGrowStays ==
  ASSUME UNCHANGED input
  PROVE  AllGrow' = AllGrow
  BY DEF AllGrow, Monotone, input

(* A result with the contract's own best number may be added.              *)
LEMMA ReportIsBest ==
  ASSUME BestInv, step \in InSearch,
         NEW kind, NEW n, NEW measured, Report(kind, n, measured),
         UNCHANGED <<input, at>>, AllGrow => n = RunsAfter(Contract, 0)
  PROVE  Progress' /\ InTable'
<1> USE DEF BestInv
<1> DEFINE r == [contract |-> Contract, kind |-> kind, runs |-> n, measured |-> measured]
<1>1. results' = Append(results, r) /\ step' = "next" /\ at' = at
  BY DEF Report
<1>2. results \in Seq(Result) /\ Contract \in selected /\ at \in Nat
  BY DEF IInv, TypeOK, Progress
<1>3. /\ DOMAIN results' = 1..(Len(results) + 1) /\ DOMAIN results = 1..Len(results)
      /\ Len(results) \in Nat
      /\ results'[Len(results) + 1] = r
      /\ \A i \in DOMAIN results : results'[i] = results[i]
  <2> HIDE DEF r
  <2> QED
    BY <1>1, <1>2
<1>4. \A i \in DOMAIN results' : i \in DOMAIN results \/ i = Len(results) + 1
  BY <1>3
<1>5. \A i \in DOMAIN results' : results'[i].contract \in selected'
  BY <1>2, <1>3, <1>4 DEF Progress, input
<1>6. ASSUME NEW c, IsReported(c) \/ c = Contract PROVE IsReported(c)'
  BY <1>3, <1>6 DEF IsReported
<1>7. ASSUME NEW k \in DOMAIN Contracts, Contracts[k] \in selected, k <= at
      PROVE  IsReported(Contracts[k])'
  <2>1. CASE k = at
    BY <1>6, <2>1 DEF Contract
  <2>2. CASE k # at
    <3>1. Searched(k)
      BY <1>2, <1>7, <2>2 DEF Searched
    <3>2. step # "failed"
      BY DEF InSearch
    <3> QED
      BY <1>6, <1>7, <3>1, <3>2 DEF Progress
  <2> QED
    BY <2>1, <2>2
<1>8. Progress'
  BY <1>1, <1>5, <1>7 DEF Progress, InSearch, Searched, input
<1>9. InTable'
  <2> SUFFICES ASSUME AllGrow PROVE (\A i \in DOMAIN results : results[i].runs = RunsAfter(results[i].contract, 0))'
    BY <1>1, AllGrowStays DEF InTable, Clamped
  <2>1. \A i \in DOMAIN results : results[i].runs = RunsAfter(results[i].contract, 0)
    BY DEF InTable, Clamped, InSearch
  <2>2. \A i \in DOMAIN results' : results'[i].runs = RunsAfter(results'[i].contract, 0)
    BY <1>3, <1>4, <2>1
  <2> QED
    BY <2>2, RunsAfterStays
<1> QED
  BY <1>8, <1>9

(* A step of the search that reports nothing.                              *)
LEMMA MeasuredStillBest ==
  ASSUME BestInv, step \in InSearch, step' \in InSearch \cup {"failed"},
         UNCHANGED <<input, at, results>>,
         step' = "max" => ~(current[Contract] > MaxRuns /\ current[Contract] \in fits[Contract])
  PROVE  Progress' /\ InTable'
<1> USE DEF BestInv
<1>1. Progress'
  <2>1. \A c : IsReported(c)' = IsReported(c)
    BY DEF IsReported
  <2>2. \A k : Searched(k)' => Searched(k) \/ step' = "failed"
    BY DEF Searched, InSearch
  <2>3. Contract' = Contract
    BY DEF Contract
  <2> QED
    BY <2>1, <2>2, <2>3 DEF Progress, InSearch, input
<1>2. InTable'
  <2> SUFFICES ASSUME AllGrow, step' # "failed"
               PROVE (\A i \in DOMAIN results : results[i].runs = RunsAfter(results[i].contract, 0))'
    BY AllGrowStays DEF InTable, Clamped, InSearch
  <2>1. \A i \in DOMAIN results : results[i].runs = RunsAfter(results[i].contract, 0)
    BY DEF InTable, Clamped, InSearch
  <2> QED
    BY <2>1, RunsAfterStays
<1> QED
  BY <1>1, <1>2

LEMMA SearchIsBest ==
  ASSUME BestInv, MeasureCurrent \/ MeasureMax \/ MeasureMin \/ Bisect \/ Found
  PROVE  Progress' /\ InTable'
<1> USE DEF BestInv
<1>1. step \in InSearch /\ UNCHANGED <<input, at>>
  BY DEF InSearch, MeasureCurrent, MeasureMax, MeasureMin, Bisect, Found
<1>2. TypeOK /\ Contract \in Names /\ Contract \in selected
  BY <1>1, ContractIsNamed DEF IInv, Placed, Progress
<1>3. CASE results' = results
  BY <1>1, <1>3, MeasuredStillBest
  DEF InSearch, MeasureCurrent, MeasureMax, MeasureMin, Bisect, Found, Report
<1>4. /\ current[Contract] \in Nat \ {0} /\ MaxRuns \in Nat \ {0}
      /\ \A n \in fits[Contract] : n \in Nat \ {0}
  BY <1>2, TriedNat
<1>5. ASSUME AllGrow, NEW n \in fits[Contract] PROVE 1 \in fits[Contract]
  <2>1. 1 \in 1..n
    BY <1>4
  <2> QED
    BY <1>2, <1>5, <2>1 DEF AllGrow, Monotone
<1>6. ASSUME AllGrow, NEW n \in fits[Contract], Best(Contract) = n
      PROVE  n = RunsAfter(Contract, 0)
  BY <1>2, <1>5, <1>6, OwnBest
<1>7. CASE MeasureCurrent /\ Report("lower_bound", current[Contract], current[Contract])
                         /\ current[Contract] > MaxRuns /\ current[Contract] \in fits[Contract]
  <2>1. Best(Contract) = current[Contract]
    BY <1>2, <1>7, BestIsCurrent
  <2> QED
    BY <1>1, <1>6, <1>7, <2>1, ReportIsBest
<1>8. CASE MeasureMax /\ Report("lower_bound", MaxRuns, MaxRuns) /\ MaxRuns \in fits[Contract]
  <2>1. Best(Contract) = MaxRuns
    BY <1>2, <1>8, BestIsMax DEF Progress, MeasureMax
  <2> QED
    BY <1>1, <1>6, <1>8, <2>1, ReportIsBest
<1>9. CASE MeasureMin /\ Report("too_large", NoRuns, 1) /\ 1 \notin fits[Contract]
  <2>1. NoRuns = RunsAfter(Contract, 0)
    BY <1>9 DEF RunsAfter
  <2> QED
    BY <1>1, <1>9, <2>1, ReportIsBest
<1>10. CASE Found
  <2>1. /\ lo \in Nat \ {0} /\ hi = lo + 1 /\ hi <= MaxRuns
        /\ lo \in fits[Contract] /\ hi \notin fits[Contract]
    BY <1>10 DEF IInv, TypeOK, Bracketed, EndsHold, Found, Open
  <2>2. lo < MaxRuns /\ lo + 1 \notin fits[Contract]
    BY <1>4, <2>1
  <2>3. AllGrow => Best(Contract) = lo
    BY <1>2, <2>1, <2>2, BestIsFound DEF AllGrow
  <2>4. Report("exact", lo, lo)
    BY <1>10 DEF Found
  <2> QED
    BY <1>1, <1>6, <2>1, <2>3, <2>4, ReportIsBest
<1> QED
  BY <1>3, <1>7, <1>8, <1>9, <1>10 DEF MeasureCurrent, MeasureMax, MeasureMin, Bisect

LEMMA NextIsBest ==
  ASSUME BestInv, NextContract \/ BuildFails \/ UNCHANGED vars
  PROVE  Progress' /\ InTable'
<1> USE DEF BestInv
<1>1. UNCHANGED input /\ results' = results /\ at \in Nat
  BY DEF NextContract, BuildFails, vars, input, IInv, TypeOK
<1>2. \A c : IsReported(c)' = IsReported(c)
  BY <1>1 DEF IsReported
<1>3. CASE UNCHANGED vars
  <2>1. step' = step /\ at' = at
    BY <1>3 DEF vars
  <2>2. Progress'
    BY <1>1, <1>2, <2>1 DEF Progress, Searched, Contract, input
  <2>3. Clamped' = Clamped
    BY <2>1 DEF Clamped
  <2>4. InTable'
    <3> SUFFICES ASSUME AllGrow, step # "failed"
                 PROVE (\A i \in DOMAIN results : results[i].runs = RunsAfter(results[i].contract, Clamped))'
      BY <1>1, <2>1, AllGrowStays DEF InTable
    <3> QED
      BY <1>1, <2>3, RunsAfterStays DEF InTable
  <2> QED
    BY <2>2, <2>4
<1>4. CASE BuildFails
  BY <1>1, <1>4, MeasuredStillBest DEF BuildFails, InSearch, input
<1>5. CASE NextContract
  <2>1. /\ step = "next" /\ DOMAIN Contracts = 1..Len(Contracts) /\ Len(Contracts) \in Nat
        /\ DOMAIN Groups = 1..Len(Groups) /\ Len(Groups) \in Nat
    BY <1>5 DEF NextContract
  <2>2. \/ at < Len(Contracts) /\ at' = at + 1 /\ step' \in {"current", "next"}
           /\ (step' = "current" <=> Contracts[at + 1] \in selected)
        \/ ~ (at < Len(Contracts)) /\ at' = 0 /\ step' = "clamp"
    BY <1>5 DEF NextContract
  <2>3. ASSUME NEW k \in DOMAIN Contracts, Contracts[k] \in selected, Searched(k)'
        PROVE  IsReported(Contracts[k])
    <3>1. k \in 1..Len(Contracts)
      BY <2>1
    <3>2. k <= at
      <4>1. CASE at' = 0
        BY <1>1, <2>1, <2>2, <3>1, <4>1
      <4>2. CASE at' = at + 1 /\ step' = "current"
        BY <1>1, <2>3, <3>1, <4>2 DEF Searched, InSearch
      <4>3. CASE at' = at + 1 /\ step' = "next"
        <5>1. k <= at + 1 /\ k # at + 1
          BY <2>2, <2>3, <4>3 DEF Searched, InSearch
        <5> QED
          BY <1>1, <3>1, <5>1
      <4> QED
        BY <2>2, <4>1, <4>2, <4>3
    <3> QED
      BY <2>1, <2>3, <3>2 DEF Progress, Searched
  <2>4. Progress'
    BY <1>1, <1>2, <2>1, <2>2, <2>3 DEF Progress, InSearch, Contract, input
  <2>5. InTable'
    <3>1. Clamped = 0 /\ Clamped' = 0 /\ step # "failed"
      BY <2>1, <2>2 DEF Clamped
    <3> SUFFICES ASSUME AllGrow
                 PROVE (\A i \in DOMAIN results : results[i].runs = RunsAfter(results[i].contract, Clamped))'
      BY <1>1, AllGrowStays DEF InTable
    <3> QED
      BY <1>1, <3>1, RunsAfterStays DEF InTable
  <2> QED
    BY <2>4, <2>5
<1> QED
  BY <1>3, <1>4, <1>5

-----------------------------------------------------------------------------
(* The groups                                                              *)

(* Groups apart, a member has its group's members for mates after its      *)
(* group and itself before; for the others nothing changes.                *)
LEMMA MatesOfGroup ==
  ASSUME TypeOK, GroupsApart, NEW n \in Nat, n + 1 \in DOMAIN Groups,
         NEW c \in selected, 1 \in fits[c]
  PROVE  /\ c \in Groups[n + 1] =>
              /\ RunsAfter(c, n) = Best(c)
              /\ MatesWithin(c, n + 1) = {d \in selected : 1 \in fits[d] /\ d \in Groups[n + 1]}
         /\ c \notin Groups[n + 1] => RunsAfter(c, n + 1) = RunsAfter(c, n)
<1>1. \A g \in DOMAIN Groups : g \in Nat /\ (g <= n + 1 <=> g <= n \/ g = n + 1)
  BY Zenon, SMT
<1>2. CASE c \in Groups[n + 1]
  <2>1. \A g \in DOMAIN Groups : c \in Groups[g] => g = n + 1
    BY <1>2 DEF GroupsApart
  <2>2. MatesWithin(c, n) = {c} /\ MatesWithin(c, 0) = {c}
    <3>1. ~ (n + 1 <= n) /\ ~ (n + 1 <= 0)
      OBVIOUS
    <3> QED
      BY <2>1, <3>1 DEF MatesWithin
  <2>3. RunsAfter(c, n) = Best(c)
    <3>1. RunsAfter(c, n) = RunsAfter(c, 0)
      BY <2>2 DEF RunsAfter
    <3> QED
      BY <3>1, OwnBest, SelectedNamed
  <2>4. n + 1 <= n + 1
    OBVIOUS
  <2>5. \A d : (\E g \in DOMAIN Groups : g <= n + 1 /\ {c, d} \subseteq Groups[g]) <=> d \in Groups[n + 1]
    BY <1>2, <2>1, <2>4
  <2>6. MatesWithin(c, n + 1) = {d \in selected : 1 \in fits[d] /\ d \in Groups[n + 1]}
    BY <1>2, <2>5 DEF MatesWithin
  <2> QED
    BY <1>2, <2>3, <2>6
<1>3. CASE c \notin Groups[n + 1]
  <2>1. \A d : \A g \in DOMAIN Groups : {c, d} \subseteq Groups[g] => (g <= n + 1 <=> g <= n)
    BY <1>1, <1>3
  <2>2. MatesWithin(c, n + 1) = MatesWithin(c, n)
    BY <2>1 DEF MatesWithin
  <2> QED
    BY <1>3, <2>2 DEF RunsAfter
<1> QED
  BY <1>2, <1>3

(* Before the group, a result is for some runs where anything fits.        *)
LEMMA AbleFits ==
  ASSUME BestInv, AllGrow, step = "clamp", NEW i \in DOMAIN results
  PROVE  /\ results[i].contract \in selected /\ results[i].runs \in Nat
         /\ results[i].runs = RunsAfter(results[i].contract, at)
         /\ results[i].runs # NoRuns <=> 1 \in fits[results[i].contract]
<1> DEFINE c == results[i].contract
<1>1. results[i] \in Result /\ TypeOK /\ at \in Nat
  BY DEF BestInv, IInv, TypeOK
<1>2. results[i].runs \in Nat /\ c \in selected /\ c \in Names
  BY <1>1, SelectedNamed DEF BestInv, Progress, Result
<1>3. results[i].runs = RunsAfter(c, at)
  BY DEF BestInv, InTable, Clamped
<1>4. CASE 1 \in fits[c]
  <2> HIDE DEF c
  <2>1. RunsAfter(c, at) \in Nat \ {0}
    BY <1>1, <1>2, <1>4, MatesBest
  <2> QED
    BY <1>2, <1>3, <1>4, <2>1 DEF NoRuns, c
<1>5. CASE 1 \notin fits[c]
  BY <1>2, <1>3, <1>5 DEF RunsAfter
<1> QED
  BY <1>2, <1>3, <1>4, <1>5

(* The group's least is the least of the bests of a member's mates.        *)
LEMMA LeastOfGroup ==
  ASSUME BestInv, AllGrow, GroupsApart, step = "clamp", at + 1 \in DOMAIN Groups,
         NEW able, able = {i \in Members(Groups[at + 1]) : results[i].runs # NoRuns},
         NEW i \in able
  PROVE  Least(able) = RunsAfter(results[i].contract, at + 1)
<1> DEFINE group == Groups[at + 1]
           c     == results[i].contract
           m     == Least(able)
<1>1. TypeOK /\ at \in Nat /\ results \in Seq(Result) /\ able \subseteq DOMAIN results
  BY DEF BestInv, IInv, TypeOK, Members
<1>2. ASSUME NEW k \in able
      PROVE  /\ results[k].contract \in selected /\ 1 \in fits[results[k].contract]
             /\ results[k].contract \in group
             /\ results[k].runs = Best(results[k].contract)
  <2>1. k \in DOMAIN results /\ results[k].contract \in group /\ results[k].runs # NoRuns
    BY <1>2 DEF Members
  <2>2. /\ results[k].contract \in selected /\ 1 \in fits[results[k].contract]
        /\ results[k].runs = RunsAfter(results[k].contract, at)
    BY <2>1, AbleFits
  <2> QED
    BY <1>1, <2>1, <2>2, MatesOfGroup
<1>3. ASSUME NEW d \in selected, 1 \in fits[d], d \in group
      PROVE  \E k \in able : results[k].contract = d
  <2>1. d \in Names
    BY <1>1, SelectedNamed
  <2>2. PICK k \in DOMAIN Contracts : Contracts[k] = d
    BY <2>1 DEF Names
  <2>3. IsReported(d)
    BY <1>3, <2>2 DEF BestInv, Progress, Searched
  <2>4. PICK j \in DOMAIN results : results[j].contract = d
    BY <2>3 DEF IsReported
  <2>5. results[j].runs # NoRuns
    BY <1>3, <2>4, AbleFits
  <2> QED
    BY <1>3, <2>4, <2>5 DEF Members
<1>4. /\ m \in {results[k].runs : k \in able}
      /\ \A k \in able : m <= results[k].runs
  <2> HIDE DEF m
  <2>1. ASSUME NEW k \in able
        PROVE  Least(able) \in {results[j].runs : j \in able} /\ Least(able) <= results[k].runs
    BY <1>1, LeastOfResults
  <2> QED
    BY <2>1 DEF m
<1>5. c \in selected /\ 1 \in fits[c] /\ c \in group /\ c \in Names
  BY <1>1, <1>2, SelectedNamed
<1>6. MatesWithin(c, at + 1) = {d \in selected : 1 \in fits[d] /\ d \in group}
  <2> HIDE DEF c
  <2> QED
    BY <1>1, <1>5, MatesOfGroup
<1> HIDE DEF c, m, group
<1>7. \E d \in MatesWithin(c, at + 1) : m = Best(d)
  <2>1. PICK k \in able : m = results[k].runs
    BY <1>4
  <2> QED
    BY <1>2, <1>6, <2>1
<1>8. \A d \in MatesWithin(c, at + 1) : m <= Best(d)
  BY <1>2, <1>3, <1>4, <1>6
<1>9. m \in Nat
  <2>1. \A k \in able : results[k].runs \in Nat
    BY <1>1 DEF Result
  <2> QED
    BY <1>4, <2>1
<1>10. at + 1 \in Nat
  BY <1>1
<1>11. RunsAfter(c, at + 1) = m
  BY <1>1, <1>5, <1>7, <1>8, <1>9, <1>10, RunsAfterIs
<1> QED
  BY <1>11 DEF c, m

LEMMA ClampIsBest ==
  ASSUME BestInv, GroupsApart, Clamp
  PROVE  Progress' /\ InTable'
<1> USE DEF BestInv
<1>1. /\ step = "clamp" /\ UNCHANGED input /\ TypeOK /\ at \in Nat /\ results \in Seq(Result)
      /\ at <= Len(Groups) /\ Len(Groups) \in Nat /\ DOMAIN Groups = 1..Len(Groups)
  BY DEF Clamp, input, IInv, TypeOK, Progress
<1>2. CASE step' = "done" /\ UNCHANGED <<at, results>> /\ ~ (at < Len(Groups))
  <2>1. Clamped = at /\ Clamped' = at
    BY <1>1, <1>2 DEF Clamped
  <2>2. \A c : IsReported(c)' = IsReported(c)
    BY <1>2 DEF IsReported
  <2>3. Progress'
    BY <1>1, <1>2, <2>2 DEF Progress, Searched, InSearch, input
  <2>4. InTable'
    <3> SUFFICES ASSUME AllGrow
                 PROVE (\A i \in DOMAIN results : results[i].runs = RunsAfter(results[i].contract, Clamped))'
      BY <1>1, AllGrowStays DEF InTable
    <3> QED
      BY <1>1, <1>2, <2>1, RunsAfterStays DEF InTable
  <2> QED
    BY <2>3, <2>4
<1>3. CASE step' = "clamp" /\ at' = at + 1 /\ at < Len(Groups) /\ ClampGroup(Groups[at + 1])
  <2> DEFINE able  == {i \in Members(Groups[at + 1]) : results[i].runs # NoRuns}
             least == Least(able)
  <2>1. results' = [i \in DOMAIN results |->
            IF i \in able /\ results[i].runs # least
              THEN [results[i] EXCEPT !.kind = "clamped", !.runs = least]
              ELSE results[i]]
    BY <1>3 DEF ClampGroup
  <2>2. at + 1 \in DOMAIN Groups
    BY <1>1, <1>3
  <2>3. ASSUME AllGrow, NEW i \in able PROVE least = RunsAfter(results[i].contract, at + 1)
    BY <1>1, <2>2, <2>3, LeastOfGroup
  <2>4. \A i : i \in able <=> i \in DOMAIN results /\ results[i].contract \in Groups[at + 1]
                              /\ results[i].runs # NoRuns
    BY DEF Members
  <2> HIDE DEF able, least
  <2>5. ASSUME NEW i \in DOMAIN results
        PROVE  /\ results'[i].contract = results[i].contract
               /\ results'[i].runs = IF i \in able THEN least ELSE results[i].runs
    <3>1. results[i] \in Result
      BY <1>1
    <3>2. CASE i \in able /\ results[i].runs # least
      <4>1. results'[i] = [contract |-> results[i].contract, kind |-> "clamped",
                           runs |-> least, measured |-> results[i].measured]
        BY <2>1, <3>1, <3>2 DEF Result
      <4> QED
        BY <3>2, <4>1
    <3>3. CASE ~ (i \in able /\ results[i].runs # least)
      BY <2>1, <3>3
    <3> QED
      BY <3>2, <3>3
  <2>6. DOMAIN results' = DOMAIN results
    BY <2>1
  <2>7. \A c : IsReported(c)' = IsReported(c)
    BY <2>5, <2>6 DEF IsReported
  <2>8. Progress'
    <3>1. \A i \in DOMAIN results' : results'[i].contract \in selected'
      BY <1>1, <2>5, <2>6 DEF Progress, input
    <3>2. at' <= Len(Groups)
      BY <1>1, <1>3
    <3> QED
      BY <1>1, <1>3, <2>7, <3>1, <3>2 DEF Progress, Searched, InSearch, input
  <2>9. InTable'
    <3>1. Clamped = at /\ Clamped' = at + 1
      BY <1>1, <1>3 DEF Clamped
    <3> SUFFICES ASSUME AllGrow
                 PROVE (\A i \in DOMAIN results : results[i].runs = RunsAfter(results[i].contract, Clamped))'
      BY <1>1, AllGrowStays DEF InTable
    <3>2. ASSUME NEW i \in DOMAIN results
          PROVE  results'[i].runs = RunsAfter(results[i].contract, at + 1)
      <4> DEFINE c == results[i].contract
      <4>1. /\ c \in selected /\ results[i].runs = RunsAfter(c, at)
            /\ results[i].runs # NoRuns <=> 1 \in fits[c]
        BY <1>1, AbleFits
      <4>2. CASE i \in able
        BY <2>3, <2>5, <4>2
      <4>3. CASE i \notin able /\ 1 \in fits[c]
        <5>1. c \notin Groups[at + 1]
          BY <2>4, <4>1, <4>3
        <5> HIDE DEF c
        <5>2. RunsAfter(c, at + 1) = RunsAfter(c, at)
          BY <1>1, <2>2, <4>1, <4>3, <5>1, MatesOfGroup
        <5> QED
          BY <2>5, <4>1, <4>3, <5>2 DEF c
      <4>4. CASE i \notin able /\ 1 \notin fits[c]
        BY <2>5, <4>1, <4>4 DEF RunsAfter
      <4> QED
        BY <4>2, <4>3, <4>4
    <3>3. \A i \in DOMAIN results' : results'[i].runs = RunsAfter(results'[i].contract, at + 1)
      BY <2>5, <2>6, <3>2
    <3> QED
      BY <1>1, <3>1, <3>3, RunsAfterStays
  <2> QED
    BY <2>8, <2>9
<1> QED
  BY <1>1, <1>2, <1>3 DEF Clamp

LEMMA InitBestInv == Init => BestInv
<1> SUFFICES ASSUME Init PROVE Progress /\ InTable
  BY InitIInv DEF BestInv
<1>1. step = "next" /\ at = 0 /\ results = <<>> /\ DOMAIN results = {}
  BY DEF Init
<1>2. \A k \in DOMAIN Contracts : ~ (k <= 0)
  OBVIOUS
<1> QED
  BY <1>1, <1>2 DEF Progress, InTable, Searched, InSearch

LEMMA StepBestInv ==
  ASSUME GroupsApart
  PROVE  BestInv /\ [Next]_vars => BestInv'
<1> SUFFICES ASSUME BestInv, [Next]_vars PROVE BestInv'
  OBVIOUS
<1>1. IInv'
  BY StepIInv DEF BestInv
<1>2. Progress' /\ InTable'
  BY SearchIsBest, NextIsBest, ClampIsBest DEF Next, Run
<1> QED
  BY <1>1, <1>2 DEF BestInv

(* In the end every group is done.                                         *)
LEMMA BestInvRecommends ==
  ASSUME BestInv
  PROVE  Recommended
<1> SUFFICES ASSUME step = "done", AllGrow, NEW i \in DOMAIN results
             PROVE  LET c == results[i].contract
                    IN  results[i].runs =
                          IF 1 \notin fits[c] THEN NoRuns ELSE Min({Best(d) : d \in Mates(c)})
  BY DEF Recommended, AllGrow
<1> DEFINE c == results[i].contract
<1>1. results[i].runs = RunsAfter(c, Len(Groups))
  BY DEF BestInv, InTable, Clamped
<1>2. \A g \in DOMAIN Groups : g <= Len(Groups)
  OBVIOUS
<1>3. MatesWithin(c, Len(Groups)) = Mates(c)
  BY <1>2 DEF MatesWithin, Mates
<1> QED
  BY <1>1, <1>3 DEF RunsAfter

(* For code that grows with the runs, and groups with no member in common, *)
(* the table has for every contract the highest value that fits, and for   *)
(* the members of a group the least of theirs: main's clamping comes to    *)
(* that whatever the order of the contracts and of the groups.             *)
THEOREM BestIsRecommended ==
  ASSUME GroupsApart
  PROVE  Spec => []Recommended
  BY InitBestInv, StepBestInv, BestInvRecommends, PTL DEF Spec
=============================================================================
