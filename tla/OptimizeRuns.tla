---------------------------- MODULE OptimizeRuns ----------------------------
(* script/optimize_runs.py: for each contract, a binary search for the     *)
(* highest optimizer runs whose runtime bytecode is within the limit; then *)
(* contracts that share creation code are clamped to one number.  Of the   *)
(* size that the compiler gives for a number of runs, only whether it is   *)
(* within the limit matters.                                               *)
EXTENDS Integers, FiniteSets, Sequences, FiniteSetsExt

CONSTANTS
    Contracts,      \* logicContracts, in the order of the config
    MaxRuns,        \* --max-runs
    Sizes,          \* sets of runs that may fit
    Currents,       \* optimizeRuns a config may have
    Selections,     \* --contracts: sets of names
    Groups          \* sharedCreationCode: sets of names, in order

Names == {Contracts[i] : i \in DOMAIN Contracts}

ASSUME ConstantsAssumption ==
    /\ Contracts \in Seq(Names)
    /\ \A i, j \in DOMAIN Contracts : Contracts[i] = Contracts[j] => i = j
    /\ MaxRuns \in Nat \ {0}
    /\ Currents \subseteq Nat \ {0}
    /\ \A s \in Sizes : s \subseteq Nat \ {0}
    /\ Selections \subseteq SUBSET Names
    /\ Groups \in Seq(SUBSET Names)

Kinds == {"lower_bound", "exact", "too_large", "clamped"}

(* Stands for None.                                                        *)
NoRuns == 0

Result ==
    {r \in [contract : Names, kind : Kinds, runs : Nat, measured : Nat \ {0}] :
        r.kind = "too_large" <=> r.runs = NoRuns}

VARIABLES
    fits,       \* per contract, the runs whose code is within the limit
    current,    \* per contract, optimizeRuns
    selected,   \* the contracts to optimize
    step,       \* what main does next
    at,         \* contract, then group, it is at
    lo, hi,     \* find_max_runs
    results     \* one for each contract searched

vars == <<fits, current, selected, step, at, lo, hi, results>>

input == <<fits, current, selected>>

Contract == Contracts[at]

Report(kind, runs, measured) ==
    /\ results' = Append(results, [contract |-> Contract, kind |-> kind,
                                   runs |-> runs, measured |-> measured])
    /\ step' = "next"

-----------------------------------------------------------------------------
Init ==
    /\ fits \in [Names -> Sizes]
    /\ current \in [Names -> Currents]
    /\ selected \in Selections
    /\ step = "next" /\ at = 0
    /\ lo = 0 /\ hi = 0
    /\ results = <<>>

(* The next contract, unless it is not selected; after the last one, the   *)
(* groups.                                                                 *)
NextContract ==
    /\ step = "next"
    /\ IF at < Len(Contracts)
         THEN /\ at' = at + 1
              /\ step' = IF Contracts[at + 1] \in selected THEN "current" ELSE "next"
         ELSE at' = 0 /\ step' = "clamp"
    /\ UNCHANGED <<input, lo, hi, results>>

(* What the config has now, which may be beyond the range of the search.   *)
MeasureCurrent ==
    /\ step = "current"
    /\ IF current[Contract] > MaxRuns /\ current[Contract] \in fits[Contract]
         THEN Report("lower_bound", current[Contract], current[Contract])
         ELSE step' = "max" /\ UNCHANGED results
    /\ UNCHANGED <<input, at, lo, hi>>

MeasureMax ==
    /\ step = "max"
    /\ IF MaxRuns \in fits[Contract]
         THEN Report("lower_bound", MaxRuns, MaxRuns)
         ELSE step' = "min" /\ UNCHANGED results
    /\ UNCHANGED <<input, at, lo, hi>>

MeasureMin ==
    /\ step = "min"
    /\ IF 1 \in fits[Contract]
         THEN step' = "search" /\ lo' = 1 /\ hi' = MaxRuns /\ UNCHANGED results
         ELSE Report("too_large", NoRuns, 1) /\ UNCHANGED <<lo, hi>>
    /\ UNCHANGED <<input, at>>

(* Mutant: the loop goes on while the bracket is not empty.                *)
OpenUntilEmpty == lo < hi

Open == lo + 1 < hi

(* Mutant: too large at mid is taken for the lower end.                    *)
NarrowedSwapped(mid) ==
    IF mid \in fits[Contract] THEN lo' = lo /\ hi' = mid
                              ELSE lo' = mid /\ hi' = hi

Narrowed(mid) ==
    IF mid \in fits[Contract] THEN lo' = mid /\ hi' = hi
                              ELSE lo' = lo /\ hi' = mid

Bisect ==
    /\ step = "search" /\ Open
    /\ Narrowed((lo + hi) \div 2)
    /\ UNCHANGED <<input, step, at, results>>

Found ==
    /\ step = "search" /\ ~Open
    /\ Report("exact", lo, lo)
    /\ UNCHANGED <<input, at, lo, hi>>

(* A build fails: the script exits with no table.                          *)
BuildFails ==
    /\ step \in {"current", "max", "min", "search"}
    /\ step' = "failed"
    /\ UNCHANGED <<input, at, lo, hi, results>>

Members(group) == {i \in DOMAIN results : results[i].contract \in group}

(* Mutant: a group is clamped to what its first member could have.         *)
LeastIsFirst(is) == results[Min(is)].runs

Least(is) == Min({results[i].runs : i \in is})

(* Mutant: a member for which nothing fits counts as one for zero runs.    *)
ClampWholeGroup(group) ==
    results' = [i \in DOMAIN results |->
        IF i \in Members(group) /\ results[i].runs # Least(Members(group))
          THEN [results[i] EXCEPT !.kind = "clamped", !.runs = Least(Members(group))]
          ELSE results[i]]

(* Members for which nothing fits are left as they are.                    *)
ClampGroup(group) ==
    LET able == {i \in Members(group) : results[i].runs # NoRuns}
    IN  results' = [i \in DOMAIN results |->
            IF i \in able /\ results[i].runs # Least(able)
              THEN [results[i] EXCEPT !.kind = "clamped", !.runs = Least(able)]
              ELSE results[i]]

Clamp ==
    /\ step = "clamp"
    /\ IF at < Len(Groups)
         THEN at' = at + 1 /\ ClampGroup(Groups[at + 1]) /\ UNCHANGED step
         ELSE step' = "done" /\ UNCHANGED <<at, results>>
    /\ UNCHANGED <<input, lo, hi>>

Run ==
    \/ NextContract
    \/ MeasureCurrent \/ MeasureMax \/ MeasureMin \/ Bisect \/ Found
    \/ Clamp

Next == Run \/ BuildFails

(* The script keeps running; no build has to fail.                         *)
Spec == Init /\ [][Next]_vars /\ WF_vars(Run)

-----------------------------------------------------------------------------
TypeOK ==
    /\ fits \in [Names -> Sizes] /\ current \in [Names -> Currents]
    /\ selected \in Selections
    /\ step \in {"next", "current", "max", "min", "search", "clamp", "done", "failed"}
    /\ at \in Nat /\ lo \in Nat /\ hi \in Nat
    /\ results \in Seq(Result)

(* Whatever the compiler makes of a number of runs, larger or smaller than *)
(* for one less: during the search lo fits and hi does not, and a result   *)
(* that was not clamped fits, with the next number too large or outside    *)
(* the range that was searched.                                            *)
EndsHold ==
    step = "search" => /\ lo \in fits[Contract] /\ hi \notin fits[Contract]
                       /\ 0 < lo /\ lo < hi /\ hi <= MaxRuns

ResultHolds(r) ==
    CASE r.kind = "exact"       -> r.runs \in fits[r.contract] /\ r.runs + 1 \notin fits[r.contract]
      [] r.kind = "lower_bound" -> r.runs \in fits[r.contract] /\ r.runs >= MaxRuns
      [] r.kind = "too_large"   -> 1 \notin fits[r.contract] /\ MaxRuns \notin fits[r.contract]
      [] r.kind = "clamped"     -> r.runs <= r.measured

Bracketed == EndsHold /\ \A i \in DOMAIN results : ResultHolds(results[i])

(* The compiler's code grows with the runs.                                *)
Monotone(c) == \A r \in fits[c] : \A q \in 1..r : q \in fits[c]

(* The most runs that fit, of those the script looks at.                   *)
Best(c) ==
    Max({r \in 1..MaxRuns : r \in fits[c]} \cup ({current[c]} \cap fits[c]))

(* Module docstring: the highest value that fits, and every member of a    *)
(* group at the minimum found in the group.  So it is for code that grows  *)
(* with the runs, among the members that are searched and fit at all.      *)
Mates(c) ==
    {c} \cup {d \in selected : 1 \in fits[d] /\ \E g \in DOMAIN Groups : {c, d} \subseteq Groups[g]}

Recommended ==
    step = "done" /\ (\A c \in selected : Monotone(c)) =>
        \A i \in DOMAIN results :
            LET c == results[i].contract
            IN  results[i].runs =
                    IF 1 \notin fits[c] THEN NoRuns ELSE Min({Best(d) : d \in Mates(c)})

(* A contract is searched for in finitely many builds.                     *)
Terminates == <>(step \in {"done", "failed"})
=============================================================================
