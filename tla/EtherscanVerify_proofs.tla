----------------------- MODULE EtherscanVerify_proofs -----------------------
(* Proofs about EtherscanVerify, for any contracts, selections, retries    *)
(* and polls.                                                              *)
EXTENDS EtherscanVerify, TLAPS

USE ConstantsAssumption

-----------------------------------------------------------------------------
Working == {"forge", "source", "submit", "poll"}

(* While it works on a contract there is one.  A contract that has been    *)
(* passed and is not reported as failed is where its script leaves it.     *)
AtContract == step \in Working => at \in DOMAIN Contracts

Handed(c) ==
    \/ explorer[c] = "verified"
    \/ script = "v1" /\ explorer[c] # "none"

Passed(i) == IF step = "next" THEN i <= at ELSE i < at

PassedAreHanded ==
    step \notin {"ended"} /\ failures = 0 =>
        \A i \in DOMAIN Contracts : Passed(i) /\ Contracts[i] \in asked => Handed(Contracts[i])

(* v1 does not poll and v2 does not go through forge.                      *)
OwnSteps ==
    /\ step = "forge" => script = "v1"
    /\ step \in {"source", "submit", "poll"} => script = "v2"

Types ==
    /\ explorer \in [Names -> {"none", "forged", "queued", "verified", "rejected"}]
    /\ script \in {"v1", "v2"} /\ served \in BOOLEAN /\ asked \in Selections \cup {{}}
    /\ at \in 0..Len(Contracts)
    /\ step \in Working \cup {"next", "ended"}
    /\ tries \in 0..(ApiTries - 1)
    /\ polls \in 0..MaxPolls /\ (step \in Working => polls < MaxPolls)
    /\ failures \in Nat /\ failures <= at
    /\ (step \in Working => failures < at)
    /\ code \in {0, 1}

IInv == Types /\ AtContract /\ OwnSteps /\ PassedAreHanded /\ ExitZeroMeansVerified

LEMMA InitIInv == Init => IInv
<1> SUFFICES ASSUME Init PROVE IInv
  OBVIOUS
<1>1. ApiTries \in Nat \ {0} /\ MaxPolls \in Nat \ {0} /\ Len(Contracts) \in Nat
  OBVIOUS
<1>2. /\ explorer \in [Names -> {"none", "forged", "queued", "verified", "rejected"}]
      /\ served \in BOOLEAN
  BY Zenon DEF Init
<1>3. Types
  BY <1>1, <1>2 DEF Init, Types, Working
<1> QED
  BY <1>3 DEF Init, IInv, Working, AtContract, OwnSteps, PassedAreHanded,
              ExitZeroMeansVerified

LEMMA TypesAreOK == Types => TypeOK
  BY DEF Types, TypeOK, Working

(* A step within a run.                                                    *)
Within ==
    NextContract \/ Crash \/ Unanswered \/ Forge \/ V2 \/ \E c \in Names : Judge(c)

LEMMA ContractIsNamed ==
  ASSUME Types, AtContract, step \in Working
  PROVE  Contract \in Names /\ at \in 1..Len(Contracts)
  BY DEF AtContract, Contract, Names, Types

LEMMA TypesKept == Types /\ AtContract /\ [Next]_vars => Types'
<1> SUFFICES ASSUME Types, AtContract, [Next]_vars PROVE Types'
  OBVIOUS
<1> USE DEF Types, Working
<1>1. ASSUME NEW s \in {"v1", "v2"}, NEW chosen \in Selections,
             NEW well \in BOOLEAN, Start(s, chosen, well)
      PROVE  Types'
  BY <1>1 DEF Start, Begins
<1>2. CASE NextContract
  BY <1>2 DEF NextContract, Begins, Exits, ExitCode
<1>3. CASE Crash \/ Unanswered
  BY <1>3 DEF Crash, Unanswered, Begins, Exits, run
<1>4. CASE Forge
  BY <1>4, ContractIsNamed
  DEF Forge, ForgeAccepted, ForgeRefused, Succeeds, Fails, Begins, run
<1>5. CASE Limited
  BY <1>5 DEF Limited, MoreTries, run
<1>6. CASE LimitedToTheEnd
  BY <1>6 DEF LimitedToTheEnd, Fails, Begins, run
<1>7. CASE GetSource
  BY <1>7 DEF GetSource, Begins, run
<1>8. CASE SubmitAccepted \/ SubmitRefused
  BY <1>8, ContractIsNamed DEF SubmitAccepted, SubmitRefused, Fails, Begins, run
<1>9. CASE Poll
  BY <1>9 DEF Poll, StillPending, Verdict, Succeeds, Fails, Begins, run
<1>10. ASSUME NEW c \in Names, Judge(c) PROVE Types'
  BY <1>10 DEF Judge, run
<1>11. CASE UNCHANGED vars
  BY <1>11 DEF vars
<1> QED
  BY <1>1, <1>2, <1>3, <1>4, <1>5, <1>6, <1>7, <1>8, <1>9, <1>10, <1>11 DEF Next, V2

LEMMA PlacesKept ==
  Types /\ AtContract /\ OwnSteps /\ [Next]_vars => AtContract' /\ OwnSteps'
<1> SUFFICES ASSUME Types, AtContract, OwnSteps, [Next]_vars
             PROVE  AtContract' /\ OwnSteps'
  OBVIOUS
<1> USE DEF Types, Working, AtContract, OwnSteps, Begins
<1>1. ASSUME NEW s \in {"v1", "v2"}, NEW chosen \in Selections,
             NEW well \in BOOLEAN, Start(s, chosen, well)
      PROVE  AtContract' /\ OwnSteps'
  BY <1>1 DEF Start
<1>2. CASE NextContract
  BY <1>2 DEF NextContract, Exits
<1>3. CASE Crash \/ Unanswered \/ Forge
  BY <1>3 DEF Crash, Unanswered, Exits, Forge, ForgeAccepted, ForgeRefused, Succeeds, Fails, run
<1>4. CASE V2
  BY <1>4
  DEF V2, Limited, LimitedToTheEnd, GetSource, SubmitAccepted, SubmitRefused, Poll,
      Verdict, Succeeds, Fails, run
<1>5. CASE UNCHANGED <<run, step>>
  BY <1>5 DEF run
<1> QED
  BY <1>1, <1>2, <1>3, <1>4, <1>5 DEF Next, Judge, vars, run

(* The explorer does not take back what a script relies on.                *)
LEMMA HandedStays ==
  ASSUME Types, AtContract, OwnSteps, Within, NEW c \in Names, Handed(c)
  PROVE  Handed(c)' /\ UNCHANGED <<script, asked>>
<1> USE DEF Types, Handed
<1>1. CASE NextContract
  BY <1>1 DEF NextContract
<1>2. CASE Crash \/ Unanswered
  BY <1>2 DEF Crash, Unanswered, run
<1>3. CASE Forge
  BY <1>3, ContractIsNamed DEF Forge, ForgeAccepted, ForgeRefused, run, Working
<1>4. CASE V2
  BY <1>4, ContractIsNamed
  DEF V2, Limited, LimitedToTheEnd, GetSource, SubmitAccepted, SubmitRefused, Poll,
      run, Working
<1>5. ASSUME NEW d \in Names, Judge(d) PROVE Handed(c)' /\ UNCHANGED <<script, asked>>
  BY <1>5 DEF Judge, run
<1> QED
  BY <1>1, <1>2, <1>3, <1>4, <1>5 DEF Within

(* A contract is passed only when it is handed over or counted as failed.  *)
LEMMA PassingHands ==
  ASSUME IInv, Within, step' # "ended", failures' = 0
  PROVE  /\ step # "ended" /\ failures = 0
         /\ \A i \in DOMAIN Contracts :
              Passed(i)' /\ Contracts[i] \in asked => Passed(i) \/ Handed(Contracts[i])'
<1> USE DEF IInv, Types, Working, Passed, Begins
<1>1. CASE NextContract
  BY <1>1 DEF NextContract, Exits
<1>2. CASE Crash \/ Unanswered
  BY <1>2 DEF Crash, Unanswered, Exits
<1>3. CASE Forge
  <2>1. step = "forge" /\ at \in DOMAIN Contracts /\ UNCHANGED at
    BY <1>3 DEF Forge, ForgeAccepted, ForgeRefused, run, AtContract
  <2>2. step' = "next" /\ failures = 0 /\ Handed(Contract)'
    BY <1>3, <2>1, ContractIsNamed
    DEF Forge, ForgeAccepted, ForgeRefused, Succeeds, Fails, Handed, Contract, run, OwnSteps
  <2> QED
    BY <2>1, <2>2 DEF Contract, Passed
<1>4. CASE V2 /\ step' = "next"
  <2>1. step \in Working /\ at \in DOMAIN Contracts /\ UNCHANGED at
    BY <1>4
    DEF V2, Limited, LimitedToTheEnd, GetSource, SubmitAccepted, SubmitRefused, Poll,
        run, AtContract
  <2>2. failures = 0 /\ Handed(Contract)'
    BY <1>4, <2>1, ContractIsNamed
    DEF V2, Limited, LimitedToTheEnd, GetSource, SubmitAccepted, SubmitRefused, Poll,
        Verdict, Succeeds, Fails, Handed, Contract, run
  <2> QED
    BY <2>1, <2>2, <1>4 DEF Contract, Passed
<1>5. CASE V2 /\ step' # "next"
  BY <1>5
  DEF V2, Limited, LimitedToTheEnd, GetSource, SubmitAccepted, SubmitRefused, Poll,
      Verdict, Succeeds, Fails, run
<1>6. ASSUME NEW c \in Names, Judge(c)
      PROVE  /\ step # "ended" /\ failures = 0
             /\ \A i \in DOMAIN Contracts : Passed(i)' => Passed(i)
  BY <1>6 DEF Judge, run
<1> QED
  BY <1>1, <1>2, <1>3, <1>4, <1>5, <1>6 DEF Within

LEMMA StepIInv == IInv /\ [Next]_vars => IInv'
<1> SUFFICES ASSUME IInv, [Next]_vars PROVE IInv'
  OBVIOUS
<1>1. Types' /\ AtContract' /\ OwnSteps'
  BY TypesKept, PlacesKept DEF IInv
<1>2. \A i \in DOMAIN Contracts : Contracts[i] \in Names
  BY DEF Names
<1>3. ASSUME NEW s \in {"v1", "v2"}, NEW chosen \in Selections,
             NEW well \in BOOLEAN, Start(s, chosen, well)
      PROVE  PassedAreHanded' /\ ExitZeroMeansVerified'
  BY <1>3 DEF Start, Begins, PassedAreHanded, Passed, ExitZeroMeansVerified
<1>4. CASE Within
  <2>1. PassedAreHanded'
    <3> SUFFICES ASSUME step' # "ended", failures' = 0,
                        NEW i \in DOMAIN Contracts, Passed(i)', Contracts[i] \in asked'
                 PROVE  Handed(Contracts[i])'
      BY DEF PassedAreHanded
    <3>1. Contracts[i] \in Names /\ asked' = asked
      BY <1>2, <1>4
      DEF Within, NextContract, Crash, Unanswered, Forge, ForgeAccepted, ForgeRefused, V2, Limited,
          LimitedToTheEnd, GetSource, SubmitAccepted, SubmitRefused, Poll, Judge, run
    <3>2. step # "ended" /\ failures = 0 /\ (Passed(i) \/ Handed(Contracts[i])')
      BY <1>4, <3>1, PassingHands
    <3> QED
      BY <1>4, <3>1, <3>2, HandedStays DEF IInv, PassedAreHanded
  <2>2. ASSUME step = "ended" PROVE ExitZeroMeansVerified'
    <3>1. \E c \in Names : Judge(c)
      BY <1>4, <2>2
      DEF Within, NextContract, Crash, Unanswered, Forge, ForgeAccepted, ForgeRefused, V2, Limited,
          LimitedToTheEnd, GetSource, SubmitAccepted, SubmitRefused, Poll
    <3>2. UNCHANGED <<step, code, script, asked>>
      BY <3>1 DEF Judge, run, IInv, Types
    <3>3. \A c \in Names : Handed(c) => Handed(c)'
      BY <1>4, HandedStays DEF IInv
    <3> QED
      BY <2>2, <3>2, <3>3 DEF IInv, ExitZeroMeansVerified, Handed
  <2>3. ASSUME step # "ended", step' = "ended", code' = 0
        PROVE  ExitZeroMeansVerified'
    <3>1. NextContract /\ failures = 0 /\ at = Len(Contracts) /\ step = "next"
      BY <1>4, <2>3
      DEF Within, NextContract, Exits, ExitCode, Crash, Unanswered, Forge, ForgeAccepted, ForgeRefused,
          V2, Limited, LimitedToTheEnd, GetSource, SubmitAccepted, SubmitRefused, Poll,
          Judge, Verdict, Succeeds, Fails, Begins, run, IInv, Types, Working
    <3>2. \A i \in DOMAIN Contracts : Contracts[i] \in asked => Handed(Contracts[i])
      BY <3>1 DEF IInv, PassedAreHanded, Passed, Types
    <3>3. \A c \in asked \cap Names : Handed(c)
      BY <3>2 DEF IInv, Types, Names
    <3> QED
      BY <3>1, <3>3 DEF NextContract, ExitZeroMeansVerified, Handed
  <2>4. ExitZeroMeansVerified'
    BY <2>2, <2>3 DEF ExitZeroMeansVerified
  <2> QED
    BY <1>1, <2>1, <2>4 DEF IInv
<1>5. CASE UNCHANGED vars
  <2>1. PassedAreHanded'
    BY <1>5 DEF vars, IInv, PassedAreHanded, Passed, Handed
  <2>2. ExitZeroMeansVerified'
    BY <1>5 DEF vars, IInv, ExitZeroMeansVerified
  <2> QED
    BY <1>1, <2>1, <2>2 DEF IInv
<1> QED
  BY <1>1, <1>3, <1>4, <1>5 DEF Next, Within, IInv

-----------------------------------------------------------------------------
LEMMA IInvHolds == Spec => []IInv
  BY InitIInv, StepIInv, PTL DEF Spec

(* Requests and polls stay within what api() and the loop of               *)
(* verify_etherscan_v2.py allow.                                           *)
THEOREM TypeCorrect == Spec => []TypeOK
  BY IInvHolds, TypesAreOK, PTL DEF IInv

(* v2 exits with zero only after all it was asked for is verified, whoever *)
(* had it verified, and v1 only after it was submitted.                    *)
THEOREM ExitCodeIsTrue == Spec => []ExitZeroMeansVerified
  BY IInvHolds, PTL DEF IInv

-----------------------------------------------------------------------------
(* The steps that are left                                                 *)

HIDE ConstantsAssumption

(* What the script does by itself; the explorer only judges.               *)
OwnStep == NextContract \/ Crash \/ Unanswered \/ Forge \/ V2

Judging == \E c \in Names : Judge(c)

(* A call of api() is answered after ApiTries requests at most.            *)
Calls(n) == n * (ApiTries + 1)

(* For the contract at hand: the calls to come, less the requests that the *)
(* present one has used up.                                                *)
LeftIn(s, t, p) ==
    CASE s = "source" -> Calls(MaxPolls + 2) - t
      [] s = "submit" -> Calls(MaxPolls + 1) - t
      [] s = "poll"   -> Calls(MaxPolls - p) - t
      [] s = "forge"  -> 1
      [] OTHER        -> 0

OwnStepsLeft == LeftIn(step, tries, polls)

ContractsLeft == Len(Contracts) - at

StepsLeft ==
    IF step = "ended" THEN 0
    ELSE 1 + ContractsLeft * (Calls(MaxPolls + 2) + 1) + OwnStepsLeft

LEMMA OneLess ==
  ASSUME NEW n \in Nat, NEW w \in Nat
  PROVE  n * w \in Nat /\ (n - 1) * w = n * w - w
  BY SMT

LEMMA LimitsArePositive == ApiTries \in Nat \ {0} /\ MaxPolls \in Nat \ {0}
  BY ConstantsAssumption

LEMMA LessThanTurn ==
  ASSUME NEW a \in Nat, NEW w \in Nat, NEW o \in Nat, o < w
  PROVE  1 + (a - w) + o < 1 + a
  BY SMT

LEMMA CallsGrow ==
  ASSUME NEW n \in Nat \ {0}
  PROVE  /\ Calls(n) \in Nat /\ Calls(n) > ApiTries /\ Calls(n - 1) \in Nat
         /\ Calls(n) = Calls(n - 1) + ApiTries + 1
<1> DEFINE w == ApiTries + 1
<1>1. w \in Nat /\ n \in Nat /\ n - 1 \in Nat
  BY LimitsArePositive
<1> HIDE DEF w
<1>2. n * w \in Nat /\ (n - 1) * w = n * w - w /\ (n - 1) * w \in Nat
  BY <1>1, OneLess
<1>3. Calls(n) = n * w /\ Calls(n - 1) = (n - 1) * w
  BY DEF Calls, w
<1>4. w = ApiTries + 1 /\ ApiTries \in Nat
  BY LimitsArePositive DEF w
<1> QED
  BY <1>1, <1>2, <1>3, <1>4

LEMMA CallsInOrder ==
  /\ MaxPolls \in Nat \ {0} /\ ApiTries \in Nat \ {0}
  /\ Calls(MaxPolls + 2) \in Nat /\ Calls(MaxPolls + 1) \in Nat /\ Calls(MaxPolls) \in Nat
  /\ Calls(MaxPolls + 2) = Calls(MaxPolls + 1) + ApiTries + 1
  /\ Calls(MaxPolls + 1) = Calls(MaxPolls) + ApiTries + 1
<1>1. /\ MaxPolls + 2 \in Nat \ {0} /\ MaxPolls + 1 \in Nat \ {0} /\ MaxPolls \in Nat \ {0}
      /\ (MaxPolls + 2) - 1 = MaxPolls + 1 /\ (MaxPolls + 1) - 1 = MaxPolls
  BY LimitsArePositive
<1> QED
  BY <1>1, CallsGrow, LimitsArePositive

LEMMA PollsInOrder ==
  ASSUME NEW p \in Nat
  PROVE  Calls(MaxPolls - p) \in Int /\ Calls(MaxPolls - p) <= Calls(MaxPolls)
<1> DEFINE w == ApiTries + 1
<1>1. w \in Nat /\ MaxPolls \in Nat
  BY LimitsArePositive
<1> HIDE DEF w
<1>2. (MaxPolls - p) * w = MaxPolls * w - p * w /\ p * w \in Nat /\ MaxPolls * w \in Nat
  BY <1>1, SMT
<1>3. Calls(MaxPolls) = MaxPolls * w /\ Calls(MaxPolls - p) = (MaxPolls - p) * w
  BY DEF Calls, w
<1> QED
  BY <1>2, <1>3

LEMMA LeftInBound ==
  ASSUME NEW s, NEW t \in 0..(ApiTries - 1), NEW p \in Nat, s \in Working => p < MaxPolls
  PROVE  LeftIn(s, t, p) \in 0..Calls(MaxPolls + 2) /\ (s \in Working => LeftIn(s, t, p) > 0)
<1>1. t \in Nat /\ t < ApiTries
  BY CallsInOrder
<1>2. CASE s = "poll"
  <2>1. MaxPolls - p \in Nat \ {0}
    BY <1>2, CallsInOrder DEF Working
  <2>2. Calls(MaxPolls - p) > ApiTries /\ Calls(MaxPolls - p) <= Calls(MaxPolls)
    BY <2>1, CallsGrow, PollsInOrder
  <2>3. LeftIn(s, t, p) = Calls(MaxPolls - p) - t
    BY <1>2 DEF LeftIn
  <2> QED
    BY <1>1, <2>2, <2>3, CallsInOrder, PollsInOrder
<1>3. CASE s = "source"
  BY <1>1, <1>3, CallsInOrder DEF LeftIn
<1>4. CASE s = "submit"
  BY <1>1, <1>4, CallsInOrder DEF LeftIn
<1>5. CASE s \notin {"poll", "source", "submit"}
  <2>1. LeftIn(s, t, p) = IF s = "forge" THEN 1 ELSE 0
    BY <1>5 DEF LeftIn
  <2> QED
    BY <1>1, <1>5, <2>1, CallsInOrder DEF Working
<1> QED
  BY <1>2, <1>3, <1>4, <1>5

LEMMA OwnStepsBound ==
  /\ Types => OwnStepsLeft \in 0..Calls(MaxPolls + 2) /\ (step \in Working => OwnStepsLeft > 0)
  /\ Types' => OwnStepsLeft' \in 0..Calls(MaxPolls + 2)
<1>1. Types => tries \in 0..(ApiTries - 1) /\ polls \in Nat /\ (step \in Working => polls < MaxPolls)
  BY CallsInOrder DEF Types
<1>2. Types' => tries' \in 0..(ApiTries - 1) /\ polls' \in Nat /\ (step' \in Working => polls' < MaxPolls)
  BY CallsInOrder DEF Types, Working
<1>3. OwnStepsLeft' = LeftIn(step', tries', polls')
  BY DEF OwnStepsLeft, LeftIn, Calls
<1> QED
  BY <1>1, <1>2, <1>3, LeftInBound DEF OwnStepsLeft

LEMMA StepsLeftNat == ASSUME Types PROVE StepsLeft \in Nat
<1>1. ContractsLeft \in Nat
  BY ConstantsAssumption DEF Types, ContractsLeft
<1>2. Calls(MaxPolls + 2) \in Nat
  BY CallsInOrder
<1>3. ContractsLeft * (Calls(MaxPolls + 2) + 1) \in Nat
  <2>1. Calls(MaxPolls + 2) + 1 \in Nat
    BY <1>2
  <2> QED
    BY <1>1, <2>1, OneLess
<1> QED
  BY <1>2, <1>3, OwnStepsBound DEF StepsLeft

(* Within a call, or from a call to the next.                              *)
LEMMA CallsRunOut ==
  ASSUME Types, V2, step' # "next"
  PROVE  /\ OwnStepsLeft' < OwnStepsLeft /\ OwnStepsLeft' \in Int
         /\ UNCHANGED at /\ step' # "ended" /\ step # "ended"
<1>1. tries \in Nat /\ tries < ApiTries /\ polls \in Nat
  BY CallsInOrder DEF Types
<1>2. OwnStepsLeft = LeftIn(step, tries, polls) /\ OwnStepsLeft' = LeftIn(step', tries', polls')
  BY DEF OwnStepsLeft, LeftIn, Calls
<1>3. CASE Limited
  <2>1. tries + 1 < ApiTries /\ tries' = (tries + 1) % ApiTries
    BY <1>1, <1>3, CallsInOrder DEF Limited, MoreTries
  <2>2. tries' = tries + 1
    BY <1>1, <2>1, CallsInOrder
  <2>3. step' = step /\ polls' = polls /\ at' = at /\ step \in {"source", "submit", "poll"}
    BY <1>3 DEF Limited, run
  <2>4. \E n \in {Calls(MaxPolls + 2), Calls(MaxPolls + 1), Calls(MaxPolls - polls)} :
          LeftIn(step, tries, polls) = n - tries /\ LeftIn(step, tries', polls) = n - tries'
    BY <2>3 DEF LeftIn
  <2> QED
    BY <1>1, <1>2, <2>2, <2>3, <2>4, CallsInOrder, PollsInOrder
<1>4. CASE GetSource \/ LimitedToTheEnd
  <2>1. step = "source" /\ step' = "submit" /\ tries' = 0 /\ at' = at
    BY <1>4 DEF GetSource, LimitedToTheEnd, Fails, Begins, run
  <2>2. OwnStepsLeft = Calls(MaxPolls + 2) - tries /\ OwnStepsLeft' = Calls(MaxPolls + 1) - 0
    BY <1>2, <2>1 DEF LeftIn
  <2> QED
    BY <1>1, <2>1, <2>2, CallsInOrder
<1>5. CASE SubmitAccepted \/ SubmitRefused
  <2>1. step = "submit" /\ step' = "poll" /\ tries' = 0 /\ at' = at /\ polls' = polls
    BY <1>5 DEF SubmitAccepted, SubmitRefused, Fails, Begins, run
  <2>2. OwnStepsLeft = Calls(MaxPolls + 1) - tries /\ OwnStepsLeft' = Calls(MaxPolls - polls) - 0
    BY <1>2, <2>1 DEF LeftIn
  <2> QED
    BY <1>1, <2>1, <2>2, CallsInOrder, PollsInOrder
<1>6. CASE Poll
  <2>1. /\ step = "poll" /\ step' = "poll" /\ tries' = 0 /\ at' = at
        /\ polls' = polls + 1 /\ polls + 1 < MaxPolls
    BY <1>6 DEF Poll, StillPending, Verdict, Succeeds, Fails, Begins, run
  <2> DEFINE left == MaxPolls - polls
  <2>2. left \in Nat \ {0} /\ MaxPolls - polls' = left - 1
    BY <1>1, <2>1, CallsInOrder
  <2>3. OwnStepsLeft = Calls(left) - tries /\ OwnStepsLeft' = Calls(left - 1) - 0
    BY <1>2, <2>1, <2>2 DEF LeftIn
  <2> HIDE DEF left
  <2>4. Calls(left) = Calls(left - 1) + ApiTries + 1 /\ Calls(left - 1) \in Nat
    BY <2>2, CallsGrow
  <2> QED
    BY <1>1, <2>1, <2>3, <2>4, CallsInOrder
<1> QED
  BY <1>3, <1>4, <1>5, <1>6 DEF V2

LEMMA StepsRunOut ==
  ASSUME Types, AtContract, OwnStep, Types'
  PROVE  StepsLeft' < StepsLeft
<1> DEFINE w == Calls(MaxPolls + 2) + 1
           rest == ContractsLeft * w
<1>1. /\ w \in Nat /\ ContractsLeft \in Nat /\ rest \in Nat
      /\ OwnStepsLeft \in Nat /\ OwnStepsLeft < w /\ OwnStepsLeft' \in Nat /\ OwnStepsLeft' < w
      /\ StepsLeft \in Nat
  <2>2. Calls(MaxPolls + 2) \in Nat
    BY CallsInOrder
  <2>3. ContractsLeft \in Nat
    BY ConstantsAssumption DEF Types, ContractsLeft
  <2>4. OwnStepsLeft \in 0..Calls(MaxPolls + 2)
    BY OwnStepsBound
  <2>5. OwnStepsLeft' \in 0..Calls(MaxPolls + 2)
    BY OwnStepsBound
  <2>6. w \in Nat
    BY <2>2
  <2>7. ContractsLeft * w \in Nat
    <3> HIDE DEF w
    <3> QED
      BY <2>3, <2>6, OneLess
  <2> QED
    BY <2>2, <2>3, <2>4, <2>5, <2>6, <2>7, StepsLeftNat
<1>2. step # "ended" => StepsLeft = 1 + rest + OwnStepsLeft
  BY DEF StepsLeft
<1>3. step' # "ended" => StepsLeft' = 1 + ContractsLeft' * w + OwnStepsLeft'
  BY DEF StepsLeft, Calls
<1>4. step # "ended" /\ step' = "ended" => StepsLeft' < StepsLeft
  <2>1. step' = "ended" => StepsLeft' = 0
    BY DEF StepsLeft
  <2> HIDE DEF w, rest
  <2> QED
    BY <1>1, <1>2, <2>1
<1>5. CASE NextContract
  <2>1. step = "next" /\ OwnStepsLeft = 0
    BY <1>5 DEF NextContract, OwnStepsLeft, LeftIn
  <2>2. CASE at < Len(Contracts)
    <3>1. at' = at + 1 /\ step' # "ended" /\ ContractsLeft > 0
      BY <1>5, <2>2, ConstantsAssumption DEF NextContract, Begins, ContractsLeft, Types
    <3>2. ContractsLeft' = ContractsLeft - 1
      BY <3>1 DEF ContractsLeft, Types
    <3>3. ContractsLeft' * w = rest - w
      <4> HIDE DEF w
      <4> QED
        BY <1>1, <3>2, OneLess
    <3> HIDE DEF rest
    <3>4. StepsLeft' = 1 + (rest - w) + OwnStepsLeft'
      BY <1>3, <3>1, <3>3
    <3>5. StepsLeft = 1 + rest + OwnStepsLeft
      BY <1>2, <2>1
    <3> HIDE DEF w
    <3>6. 1 + (rest - w) + OwnStepsLeft' < 1 + rest
      BY <1>1, LessThanTurn
    <3>7. StepsLeft = 1 + rest
      BY <1>1, <2>1, <3>5
    <3> QED
      BY <3>4, <3>6, <3>7
  <2>3. CASE ~ (at < Len(Contracts))
    <3>1. step' = "ended"
      BY <1>5, <2>3 DEF NextContract, Exits, Begins
    <3> QED
      BY <1>4, <2>1, <3>1
  <2> QED
    BY <2>2, <2>3
<1>6. CASE Crash \/ Unanswered
  <2>1. step # "ended" /\ step' = "ended"
    BY <1>6 DEF Crash, Unanswered, Exits, Begins
  <2> QED
    BY <1>4, <2>1
<1>7. CASE (Forge \/ V2) /\ step' = "next"
  <2>1. step \in Working /\ at' = at
    BY <1>7
    DEF Forge, ForgeAccepted, ForgeRefused, V2, Limited, LimitedToTheEnd, GetSource,
        SubmitAccepted, SubmitRefused, Poll, Working, run
  <2>2. OwnStepsLeft' = 0 /\ OwnStepsLeft > 0 /\ ContractsLeft' = ContractsLeft
    BY <1>7, <2>1, OwnStepsBound DEF OwnStepsLeft, LeftIn, ContractsLeft
  <2>3. ContractsLeft' * w = rest
    BY <2>2
  <2> HIDE DEF w, rest
  <2> QED
    BY <1>1, <1>2, <1>3, <1>7, <2>1, <2>2, <2>3 DEF Working
<1>8. CASE V2 /\ step' # "next"
  <2>1. OwnStepsLeft' < OwnStepsLeft /\ at' = at /\ step' # "ended" /\ step # "ended"
    BY <1>8, CallsRunOut
  <2>2. ContractsLeft' * w = rest
    BY <2>1 DEF ContractsLeft
  <2> HIDE DEF w, rest
  <2> QED
    BY <1>1, <1>2, <1>3, <2>1, <2>2
<1>9. Forge => step' = "next"
  BY DEF Forge, ForgeAccepted, ForgeRefused, Succeeds, Fails, Begins
<1> QED
  BY <1>5, <1>6, <1>7, <1>8, <1>9 DEF OwnStep

(* A run ends: each request, poll and contract uses up one of a number of  *)
(* steps that is fixed when it starts, and the explorer, whatever and      *)
(* whenever it judges, gives the script none back.                         *)
THEOREM RunsRunOut ==
  Spec => /\ [](StepsLeft \in Nat)
          /\ [][/\ OwnStep => StepsLeft' < StepsLeft
                /\ Judging => UNCHANGED StepsLeft]_vars
<1>1. IInv => StepsLeft \in Nat
  BY StepsLeftNat DEF IInv
<1>2. IInv /\ [Next]_vars =>
        [/\ OwnStep => StepsLeft' < StepsLeft
         /\ Judging => UNCHANGED StepsLeft]_vars
  <2> SUFFICES ASSUME IInv, [Next]_vars
               PROVE  /\ OwnStep => StepsLeft' < StepsLeft
                      /\ Judging => UNCHANGED StepsLeft
    OBVIOUS
  <2>1. OwnStep => StepsLeft' < StepsLeft
    BY StepsRunOut, TypesKept DEF IInv
  <2>2. Judging => UNCHANGED StepsLeft
    <3> SUFFICES ASSUME NEW c \in Names, Judge(c) PROVE UNCHANGED StepsLeft
      BY DEF Judging
    <3>1. UNCHANGED <<step, at, tries, polls>>
      BY DEF Judge, run
    <3> QED
      BY <3>1 DEF StepsLeft, ContractsLeft, OwnStepsLeft, LeftIn, Calls
  <2> QED
    BY <2>1, <2>2
<1> QED
  BY <1>1, <1>2, IInvHolds, PTL DEF Spec
=============================================================================
