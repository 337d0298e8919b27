-------------------------- MODULE EtherscanVerify --------------------------
(* script/verify_etherscan.py (v1, through forge) and verify_etherscan_v2  *)
(* .py (v2, through the API): the sources of the contracts of a config are *)
(* submitted to a block explorer that limits the rate of requests and      *)
(* takes its time.  Both scripts may be run again and again.               *)
EXTENDS Integers, Sequences

CONSTANTS
    Contracts,      \* logicContracts, in the order of the config
    Selections,     \* --contracts: sets of names, also of none in the config
    Metadata,       \* contracts with an $MD_ constructor argument
    Packaged,       \* whether v1 finds the metadata and where it is deployed
    Known,          \* whether forge knows the chain id
    Twins,          \* contracts with the same bytecode as a contract
    Mismatched,     \* contracts whose source and config cannot match
    ApiTries,       \* requests api() makes before it returns the last answer
    MaxPolls        \* polls of the status of a submission

Names == {Contracts[i] : i \in DOMAIN Contracts}

ASSUME ConstantsAssumption ==
    /\ Contracts \in Seq(Names)
    /\ Names \in Selections
    /\ Metadata \cup Mismatched \subseteq Names /\ Packaged \in BOOLEAN /\ Known \in BOOLEAN
    /\ \A c \in Names : c \in Twins[c]
    /\ {ApiTries, MaxPolls} \subseteq Nat \ {0}

VARIABLES
    explorer,   \* contract -> "none", "forged" (by forge only) or "queued",
                \* to be judged, "verified" or "rejected"
    script,     \* "v1" or "v2"
    served,     \* whether no request or command of the run fails
    asked,      \* the contracts to verify
    at,         \* the contract it is at
    step,       \* what it does next; "ended" when it is not running
    tries,      \* requests of this call that were over the rate limit
    polls,      \* polls of this submission
    failures,   \* contracts reported as failed
    code        \* exit code of the last run

vars == <<explorer, script, served, asked, at, step, tries, polls, failures, code>>
run  == <<script, served, asked, at>>

Contract == Contracts[at]

Begins(s) == step' = s /\ tries' = 0

Start(s, chosen, well) ==
    /\ step = "ended"
    /\ script' = s /\ served' = well /\ asked' = chosen /\ at' = 0
    /\ Begins("next")
    /\ polls' = 0 /\ failures' = 0
    /\ UNCHANGED <<explorer, code>>

Exits(n) == code' = n /\ Begins("ended")

(* Mutant: the exit code does not depend on what failed.                   *)
ExitCodeZero == 0

ExitCode == IF failures > 0 THEN 1 ELSE 0

NextContract ==
    /\ step = "next"
    /\ IF at < Len(Contracts)
         THEN /\ at' = at + 1
              /\ Begins(CASE Contracts[at + 1] \notin asked -> "next"
                          [] script = "v1" -> "forge"
                          [] OTHER -> "source")
              /\ UNCHANGED code
         ELSE Exits(ExitCode) /\ UNCHANGED at
    /\ polls' = 0
    /\ UNCHANGED <<explorer, script, served, asked, failures>>

Succeeds == Begins("next") /\ UNCHANGED failures

(* Mutant: the first failure ends the run.                                 *)
FailsAndEnds == Begins("ended") /\ failures' = failures + 1

Fails == Begins("next") /\ failures' = failures + 1

(* The constructor arguments of a contract are in the config or, for v1,   *)
(* read from the metadata.                                                 *)
Resolves(s, c) == c \notin Metadata \/ (s = "v1" /\ Packaged)

(* KeyError: the run ends with what it has done so far.                    *)
Crash ==
    /\ step \in {"forge", "submit"} /\ ~Resolves(script, Contract)
    /\ Exits(1)
    /\ UNCHANGED <<explorer, run, polls, failures>>

(* So does a request without an answer, or a command that fails.           *)
Unanswered ==
    /\ step \in {"forge", "source", "submit", "poll"} /\ ~served
    /\ Exits(1)
    /\ UNCHANGED <<explorer, run, polls, failures>>

(* v1: forge submits, or finds the contract verified, and does not wait.   *)
(* It refuses chain ids that it does not know.                             *)
ForgeAccepted ==
    /\ step = "forge" /\ Resolves(script, Contract) /\ Known
    /\ Succeeds
    /\ explorer' = IF explorer[Contract] \in {"verified", "queued"} THEN explorer
                   ELSE [explorer EXCEPT ![Contract] = "forged"]
    /\ UNCHANGED <<run, polls, code>>

ForgeRefused ==
    /\ step = "forge" /\ Resolves(script, Contract)
    /\ Fails
    /\ UNCHANGED <<explorer, run, polls, code>>

(* Mutant: api() repeats a request until it is not limited.                *)
MoreTriesAlways == TRUE

MoreTries == tries < ApiTries - 1

(* A request over the rate limit is repeated.                              *)
Limited ==
    /\ step \in {"source", "submit", "poll"} /\ MoreTries /\ ~served
    /\ step = "submit" => Resolves(script, Contract)
    /\ tries' = (tries + 1) % ApiTries
    /\ UNCHANGED <<explorer, run, step, polls, failures, code>>

(* The last one is returned for what it is: nothing known of the source, a *)
(* submission that failed, a status that is not pending.                   *)
LimitedToTheEnd ==
    /\ ~MoreTries /\ ~served
    /\ \/ step = "source" /\ Begins("submit") /\ UNCHANGED failures
       \/ step = "submit" /\ Resolves(script, Contract) /\ Fails
       \/ step = "poll" /\ Fails
    /\ UNCHANGED <<explorer, run, polls, code>>

GetSource ==
    /\ step = "source"
    /\ Begins(IF explorer[Contract] = "verified" THEN "next" ELSE "submit")
    /\ UNCHANGED <<explorer, run, polls, failures, code>>

SubmitAccepted ==
    /\ step = "submit" /\ Resolves(script, Contract)
    /\ explorer[Contract] # "verified"
    /\ explorer' = [explorer EXCEPT ![Contract] = "queued"]
    /\ Begins("poll")
    /\ UNCHANGED <<run, polls, failures, code>>

SubmitRefused ==
    /\ step = "submit" /\ Resolves(script, Contract)
    /\ ~served \/ explorer[Contract] = "verified"
    /\ Fails
    /\ UNCHANGED <<explorer, run, polls, code>>

(* Mutant: only a verdict that says it failed is a failure.                *)
VerdictUnlessFailed(status) == IF status = "rejected" THEN Fails ELSE Succeeds

Verdict(status) == IF status = "verified" THEN Succeeds ELSE Fails

(* Mutant: it polls until the submission is judged.                        *)
PendingUntilJudged == explorer[Contract] = "queued"

StillPending == explorer[Contract] = "queued" /\ polls + 1 < MaxPolls

Poll ==
    /\ step = "poll"
    /\ polls' = polls + 1
    /\ IF StillPending
         THEN tries' = 0 /\ UNCHANGED <<step, failures>>
         ELSE Verdict(explorer[Contract])
    /\ UNCHANGED <<explorer, run, code>>

(* The explorer matches the source, for contracts of the same bytecode at  *)
(* once, or does not.  What forge submits has the optimizer runs of the    *)
(* cached artifact, whatever those of the config are.                      *)
Judge(c) ==
    /\ explorer[c] \in {"forged", "queued"}
    /\ \/ /\ explorer[c] = "forged" \/ c \notin Mismatched
          /\ explorer' = [d \in Names |-> IF d \in Twins[c] THEN "verified" ELSE explorer[d]]
       \/ /\ explorer[c] = "forged" \/ c \in Mismatched
          /\ explorer' = [explorer EXCEPT ![c] = "rejected"]
    /\ UNCHANGED <<run, step, tries, polls, failures, code>>

-----------------------------------------------------------------------------
Init ==
    /\ explorer = [c \in Names |-> "none"]
    /\ script = "v1" /\ served = FALSE /\ asked = {} /\ at = 0
    /\ step = "ended" /\ tries = 0 /\ polls = 0 /\ failures = 0
    /\ code = 1

Forge == ForgeAccepted \/ ForgeRefused

V2 == \/ Limited \/ LimitedToTheEnd
      \/ GetSource \/ SubmitAccepted \/ SubmitRefused \/ Poll

Next ==
    \/ \E s \in {"v1", "v2"}, chosen \in Selections, well \in BOOLEAN :
            Start(s, chosen, well)
    \/ NextContract \/ Crash \/ Unanswered \/ Forge \/ V2
    \/ \E c \in Names : Judge(c)

(* A script keeps running, the explorer judges what it has queued.  v2 is  *)
(* run for each selection again and again with all its requests answered   *)
(* and within the limit; nothing of the kind is asked of v1.               *)
Fairness ==
    /\ WF_vars(NextContract) /\ WF_vars(Crash \/ Forge) /\ WF_vars(V2)
    /\ \A c \in Names : WF_vars(Judge(c))
    /\ \A chosen \in Selections : SF_vars(Start("v2", chosen, TRUE))

Spec == Init /\ [][Next]_vars /\ Fairness

-----------------------------------------------------------------------------
TypeOK ==
    /\ explorer \in [Names -> {"none", "forged", "queued", "verified", "rejected"}]
    /\ script \in {"v1", "v2"} /\ served \in BOOLEAN /\ asked \in Selections \cup {{}}
    /\ at \in 0..Len(Contracts)
    /\ step \in {"next", "forge", "source", "submit", "poll", "ended"}
    /\ tries \in 0..(ApiTries - 1) /\ polls \in 0..MaxPolls
    /\ failures \in 0..Len(Contracts)
    /\ code \in {0, 1}

(* When v2 ends well everything of the config that was asked for is        *)
(* verified, however many requests were limited or judged in the meantime; *)
(* v1 only knows that it was submitted.                                    *)
ExitZeroMeansVerified ==
    step = "ended" /\ code = 0 =>
        \A c \in asked \cap Names :
            \/ explorer[c] = "verified"
            \/ script = "v1" /\ explorer[c] # "none"

(* A run ends, even if all its requests are over the limit and nothing is  *)
(* judged in time.                                                         *)
EveryRunEnds == []<>(step = "ended")

(* What v2 gets to before a contract whose arguments it cannot resolve.    *)
GetsTo(c, chosen) ==
    /\ c \in chosen \cap Names
    /\ \A i, j \in DOMAIN Contracts :
          Contracts[j] = c /\ i <= j /\ Contracts[i] \in chosen => Contracts[i] \notin Metadata

(* What v2 gets to by some selection is verified in the end, whatever the  *)
(* contracts before it come to, runs are cut short and v1 submits.         *)
EventuallyVerified ==
    \A c \in Names \ Mismatched :
        (\E chosen \in Selections : GetsTo(c, chosen)) => <>[](explorer[c] = "verified")
=============================================================================
