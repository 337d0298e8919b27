------------------------------ MODULE Upgrade ------------------------------
(* gen_upgrade_safetx.py: the Safe batches that move RiskEngine proxies to *)
(* a new implementation, at once (upgrade.json) or through a               *)
(* TimelockController (deploy.json, schedule.json, execute.json), and what *)
(* the contracts they are sent to do with them.  The operator may run the  *)
(* tool again, be interrupted between two files, and execute any file that *)
(* is in the output directory at any time.                                 *)
EXTENDS Naturals, FiniteSets, Sequences

CONSTANTS
    Proxies,        \* RiskEngine proxies, whose ProxyAdmin is CREATE(proxy, 1)
    Others,         \* addresses a config may name that are no such proxies
    Impls,          \* implementations, each with its CREATE3 slot and initcode
    Genesis,        \* what each proxy points at to begin with
    Plans,          \* `upgrades` lists: partial functions to Impls
    Salts,          \* --salt
    Delays,         \* --delay
    MinDelay,       \* TimelockController: minDelay
    RpcUrl,         \* whether --rpc-url is passed to generate
    NoFile,         \* a file that was not written
    MaxRuns         \* bound: times the tool is run

ASSUME ConstantsAssumption ==
    /\ Genesis \in [Proxies -> Impls] /\ Proxies \cap Others = {}
    /\ \A plan \in Plans :
         /\ DOMAIN plan \subseteq Proxies \cup Others
         /\ DOMAIN plan \cap Proxies # {}
         /\ \A p \in DOMAIN plan : plan[p] \in Impls
    /\ Delays \subseteq Nat /\ MinDelay \in Nat \ {0}
    /\ RpcUrl \in BOOLEAN /\ MaxRuns \in Nat

Jobs       == [plan : Plans, salt : Salts, delay : Delays]
Operations == Plans \X Salts
Timelocked == {"deploy", "schedule", "execute"}

ASSUME NoFileAssumption == NoFile \notin Plans \cup Jobs

VARIABLES
    owner,          \* who owns the ProxyAdmins: "safe" or "timelock"
    code,           \* implementations deployed through the CREATE3 deployer
    impl,           \* ERC-1967 implementation of each proxy
    phase,          \* timelock operations: "unset", "pending" or "done"
    wait,           \* ticks until a pending operation is ready
    upgrade,        \* plan in upgrade.json
    dir,            \* jobs in deploy.json, schedule.json and execute.json
    job,            \* what the tool is writing
    pending,        \* files it has still to write
    runs            \* times it was run

chain == <<owner, code, impl, phase, wait>>
disk  == <<upgrade, dir, job, pending, runs>>
vars  == <<chain, disk>>

-----------------------------------------------------------------------------
(* The tool                                                                *)

(* Mutant: the implementation of one proxy is deployed for all of them.    *)
DeployOne(plan) == {plan[CHOOSE p \in DOMAIN plan : TRUE]}

(* What the deploy transactions of a plan deploy, each once.               *)
DeployTxs(plan) == {plan[p] : p \in DOMAIN plan}

(* Every implementation is listed in the deployment-info.                  *)
Resolves(plan, info) == DeployTxs(plan) \subseteq info

(* Every live ProxyAdmin is the one derived from the proxy.                *)
OnchainChecks(plan) == DOMAIN plan \subseteq Proxies

Generates(plan, info) ==
    /\ pending = <<>> /\ runs < MaxRuns
    /\ Resolves(plan, info)
    /\ RpcUrl => OnchainChecks(plan)

(* generate without --timelock: one file.                                  *)
GenerateAtomic(plan, info) ==
    /\ Generates(plan, info)
    /\ upgrade' = plan
    /\ runs' = runs + 1
    /\ UNCHANGED <<chain, dir, job, pending>>

(* Mutant: the deployment goes under the name of the atomic batch.         *)
FilesMisnamed == <<"upgrade", "schedule", "execute">>

(* generate --timelock: three files, one after the other.                  *)
Files == <<"deploy", "schedule", "execute">>

GenerateTimelocked(j, info) ==
    /\ Generates(j.plan, info) /\ j.delay > 0
    /\ job' = j /\ pending' = Files
    /\ runs' = runs + 1
    /\ UNCHANGED <<chain, upgrade, dir>>

Write ==
    /\ pending # <<>>
    /\ dir' = [dir EXCEPT ![Head(pending)] = job]
    /\ pending' = Tail(pending)
    /\ UNCHANGED <<chain, upgrade, job, runs>>

(* The tool is stopped: what it wrote stays.                               *)
Interrupt ==
    /\ pending # <<>> /\ pending' = <<>>
    /\ UNCHANGED <<chain, upgrade, dir, job, runs>>

-----------------------------------------------------------------------------
(* The chain.  A Safe batch is atomic: all its transactions or none.       *)

(* mint and deploy: a CREATE3 slot is used once.                           *)
Deployable(new) == new \cap code = {}

Mine(plan) == DOMAIN plan \cap Proxies

(* Mutant: an upgrade is accepted before the code is there.                *)
UpgradableBlind(plan, by, there) == owner = by

(* Mutant: the upgrades come before the deployments.                       *)
UpgradableBefore(plan, by, there) ==
    /\ owner = by
    /\ \A p \in Mine(plan) : plan[p] \in code

(* upgradeAndCall of every proxy: its ProxyAdmin has an owner, and a proxy *)
(* refuses an implementation without code.  Where there is no ProxyAdmin   *)
(* the call succeeds and does nothing.                                     *)
Upgradable(plan, by, there) ==
    /\ owner = by
    /\ \A p \in Mine(plan) : plan[p] \in there

(* Mutant: every proxy is sent the implementation of one of them.          *)
UpgradedAlike(plan) == [p \in Proxies |-> plan[CHOOSE q \in Mine(plan) : TRUE]]

Upgraded(plan) ==
    [p \in Proxies |-> IF p \in Mine(plan) THEN plan[p] ELSE impl[p]]

ExecuteUpgrade ==
    /\ upgrade # NoFile
    /\ Deployable(DeployTxs(upgrade))
    /\ code' = code \cup DeployTxs(upgrade)
    /\ Upgradable(upgrade, "safe", code')
    /\ impl' = Upgraded(upgrade)
    /\ UNCHANGED <<owner, phase, wait, disk>>

ExecuteDeploy ==
    /\ dir["deploy"] # NoFile
    /\ Deployable(DeployTxs(dir["deploy"].plan))
    /\ code' = code \cup DeployTxs(dir["deploy"].plan)
    /\ UNCHANGED <<owner, impl, phase, wait, disk>>

(* TimelockController: an operation is scheduled once, with enough notice. *)
Schedulable(o, delay) == phase[o] = "unset" /\ delay >= MinDelay

ExecuteSchedule ==
    /\ dir["schedule"] # NoFile
    /\ LET j == dir["schedule"]
           o == <<j.plan, j.salt>>
       IN  /\ Schedulable(o, j.delay)
           /\ phase' = [phase EXCEPT ![o] = "pending"]
           /\ wait' = [wait EXCEPT ![o] = j.delay]
    /\ UNCHANGED <<owner, code, impl, disk>>

(* Mutant: the delay is not awaited.                                       *)
ReadyAtOnce(o) == phase[o] = "pending"

Ready(o) == phase[o] = "pending" /\ wait[o] = 0

ExecuteExecute ==
    /\ dir["execute"] # NoFile
    /\ LET j == dir["execute"]
           o == <<j.plan, j.salt>>
       IN  /\ Ready(o)
           /\ Upgradable(j.plan, "timelock", code)
           /\ impl' = Upgraded(j.plan)
           /\ phase' = [phase EXCEPT ![o] = "done"]
    /\ UNCHANGED <<owner, code, wait, disk>>

(* ProxyAdmin.transferOwnership to the TimelockController.                 *)
HandOver ==
    /\ owner = "safe" /\ owner' = "timelock"
    /\ UNCHANGED <<code, impl, phase, wait, disk>>

Less(n) == IF n = 0 THEN 0 ELSE n - 1

Tick ==
    /\ \E o \in Operations : phase[o] = "pending" /\ wait[o] > 0
    /\ wait' = [o \in Operations |->
                  IF phase[o] = "pending" THEN Less(wait[o]) ELSE wait[o]]
    /\ UNCHANGED <<owner, code, impl, phase, disk>>

-----------------------------------------------------------------------------
Init ==
    /\ owner = "safe"
    /\ impl = Genesis
    /\ code = {Genesis[p] : p \in Proxies}
    /\ phase = [o \in Operations |-> "unset"]
    /\ wait = [o \in Operations |-> 0]
    /\ upgrade = NoFile
    /\ dir = [f \in Timelocked |-> NoFile]
    /\ job = NoFile
    /\ pending = <<>>
    /\ runs = 0

Generate ==
    \E info \in SUBSET Impls :
        \/ \E plan \in Plans : GenerateAtomic(plan, info)
        \/ \E j \in Jobs : GenerateTimelocked(j, info)

Next ==
    \/ Generate \/ Write \/ Interrupt
    \/ ExecuteUpgrade \/ ExecuteDeploy \/ ExecuteSchedule \/ ExecuteExecute
    \/ HandOver \/ Tick

(* The operator executes the files that can be, and time passes.  Nobody   *)
(* has to run the tool or to hand over.                                    *)
Fairness ==
    /\ WF_vars(ExecuteUpgrade) /\ WF_vars(ExecuteDeploy)
    /\ WF_vars(ExecuteSchedule) /\ WF_vars(ExecuteExecute) /\ WF_vars(Tick)

Spec == Init /\ [][Next]_vars /\ Fairness

-----------------------------------------------------------------------------
TypeOK ==
    /\ owner \in {"safe", "timelock"}
    /\ code \subseteq Impls /\ impl \in [Proxies -> Impls]
    /\ phase \in [Operations -> {"unset", "pending", "done"}]
    /\ wait \in [Operations -> Nat]
    /\ upgrade \in Plans \cup {NoFile}
    /\ dir \in [Timelocked -> Jobs \cup {NoFile}]
    /\ job \in Jobs \cup {NoFile}
    /\ pending = <<>> \/ (pending \in Seq(Timelocked) /\ job \in Jobs)
    /\ runs \in 0..MaxRuns

(* Whatever files are mixed and in whatever order they are executed, no    *)
(* proxy ever delegates to an address without code.                        *)
ProxiesHaveCode == \A p \in Proxies : impl[p] \in code

(* The chain as the holders of a pool see it: which plans are announced    *)
(* and for how long, not by which operation or from which file.            *)
Promise == INSTANCE UpgradePromise WITH
    announced <- {<<o[1], wait[o]>> : o \in {q \in Operations : phase[q] = "pending"}}

KeepsPromise == Promise!Spec

Live(plan) == \A p \in DOMAIN plan : p \in Proxies /\ impl[p] = plan[p]

(* The three files belong together.                                        *)
Kept(j) == pending = <<>> /\ \A f \in Timelocked : dir[f] = j

(* Some implementations of the plan are deployed and others are not.       *)
Partly(plan) == DeployTxs(plan) \cap code # {} /\ ~(DeployTxs(plan) \subseteq code)

(* Module docstring: schedule.json can be submitted before the             *)
(* implementation exists; deploy.json then only needs to run before        *)
(* execute.json.  In whatever order an operator executes the three files   *)
(* of one run the plan goes live, whether its code was all there already   *)
(* or none of it was, unless other files take their place or another file  *)
(* deploys a part of it: deploy.json, all or nothing, is then of no use.   *)
BlindPathWorks ==
    \A j \in Jobs :
        Kept(j) /\ owner = "timelock" /\ phase[<<j.plan, j.salt>>] = "unset"
                /\ j.delay >= MinDelay
            ~> Live(j.plan) \/ ~Kept(j) \/ Partly(j.plan)

(* upgrade.json of implementations none of which is deployed goes live,    *)
(* unless another file takes its place, a deploy.json has one of them, or  *)
(* the timelock takes over.                                                *)
AtomicPathWorks ==
    \A plan \in Plans :
        upgrade = plan /\ owner = "safe" /\ Deployable(DeployTxs(plan))
            ~> \/ Live(plan) \/ upgrade # plan \/ owner # "safe"
               \/ /\ dir["deploy"] # NoFile
                  /\ DeployTxs(dir["deploy"].plan) \cap DeployTxs(plan) # {}

(* DEPLOYMENT_INSTRUCTIONS.md, Rolling back: an upgrade whose target is    *)
(* still deployed, generated against a deployment-info that lists it.      *)
RollbackGoesThrough ==
    \A plan \in Plans :
        upgrade = plan /\ owner = "safe" /\ DeployTxs(plan) \subseteq code
            ~> Live(plan) \/ upgrade # plan \/ owner # "safe"
=============================================================================
