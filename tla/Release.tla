------------------------------ MODULE Release ------------------------------
(* From vanity addresses to deployed contracts: select_vanity_addresses.py *)
(* fills the build configs, build_release.py turns each into a             *)
(* deployment-info, gen_safetx.py into Safe batches, the Safe executes     *)
(* them through the CREATE3 deployer, and verify_deployment.py compares.   *)
(* A salt and nonce are the address they derive (`at`); an initcode is the *)
(* contract and the addresses linked and encoded into it.                  *)
EXTENDS Integers, FiniteSets, SequencesExt

CONSTANTS
    ConfigOrder,    \* the configs given to the selector, in order
    DataNames,      \* slots of dataContracts, by falling priority
    LogicNames,     \* keys of logicContracts, by falling priority
    BuildOrder,     \* all of them, in the order of a config
    Common,         \* COMMON_LOGIC_CONTRACTS and dataContracts
    Refs,           \* names linked or referenced with @ (or MD_POINTERS)
    Needs,          \* those of them a constructor calls
    Gas,            \* estimated gas of a contract
    Entries,        \* vanity addresses of each pool, best first
    Legacy,         \* addresses of the legacy build-config.json
    FirstConfig,    \* the configs as committed
    Limits,         \* --gas-limit
    Freezing,       \* whether addresses are selected with a freeze file
    NoFile, NoCode, \* a file that was not written, an address without code
    MaxCommands     \* bound: builds, and twice the selections and edits

Configs   == Range(ConfigOrder)
Names     == Range(BuildOrder)
Addresses == Range(Entries["data"]) \cup Range(Entries["logic"])
Slots(n)  == Range(Entries[IF n \in Range(DataNames) THEN "data" ELSE "logic"])
Config    == {c \in [Names -> [address : Addresses, at : Addresses]] :
                 \A n \in Names : {c[n].address, c[n].at} \subseteq Slots(n)}

(* Elements of S, none twice.                                              *)
IsSeqOf(s, S) == s \in Seq(S) /\ IsInjective(s)

(* Two slots have one triple only when they are one common contract.       *)
SlotsApart(cfg) ==
    \A k, j \in Configs, n, m \in Names :
        cfg[k][n].at = cfg[j][m].at => n = m /\ (k = j \/ n \in Common)

(* Two configs that share one common contract share them all.              *)
CommonTogether(cfg) ==
    \A k, j \in Configs, n, m \in Common :
        cfg[k][n].at = cfg[j][n].at => cfg[k][m].at = cfg[j][m].at

ASSUME ConstantsAssumption ==
    /\ IsSeqOf(ConfigOrder, Configs) /\ IsSeqOf(BuildOrder, Names)
    /\ IsSeqOf(DataNames, Names) /\ IsSeqOf(LogicNames, Names)
    /\ Range(DataNames) \cap Range(LogicNames) = {}
    /\ Names = Range(DataNames) \cup Range(LogicNames)
    /\ Common \subseteq Names /\ Legacy \subseteq Addresses
    /\ \A n \in Names : Needs[n] \subseteq Refs[n] /\ Refs[n] \subseteq Names
    /\ \A n \in Common : Refs[n] \subseteq Common
    /\ \A n \in Names : Gas[n] \in Nat
    /\ IsSeqOf(Entries["data"], Addresses) /\ IsSeqOf(Entries["logic"], Addresses)
    /\ Range(Entries["data"]) \cap Range(Entries["logic"]) = {}
    /\ Limits \subseteq Nat /\ Freezing \in BOOLEAN /\ MaxCommands \in Nat

(* As committed, slots are apart and hold the address of their triple.     *)
ASSUME CommittedAssumption ==
    /\ FirstConfig \in [Configs -> Config]
    /\ \A k \in Configs, n \in Names : FirstConfig[k][n].at = FirstConfig[k][n].address
    /\ SlotsApart(FirstConfig) /\ CommonTogether(FirstConfig)

VARIABLES
    config,     \* build-config-*.json
    info,       \* deployment-info-*.json: the config it was built from
    dir,        \* safe-txns-*: the batch files of each config
    combined,   \* what merge wrote
    deployed,   \* code of each address
    careful,    \* history: since all configs were last selected together, or
                \* committed, no selection was cut short, saw a frozen address
                \* or failed to exclude another config, and none was edited
    current,    \* history: every batch executed was of the configs as they
                \* were then, and they have not changed since
    commands    \* builds, and twice the selections and edits by hand

history == <<careful, current, commands>>
vars    == <<config, info, dir, combined, deployed, history>>

Live == {a \in Addresses : deployed[a] # NoCode}

(* The elements of s that are in S, in order.                              *)
Kept(s, S) ==
    FoldLeft(LAMBDA kept, x : IF x \in S THEN Append(kept, x) ELSE kept, <<>>, s)

-----------------------------------------------------------------------------
(* select_vanity_addresses.py                                              *)

(* The targets of a name: one for all configs, or one for each.            *)
TargetsOf(n, cs, mode) ==
    IF mode = "shared" /\ n \in Common
      THEN <<[i \in DOMAIN cs |-> <<cs[i], n>>]>>
      ELSE [i \in DOMAIN cs |-> <<<<cs[i], n>>>>]

BuildTargets(names, cs, mode) ==
    FlattenSeq([i \in DOMAIN names |-> TargetsOf(names[i], cs, mode)])

(* Skipped: a target whose first location holds a frozen address.          *)
Eligible(targets, frozen) ==
    Kept(targets, {t \in Range(targets) : config[t[1][1]][t[1][2]].address \notin frozen})

ConfigAddresses(ks) == {config[k][n].address : k \in ks, n \in Names}

(* Mutant: the addresses of the configs that are passed are not excluded.  *)
PoolNotExcluded(pool, excluded) == Kept(Entries[pool], Addresses \ Legacy)

(* Mutant: data contracts take the longer entries, too.                    *)
PoolAnyLength(pool, excluded) ==
    Kept(Entries["logic"], Addresses \ (Legacy \cup ConfigAddresses(excluded)))

(* What is left of a pool: data contracts and logic contracts draw from    *)
(* entries of different lengths.                                           *)
Pool(pool, excluded) ==
    Kept(Entries[pool], Addresses \ (Legacy \cup ConfigAddresses(excluded)))

(* Entry by entry, every location of the target is given the triple.       *)
Apply(cfg, targets, entries) ==
    [k \in Configs |-> [n \in Names |->
        IF \E i \in DOMAIN targets : <<k, n>> \in Range(targets[i])
          THEN LET i == CHOOSE j \in DOMAIN targets : <<k, n>> \in Range(targets[j])
               IN  [address |-> entries[i], at |-> entries[i]]
          ELSE cfg[k][n]]]

(* --in-place: the configs are written one after the other, and a run that *)
(* is interrupted leaves the rest as they were.  Nothing that was made of  *)
(* them is deleted.                                                        *)
Select(cs, mode, frozen, excluded, written) ==
    LET large == Eligible(BuildTargets(DataNames, cs, mode), frozen)
        small == Eligible(BuildTargets(LogicNames, cs, mode), frozen)
        new   == Apply(Apply(config, large, Pool("data", excluded)),
                       small, Pool("logic", excluded))
        saved == Range(SubSeq(cs, 1, written))
    IN  /\ commands + 2 <= MaxCommands
        /\ Len(Pool("data", excluded)) >= Len(large)
        /\ Len(Pool("logic", excluded)) >= Len(small)
        /\ config' = [k \in Configs |-> IF k \in saved THEN new[k] ELSE config[k]]
        /\ careful' = /\ saved = Range(cs) /\ saved \cup excluded = Configs
                      /\ frozen = {} /\ (careful \/ saved = Configs)
        /\ current' = (current /\ Live = {})
        /\ commands' = commands + 2
        /\ UNCHANGED <<info, dir, combined, deployed>>

(* Before anything is deployed a config is brought in line with another by *)
(* hand, and salt and nonce are left behind.                               *)
Edit(k, n, j) ==
    /\ commands + 2 <= MaxCommands /\ Live = {}
    /\ config' = [config EXCEPT ![k][n].address = config[j][n].address]
    /\ careful' = FALSE
    /\ UNCHANGED current
    /\ commands' = commands + 2
    /\ UNCHANGED <<info, dir, combined, deployed>>

-----------------------------------------------------------------------------
(* build_release.py                                                        *)

Code(k, n) == IF n \in Common THEN <<n>> ELSE <<k, n>>

(* The initcode a config gives a contract.                                 *)
Initcode(k, n, cfg) ==
    [code |-> Code(k, n), refs |-> [r \in Refs[n] |-> cfg[r].address]]

(* Written at the end: a build that fails leaves the former file.          *)
Build(k) ==
    /\ commands < MaxCommands
    /\ info' = [info EXCEPT ![k] = config[k]]
    /\ commands' = commands + 1
    /\ UNCHANGED <<config, dir, combined, deployed, careful, current>>

-----------------------------------------------------------------------------
(* gen_safetx.py                                                           *)

InfoAddresses(ks) == {info[k][n].address : k \in ks, n \in Names}

(* The contracts of a deployment-info that the other one does not hold.    *)
ToDeploy(k, others) ==
    Kept(BuildOrder, {n \in Names : info[k][n].address \notin InfoAddresses(others)})

GasOf(names) == FoldLeft(LAMBDA g, n : g + Gas[n], 0, names)

(* Mutant: the contract that did not fit is not put in the next batch.     *)
PlacedOrLost(batches, n, limit) ==
    IF batches = <<>> \/ GasOf(Last(batches)) + Gas[n] > limit
      THEN Append(batches, <<>>)
      ELSE [batches EXCEPT ![Len(batches)] = Append(@, n)]

(* Mutant: a contract goes before the ones it shares a batch with.         *)
PlacedFirst(batches, n, limit) ==
    IF batches = <<>> \/ GasOf(Last(batches)) + Gas[n] > limit
      THEN Append(batches, <<n>>)
      ELSE [batches EXCEPT ![Len(batches)] = <<n>> \o @]

(* A contract joins the last batch, or begins one when that would exceed   *)
(* the limit; alone in a batch it may exceed it.                           *)
Placed(batches, n, limit) ==
    IF batches = <<>> \/ GasOf(Last(batches)) + Gas[n] > limit
      THEN Append(batches, <<n>>)
      ELSE [batches EXCEPT ![Len(batches)] = Append(@, n)]

Batches(k, others, limit) ==
    FoldLeft(LAMBDA bs, n : Placed(bs, n, limit), <<>>, ToDeploy(k, others))

(* mint and deploy of a contract: the address it was meant for is not in   *)
(* the batch.                                                              *)
TxPair(k, n, cfg) ==
    [name |-> n, at |-> cfg[n].at, initcode |-> Initcode(k, n, cfg)]

Files(k, others, limit) ==
    LET batches == Batches(k, others, limit)
    IN  [i \in DOMAIN batches |->
            [j \in DOMAIN batches[i] |-> TxPair(k, batches[i][j], info[k])]]

(* Files are written one by one, and those of an earlier run stay.         *)
Generate(k, others, limit) ==
    /\ \A j \in others \cup {k} : info[j] # NoFile
    /\ LET new == Files(k, others, limit)
       IN  \E written \in 0..Len(new) :
             dir' = [dir EXCEPT ![k] =
                        SubSeq(new, 1, written)
                          \o SubSeq(@, written + 1, Len(@))]
    /\ UNCHANGED <<config, info, combined, deployed, history>>

Merge(k, i, j, l) ==
    /\ combined' = dir[k][i] \o dir[j][l]
    /\ UNCHANGED <<config, info, dir, deployed, history>>

-----------------------------------------------------------------------------
(* The Safe and the CREATE3 deployer: all the transactions of a batch or   *)
(* none.  A slot is used once, and a constructor that calls another        *)
(* contract reverts where there is none.                                   *)
Executable(batch) ==
    /\ \A i \in DOMAIN batch : batch[i].at \notin Live
    /\ \A i, j \in DOMAIN batch : batch[i].at = batch[j].at => i = j
    /\ \A i \in DOMAIN batch : \A r \in Needs[batch[i].name] :
         batch[i].initcode.refs[r] \in Live \cup {batch[j].at : j \in 1..(i - 1)}

(* Every transaction is one of a config as it is now.                      *)
IsCurrent(batch) ==
    Range(batch) \subseteq {TxPair(k, n, config[k]) : k \in Configs, n \in Names}

Execute(batch) ==
    /\ Executable(batch)
    /\ deployed' = [a \in Addresses |->
            IF \E i \in DOMAIN batch : batch[i].at = a
              THEN (CHOOSE tx \in Range(batch) : tx.at = a).initcode
              ELSE deployed[a]]
    /\ current' = (current /\ IsCurrent(batch))
    /\ UNCHANGED <<config, info, dir, combined, careful, commands>>

ExecuteFile(k, i) == i \in DOMAIN dir[k] /\ Execute(dir[k][i])

ExecuteCombined == combined # NoFile /\ Execute(combined)

-----------------------------------------------------------------------------
Init ==
    /\ config = FirstConfig
    /\ info = [k \in Configs |-> NoFile]
    /\ dir = [k \in Configs |-> <<>>]
    /\ combined = NoFile
    /\ deployed = [a \in Addresses |-> NoCode]
    /\ careful = TRUE /\ current = TRUE /\ commands = 0

(* All configs or one, with any of the others excluded or not; once        *)
(* contracts are deployed, only with their addresses frozen.               *)
Reselect ==
    \E cs \in {ConfigOrder} \cup {<<k>> : k \in Configs}, mode \in {"shared", "disjoint"} :
    \E excluded \in SUBSET (Configs \ Range(cs)), written \in 1..Len(cs) :
        /\ Live = {} \/ Freezing
        /\ Select(cs, mode, Live, excluded, written)

EditByHand ==
    \E k, j \in Configs, n \in Names :
        config[k][n] # config[j][n] /\ Edit(k, n, j)

GenerateBatches ==
    \E k \in Configs, limit \in Limits :
    \E others \in {{}} \cup {{j} : j \in Configs \ {k}} : Generate(k, others, limit)

(* The last batch of the config that goes first, which is the last that is *)
(* selected, with the first batch of another.                              *)
MergeFiles ==
    LET k == Last(ConfigOrder)
    IN  \E j \in Configs \ {k} :
            dir[k] # <<>> /\ dir[j] # <<>> /\ Merge(k, Len(dir[k]), j, 1)

ExecuteFiles == \E k \in Configs, i \in DOMAIN BuildOrder : ExecuteFile(k, i)

Next ==
    \/ Reselect \/ EditByHand
    \/ \E k \in Configs : Build(k)
    \/ GenerateBatches \/ MergeFiles
    \/ ExecuteFiles \/ ExecuteCombined

(* Some batch file that can be executed is; nobody has to generate any.    *)
Fairness == WF_vars(ExecuteFiles)

Spec == Init /\ [][Next]_vars /\ Fairness

-----------------------------------------------------------------------------
(* verify_deployment.py --config --rpc-url                                 *)

ConfigMatches(k) == \A n \in Names : info[k][n] = config[k][n]

(* Mutant: addresses are not derived again.                                *)
DerivationAssumed(k) == info[k] # NoFile

DerivationMatches(k) == \A n \in Names : info[k][n].address = info[k][n].at

(* It exits with zero.                                                     *)
VerifyPasses(k) == info[k] # NoFile /\ ConfigMatches(k) /\ DerivationMatches(k)

(* It does not warn of an address without code, which is no failure.       *)
CodePresent(k) == \A n \in Names : deployed[info[k][n].address] # NoCode

-----------------------------------------------------------------------------
IsBatch(txs) ==
    \A i \in DOMAIN txs :
        /\ txs[i].name \in Names /\ txs[i].at \in Addresses
        /\ txs[i].initcode.refs \in [Refs[txs[i].name] -> Addresses]

TypeOK ==
    /\ \A k \in Configs : config[k] \in Config
    /\ \A k \in Configs : info[k] = NoFile \/ info[k] \in Config
    /\ \A k \in Configs : \A i \in DOMAIN dir[k] : IsBatch(dir[k][i])
    /\ combined = NoFile \/ IsBatch(combined)
    /\ DOMAIN deployed = Addresses
    /\ {careful, current} \subseteq BOOLEAN /\ commands \in 0..MaxCommands

(* Selections that run to their end and exclude every config they do not   *)
(* cover leave one address to two slots only when they are one common      *)
(* contract, and two configs share all common contracts or none; and       *)
(* selecting all configs together repairs what an interrupted selection,   *)
(* one that excluded too little or an edit has spoilt before.              *)
DistinctSlots == careful => SlotsApart(config) /\ CommonTogether(config)

(* The batches of a deployment-info hold what the other one does not, each *)
(* contract once and in order, and only a contract alone exceeds the       *)
(* limit.                                                                  *)
BatchesCover ==
    \A k, j \in Configs, limit \in Limits :
        info[k] # NoFile /\ info[j] # NoFile /\ k # j =>
            LET batches == Batches(k, {j}, limit)
                all     == FlattenSeq(batches)
                new     == {n \in Names : ~ \E m \in Names : info[j][m].address = info[k][n].address}
            IN  /\ Range(all) = new
                /\ \A a, b \in DOMAIN all : a < b =>
                       \E c, d \in DOMAIN BuildOrder :
                           c < d /\ BuildOrder[c] = all[a] /\ BuildOrder[d] = all[b]
                /\ \A i \in DOMAIN batches : Len(batches[i]) > 1 => GasOf(batches[i]) <= limit

(* Configs whose slots are apart, that all verify without a failure and a  *)
(* warning, are wired as they say, if no batch of an older config was      *)
(* executed: every contract is the one meant for its address and refers to *)
(* the others where they are, whatever was edited by hand, written half,   *)
(* left behind, merged or executed in which order.                         *)
VerifiedMeansWired ==
    /\ current /\ SlotsApart(config) /\ CommonTogether(config)
    /\ \A j \in Configs : VerifyPasses(j) /\ CodePresent(j)
    => \A k \in Configs, n \in Names : deployed[config[k][n].address] = Initcode(k, n, config[k])

(* Both configs are built, the files of each are those of one run, the     *)
(* second without the contracts of the first, and merged from these if at  *)
(* all.                                                                    *)
Complete ==
    \E k, j \in Configs, lk, lj \in Limits :
        /\ k # j /\ info[k] = config[k] /\ info[j] = config[j]
        /\ dir[k] = Files(k, {}, lk) /\ dir[j] = Files(j, {k}, lj)
        /\ combined = NoFile \/ \E a, b \in {k, j} :
               a # b /\ dir[a] # <<>> /\ dir[b] # <<>> /\ combined = Last(dir[a]) \o Head(dir[b])

AllDeployed == \A k \in Configs, n \in Names : config[k][n].at \in Live

(* Executed as they become executable, the files of such a run deploy      *)
(* everything, unless others are written or an older one is executed       *)
(* first.                                                                  *)
EverythingDeploys ==
    careful /\ Live = {} /\ Complete ~> ~careful \/ ~current \/ AllDeployed \/ ~Complete

(* --freeze: addresses that must not be reassigned.                        *)
FrozenKept ==
    [][\A k \in Configs, n \in Names :
          config'[k][n] # config[k][n] =>
              config[k][n].address \notin Live /\ config'[k][n].address \notin Live]_vars
=============================================================================
