--------------------------- MODULE Upgrade_proofs ---------------------------
(* Proofs about Upgrade, for any proxies, plans, salts and delays, and     *)
(* with no bound on the files that are mixed or on how often the tool is   *)
(* run or interrupted.                                                     *)
EXTENDS Upgrade, TLAPS

USE ConstantsAssumption, NoFileAssumption

Announced == {<<o[1], wait[o]>> : o \in {q \in Operations : phase[q] = "pending"}}

-----------------------------------------------------------------------------
(* Types                                                                   *)

(* What a plan deploys are implementations.                                *)
LEMMA DeployTxsAreImpls ==
  ASSUME NEW plan \in Plans
  PROVE  /\ DeployTxs(plan) \subseteq Impls
         /\ \A p \in Mine(plan) : plan[p] \in Impls
  BY DEF DeployTxs, Mine

(* A plan that is carried out leaves every proxy at an implementation.     *)
LEMMA UpgradedIsTyped ==
  ASSUME NEW plan \in Plans, impl \in [Proxies -> Impls]
  PROVE  Upgraded(plan) \in [Proxies -> Impls]
  BY DeployTxsAreImpls DEF Upgraded

LEMMA InitTypeOK == Init => TypeOK
  BY DEF Init, TypeOK, Timelocked

LEMMA StepTypeOK == TypeOK /\ [Next]_vars => TypeOK'
<1> SUFFICES ASSUME TypeOK, [Next]_vars PROVE TypeOK'
  OBVIOUS
<1> USE DEF TypeOK
<1>1. ASSUME NEW plan \in Plans, NEW info \in SUBSET Impls, GenerateAtomic(plan, info)
      PROVE  TypeOK'
  BY <1>1 DEF GenerateAtomic, Generates, chain
<1>2. ASSUME NEW j \in Jobs, NEW info \in SUBSET Impls, GenerateTimelocked(j, info)
      PROVE  TypeOK'
  <2>1. pending' \in Seq(Timelocked)
    BY <1>2 DEF GenerateTimelocked, Files, Timelocked
  <2> QED
    BY <1>2, <2>1 DEF GenerateTimelocked, Generates, chain
<1>3. CASE Write
  <2>1. pending' \in Seq(Timelocked) /\ job \in Jobs
    BY <1>3 DEF Write
  <2>2. dir' \in [Timelocked -> Jobs \cup {NoFile}]
    BY <1>3 DEF Write
  <2> QED
    BY <1>3, <2>1, <2>2 DEF Write, chain
<1>4. CASE Interrupt
  BY <1>4 DEF Interrupt, chain
<1>5. CASE ExecuteUpgrade
  BY <1>5, UpgradedIsTyped, DeployTxsAreImpls DEF ExecuteUpgrade, disk
<1>6. CASE ExecuteDeploy
  <2>1. dir["deploy"].plan \in Plans
    BY <1>6 DEF ExecuteDeploy, Timelocked, Jobs
  <2> QED
    BY <1>6, <2>1, DeployTxsAreImpls DEF ExecuteDeploy, disk
<1>7. CASE ExecuteSchedule
  <2>1. dir["schedule"].delay \in Nat
    BY <1>7 DEF ExecuteSchedule, Timelocked, Jobs
  <2>2. phase' \in [Operations -> {"unset", "pending", "done"}]
    BY <1>7 DEF ExecuteSchedule
  <2>3. wait' \in [Operations -> Nat]
    BY <1>7, <2>1 DEF ExecuteSchedule
  <2> QED
    BY <1>7, <2>2, <2>3 DEF ExecuteSchedule, disk
<1>8. CASE ExecuteExecute
  <2>1. dir["execute"].plan \in Plans
    BY <1>8 DEF ExecuteExecute, Timelocked, Jobs
  <2>2. phase' \in [Operations -> {"unset", "pending", "done"}]
    BY <1>8 DEF ExecuteExecute
  <2>3. impl' \in [Proxies -> Impls]
    BY <1>8, <2>1, UpgradedIsTyped DEF ExecuteExecute
  <2> QED
    BY <1>8, <2>2, <2>3 DEF ExecuteExecute, disk
<1>9. CASE HandOver
  BY <1>9 DEF HandOver, disk
<1>10. CASE Tick
  <2>1. wait' \in [Operations -> Nat]
    BY <1>10 DEF Tick, Less
  <2> QED
    BY <1>10, <2>1 DEF Tick, disk
<1>11. CASE UNCHANGED vars
  BY <1>11 DEF vars, chain, disk
<1> QED
  BY <1>1, <1>2, <1>3, <1>4, <1>5, <1>6, <1>7, <1>8, <1>9, <1>10, <1>11
  DEF Next, Generate

(* The files of the tool are plans and jobs, the chain's words are in      *)
(* range, and no wait goes below zero (gen_upgrade_safetx.py,              *)
(* TimelockController).                                                    *)
THEOREM TypeCorrect == Spec => []TypeOK
  BY InitTypeOK, StepTypeOK, PTL DEF Spec

-----------------------------------------------------------------------------
(* Code behind every proxy                                                 *)

(* After a plan whose implementations have code.                           *)
LEMMA UpgradedHasCode ==
  ASSUME NEW plan, NEW by, NEW there, Upgradable(plan, by, there),
         \A p \in Proxies : impl[p] \in there
  PROVE  \A p \in Proxies : Upgraded(plan)[p] \in there
  BY DEF Upgraded, Upgradable

LEMMA StepProxiesHaveCode == ProxiesHaveCode /\ [Next]_vars => ProxiesHaveCode'
<1> SUFFICES ASSUME ProxiesHaveCode, [Next]_vars PROVE ProxiesHaveCode'
  OBVIOUS
<1> USE DEF ProxiesHaveCode
<1>1. CASE ExecuteUpgrade
  BY <1>1, UpgradedHasCode DEF ExecuteUpgrade
<1>2. CASE ExecuteDeploy
  BY <1>2 DEF ExecuteDeploy
<1>3. CASE ExecuteExecute
  BY <1>3, UpgradedHasCode DEF ExecuteExecute
<1>4. CASE UNCHANGED <<code, impl>>
  BY <1>4
<1> QED
  BY <1>1, <1>2, <1>3, <1>4
  DEF Next, Generate, GenerateAtomic, GenerateTimelocked, Write, Interrupt,
      ExecuteSchedule, HandOver, Tick, vars, chain, disk

(* No order of executing no mix of files leaves a proxy that delegates to  *)
(* an address without code (Safe batches of gen_upgrade_safetx.py).        *)
THEOREM CodeBehindEveryProxy == Spec => []ProxiesHaveCode
<1>1. Init => ProxiesHaveCode
  BY DEF Init, ProxiesHaveCode
<1> QED
  BY <1>1, StepProxiesHaveCode, PTL DEF Spec
-----------------------------------------------------------------------------
(* The refinement: each step of the chain is the step of UpgradePromise    *)
(* with the same meaning, and the steps of the tool are stutters.          *)

LEMMA InitImplements == Init => Promise!Init
  BY DEF Init, Promise!Init

(* What the upgraded proxies point at is what the promise says.            *)
LEMMA UpgradedIsMoved ==
  ASSUME NEW plan
  PROVE  Upgraded(plan) = Promise!Moved(plan)
  BY DEF Upgraded, Mine, Promise!Moved

LEMMA UpgradeImplements ==
  ASSUME TypeOK, ExecuteUpgrade
  PROVE  Promise!Next
<1>1. /\ upgrade \in Plans
      /\ DeployTxs(upgrade) \in SUBSET Impls
  BY DeployTxsAreImpls DEF TypeOK, ExecuteUpgrade
<1>2. Promise!Landable(upgrade, DeployTxs(upgrade))
  BY DEF ExecuteUpgrade, Upgradable, Mine, Promise!Landable
<1>3. impl' = Promise!Moved(upgrade)
  BY UpgradedIsMoved DEF ExecuteUpgrade
<1>4. Promise!Move(upgrade, DeployTxs(upgrade))
  BY <1>2, <1>3 DEF ExecuteUpgrade, Upgradable, Promise!Move
<1> QED
  BY <1>1, <1>4 DEF Promise!Next

LEMMA DeployImplements ==
  ASSUME TypeOK, ExecuteDeploy
  PROVE  Promise!Next
<1> DEFINE new == DeployTxs(dir["deploy"].plan)
<1>1. new \in SUBSET Impls
  <2>1. dir["deploy"].plan \in Plans
    BY DEF TypeOK, ExecuteDeploy, Timelocked, Jobs
  <2> QED
    BY <2>1, DeployTxsAreImpls
<1>2. Promise!Publish(new)
  BY DEF ExecuteDeploy, Promise!Publish
<1> QED
  BY <1>1, <1>2 DEF Promise!Next

LEMMA ScheduleImplements ==
  ASSUME TypeOK, ExecuteSchedule
  PROVE  Promise!Next
<1>1. PICK plan \in Plans, salt \in Salts, delay \in Delays :
        dir["schedule"] = [plan |-> plan, salt |-> salt, delay |-> delay]
  BY DEF TypeOK, ExecuteSchedule, Timelocked, Jobs
<1> DEFINE o == <<plan, salt>>
<1>2. /\ o \in Operations /\ phase[o] = "unset" /\ delay >= MinDelay
      /\ phase' = [phase EXCEPT ![o] = "pending"]
      /\ wait' = [wait EXCEPT ![o] = delay]
  BY <1>1 DEF ExecuteSchedule, Schedulable, Operations
<1>3. {q \in Operations : phase'[q] = "pending"}
        = {q \in Operations : phase[q] = "pending"} \cup {o}
  BY <1>2 DEF TypeOK
<1>4. wait'[o] = delay /\ \A q \in Operations \ {o} : wait'[q] = wait[q]
  BY <1>2 DEF TypeOK
<1>5. Announced' = Announced \cup {<<o[1], delay>>}
  BY <1>2, <1>3, <1>4 DEF Announced
<1>6. Promise!Announce(plan, delay)
  BY <1>2, <1>5 DEF ExecuteSchedule, Announced, Promise!Announce
<1> QED
  BY <1>6 DEF Promise!Next

LEMMA ExecuteImplements ==
  ASSUME TypeOK, ExecuteExecute
  PROVE  Promise!Next
<1>1. PICK plan \in Plans, salt \in Salts :
        dir["execute"].plan = plan /\ dir["execute"].salt = salt
  BY DEF TypeOK, ExecuteExecute, Timelocked, Jobs
<1> DEFINE o == <<plan, salt>>
           Left == {q \in Operations : phase[q] = "pending"} \ {o}
<1>2. /\ o \in Operations /\ phase[o] = "pending" /\ wait[o] = 0 /\ wait' = wait
      /\ phase' = [phase EXCEPT ![o] = "done"]
      /\ impl' = Upgraded(plan) /\ Upgradable(plan, "timelock", code)
  BY <1>1 DEF ExecuteExecute, Ready, Operations
<1>3. /\ {q \in Operations : phase[q] = "pending"} = Left \cup {o}
      /\ {q \in Operations : phase'[q] = "pending"} = Left
  BY <1>2 DEF TypeOK
<1>4. /\ Announced = {<<q[1], wait[q]>> : q \in Left} \cup {<<o[1], wait[o]>>}
      /\ Announced' = {<<q[1], wait[q]>> : q \in Left}
  BY <1>2, <1>3 DEF Announced
<1>5. <<o[1], wait[o]>> = <<plan, 0>>
  BY <1>2
<1>6. <<plan, 0>> \in Announced /\ Announced' \in {Announced, Announced \ {<<plan, 0>>}}
  BY <1>4, <1>5
<1>7. Promise!Landable(plan, {})
  BY <1>2 DEF Upgradable, Mine, Promise!Landable
<1>8. impl' = Promise!Moved(plan)
  BY <1>2, UpgradedIsMoved
<1>9. Promise!Activate(plan)
  BY <1>2, <1>6, <1>7, <1>8
  DEF ExecuteExecute, Upgradable, Announced, Promise!Activate
<1> QED
  BY <1>9 DEF Promise!Next

LEMMA TickImplements ==
  ASSUME TypeOK, Tick
  PROVE  Promise!Next
<1> DEFINE S == {o \in Operations : phase[o] = "pending"}
<1>1. /\ {o \in Operations : phase'[o] = "pending"} = S
      /\ \A o \in S : wait'[o] = Promise!Less(wait[o])
  BY DEF Tick, Less, Promise!Less
<1>2. Announced' = {<<o[1], Promise!Less(wait[o])>> : o \in S}
  BY <1>1 DEF Announced
<1>3. {<<a[1], Promise!Less(a[2])>> : a \in {<<o[1], wait[o]>> : o \in S}}
        = {<<o[1], Promise!Less(wait[o])>> : o \in S}
  <2> DEFINE A == {<<o[1], wait[o]>> : o \in S}
             pair(o) == <<o[1], wait[o]>>
  <2>1. \A o : pair(o)[1] = o[1] /\ pair(o)[2] = wait[o]
    OBVIOUS
  <2>2. A = {pair(o) : o \in S}
    OBVIOUS
  <2> HIDE DEF pair, S
  <2>3. {<<a[1], Promise!Less(a[2])>> : a \in {pair(o) : o \in S}}
          = {<<pair(o)[1], Promise!Less(pair(o)[2])>> : o \in S}
    BY Zenon
  <2>4. {<<pair(o)[1], Promise!Less(pair(o)[2])>> : o \in S}
          = {<<o[1], Promise!Less(wait[o])>> : o \in S}
    BY <2>1
  <2> QED
    BY <2>2, <2>3, <2>4
<1>4. Promise!Pass
  BY <1>2, <1>3 DEF Tick, Announced, Promise!Pass
<1> QED
  BY <1>4 DEF Promise!Next

LEMMA StepImplements == TypeOK /\ [Next]_vars => [Promise!Next]_Promise!vars
<1> SUFFICES ASSUME TypeOK, [Next]_vars
             PROVE  Promise!Next \/ UNCHANGED Promise!vars
  OBVIOUS
<1>1. CASE HandOver
  BY <1>1 DEF HandOver, Promise!Next, Promise!HandOver
<1>2. CASE UNCHANGED chain
  BY <1>2 DEF chain, Promise!vars
<1>3. CASE Generate \/ Write \/ Interrupt \/ UNCHANGED vars
  <2>1. UNCHANGED chain
    BY <1>3 DEF Generate, GenerateAtomic, GenerateTimelocked, Write, Interrupt, vars
  <2> QED
    BY <2>1, <1>2
<1> QED
  BY <1>1, <1>3, UpgradeImplements, DeployImplements, ScheduleImplements,
     ExecuteImplements, TickImplements
  DEF Next

(* Whatever files are mixed and in whatever order they are executed: the   *)
(* proxies of a plan move together, to implementations with code, and      *)
(* under the timelock only after the notice (gen_upgrade_safetx.py).       *)
THEOREM KeepsItsPromise == Spec => KeepsPromise
  BY InitImplements, StepImplements, TypeCorrect, PTL
  DEF Spec, KeepsPromise, Promise!Spec
=============================================================================
