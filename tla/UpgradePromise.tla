--------------------------- MODULE UpgradePromise ---------------------------
(* What the holders of a pool may rely on when its RiskEngine proxy is     *)
(* upgraded: a proxy never points at an address without code, the proxies  *)
(* of one plan move together, and once a timelock owns the ProxyAdmins     *)
(* nothing moves that was not announced MinDelay ticks before.             *)
EXTENDS Naturals

CONSTANTS
    Proxies,        \* RiskEngine proxies
    Impls,          \* implementation addresses
    Genesis,        \* what each proxy points at to begin with
    Plans,          \* partial functions from addresses to implementations
    Delays,         \* notices that may be given
    MinDelay        \* notice the timelock insists on

VARIABLES
    owner,          \* who owns the ProxyAdmins: "safe" or "timelock"
    code,           \* implementations that have code
    impl,           \* what each proxy points at
    announced       \* <<plan, ticks left>> of the plans announced

vars == <<owner, code, impl, announced>>

(* The proxies of a plan point at its implementations, the others stay.    *)
Moved(plan) ==
    [p \in Proxies |-> IF p \in DOMAIN plan THEN plan[p] ELSE impl[p]]

(* Every implementation of the plan has code once new is deployed.         *)
Landable(plan, new) ==
    \A p \in DOMAIN plan \cap Proxies : plan[p] \in code \cup new

Less(n) == IF n = 0 THEN 0 ELSE n - 1

Init ==
    /\ owner = "safe"
    /\ impl = Genesis
    /\ code = {Genesis[p] : p \in Proxies}
    /\ announced = {}

(* Code appears, with nothing pointing at it.                              *)
Publish(new) ==
    /\ code' = code \cup new
    /\ UNCHANGED <<owner, impl, announced>>

Announce(plan, delay) ==
    /\ delay >= MinDelay
    /\ announced' = announced \cup {<<plan, delay>>}
    /\ UNCHANGED <<owner, code, impl>>

(* A plan whose notice has run out takes effect.                           *)
Activate(plan) ==
    /\ owner = "timelock" /\ <<plan, 0>> \in announced
    /\ Landable(plan, {})
    /\ impl' = Moved(plan)
    /\ announced' \in {announced, announced \ {<<plan, 0>>}}
    /\ UNCHANGED <<owner, code>>

(* Before the timelock, a plan takes effect with its code.                 *)
Move(plan, new) ==
    /\ owner = "safe" /\ Landable(plan, new)
    /\ code' = code \cup new
    /\ impl' = Moved(plan)
    /\ UNCHANGED <<owner, announced>>

HandOver ==
    /\ owner = "safe" /\ owner' = "timelock"
    /\ UNCHANGED <<code, impl, announced>>

(* A tick brings every announced plan closer.                              *)
Pass ==
    /\ announced' = {<<a[1], Less(a[2])>> : a \in announced}
    /\ UNCHANGED <<owner, code, impl>>

Next ==
    \/ \E new \in SUBSET Impls : Publish(new)
    \/ \E plan \in Plans :
         \/ \E delay \in Delays : Announce(plan, delay)
         \/ Activate(plan)
         \/ \E new \in SUBSET Impls : Move(plan, new)
    \/ HandOver
    \/ Pass

Spec == Init /\ [][Next]_vars
=============================================================================
