----------------------------- MODULE MCUpgrade -----------------------------
(* Instances of Upgrade for TLC: two proxies of one engine.                *)
EXTENDS Upgrade, TLC

CONSTANTS blue, stocks, stranger, v1, v2, v3

AllOnOld == (blue :> v1) @@ (stocks :> v1)

(* Both proxies to a new engine or to one each, one of them back, and a    *)
(* list with an address that is no RiskEngine proxy.                       *)
Forward  == (blue :> v2) @@ (stocks :> v2)
Tiers    == (blue :> v2) @@ (stocks :> v3)
Back     == (blue :> v1)
Mistaken == (blue :> v2) @@ (stranger :> v2)

Lists == {Forward, Tiers, Back, Mistaken}
=============================================================================
