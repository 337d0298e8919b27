---------------------------- MODULE MCRelease ----------------------------
(* Instances of Release for TLC: a data contract, an engine, its proxy and *)
(* a pool that refers to them, in two configs.                             *)
EXTENDS Release

CONSTANTS v3, v4, data, engine, proxy, pool, a0, a1, b0, b1, b2, b3, b4, b5, b6

TwoConfigs == <<v3, v4>>
DataSlots  == <<data>>
LogicSlots == <<pool, proxy, engine>>
Order      == <<data, engine, proxy, pool>>
CommonOnes == {data, engine, proxy}

References == (data :> {}) @@ (engine :> {}) @@ (proxy :> {engine}) @@ (pool :> {data, proxy})
Calls      == (data :> {}) @@ (engine :> {}) @@ (proxy :> {engine}) @@ (pool :> {})
GasOfEach  == (data :> 1) @@ (engine :> 2) @@ (proxy :> 1) @@ (pool :> 5)

Vanity == [data |-> <<a0, a1>>, logic |-> <<b0, b1, b2, b3, b4, b5, b6>>]

At(a) == [address |-> a, at |-> a]
Committed ==
    [k \in {v3, v4} |-> (data :> At(a0)) @@ (engine :> At(b4)) @@ (proxy :> At(b3))
                          @@ (pool :> At(IF k = v3 THEN b1 ELSE b2))]
=============================================================================
