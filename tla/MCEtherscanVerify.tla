------------------------- MODULE MCEtherscanVerify -------------------------
(* Instances of EtherscanVerify for TLC: an engine whose optimizer runs    *)
(* are wrong in the config, a proxy, a factory with metadata and, after    *)
(* it, a twin of the proxy.  other is not in the config.                   *)
EXTENDS EtherscanVerify

CONSTANTS proxy, engine, factory, twin, other

Order == <<engine, proxy, factory, twin>>

SameCode == [c \in Names |-> IF c \in {proxy, twin} THEN {proxy, twin} ELSE {c}]

Chosen == {Names, {engine, twin, other}}
=============================================================================
