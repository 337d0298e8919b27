--------------------------- MODULE PanopticGuardian ---------------------------
(***************************************************************************)
(* The emergency lock of the pools of one RiskEngine:                      *)
(* src/contracts/PanopticGuardian.sol and its callees RiskEngine.lockPool, *)
(* PanopticPool.lockSafeMode and Builder.sol.  The lock lives in the       *)
(* pool's oracle pack, which every dispatch and every poke also rewrites,  *)
(* so both are here.  A dispatch is three kinds of step, because the       *)
(* tokens and hooks it calls may call the guardian in between.             *)
(*                                                                         *)
(* Times are kept relative to now: unlockEta counts the periods left, and  *)
(* so no clock grows without bound.                                        *)
(***************************************************************************)
EXTENDS Integers

CONSTANTS
    Pools,
    Codes,         \* builder codes other than 0
    NoCode,        \* builderCode == 0
    Builders,      \* accounts that may become admins of builder wallets
    NoAdmin,       \* the admin of a wallet that is not deployed
    Engine,        \* the RiskEngine, which holds the protocol's fees
    UnlockDelay,   \* UNLOCK_DELAY, in periods
    LockOn,        \* 3, the lock mode of a locked pool
    NoUnlock,      \* unlockEta == 0
    Idle,          \* no dispatch is in progress
    Shocks,        \* 0..3, the oracle deviations isSafeMode may find
    MaxOpen,       \* bound: positions open in a pool
    MaxFees        \* bound: fees waiting in one account

ASSUME GuardianAssumption ==
    /\ UnlockDelay \in Nat /\ LockOn \in Nat \ {0}
    /\ NoUnlock \notin Nat
    /\ NoCode \notin Codes /\ NoAdmin \notin Builders
    /\ Engine \notin Codes
    /\ Shocks \subseteq Nat /\ MaxOpen \in Nat /\ MaxFees \in Nat

VARIABLES
    lockMode,   \* OraclePack.lockMode of each pool: 0 or LockOn
    shocks,     \* how many deviations the oracle of each pool shows
    unlockEta,  \* periods until a requested unlock is ready, or NoUnlock
    revoked,    \* builderAdminRevoked: the admins that may not lock
    wallet,     \* the admin of each builder code's wallet
    fees,       \* commission held by each wallet and by the engine
    running,    \* the dispatch in progress in each pool, with its safe mode
    open,       \* positions open in each pool
    lockAge,    \* history: periods since the admin last locked each pool
    withdrawn   \* history: pools whose last request the admin took back

vars == <<lockMode, shocks, unlockEta, revoked, wallet, fees, running, open,
          lockAge, withdrawn>>

History == <<lockAge, withdrawn>>
Locks == <<lockMode, unlockEta, History>>
Trade == <<shocks, running, open>>
Build == <<revoked, wallet, fees>>

\* The builder codes a dispatch may name: anyone may give any.
Callees == {NoCode} \cup Codes
Locked(p) == lockMode[p] # 0
Pending(p) == unlockEta[p] # NoUnlock

\* isSafeMode: the deviations found, plus the lock.
SafeMode(p) == shocks[p] + lockMode[p]

-----------------------------------------------------------------------------
(* The guardian's admin.                                                   *)

\* Mutant: a lock that leaves the pending unlock in place.
LockPoolOnly(p) ==
    /\ lockMode'  = [lockMode EXCEPT ![p] = LockOn]
    /\ lockAge'   = [lockAge EXCEPT ![p] = 0]
    /\ UNCHANGED <<unlockEta, withdrawn, Trade, Build>>

LockPool(p) ==
    /\ unlockEta' = [unlockEta EXCEPT ![p] = NoUnlock]
    /\ lockMode'  = [lockMode EXCEPT ![p] = LockOn]
    /\ lockAge'   = [lockAge EXCEPT ![p] = 0]
    /\ withdrawn' = withdrawn \cup {p}
    /\ UNCHANGED <<Trade, Build>>

RequestUnlock(p) ==
    /\ ~ Pending(p) /\ Locked(p)
    /\ unlockEta' = [unlockEta EXCEPT ![p] = UnlockDelay]
    /\ withdrawn' = withdrawn \ {p}
    /\ UNCHANGED <<lockMode, lockAge, Trade, Build>>

ExecuteUnlock(p) ==
    /\ unlockEta[p] = 0
    /\ unlockEta' = [unlockEta EXCEPT ![p] = NoUnlock]
    /\ lockMode'  = [lockMode EXCEPT ![p] = 0]
    /\ UNCHANGED <<History, Trade, Build>>

CancelUnlock(p) ==
    /\ Pending(p)
    /\ unlockEta' = [unlockEta EXCEPT ![p] = NoUnlock]
    /\ withdrawn' = withdrawn \cup {p}
    /\ UNCHANGED <<lockMode, lockAge, Trade, Build>>

SetBuilderAdminRevoked(a, isRevoked) ==
    /\ revoked' = IF isRevoked THEN revoked \cup {a} ELSE revoked \ {a}
    /\ UNCHANGED <<Locks, Trade, wallet, fees>>

\* CREATE2 fails on a code whose wallet exists; the wallet is initialized in
\* the same call, so its admin is set once.
DeployBuilder(c, a) ==
    /\ wallet[c] = NoAdmin
    /\ wallet' = [wallet EXCEPT ![c] = a]
    /\ UNCHANGED <<Locks, Trade, revoked, fees>>

-----------------------------------------------------------------------------
(* Builders, the treasurer and the passing of time.                        *)

IsAuthorizedBuilder(a, c) == a \notin revoked /\ wallet[c] = a

\* Mutant: a builder's lock cancels the pending unlock as the admin's does.
BuilderLockCancels(p, a, c) ==
    /\ IsAuthorizedBuilder(a, c)
    /\ lockMode'  = [lockMode EXCEPT ![p] = LockOn]
    /\ unlockEta' = [unlockEta EXCEPT ![p] = NoUnlock]
    /\ UNCHANGED <<History, Trade, Build>>

\* A builder may lock any pool of the engine; a pending unlock stays.
LockPoolAsBuilder(p, a, c) ==
    /\ IsAuthorizedBuilder(a, c)
    /\ lockMode' = [lockMode EXCEPT ![p] = LockOn]
    /\ UNCHANGED <<unlockEta, History, Trade, Build>>

\* BuilderWallet.sweep: its admin takes all of its fees.
Sweep(a, c) ==
    /\ wallet[c] = a
    /\ fees' = [fees EXCEPT ![c] = 0]
    /\ UNCHANGED <<Locks, Trade, revoked, wallet>>

\* Mutant: the engine's balance is not looked at.
CollectUnchecked(amount) ==
    /\ fees' = [fees EXCEPT ![Engine] = IF amount = 0 THEN 0 ELSE @ - amount]
    /\ UNCHANGED <<Locks, Trade, revoked, wallet>>

\* The treasurer collects an amount, or with 0 the whole balance if any.
Collect(amount) ==
    /\ fees[Engine] > 0 /\ amount <= fees[Engine]
    /\ fees' = [fees EXCEPT ![Engine] = IF amount = 0 THEN 0 ELSE @ - amount]
    /\ UNCHANGED <<Locks, Trade, revoked, wallet>>

\* block.timestamp moves between transactions only.
Tick ==
    /\ \A p \in Pools : running[p] = Idle
    /\ unlockEta' = [p \in Pools |->
         IF Pending(p) /\ unlockEta[p] > 0 THEN unlockEta[p] - 1 ELSE unlockEta[p]]
    /\ lockAge' = [p \in Pools |->
         IF lockAge[p] < UnlockDelay THEN lockAge[p] + 1 ELSE lockAge[p]]
    /\ UNCHANGED <<lockMode, withdrawn, Trade, Build>>

-----------------------------------------------------------------------------
(* PanopticPool: what reads the lock and what rewrites the oracle pack.    *)

\* getRiskParameters reads the safe mode once, for the whole dispatch, and
\* names the address of the code's wallet whether it is deployed or not.
StartDispatch(p, c) ==
    /\ running[p] = Idle
    /\ running' = [running EXCEPT ![p] = [mode |-> SafeMode(p), code |-> c]]
    /\ UNCHANGED <<Locks, shocks, open, Build>>

Paid(c) == IF c = NoCode THEN fees
           ELSE [fees EXCEPT ![Engine] = @ + 1, ![c] = @ + 1]

CanPay(c) == c # NoCode => fees[Engine] < MaxFees /\ fees[c] < MaxFees

DispatchMint(p) ==
    /\ running[p] # Idle /\ running[p].mode <= 2
    /\ open[p] < MaxOpen /\ CanPay(running[p].code)
    /\ open' = [open EXCEPT ![p] = @ + 1]
    /\ fees' = Paid(running[p].code)
    /\ UNCHANGED <<Locks, shocks, running, revoked, wallet>>

\* A burn or a settlement of premium is not stopped by any safe mode.
DispatchBurn(p) ==
    /\ running[p] # Idle /\ open[p] > 0
    /\ CanPay(running[p].code)
    /\ \E isBurn \in BOOLEAN : open' = [open EXCEPT ![p] = IF isBurn THEN @ - 1 ELSE @]
    /\ fees' \in {fees, Paid(running[p].code)}
    /\ UNCHANGED <<Locks, shocks, running, revoked, wallet>>

\* Mutant: the pack is written back as it was when the dispatch began.
EndDispatchStale(p) ==
    /\ running[p] # Idle
    /\ running' = [running EXCEPT ![p] = Idle]
    /\ \E s \in Shocks : shocks' = [shocks EXCEPT ![p] = s]
    /\ lockMode' = [lockMode EXCEPT ![p] = IF running[p].mode < LockOn THEN 0 ELSE @]
    /\ UNCHANGED <<unlockEta, History, open, Build>>

\* _validateSolvency reads the pack again and a new observation keeps its
\* lock mode: whatever the guardian did during the dispatch stays.
EndDispatch(p) ==
    /\ running[p] # Idle
    /\ running' = [running EXCEPT ![p] = Idle]
    /\ \E s \in Shocks : shocks' = [shocks EXCEPT ![p] = s]
    /\ UNCHANGED <<Locks, open, Build>>

\* The price moves, or an observation is recorded.
PokeOracle(p) ==
    /\ running[p] = Idle
    /\ \E s \in Shocks : shocks' = [shocks EXCEPT ![p] = s]
    /\ UNCHANGED <<Locks, running, open, Build>>

-----------------------------------------------------------------------------
(* The specification.                                                      *)

Init ==
    /\ lockMode  = [p \in Pools |-> 0]
    /\ shocks \in [Pools -> Shocks]
    /\ unlockEta = [p \in Pools |-> NoUnlock]
    /\ revoked   = {}
    /\ wallet    = [c \in Codes |-> NoAdmin]
    /\ fees      = [h \in Codes \cup {Engine} |-> 0]
    /\ running   = [p \in Pools |-> Idle]
    /\ open      = [p \in Pools |-> 0]
    /\ lockAge   = [p \in Pools |-> 0]
    /\ withdrawn = {}

GuardianAdmin ==
    \/ \E p \in Pools : \/ LockPool(p) \/ RequestUnlock(p)
                        \/ ExecuteUnlock(p) \/ CancelUnlock(p)
    \/ \E a \in Builders :
         \/ \E isRevoked \in BOOLEAN : SetBuilderAdminRevoked(a, isRevoked)
         \/ \E c \in Codes : DeployBuilder(c, a)

Others ==
    \/ \E a \in Builders, c \in Codes :
         Sweep(a, c) \/ \E p \in Pools : LockPoolAsBuilder(p, a, c)
    \/ \E amount \in 0..MaxFees : Collect(amount)
    \/ \E p \in Pools :
         \/ \E c \in Callees : StartDispatch(p, c)
         \/ DispatchMint(p) \/ DispatchBurn(p) \/ EndDispatch(p) \/ PokeOracle(p)

Next == GuardianAdmin \/ Others \/ Tick

Spec == Init /\ [][Next]_vars

\* Transactions end, time passes between them, and an admin who may execute
\* the unlock it asked for does so unless it withdraws it.
Fairness ==
    /\ SF_vars(Tick)
    /\ \A p \in Pools : WF_vars(EndDispatch(p)) /\ WF_vars(ExecuteUnlock(p))

FairSpec == Spec /\ Fairness

-----------------------------------------------------------------------------
(* Properties.                                                             *)

\* No balance is overdrawn by the treasurer, no ETA passes the delay.
TypeOK ==
    /\ lockMode \in [Pools -> {0, LockOn}]
    /\ shocks \in [Pools -> Shocks]
    /\ unlockEta \in [Pools -> {NoUnlock} \cup 0..UnlockDelay]
    /\ revoked \subseteq Builders
    /\ wallet \in [Codes -> Builders \cup {NoAdmin}]
    /\ fees \in [Codes \cup {Engine} -> Nat]
    /\ running \in [Pools -> {Idle} \cup [mode : Nat, code : Callees]]
    /\ open \in [Pools -> Nat]
    /\ lockAge \in [Pools -> 0..UnlockDelay]
    /\ withdrawn \subseteq Pools

\* An unlock can only be pending for a pool that is locked: neither a
\* dispatch that was running when the lock came nor a poke of the oracle
\* loses the lock when it rewrites the pack (dispatch, insertObservation).
PendingOnlyWhileLocked == \A p \in Pools : Pending(p) => Locked(p)

\* A pool the admin locks stays locked for at least the delay, whatever
\* unlock was pending before and whoever else locks it (lockPool clears it).
AdminLockHolds ==
    [][ \A p \in Pools : Locked(p) /\ lockMode'[p] = 0 =>
          lockAge[p] >= UnlockDelay ]_vars

\* "A builder cannot unilaterally block the guardian admin's unlock schedule":
\* once requested, and unless the admin itself withdraws it, the unlock goes
\* through however often builders lock the pool again (lockPoolAsBuilder).
UnlockGoesThrough ==
    \A p \in Pools : Pending(p) ~> (~ Locked(p) \/ p \in withdrawn)
=============================================================================
