------------------------ MODULE PanopticGuardian_proofs ------------------------
(***************************************************************************)
(* Proofs about PanopticGuardian.  The inductive invariant says that every *)
(* pending unlock was requested after the admin last locked its pool, and  *)
(* has waited since: the periods it has left and the age of the lock make  *)
(* up the delay.                                                           *)
(***************************************************************************)
EXTENDS PanopticGuardian, TLAPS

RequestedAfterLock ==
    \A p \in Pools : Pending(p) => lockAge[p] + unlockEta[p] >= UnlockDelay

IInv == TypeOK /\ PendingOnlyWhileLocked /\ RequestedAfterLock

\* The guardian starts with no pool locked and no fee collected.
LEMMA InitIInv == Init => IInv
  <1> SUFFICES ASSUME Init PROVE IInv
    OBVIOUS
  <1>1. TypeOK
    BY GuardianAssumption DEF Init, TypeOK
  <1>2. PendingOnlyWhileLocked /\ RequestedAfterLock
    BY DEF Init, PendingOnlyWhileLocked, RequestedAfterLock, Pending
  <1> QED BY <1>1, <1>2 DEF IInv

\* Every step keeps the types: balances are paid in and checked before they
\* are taken out, and an ETA only ever counts down from the delay.
LEMMA TypeStep == ASSUME TypeOK, [Next]_vars PROVE TypeOK'
  <1> USE GuardianAssumption
  <1>1. ASSUME NEW p \in Pools, LockPool(p) PROVE TypeOK'
    BY <1>1 DEF TypeOK, LockPool, Trade, Build
  <1>2. ASSUME NEW p \in Pools, RequestUnlock(p) PROVE TypeOK'
    BY <1>2 DEF TypeOK, RequestUnlock, Trade, Build
  <1>3. ASSUME NEW p \in Pools, ExecuteUnlock(p) PROVE TypeOK'
    BY <1>3 DEF TypeOK, ExecuteUnlock, History, Trade, Build
  <1>4. ASSUME NEW p \in Pools, CancelUnlock(p) PROVE TypeOK'
    BY <1>4 DEF TypeOK, CancelUnlock, Trade, Build
  <1>5. ASSUME NEW a \in Builders, NEW r \in BOOLEAN, SetBuilderAdminRevoked(a, r)
        PROVE TypeOK'
    BY <1>5 DEF TypeOK, SetBuilderAdminRevoked, Locks, History, Trade
  <1>6. ASSUME NEW a \in Builders, NEW c \in Codes, DeployBuilder(c, a)
        PROVE TypeOK'
    BY <1>6 DEF TypeOK, DeployBuilder, Locks, History, Trade
  <1>7. ASSUME NEW a \in Builders, NEW c \in Codes, Sweep(a, c) PROVE TypeOK'
    BY <1>7 DEF TypeOK, Sweep, Locks, History, Trade
  <1>8. ASSUME NEW p \in Pools, NEW a \in Builders, NEW c \in Codes,
               LockPoolAsBuilder(p, a, c)
        PROVE TypeOK'
    BY <1>8 DEF TypeOK, LockPoolAsBuilder, History, Trade, Build
  <1>9. ASSUME NEW amount \in 0..MaxFees, Collect(amount) PROVE TypeOK'
    BY <1>9 DEF TypeOK, Collect, Locks, History, Trade
  <1>10. ASSUME NEW p \in Pools, NEW c \in Callees, StartDispatch(p, c)
         PROVE TypeOK'
    <2>1. SafeMode(p) \in Nat
      <3>1. shocks[p] \in Nat
        BY DEF TypeOK
      <3>2. lockMode[p] \in Nat
        BY DEF TypeOK
      <3> QED BY <3>1, <3>2 DEF SafeMode
    <2>2. [mode |-> SafeMode(p), code |-> c] \in [mode : Nat, code : Callees]
      BY <2>1
    <2> QED BY <1>10, <2>2 DEF TypeOK, StartDispatch, Locks, History, Build
  <1>11. ASSUME NEW p \in Pools, running[p] # Idle
         PROVE /\ running[p].code \in Callees
               /\ Paid(running[p].code) \in [Codes \cup {Engine} -> Nat]
    <2>1. running[p] \in [mode : Nat, code : Callees]
      BY <1>11 DEF TypeOK
    <2>2. running[p].code \in Callees
      BY <2>1
    <2>3. fees \in [Codes \cup {Engine} -> Nat]
      BY DEF TypeOK
    <2> QED BY <2>2, <2>3 DEF Paid, Callees
  <1>12. ASSUME NEW p \in Pools, DispatchMint(p) PROVE TypeOK'
    <2>1. fees' \in [Codes \cup {Engine} -> Nat]
      BY <1>11, <1>12 DEF DispatchMint
    <2> QED BY <1>12, <2>1 DEF TypeOK, DispatchMint, Locks, History
  <1>13. ASSUME NEW p \in Pools, DispatchBurn(p) PROVE TypeOK'
    <2>1. fees' \in [Codes \cup {Engine} -> Nat]
      BY <1>11, <1>13 DEF DispatchBurn, TypeOK
    <2>2. open' \in [Pools -> Nat]
      BY <1>13 DEF DispatchBurn, TypeOK
    <2> QED BY <1>13, <2>1, <2>2 DEF TypeOK, DispatchBurn, Locks, History
  <1>14. ASSUME NEW p \in Pools, EndDispatch(p) PROVE TypeOK'
    BY <1>14 DEF TypeOK, EndDispatch, Locks, History, Build
  <1>15. ASSUME NEW p \in Pools, PokeOracle(p) PROVE TypeOK'
    BY <1>15 DEF TypeOK, PokeOracle, Locks, History, Build
  <1>16. ASSUME Tick PROVE TypeOK'
    <2>1. unlockEta' \in [Pools -> {NoUnlock} \cup 0..UnlockDelay]
      BY <1>16 DEF TypeOK, Tick, Pending
    <2>2. lockAge' \in [Pools -> 0..UnlockDelay]
      BY <1>16 DEF TypeOK, Tick
    <2> QED BY <1>16, <2>1, <2>2 DEF TypeOK, Tick, Trade, Build
  <1>17. ASSUME UNCHANGED vars PROVE TypeOK'
    BY <1>17 DEF TypeOK, vars
  <1> QED
    BY <1>1, <1>2, <1>3, <1>4, <1>5, <1>6, <1>7, <1>8, <1>9, <1>10, <1>12,
       <1>13, <1>14, <1>15, <1>16, <1>17
    DEF Next, GuardianAdmin, Others

\* Every step keeps the rest of the invariant.  Only the admin touches an
\* ETA: it asks for an unlock of a locked pool, and locking anew forgets the
\* request; time shortens the wait by as much as the lock ages.
LEMMA LockStep == ASSUME IInv, [Next]_vars
                  PROVE (PendingOnlyWhileLocked /\ RequestedAfterLock)'
  <1> USE GuardianAssumption
  <1> DEFINE Inv == PendingOnlyWhileLocked /\ RequestedAfterLock
  <1> USE DEF PendingOnlyWhileLocked, RequestedAfterLock, Pending, Locked
  <1>1. /\ lockMode \in [Pools -> {0, LockOn}]
        /\ unlockEta \in [Pools -> {NoUnlock} \cup 0..UnlockDelay]
        /\ lockAge \in [Pools -> 0..UnlockDelay]
        /\ PendingOnlyWhileLocked /\ RequestedAfterLock
    BY DEF IInv, TypeOK
  <1>2. ASSUME NEW p \in Pools, LockPool(p) PROVE Inv'
    BY <1>1, <1>2 DEF LockPool
  <1>3. ASSUME NEW p \in Pools, RequestUnlock(p) PROVE Inv'
    BY <1>1, <1>3 DEF RequestUnlock
  <1>4. ASSUME NEW p \in Pools, ExecuteUnlock(p) PROVE Inv'
    BY <1>1, <1>4 DEF ExecuteUnlock, History
  <1>5. ASSUME NEW p \in Pools, CancelUnlock(p) PROVE Inv'
    BY <1>1, <1>5 DEF CancelUnlock
  <1>6. ASSUME NEW p \in Pools, NEW a \in Builders, NEW c \in Codes,
               LockPoolAsBuilder(p, a, c)
        PROVE Inv'
    BY <1>1, <1>6 DEF LockPoolAsBuilder, History
  <1>7. ASSUME Tick PROVE Inv'
    BY <1>1, <1>7 DEF Tick
  <1>8. ASSUME UNCHANGED Locks PROVE Inv'
    BY <1>1, <1>8 DEF Locks, History
  <1>9. CASE GuardianAdmin
    BY <1>2, <1>3, <1>4, <1>5, <1>8, <1>9
    DEF GuardianAdmin, SetBuilderAdminRevoked, DeployBuilder
  <1>10. CASE Others
    BY <1>6, <1>8, <1>10
    DEF Others, Sweep, Collect, StartDispatch, DispatchMint, DispatchBurn,
        EndDispatch, PokeOracle
  <1>11. CASE UNCHANGED vars
    BY <1>8, <1>11 DEF vars, Locks, History
  <1> QED BY <1>7, <1>9, <1>10, <1>11 DEF Next

LEMMA StepIInv == IInv /\ [Next]_vars => IInv'
  BY TypeStep, LockStep DEF IInv

THEOREM Invariance == Spec => []IInv
  BY InitIInv, StepIInv, PTL DEF Spec

\* Balances are never overdrawn and every ETA is within the delay.
THEOREM TypeCorrect == Spec => []TypeOK
  <1>1. IInv => TypeOK
    BY DEF IInv
  <1> QED BY <1>1, Invariance, PTL

\* A lock is never lost: whatever interleaving of dispatches, pokes and
\* builders, an unlock is pending for locked pools only.
THEOREM LockIsKept == Spec => []PendingOnlyWhileLocked
  <1>1. IInv => PendingOnlyWhileLocked
    BY DEF IInv
  <1> QED BY <1>1, Invariance, PTL

\* No unlock comes sooner after the admin's last lock than the delay.
THEOREM AdminLockIsHeld == Spec => AdminLockHolds
  <1> DEFINE Holds == \A p \in Pools : Locked(p) /\ lockMode'[p] = 0 =>
                        lockAge[p] >= UnlockDelay
  <1> USE GuardianAssumption
  <1>1. ASSUME IInv, [Next]_vars PROVE [Holds]_vars
    <2> SUFFICES ASSUME NEW p \in Pools, Locked(p), lockMode'[p] = 0
                 PROVE lockAge[p] >= UnlockDelay
      OBVIOUS
    <2>1. /\ lockMode \in [Pools -> {0, LockOn}] /\ lockMode[p] # 0
          /\ lockAge \in [Pools -> 0..UnlockDelay]
      BY <1>1 DEF IInv, TypeOK, Locked
    <2>2. ~ UNCHANGED lockMode
      BY <2>1
    <2>3. \A q \in Pools : ~ LockPool(q)
      BY <2>1 DEF LockPool
    <2>4. \A q \in Pools, a \in Builders, c \in Codes : ~ LockPoolAsBuilder(q, a, c)
      BY <2>1 DEF LockPoolAsBuilder
    <2>5. PICK q \in Pools : ExecuteUnlock(q)
      BY <1>1, <2>2, <2>3, <2>4
      DEF Next, GuardianAdmin, Others, RequestUnlock, CancelUnlock,
          SetBuilderAdminRevoked, DeployBuilder, Sweep, Collect, StartDispatch,
          DispatchMint, DispatchBurn, EndDispatch, PokeOracle, Tick, Locks, vars
    <2>6. p = q /\ unlockEta[q] = 0
      BY <2>1, <2>5 DEF ExecuteUnlock
    <2>7. lockAge[q] + unlockEta[q] >= UnlockDelay
      BY <1>1, <2>6, GuardianAssumption DEF IInv, RequestedAfterLock, Pending
    <2> QED BY <2>1, <2>6, <2>7
  <1> QED BY <1>1, Invariance, PTL DEF Spec, AdminLockHolds

\* What is asked of a step for a pending unlock: the admin withdraws it, or the
\* pool opens, or it is still pending and no farther off, and nearer or due
\* when time has passed.
DrawsNear(p) ==
    \/ p \in withdrawn' \/ ~ Locked(p)'
    \/ /\ Pending(p)' /\ unlockEta'[p] <= unlockEta[p]
       /\ Tick => unlockEta'[p] < unlockEta[p] \/ unlockEta[p] = 0

\* The part of "a builder cannot unilaterally block the guardian admin's unlock
\* schedule" that needs no fairness: no lock of a builder, dispatch or poke of
\* the oracle puts a requested unlock off or forgets it (lockPoolAsBuilder).
THEOREM UnlockDrawsNear == Spec => [][\A p \in Pools : Pending(p) => DrawsNear(p)]_vars
  <1> USE GuardianAssumption
  <1>1. ASSUME IInv, Next, NEW p \in Pools, Pending(p) PROVE DrawsNear(p)
    <2>1. /\ unlockEta \in [Pools -> {NoUnlock} \cup 0..UnlockDelay]
          /\ unlockEta[p] \in 0..UnlockDelay
          /\ lockMode \in [Pools -> {0, LockOn}] /\ withdrawn \subseteq Pools
      BY <1>1 DEF IInv, TypeOK, Pending
    <2>2. CASE ~ Tick /\ \E q \in Pools : LockPool(q) \/ CancelUnlock(q)
      <3>1. p \in withdrawn' \/ unlockEta'[p] = unlockEta[p]
        BY <2>1, <2>2 DEF LockPool, CancelUnlock
      <3> QED BY <1>1, <2>1, <2>2, <3>1 DEF DrawsNear, Pending
    <2>3. CASE Tick
      <3>1. unlockEta'[p] = IF unlockEta[p] > 0 THEN unlockEta[p] - 1 ELSE unlockEta[p]
        BY <1>1, <2>3 DEF Tick
      <3> QED BY <1>1, <2>1, <3>1 DEF DrawsNear, Pending
    <2>4. CASE \E q \in Pools : RequestUnlock(q) \/ ExecuteUnlock(q)
      <3>1. PICK q \in Pools : RequestUnlock(q) \/ ExecuteUnlock(q)
        BY <2>4
      <3>2. CASE q = p
        BY <1>1, <2>1, <3>1, <3>2 DEF RequestUnlock, ExecuteUnlock, DrawsNear, Locked
      <3>3. CASE q # p
        BY <1>1, <2>1, <2>3, <3>1, <3>3 DEF RequestUnlock, ExecuteUnlock, DrawsNear, Pending
      <3> QED BY <3>2, <3>3
    <2>5. CASE UNCHANGED unlockEta
      BY <1>1, <2>1, <2>3, <2>5 DEF DrawsNear, Pending
    <2> QED
      BY <1>1, <2>2, <2>3, <2>4, <2>5
      DEF Next, GuardianAdmin, Others, SetBuilderAdminRevoked, DeployBuilder, Sweep,
          Collect, LockPoolAsBuilder, StartDispatch, DispatchMint, DispatchBurn,
          EndDispatch, PokeOracle, Locks
  <1>2. ASSUME IInv, [Next]_vars
        PROVE [\A p \in Pools : Pending(p) => DrawsNear(p)]_vars
    BY <1>1, <1>2
  <1> QED BY <1>2, Invariance, PTL DEF Spec
=============================================================================
