---------------------- MODULE CollateralTracker_proofs ----------------------
(* Proofs about CollateralTracker, for every value of its constants.       *)
EXTENDS CollateralTracker, SumTheorems, TLAPS

LEMMA MulNat == ASSUME NEW a \in Nat, NEW b \in Nat PROVE a * b \in Nat
  BY SMT

LEMMA DivNat == ASSUME NEW a \in Nat, NEW c \in Nat, c > 0 PROVE a \div c \in Nat
  BY SMT

LEMMA MulDivNat ==
  ASSUME NEW a \in Nat, NEW b \in Nat, NEW c \in Nat, c > 0
  PROVE  MulDiv(a, b, c) \in Nat /\ MulDivUp(a, b, c) \in Nat
<1>1. a * b \in Nat BY MulNat
<1>2. a * b + (c - 1) \in Nat BY <1>1
<1>3. QED BY <1>1, <1>2, DivNat DEF MulDiv, MulDivUp

LEMMA ZeroDiv == ASSUME NEW c \in Nat, c > 0 PROVE 0 \div c = 0
  BY SMT

LEMMA SmallDiv == ASSUME NEW c \in Nat, c > 0 PROVE (c - 1) \div c = 0
  BY SMT

LEMMA NothingTimes ==
  ASSUME NEW a \in Nat, NEW c \in Nat, c > 0
  PROVE  /\ MulDiv(a, 0, c) = 0 /\ MulDivUp(a, 0, c) = 0
         /\ MulDiv(0, a, c) = 0 /\ MulDivUp(0, a, c) = 0
<1>1. a * 0 = 0 /\ 0 * a = 0 BY SMT
<1>2. QED BY <1>1, ZeroDiv, SmallDiv DEF MulDiv, MulDivUp

LEMMA DivInt == ASSUME NEW a \in Int, NEW c \in Nat, c > 0 PROVE a \div c \in Int
  BY SMT

LEMMA ExcessNat ==
  ASSUME NEW a \in Int, NEW b \in Int
  PROVE  Excess(a, b) \in Nat /\ (b \in Nat /\ a \in Nat => Excess(a, b) <= a)
  BY DEF Excess

LEMMA LesserNat ==
  ASSUME NEW a \in Nat, NEW b \in Nat
  PROVE  Lesser(a, b) \in Nat /\ Lesser(a, b) <= a /\ Lesser(a, b) <= b
  BY DEF Lesser

LEMMA DivBounds ==
  ASSUME NEW a \in Nat, NEW c \in Nat, c > 0
  PROVE  c * (a \div c) <= a /\ a < c * (a \div c) + c
  BY SMT

LEMMA CancelFactor ==
  ASSUME NEW a \in Int, NEW b \in Int, NEW c \in Nat, c > 0, c * a < c * b
  PROVE  a < b
<1>1. SUFFICES ASSUME b <= a PROVE FALSE OBVIOUS
<1>2. c * b <= c * a BY <1>1, SMT
<1>3. QED BY <1>2

LEMMA MulDivUpGrows ==
  ASSUME NEW a \in Nat, NEW w \in Nat, w > 0, NEW r \in Nat
  PROVE  a <= MulDivUp(a, w + r, w)
<1> DEFINE n == a * (w + r) + (w - 1)
           q == n \div w
<1>1. a * r \in Nat BY MulNat
<1>2. a * (w + r) = w * a + a * r BY SMT
<1>3. n \in Nat /\ w * a <= n - (w - 1) BY <1>1, <1>2, MulNat
<1>4. q \in Nat BY <1>3, DivNat
<1>5. n < w * q + w BY <1>3, DivBounds
<1> HIDE DEF n, q
<1>6. w * a < w * (q + 1)
  <2>1. w * (q + 1) = w * q + w BY <1>4, SMT
  <2>2. w * a \in Nat /\ w * q \in Nat BY <1>4, MulNat
  <2>3. QED BY <1>3, <1>5, <2>1, <2>2
<1>7. a < q + 1 BY <1>4, <1>6, CancelFactor
<1>8. QED BY <1>4, <1>7 DEF MulDivUp, n, q

\* How the two roundings compare with a number of whole parts.
LEMMA MulDivAtLeast ==
  ASSUME NEW a \in Nat, NEW b \in Nat, NEW c \in Nat, c > 0, NEW k \in Int,
         k * c <= a * b
  PROVE  k <= MulDiv(a, b, c)
<1> DEFINE n == a * b
           q == n \div c
<1>1. n \in Nat BY MulNat
<1>2. q \in Nat /\ n < c * q + c BY <1>1, DivNat, DivBounds
<1>3. k * c <= n OBVIOUS
<1> HIDE DEF n, q
<1>4. c * (q + 1) = c * q + c /\ k * c = c * k BY <1>2, SMT
<1>5. c * q \in Int /\ c * k \in Int BY <1>2
<1>6. c * k < c * (q + 1) BY <1>1, <1>2, <1>3, <1>4, <1>5
<1>7. k < q + 1 BY <1>2, <1>6, CancelFactor
<1>8. QED BY <1>2, <1>7 DEF MulDiv, n, q

LEMMA MulDivAtMost ==
  ASSUME NEW a \in Nat, NEW b \in Nat, NEW c \in Nat, c > 0, NEW k \in Int,
         a * b <= k * c
  PROVE  MulDiv(a, b, c) <= k
<1> DEFINE n == a * b
           q == n \div c
<1>1. n \in Nat BY MulNat
<1>2. q \in Nat /\ c * q <= n BY <1>1, DivNat, DivBounds
<1>3. n <= k * c OBVIOUS
<1> HIDE DEF n, q
<1>4. c * (k + 1) = c * k + c /\ k * c = c * k BY SMT
<1>5. c * q \in Int /\ c * k \in Int BY <1>2
<1>6. c * q < c * (k + 1) BY <1>1, <1>2, <1>3, <1>4, <1>5
<1>7. q < k + 1 BY <1>2, <1>6, CancelFactor
<1>8. QED BY <1>2, <1>7 DEF MulDiv, n, q

LEMMA MulDivUpCovers ==
  ASSUME NEW a \in Nat, NEW b \in Nat, NEW c \in Nat, c > 0
  PROVE  MulDivUp(a, b, c) \in Nat /\ a * b <= MulDivUp(a, b, c) * c
<1> DEFINE n == a * b
           x == n + (c - 1)
           q == x \div c
<1>1. n \in Nat BY MulNat
<1>2. x \in Nat BY <1>1
<1>3. q \in Nat /\ x < c * q + c BY <1>2, DivNat, DivBounds
<1>4. c * q \in Int /\ c * q = q * c BY <1>3, SMT
<1>5. n <= q * c
  <2> HIDE DEF n, q
  <2>1. QED BY <1>1, <1>3, <1>4
<1>6. QED BY <1>3, <1>5 DEF MulDivUp

\* Neither rounding is off by a whole part.
LEMMA MulDivUpBelow ==
  ASSUME NEW a \in Nat, NEW b \in Nat, NEW c \in Nat, c > 0
  PROVE  MulDivUp(a, b, c) * c < a * b + c
<1> DEFINE n == a * b
           x == n + (c - 1)
           q == x \div c
<1>1. n \in Nat BY MulNat
<1>2. x \in Nat BY <1>1
<1>3. q \in Nat /\ c * q <= x BY <1>2, DivNat, DivBounds
<1>4. c * q \in Int /\ c * q = q * c BY <1>3, SMT
<1>5. q * c < n + c
  <2> HIDE DEF n, q
  <2>1. QED BY <1>1, <1>3, <1>4
<1>6. QED BY <1>5 DEF MulDivUp

LEMMA MulDivWithin ==
  ASSUME NEW a \in Nat, NEW b \in Nat, NEW c \in Nat, c > 0
  PROVE  /\ MulDiv(a, b, c) \in Nat /\ MulDiv(a, b, c) * c <= a * b
         /\ a * b < MulDiv(a, b, c) * c + c
<1> DEFINE n == a * b
           q == n \div c
<1>1. n \in Nat BY MulNat
<1>2. q \in Nat /\ c * q <= n /\ n < c * q + c BY <1>1, DivNat, DivBounds
<1>3. c * q = q * c BY <1>2, SMT
<1>4. q * c <= n /\ n < q * c + c
  <2> HIDE DEF n, q
  <2>1. QED BY <1>2, <1>3
<1>5. QED BY <1>2, <1>4 DEF MulDiv

-----------------------------------------------------------------------------
(* What the storage of the vault always satisfies.                         *)

\* The borrow index only grows, and no account is ahead of it.
VaultInv(v) ==
    /\ v \in VaultType
    /\ v.index > 0
    /\ \A a \in Accounts : v.userIndex[a] <= v.index
    /\ \A a \in Accounts : v.net[a] > 0 => v.userIndex[a] > 0

LEMMA ConstantTypes ==
  /\ WAD \in Nat /\ WAD > 0 /\ DECIMALS \in Nat /\ DECIMALS > 0
  /\ VirtualShares \in Nat /\ Phantom \in Nat /\ Infinite \in Nat
  /\ LossCap \in Nat
  /\ NotionalFee \in Nat /\ PremiumFee \in Nat
  /\ ProtocolSplit \in Nat /\ BuilderSplit \in Nat
  /\ ProtocolSplit + BuilderSplit <= DECIMALS
  BY VaultAssumption

-----------------------------------------------------------------------------
(* One update of the storage at a time.                                    *)

SameDebts(v, w) ==
    w.index = v.index /\ w.net = v.net /\ w.userIndex = v.userIndex

SameAssets(v, w) ==
    /\ w.deposited = v.deposited /\ w.inAMM = v.inAMM
    /\ w.unrealized = v.unrealized /\ w.credited = v.credited

SameShares(v, w) ==
    w.bal = v.bal /\ w.supply = v.supply /\ w.credited = v.credited

\* An operation that touches nobody's debt keeps the invariant.
LEMMA SameDebtsKeep ==
  ASSUME NEW v, VaultInv(v), NEW w \in VaultType, SameDebts(v, w)
  PROVE  VaultInv(w)
  BY DEF VaultInv, SameDebts

LEMMA ShareFields ==
  ASSUME NEW v \in VaultType, NEW b \in [Accounts -> Nat], NEW s \in Nat,
         NEW w, w = [v EXCEPT !.bal = b, !.supply = s]
  PROVE  /\ w \in VaultType /\ w.bal = b /\ w.supply = s
         /\ SameDebts(v, w) /\ SameAssets(v, w)
  BY DEF VaultType, SameDebts, SameAssets

\* The shares of one account change: _mint, _burn, delegate, revoke.
LEMMA MintFields ==
  ASSUME NEW v \in VaultType, NEW u \in Accounts, NEW s \in Nat,
         NEW w, w = MintShares(v, u, s)
  PROVE  /\ w \in VaultType /\ w.bal = [v.bal EXCEPT ![u] = @ + s]
         /\ w.supply = v.supply + s
         /\ SameDebts(v, w) /\ SameAssets(v, w)
<1> DEFINE b == [v.bal EXCEPT ![u] = @ + s]
           k == v.supply + s
<1>1. b \in [Accounts -> Nat] /\ k \in Nat BY DEF VaultType
<1>2. w = [v EXCEPT !.bal = b, !.supply = k] BY DEF MintShares
<1> HIDE DEF b, k
<1>3. /\ w \in VaultType /\ w.bal = b /\ w.supply = k
      /\ SameDebts(v, w) /\ SameAssets(v, w)
  BY <1>1, <1>2, ShareFields
<1>4. QED BY <1>3 DEF b, k

LEMMA BurnFields ==
  ASSUME NEW v \in VaultType, NEW u \in Accounts, NEW s \in Nat, CanBurn(v, u, s),
         NEW w, w = BurnShares(v, u, s)
  PROVE  /\ w \in VaultType /\ w.bal = [v.bal EXCEPT ![u] = @ - s]
         /\ w.supply = v.supply - s
         /\ SameDebts(v, w) /\ SameAssets(v, w)
<1> DEFINE b == [v.bal EXCEPT ![u] = @ - s]
           k == v.supply - s
<1>1. b \in [Accounts -> Nat] /\ k \in Nat BY DEF VaultType, CanBurn
<1>2. w = [v EXCEPT !.bal = b, !.supply = k] BY DEF BurnShares
<1> HIDE DEF b, k
<1>3. /\ w \in VaultType /\ w.bal = b /\ w.supply = k
      /\ SameDebts(v, w) /\ SameAssets(v, w)
  BY <1>1, <1>2, ShareFields
<1>4. QED BY <1>3 DEF b, k

LEMMA MoveFields ==
  ASSUME NEW v \in VaultType, NEW from \in Accounts, NEW to \in Accounts,
         NEW s \in Nat, s <= v.bal[from],
         NEW w, w = MoveShares(v, from, to, s)
  PROVE  /\ w \in VaultType /\ w.supply = v.supply
         /\ w.bal = [[v.bal EXCEPT ![from] = @ - s] EXCEPT ![to] = @ + s]
         /\ SameDebts(v, w) /\ SameAssets(v, w)
<1> DEFINE c == [v.bal EXCEPT ![from] = @ - s]
           b == [c EXCEPT ![to] = @ + s]
<1>1. c \in [Accounts -> Nat] BY DEF VaultType
<1>2. b \in [Accounts -> Nat] /\ v.supply \in Nat BY <1>1 DEF VaultType
<1>3. w = [v EXCEPT !.bal = b, !.supply = v.supply] BY DEF MoveShares, VaultType
<1> HIDE DEF b
<1>4. /\ w \in VaultType /\ w.bal = b /\ w.supply = v.supply
      /\ SameDebts(v, w) /\ SameAssets(v, w)
  BY <1>2, <1>3, ShareFields
<1>5. QED BY <1>4 DEF b

LEMMA MintKeeps ==
  ASSUME NEW v, VaultInv(v), NEW u \in Accounts, NEW s \in Nat
  PROVE  VaultInv(MintShares(v, u, s))
  BY MintFields, SameDebtsKeep DEF VaultInv

LEMMA BurnKeeps ==
  ASSUME NEW v, VaultInv(v), NEW u \in Accounts, NEW s \in Nat, CanBurn(v, u, s)
  PROVE  VaultInv(BurnShares(v, u, s))
  BY BurnFields, SameDebtsKeep DEF VaultInv

LEMMA MoveKeeps ==
  ASSUME NEW v, VaultInv(v), NEW from \in Accounts, NEW to \in Accounts,
         NEW s \in Nat, s <= v.bal[from]
  PROVE  VaultInv(MoveShares(v, from, to, s))
  BY MoveFields, SameDebtsKeep DEF VaultInv

\* The pooled amounts and the allowances play no part in anybody's debt.
LEMMA DepositedFieldKeeps ==
  ASSUME NEW v, VaultInv(v), NEW d \in Nat
  PROVE  VaultInv([v EXCEPT !.deposited = d])
<1>1. [v EXCEPT !.deposited = d] \in VaultType BY DEF VaultInv, VaultType
<1>2. SameDebts(v, [v EXCEPT !.deposited = d])
  BY DEF VaultInv, VaultType, SameDebts
<1>3. QED BY <1>1, <1>2, SameDebtsKeep

LEMMA UnrealizedFieldKeeps ==
  ASSUME NEW v, VaultInv(v), NEW d \in Nat
  PROVE  VaultInv([v EXCEPT !.unrealized = d])
<1>1. [v EXCEPT !.unrealized = d] \in VaultType BY DEF VaultInv, VaultType
<1>2. SameDebts(v, [v EXCEPT !.unrealized = d])
  BY DEF VaultInv, VaultType, SameDebts
<1>3. QED BY <1>1, <1>2, SameDebtsKeep

LEMMA BalancesKeep ==
  ASSUME NEW v, VaultInv(v), NEW b \in [Accounts -> Nat]
  PROVE  VaultInv([v EXCEPT !.bal = b])
<1>1. [v EXCEPT !.bal = b] \in VaultType BY DEF VaultInv, VaultType
<1>2. SameDebts(v, [v EXCEPT !.bal = b])
  BY DEF VaultInv, VaultType, SameDebts
<1>3. QED BY <1>1, <1>2, SameDebtsKeep

LEMMA AllowanceKeeps ==
  ASSUME NEW v, VaultInv(v), NEW o \in Accounts, NEW s \in Spenders, NEW x \in Nat
  PROVE  VaultInv([v EXCEPT !.allowance[o][s] = x])
<1> DEFINE f == [v.allowance EXCEPT ![o][s] = x]
<1>1. f \in [Accounts -> [Spenders -> Nat]] BY DEF VaultInv, VaultType
<1>2. [v EXCEPT !.allowance[o][s] = x] = [v EXCEPT !.allowance = f]
  BY DEF VaultInv, VaultType
<1> HIDE DEF f
<1>3. [v EXCEPT !.allowance = f] \in VaultType BY <1>1 DEF VaultInv, VaultType
<1>4. SameDebts(v, [v EXCEPT !.allowance = f])
  BY DEF VaultInv, VaultType, SameDebts
<1>5. QED BY <1>2, <1>3, <1>4, SameDebtsKeep

\* An account brought to the market's index is not ahead of it.
LEMMA CurrentKeeps ==
  ASSUME NEW v, VaultInv(v), NEW u \in Accounts
  PROVE  LET w == Current(v, u)
         IN  /\ VaultInv(w) /\ w.userIndex[u] = v.index
             /\ SameAssets(v, w) /\ w.bal = v.bal /\ w.supply = v.supply
<1> DEFINE f == [v.userIndex EXCEPT ![u] = v.index]
           w == [v EXCEPT !.userIndex = f]
<1>1. f \in [Accounts -> Nat] /\ f[u] = v.index BY DEF VaultInv, VaultType
<1>2. Current(v, u) = w BY DEF Current, VaultInv, VaultType
<1>3. \A a \in Accounts : f[a] = v.userIndex[a] \/ f[a] = v.index
  BY DEF VaultInv, VaultType
<1> HIDE DEF f
<1>4. /\ w \in VaultType /\ w.userIndex = f /\ w.index = v.index /\ w.net = v.net
      /\ SameAssets(v, w) /\ w.bal = v.bal /\ w.supply = v.supply
  BY <1>1 DEF VaultInv, VaultType, SameAssets
<1> HIDE DEF w
<1>5. v.index \in Nat BY DEF VaultInv, VaultType
<1>6. VaultInv(w) BY <1>3, <1>4, <1>5 DEF VaultInv
<1>7. QED BY <1>1, <1>2, <1>4, <1>6

LEMMA VaultTotals ==
  ASSUME NEW v, VaultInv(v)
  PROVE  /\ TotalAssets(v) \in Nat /\ TotalSupply(v) \in Nat
         /\ \A x \in Nat : HasAssets(v) =>
              /\ ConvertToShares(v, x) \in Nat
              /\ PreviewWithdraw(v, x) \in Nat
         /\ \A x \in Nat : HasSupply(v) =>
              /\ ConvertToAssets(v, x) \in Nat
              /\ PreviewMint(v, x) \in Nat
<1>1. TotalAssets(v) \in Nat /\ TotalSupply(v) \in Nat
  BY DEF VaultInv, VaultType, TotalAssets, TotalSupply
<1>2. QED
  BY <1>1, MulDivNat DEF HasAssets, HasSupply, ConvertToShares, ConvertToAssets,
     PreviewMint, PreviewWithdraw

LEMMA OwedNat ==
  ASSUME NEW v, VaultInv(v), NEW a \in Accounts
  PROVE  /\ InterestOwed(v, a) \in Nat
         /\ InterestOwed(v, a) # 0 => v.net[a] > 0
<1>1. CASE v.net[a] <= 0 \/ v.userIndex[a] = 0 \/ v.userIndex[a] = v.index
  BY <1>1 DEF InterestOwed
<1>2. CASE ~ (v.net[a] <= 0 \/ v.userIndex[a] = 0 \/ v.userIndex[a] = v.index)
  <2>1. /\ v.net[a] \in Nat /\ v.userIndex[a] \in Nat /\ v.userIndex[a] > 0
        /\ v.index - v.userIndex[a] \in Nat /\ v.net[a] > 0
    BY <1>2 DEF VaultInv, VaultType
  <2>2. QED BY <1>2, <2>1, MulDivNat DEF InterestOwed
<1>3. QED BY <1>1, <1>2

LEMMA GrownKeeps ==
  ASSUME NEW v, VaultInv(v), NEW raw \in Nat, NEW w, w = Grown(v, raw)
  PROVE  /\ VaultInv(w)
         /\ HasAssets(v) => HasAssets(w)
         /\ w.bal = v.bal /\ w.supply = v.supply /\ w.net = v.net
<1> DEFINE i == MulDivUp(v.index, WAD + raw, WAD)
           g == v.unrealized + MulDivUp(v.inAMM, raw, WAD)
<1>1. v.index \in Nat /\ v.inAMM \in Nat /\ v.unrealized \in Nat /\ WAD + raw \in Nat
  BY ConstantTypes DEF VaultInv, VaultType
<1>a. i \in Nat BY <1>1, ConstantTypes, MulDivNat
<1>b. MulDivUp(v.inAMM, raw, WAD) \in Nat BY <1>1, ConstantTypes, MulDivNat
<1>2. i \in Nat /\ g \in Nat /\ v.unrealized <= g BY <1>1, <1>a, <1>b
<1>3. v.index <= i BY <1>1, ConstantTypes, MulDivUpGrows
<1>4. w = [v EXCEPT !.index = i, !.unrealized = g] BY DEF Grown
<1> HIDE DEF i, g
<1>5. /\ w \in VaultType /\ w.index = i /\ w.unrealized = g
      /\ w.userIndex = v.userIndex /\ w.net = v.net
      /\ w.deposited = v.deposited /\ w.inAMM = v.inAMM
      /\ w.bal = v.bal /\ w.supply = v.supply
  BY <1>2, <1>4 DEF VaultInv, VaultType
<1>6. \A a \in Accounts : v.userIndex[a] \in Nat BY DEF VaultInv, VaultType
<1>7. VaultInv(w) BY <1>1, <1>2, <1>3, <1>5, <1>6 DEF VaultInv
<1>8. HasAssets(v) => HasAssets(w)
  BY <1>1, <1>2, <1>5 DEF VaultInv, VaultType, HasAssets, TotalAssets
<1>9. QED BY <1>5, <1>7, <1>8

\* The storage after _accrueInterest; the caller's own index is set unless
\* the account owes nothing because it never borrowed.
LEMMA AccruedKeeps ==
  ASSUME NEW v0, VaultInv(v0), NEW u \in Accounts, NEW skip \in BOOLEAN,
         NEW raw \in Nat, ~ AccrueReverts(v0, u, skip, raw),
         NEW w, w = Accrued(v0, u, skip, raw)
  PROVE  /\ VaultInv(w)
         /\ skip => HasAssets(w)
         /\ ~ skip => w.userIndex[u] > 0
<1> DEFINE v      == Grown(v0, raw)
           owed   == InterestOwed(v, u)
           shares == PreviewWithdraw(v, owed)
<1>1. VaultInv(v) /\ HasAssets(v)
  BY GrownKeeps DEF AccrueReverts
<1>2. owed \in Nat /\ (owed # 0 => v.net[u] > 0) BY <1>1, OwedNat
<1>3. shares \in Nat BY <1>1, <1>2, VaultTotals
<1>4. v.bal[u] \in Nat /\ v.index > 0 /\ v.unrealized \in Nat /\ v.supply \in Nat
  BY <1>1 DEF VaultInv, VaultType
<1>5. w = IF owed = 0 THEN Current(v, u)
          ELSE IF skip THEN v
          ELSE IF shares > v.bal[u]
          THEN PayInterest(BurnShares(v, u, v.bal[u]), ConvertToAssets(v, v.bal[u]))
          ELSE Current(PayInterest(BurnShares(v, u, shares), owed), u)
  BY DEF Accrued
<1>6. ~ skip /\ owed # 0 => Lesser(shares, v.bal[u]) <= v.supply
  BY <1>2, <1>3, <1>4 DEF AccrueReverts, Lesser
<1> HIDE DEF v, owed, shares
<1>7. CASE owed = 0
  <2>1. w = Current(v, u) BY <1>5, <1>7
  <2>2. VaultInv(w) /\ w.userIndex[u] = v.index /\ SameAssets(v, w)
    BY <1>1, <2>1, CurrentKeeps
  <2>3. QED BY <1>1, <1>4, <2>2 DEF SameAssets, HasAssets, TotalAssets
<1>8. CASE owed # 0 /\ skip
  BY <1>1, <1>5, <1>8
<1>9. CASE owed # 0 /\ ~ skip /\ shares > v.bal[u]
  <2> DEFINE b == BurnShares(v, u, v.bal[u])
             p == ConvertToAssets(v, v.bal[u])
  <2>1. CanBurn(v, u, v.bal[u]) BY <1>3, <1>4, <1>6, <1>9 DEF Lesser, CanBurn
  <2>2. VaultInv(b) /\ SameDebts(v, b)
    BY <1>1, <1>4, <2>1, BurnKeeps, BurnFields DEF VaultInv
  <2>3. HasSupply(v)
    <3>1. SUFFICES ASSUME TotalSupply(v) = 0 PROVE FALSE
      BY <1>1, VaultTotals DEF HasSupply
    <3>2. TotalAssets(v) \in Nat /\ TotalAssets(v) > 0
      BY <1>1, VaultTotals DEF HasAssets
    <3>3. shares = 0
      BY <1>2, <3>1, <3>2, NothingTimes DEF shares, PreviewWithdraw
    <3>4. QED BY <1>4, <1>9, <3>3
  <2>4. p \in Nat BY <1>1, <1>4, <2>3, VaultTotals
  <2> HIDE DEF b, p
  <2> DEFINE left == Excess(b.unrealized, p)
  <2>a. b.unrealized \in Nat BY <2>2 DEF VaultInv, VaultType
  <2>5. left \in Nat BY <2>4, <2>a DEF Excess
  <2>6. w = [b EXCEPT !.unrealized = left] BY <1>5, <1>9 DEF PayInterest, b, p
  <2> HIDE DEF left
  <2>7. VaultInv(w) BY <2>2, <2>5, <2>6, UnrealizedFieldKeeps
  <2>8. w.userIndex = b.userIndex BY <2>2, <2>6 DEF VaultInv, VaultType
  <2>9. b.userIndex[u] = v.userIndex[u] BY <2>2 DEF SameDebts
  <2>10. v.userIndex[u] > 0 BY <1>1, <1>2, <1>9 DEF VaultInv
  <2>11. QED BY <1>9, <2>7, <2>8, <2>9, <2>10
<1>10. CASE owed # 0 /\ ~ skip /\ shares <= v.bal[u]
  <2> DEFINE b == BurnShares(v, u, shares)
  <2>1. CanBurn(v, u, shares) BY <1>3, <1>4, <1>6, <1>10 DEF Lesser, CanBurn
  <2>a. VaultInv(b) BY <1>1, <1>3, <2>1, BurnKeeps
  <2>b. SameDebts(v, b) BY <1>1, <1>3, <2>1, BurnFields DEF VaultInv
  <2>2. VaultInv(b) /\ b.index = v.index BY <2>a, <2>b DEF SameDebts
  <2> HIDE DEF b
  <2> DEFINE left == Excess(b.unrealized, owed)
             p    == [b EXCEPT !.unrealized = left]
  <2>c. b.unrealized \in Nat BY <2>2 DEF VaultInv, VaultType
  <2>3. left \in Nat BY <1>2, <2>c DEF Excess
  <2>d. ~ (shares > v.bal[u]) BY <1>3, <1>4, <1>10
  <2>4. w = Current(p, u)
    BY <1>5, <1>10, <2>d DEF PayInterest, b
  <2> HIDE DEF left
  <2>5. VaultInv(p) /\ p.index = v.index
    BY <2>2, <2>3, UnrealizedFieldKeeps DEF VaultInv, VaultType
  <2> HIDE DEF p
  <2>6. VaultInv(w) /\ w.userIndex[u] = v.index
    BY <2>4, <2>5, CurrentKeeps
  <2>7. QED BY <1>4, <1>10, <2>6
<1>11. QED BY <1>3, <1>4, <1>7, <1>8, <1>9, <1>10

-----------------------------------------------------------------------------
(* Settlement.                                                             *)

MovementType ==
    [create : BOOLEAN, long : Nat, short : Nat, amm : Int, premium : Int]

LEMMA MovementAmounts ==
  ASSUME NEW v, VaultInv(v), HasAssets(v), NEW m \in MovementType
  PROVE  /\ NetBorrows(m) \in Int /\ CreditDelta(v, m) \in Nat
         /\ Haircut(v, m) \in Nat /\ TokenToPay(v, m) \in Int
         /\ SharesToBurn(v, m) \in Nat /\ SharesToMint(v, m) \in Nat
<1>1. /\ m.create \in BOOLEAN /\ m.long \in Nat /\ m.short \in Nat
      /\ m.amm \in Int /\ m.premium \in Int
  BY DEF MovementType
<1>2. NetBorrows(m) \in Int BY <1>1 DEF NetBorrows
<1>3. CreditDelta(v, m) \in Nat BY <1>1, VaultTotals DEF CreditDelta
<1>4. v.credited \in Nat /\ TotalSupply(v) \in Nat /\ TotalAssets(v) \in Nat
  BY VaultTotals DEF VaultInv, VaultType
<1>5. Haircut(v, m) \in Nat
  <2>1. CASE m.create \/ CreditDelta(v, m) <= v.credited
    BY <2>1 DEF Haircut
  <2>2. CASE ~ (m.create \/ CreditDelta(v, m) <= v.credited)
    <3>1. CreditDelta(v, m) - v.credited \in Nat BY <1>3, <1>4, <2>2
    <3>2. HasSupply(v)
      <4>1. SUFFICES ASSUME TotalSupply(v) = 0 PROVE FALSE
        BY <1>4 DEF HasSupply
      <4>2. CreditDelta(v, m) = ConvertToShares(v, m.long) BY <2>2 DEF CreditDelta
      <4>3. ConvertToShares(v, m.long) = 0
        BY <1>1, <1>4, <4>1, NothingTimes DEF ConvertToShares, HasAssets
      <4>4. QED BY <1>4, <2>2, <4>2, <4>3
    <3>3. PreviewMint(v, CreditDelta(v, m) - v.credited) \in Nat
      BY <3>1, <3>2, VaultTotals
    <3>4. QED BY <2>2, <3>3 DEF Haircut
  <2>3. QED BY <2>1, <2>2
<1>6. TokenToPay(v, m) \in Int BY <1>1, <1>2, <1>5 DEF TokenToPay
<1>7. SharesToBurn(v, m) \in Nat
  <2>1. CASE TokenToPay(v, m) > 0 BY <1>6, <2>1, VaultTotals DEF SharesToBurn
  <2>2. CASE ~ (TokenToPay(v, m) > 0) BY <2>2 DEF SharesToBurn
  <2>3. QED BY <2>1, <2>2
<1>8. SharesToMint(v, m) \in Nat
  <2>1. CASE TokenToPay(v, m) < 0
    <3>1. - TokenToPay(v, m) \in Nat BY <1>6, <2>1
    <3>2. QED BY <2>1, <3>1, VaultTotals DEF SharesToMint
  <2>2. CASE ~ (TokenToPay(v, m) < 0) BY <2>2 DEF SharesToMint
  <2>3. QED BY <2>1, <2>2
<1>9. QED BY <1>2, <1>3, <1>5, <1>6, <1>7, <1>8

\* A settlement for an account whose index is set: _updateBalancesAndSettle.
LEMMA SettledKeeps ==
  ASSUME NEW v, VaultInv(v), HasAssets(v), NEW u \in Accounts, v.userIndex[u] > 0,
         NEW m \in MovementType,
         CanBurn(v, u, SharesToBurn(v, m)),
         v.deposited - m.amm + m.premium >= 0,
         m.create \/ m.short <= v.inAMM,
         NEW w, w = Settled(v, u, m)
  PROVE  /\ VaultInv(w)
         /\ w.deposited = v.deposited - m.amm + m.premium
         /\ w.inAMM = (IF m.create THEN v.inAMM + m.short ELSE v.inAMM - m.short)
         /\ w.unrealized = v.unrealized
<1> DEFINE b == BurnShares(v, u, SharesToBurn(v, m))
           c == MintShares(b, u, SharesToMint(v, m))
<1>1. /\ m.create \in BOOLEAN /\ m.long \in Nat /\ m.short \in Nat
      /\ m.amm \in Int /\ m.premium \in Int
  BY DEF MovementType
<1>2. /\ NetBorrows(m) \in Int /\ CreditDelta(v, m) \in Nat
      /\ SharesToBurn(v, m) \in Nat /\ SharesToMint(v, m) \in Nat
  BY MovementAmounts
<1>3. VaultInv(b) /\ SameDebts(v, b) /\ SameAssets(v, b)
  BY <1>2, BurnKeeps, BurnFields DEF VaultInv
<1> HIDE DEF b
<1>4. VaultInv(c) /\ SameDebts(b, c) /\ SameAssets(b, c)
  BY <1>2, <1>3, MintKeeps, MintFields DEF VaultInv
<1> DEFINE credited == IF m.create THEN c.credited + CreditDelta(v, m)
                                   ELSE Excess(c.credited, CreditDelta(v, m))
           deposited == c.deposited - m.amm + m.premium
           inAMM == IF m.create THEN c.inAMM + m.short ELSE c.inAMM - m.short
           net == [c.net EXCEPT ![u] = @ + NetBorrows(m)]
<1>5. w = [c EXCEPT !.credited = credited, !.deposited = deposited,
                    !.inAMM = inAMM, !.net = net]
  BY <1>4 DEF Settled, b
<1> HIDE DEF c
<1>6. /\ c.index = v.index /\ c.net = v.net /\ c.userIndex = v.userIndex
      /\ c.deposited = v.deposited /\ c.inAMM = v.inAMM
      /\ c.unrealized = v.unrealized /\ c.credited = v.credited
  BY <1>3, <1>4 DEF SameDebts, SameAssets
<1>7. c.deposited \in Nat /\ c.inAMM \in Nat /\ c.credited \in Nat
      /\ c.net \in [Accounts -> Int]
  BY <1>4 DEF VaultInv, VaultType
<1>8. credited \in Nat BY <1>2, <1>7 DEF Excess
<1>9. deposited \in Nat BY <1>1, <1>6, <1>7
<1>10. inAMM \in Nat BY <1>1, <1>6, <1>7
<1>11. net \in [Accounts -> Int] BY <1>2, <1>7
<1>12. \A a \in Accounts : net[a] = c.net[a] \/ a = u BY <1>7
<1> HIDE DEF credited, deposited, inAMM, net
<1>13. /\ w \in VaultType /\ w.index = c.index /\ w.userIndex = c.userIndex
       /\ w.net = net /\ w.deposited = deposited /\ w.inAMM = inAMM
       /\ w.unrealized = c.unrealized
  BY <1>4, <1>5, <1>8, <1>9, <1>10, <1>11 DEF VaultInv, VaultType
<1>14. VaultInv(w)
  BY <1>4, <1>6, <1>12, <1>13 DEF VaultInv
<1>15. QED BY <1>6, <1>13, <1>14 DEF deposited, inAMM

\* The two parts of a split fee are no more than the fee.
LEMMA SplitFits ==
  ASSUME NEW s \in Nat
  PROVE  /\ MulDiv(s, ProtocolSplit, DECIMALS) \in Nat
         /\ MulDiv(s, BuilderSplit, DECIMALS) \in Nat
         /\ MulDiv(s, ProtocolSplit, DECIMALS) + MulDiv(s, BuilderSplit, DECIMALS) <= s
<1> DEFINE x == s * ProtocolSplit
           y == s * BuilderSplit
           p == x \div DECIMALS
           q == y \div DECIMALS
<1>1. x \in Nat /\ y \in Nat BY ConstantTypes, MulNat
<1>2. p \in Nat /\ q \in Nat BY <1>1, ConstantTypes, DivNat
<1>3. DECIMALS * p <= x /\ DECIMALS * q <= y BY <1>1, ConstantTypes, DivBounds
<1>4. x + y <= s * DECIMALS
  <2>1. x + y = s * (ProtocolSplit + BuilderSplit) BY ConstantTypes, SMT
  <2> DEFINE rest == DECIMALS - (ProtocolSplit + BuilderSplit)
  <2>2. rest \in Nat BY ConstantTypes
  <2>3. s * DECIMALS = s * (ProtocolSplit + BuilderSplit) + s * rest
    BY ConstantTypes, SMT
  <2>4. s * rest \in Nat BY <2>2, MulNat
  <2>5. s * (ProtocolSplit + BuilderSplit) \in Nat BY ConstantTypes, MulNat
  <2>6. QED BY <2>1, <2>3, <2>4, <2>5
<1> HIDE DEF x, y, p, q
<1>5. DECIMALS * (p + q) <= DECIMALS * s
  <2>1. DECIMALS * (p + q) = DECIMALS * p + DECIMALS * q BY <1>2, ConstantTypes, SMT
  <2>2. s * DECIMALS = DECIMALS * s BY ConstantTypes, SMT
  <2>3. DECIMALS * p \in Nat /\ DECIMALS * q \in Nat /\ DECIMALS * s \in Nat
    BY <1>2, ConstantTypes, MulNat
  <2>4. QED BY <1>1, <1>3, <1>4, <2>1, <2>2, <2>3
<1>6. p + q <= s
  <2>1. SUFFICES ASSUME s < p + q PROVE FALSE BY <1>2
  <2>2. s + 1 <= p + q BY <1>2, <2>1
  <2>3. DECIMALS * (s + 1) <= DECIMALS * (p + q) BY <1>2, <2>2, ConstantTypes, SMT
  <2>4. DECIMALS * (s + 1) = DECIMALS * s + DECIMALS BY ConstantTypes, SMT
  <2>5. DECIMALS * s \in Nat /\ DECIMALS * (p + q) \in Nat
    BY <1>2, ConstantTypes, MulNat
  <2>6. QED BY <1>5, <2>3, <2>4, <2>5, ConstantTypes
<1>7. QED BY <1>2, <1>6 DEF MulDiv, p, q, x, y

\* The commission of settleMint and settleBurn.
LEMMA ChargedKeeps ==
  ASSUME NEW at, VaultInv(at), HasAssets(at), NEW v, VaultInv(v),
         NEW u \in Accounts, NEW fee \in Nat,
         NEW recipient \in FeeRecipients \cup {NoRecipient},
         ~ ChargeReverts(at, v, u, fee, recipient)
  PROVE  VaultInv(Charged(at, v, u, fee, recipient))
<1> DEFINE s == CommissionShares(at, fee)
           p == MulDiv(s, ProtocolSplit, DECIMALS)
           q == MulDiv(s, BuilderSplit, DECIMALS)
           w == MoveShares(v, u, RiskEngine, p)
<1>1. s \in Nat BY VaultTotals DEF CommissionShares
<1>2. p \in Nat /\ q \in Nat /\ p + q <= s BY <1>1, SplitFits
<1>3. v.bal \in [Accounts -> Nat] /\ v.supply \in Nat BY DEF VaultInv, VaultType
<1>4. s <= v.bal[u] /\ (recipient = NoRecipient => s <= v.supply)
  BY <1>1, <1>3 DEF ChargeReverts
<1>5. Charged(at, v, u, fee, recipient) =
        IF recipient = NoRecipient THEN BurnShares(v, u, s)
        ELSE MoveShares(w, u, recipient, q)
  BY DEF Charged
<1> HIDE DEF s, p, q
<1>6. CASE recipient = NoRecipient
  <2>1. CanBurn(v, u, s) BY <1>4, <1>6 DEF CanBurn
  <2>2. QED BY <1>1, <1>5, <1>6, <2>1, BurnKeeps
<1>7. CASE recipient # NoRecipient
  <2>1. RiskEngine \in Accounts /\ recipient \in Accounts
    BY <1>7, InputAssumption DEF Accounts
  <2>2. p <= v.bal[u] BY <1>2, <1>3, <1>4, <1>1
  <2>3. VaultInv(w) BY <1>2, <2>1, <2>2, MoveKeeps
  <2>4. w.bal = [[v.bal EXCEPT ![u] = @ - p] EXCEPT ![RiskEngine] = @ + p]
    BY <1>2, <2>1, <2>2, MoveFields DEF VaultInv
  <2>5. q <= w.bal[u] BY <1>1, <1>2, <1>3, <1>4, <2>1, <2>4
  <2> HIDE DEF w
  <2>6. QED BY <1>2, <1>5, <1>7, <2>1, <2>3, <2>5, MoveKeeps
<1>8. QED BY <1>6, <1>7

LEMMA FeeNat == ASSUME NEW m \in MovementType PROVE Fee(m) \in Nat
<1>1. /\ m.create \in BOOLEAN /\ m.premium \in Int
      /\ m.short + m.long \in Nat
  BY DEF MovementType
<1>2. MintFee(m) \in Nat BY <1>1, ConstantTypes, MulDivNat DEF MintFee
<1>3. BurnFee(m) \in Nat
  <2> DEFINE premiumFee  == MulDivUp(Abs(m.premium), PremiumFee, DECIMALS)
             notionalFee == MulDivUp(m.short + m.long, 10 * NotionalFee, DECIMALS)
  <2>1. Abs(m.premium) \in Nat BY <1>1 DEF Abs
  <2>2. premiumFee \in Nat BY <2>1, ConstantTypes, MulDivNat
  <2>3. 10 * NotionalFee \in Nat BY ConstantTypes
  <2>4. notionalFee \in Nat BY <1>1, <2>3, ConstantTypes, MulDivNat
  <2> HIDE DEF premiumFee, notionalFee
  <2>5. Lesser(premiumFee, notionalFee) \in Nat BY <2>2, <2>4, LesserNat
  <2>6. QED BY <2>2, <2>5 DEF BurnFee, premiumFee, notionalFee
<1>4. QED BY <1>2, <1>3 DEF Fee

LEMMA RawInterestNat == RawInterest \subseteq Nat
  BY InputAssumption DEF RawInterest

\* settleMint, settleBurn: accrual, settlement and commission together.
LEMMA SettleCallKeeps ==
  ASSUME VaultInv(vault), NEW u \in Accounts, NEW m \in MovementType,
         NEW fee \in Nat, NEW recipient \in FeeRecipients \cup {NoRecipient},
         SettleCall(u, m, fee, recipient)
  PROVE  VaultInv(vault') /\ elapsed' \in BOOLEAN
<1>1. PICK raw \in RawInterest :
        LET at == Accrued(vault, u, FALSE, raw)
            v  == Settled(at, u, m)
        IN  /\ ~ AccrueReverts(vault, u, FALSE, raw)
            /\ ~ SettleReverts(at, u, m)
            /\ ~ ChargeReverts(at, v, u, fee, recipient)
            /\ Commit(Charged(at, v, u, fee, recipient))
  BY DEF SettleCall
<1> DEFINE at == Accrued(vault, u, FALSE, raw)
           v  == Settled(at, u, m)
<1>2. /\ ~ AccrueReverts(vault, u, FALSE, raw)
      /\ ~ SettleReverts(at, u, m)
      /\ ~ ChargeReverts(at, v, u, fee, recipient)
      /\ vault' = Charged(at, v, u, fee, recipient) /\ elapsed' = FALSE
  BY <1>1 DEF Commit
<1>3. raw \in Nat BY RawInterestNat
<1>4. VaultInv(at) /\ at.userIndex[u] > 0 BY <1>2, <1>3, AccruedKeeps
<1> HIDE DEF at
<1>5. /\ HasAssets(at) /\ CanBurn(at, u, SharesToBurn(at, m))
      /\ at.deposited - m.amm + m.premium >= 0
      /\ m.create \/ m.short <= at.inAMM
  <2>1. /\ at.deposited \in Nat /\ at.inAMM \in Nat /\ m.amm \in Int
        /\ m.premium \in Int /\ m.short \in Nat
    BY <1>4 DEF VaultInv, VaultType, MovementType
  <2>2. QED BY <1>2, <2>1 DEF SettleReverts
<1>6. VaultInv(v) BY <1>4, <1>5, SettledKeeps
<1> HIDE DEF v
<1>7. QED BY <1>2, <1>4, <1>5, <1>6, ChargedKeeps

-----------------------------------------------------------------------------
(* Deposits, withdrawals and the ends of a session.                        *)

LEMMA DepositedKeeps ==
  ASSUME NEW v, VaultInv(v), NEW u \in Accounts, NEW assets \in Nat, NEW s \in Nat
  PROVE  VaultInv(Deposited(v, u, assets, s))
<1> DEFINE b == MintShares(v, u, s)
<1>1. VaultInv(b) BY MintKeeps
<1> HIDE DEF b
<1> DEFINE d == b.deposited + assets
<1>2. Deposited(v, u, assets, s) = [b EXCEPT !.deposited = d]
  BY DEF Deposited, b
<1>3. d \in Nat BY <1>1 DEF VaultInv, VaultType
<1> HIDE DEF d
<1>4. QED BY <1>1, <1>2, <1>3, DepositedFieldKeeps

LEMMA SpentKeeps ==
  ASSUME NEW v, VaultInv(v), NEW o \in Accounts, NEW c \in Spenders, NEW s \in Nat,
         CanSpend(v, o, c, s), NEW w, w = Spent(v, o, c, s)
  PROVE  /\ VaultInv(w)
         /\ w.bal = v.bal /\ w.supply = v.supply /\ w.deposited = v.deposited
<1>1. CASE v.allowance[o][c] = Infinite
  BY <1>1 DEF Spent
<1>2. CASE v.allowance[o][c] # Infinite
  <2> DEFINE x == v.allowance[o][c] - s
             f == [v.allowance EXCEPT ![o][c] = x]
  <2>1. v.allowance \in [Accounts -> [Spenders -> Nat]] BY DEF VaultInv, VaultType
  <2>2. x \in Nat BY <1>2, <2>1 DEF CanSpend
  <2>3. w = [v EXCEPT !.allowance[o][c] = x] BY <1>2, <2>1 DEF Spent
  <2>4. [v EXCEPT !.allowance[o][c] = x] = [v EXCEPT !.allowance = f]
    BY DEF VaultInv, VaultType
  <2> HIDE DEF x, f
  <2>5. VaultInv(w) BY <2>2, <2>3, AllowanceKeeps
  <2>6. w.bal = v.bal /\ w.supply = v.supply /\ w.deposited = v.deposited
    BY <2>3, <2>4 DEF VaultInv, VaultType
  <2>7. QED BY <2>5, <2>6
<1>3. QED BY <1>1, <1>2

LEMMA WithdrawnKeeps ==
  ASSUME NEW v, VaultInv(v), NEW c \in Users, NEW o \in Users,
         NEW assets \in Nat, NEW s \in Nat, CanWithdraw(v, c, o, assets, s)
  PROVE  VaultInv(Withdrawn(v, c, o, assets, s))
<1> DEFINE a == IF c = o THEN v ELSE Spent(v, o, c, s)
           b == BurnShares(a, o, s)
<1>1. o \in Accounts /\ c \in Spenders BY DEF Accounts, Spenders
<1>2. /\ VaultInv(a)
      /\ a.bal = v.bal /\ a.supply = v.supply /\ a.deposited = v.deposited
  <2>1. CASE c = o BY <2>1
  <2>2. CASE c # o BY <1>1, <2>2, SpentKeeps DEF CanWithdraw
  <2>3. QED BY <2>1, <2>2
<1>3. Withdrawn(v, c, o, assets, s) = [b EXCEPT !.deposited = b.deposited - assets]
  BY DEF Withdrawn
<1> HIDE DEF a
<1>4. CanBurn(a, o, s) BY <1>2 DEF CanWithdraw, CanBurn
<1>5. VaultInv(b) /\ SameAssets(a, b)
  BY <1>1, <1>2, <1>4, BurnKeeps, BurnFields DEF VaultInv
<1> HIDE DEF b
<1>6. b.deposited = v.deposited BY <1>2, <1>5 DEF SameAssets
<1> DEFINE d == b.deposited - assets
<1>7. d \in Nat BY <1>5, <1>6 DEF VaultInv, VaultType, CanWithdraw
<1> HIDE DEF d
<1>8. QED BY <1>3, <1>5, <1>7, DepositedFieldKeeps DEF d

LEMMA UndelegatedKeeps ==
  ASSUME NEW v, VaultInv(v), NEW u \in Accounts, NEW w, w = Undelegated(v, u)
  PROVE  VaultInv(w) /\ SameAssets(v, w)
<1> DEFINE b == [v.bal EXCEPT ![u] = Excess(@, Phantom)]
           k == v.supply + Excess(Phantom, v.bal[u])
<1>1. v.bal \in [Accounts -> Nat] /\ v.supply \in Nat BY DEF VaultInv, VaultType
<1>2. b \in [Accounts -> Nat] /\ k \in Nat BY <1>1, ConstantTypes DEF Excess
<1>3. w = [v EXCEPT !.bal = b, !.supply = k] BY DEF Undelegated
<1> HIDE DEF b, k
<1>4. v \in VaultType BY DEF VaultInv
<1>5. /\ w \in VaultType /\ w.bal = b /\ w.supply = k
      /\ SameDebts(v, w) /\ SameAssets(v, w)
  BY <1>2, <1>3, <1>4, ShareFields
<1>6. QED BY <1>5, SameDebtsKeep

LEMMA LossSharesNat ==
  ASSUME NEW v, VaultInv(v), NEW u \in Accounts, NEW bonus \in Nat
  PROVE  LossShares(v, u, bonus) \in Nat
<1> DEFINE rest == TotalAssets(v) - bonus
           over == IF rest > 1 THEN rest ELSE 1
           owed == bonus * (TotalSupply(v) - v.bal[u])
           raw  == owed \div over
<1>1. TotalAssets(v) \in Nat /\ TotalSupply(v) \in Nat /\ v.bal[u] \in Nat
  BY VaultTotals DEF VaultInv, VaultType
<1>2. over \in Nat /\ over > 0 BY <1>1
<1>3. owed \in Int BY <1>1, SMT
<1> HIDE DEF over, owed
<1>4. raw \in Int BY <1>2, <1>3, DivInt
<1>5. LossShares(v, u, bonus) =
        Lesser(Excess(raw, v.bal[u]), LossCap * TotalSupply(v))
  BY DEF LossShares, MulDiv, over, owed
<1> HIDE DEF raw
<1>6. Excess(raw, v.bal[u]) \in Nat BY <1>1, <1>4 DEF Excess
<1>7. LossCap * TotalSupply(v) \in Nat BY <1>1, ConstantTypes, MulNat
<1>8. QED BY <1>5, <1>6, <1>7, LesserNat

LEMMA LiquidationSettledKeeps ==
  ASSUME NEW v0, VaultInv(v0), HasAssets(v0), NEW liquidator \in Accounts,
         NEW u \in Accounts, NEW bonus \in Int
  PROVE  VaultInv(LiquidationSettled(v0, liquidator, u, bonus))
<1>1. CASE bonus < 0
  <2> DEFINE s == ConvertToShares(v0, -bonus)
             d == Deposited(v0, u, -bonus, s)
  <2>1. -bonus \in Nat BY <1>1
  <2>2. s \in Nat BY <2>1, VaultTotals
  <2> HIDE DEF s
  <2>3. VaultInv(d) BY <2>1, <2>2, DepositedKeeps
  <2>4. LiquidationSettled(v0, liquidator, u, bonus) = Undelegated(d, u)
    BY <1>1 DEF LiquidationSettled, s
  <2> HIDE DEF d
  <2>5. QED BY <2>3, <2>4, UndelegatedKeeps
<1>2. CASE bonus >= 0
  <2> DEFINE v == Undelegated(v0, u)
             s == ConvertToShares(v, bonus)
             x == v.bal[u]
             l == LossShares(v, u, bonus)
             a == MoveShares(v, u, liquidator, x)
  <2>1. VaultInv(v) /\ SameAssets(v0, v) BY UndelegatedKeeps
  <2>2. LiquidationSettled(v0, liquidator, u, bonus) =
          IF s > x THEN MintShares(a, liquidator, l)
          ELSE MoveShares(v, u, liquidator, s)
    BY <1>2 DEF LiquidationSettled
  <2> HIDE DEF v
  <2>3. HasAssets(v) BY <2>1 DEF HasAssets, TotalAssets, SameAssets
  <2>4. bonus \in Nat BY <1>2
  <2>5. s \in Nat /\ x \in Nat /\ l \in Nat
    BY <2>1, <2>3, <2>4, VaultTotals, LossSharesNat DEF VaultInv, VaultType
  <2> HIDE DEF s, l
  <2>6. CASE s > x
    <3>1. VaultInv(a) BY <2>1, <2>5, MoveKeeps
    <3> HIDE DEF a
    <3>2. QED BY <2>2, <2>5, <2>6, <3>1, MintKeeps
  <2>7. CASE s <= x
    <3>1. ~ (s > x) BY <2>5, <2>7
    <3>2. QED BY <2>1, <2>2, <2>5, <2>7, <3>1, MoveKeeps
  <2>8. QED BY <2>5, <2>6, <2>7
<1>3. QED BY <1>1, <1>2

LEMMA RefundedKeeps ==
  ASSUME NEW v, VaultInv(v), HasAssets(v), NEW u \in Accounts, NEW c \in Accounts,
         NEW assets \in Int, ~ RefundReverts(v, u, c, assets)
  PROVE  VaultInv(Refunded(v, u, c, assets))
<1>1. v.bal \in [Accounts -> Nat] BY DEF VaultInv, VaultType
<1>2. CASE assets > 0
  <2> DEFINE s == ConvertToShares(v, assets)
  <2>1. s \in Nat BY <1>2, VaultTotals
  <2>2. s <= v.bal[u] BY <1>1, <1>2, <2>1 DEF RefundReverts
  <2>3. Refunded(v, u, c, assets) = MoveShares(v, u, c, s) BY <1>2 DEF Refunded
  <2> HIDE DEF s
  <2>4. QED BY <2>1, <2>2, <2>3, MoveKeeps
<1>3. CASE assets <= 0
  <2> DEFINE s == ConvertToShares(v, -assets)
  <2>1. -assets \in Nat BY <1>3
  <2>2. s \in Nat BY <2>1, VaultTotals
  <2>3. s <= v.bal[c] BY <1>1, <1>3, <2>2 DEF RefundReverts
  <2>4. ~ (assets > 0) BY <1>3
  <2>5. Refunded(v, u, c, assets) = MoveShares(v, c, u, s) BY <2>4 DEF Refunded
  <2> HIDE DEF s
  <2>6. QED BY <2>2, <2>3, <2>5, MoveKeeps
<1>4. QED BY <1>2, <1>3

\* What the risk engine asks the caller to pay is a number of tokens.
LEMMA RefundChoicesInt ==
  ASSUME NEW v, VaultInv(v), HasAssets(v), NEW u \in Accounts, NEW fee \in Int,
         Shortage(v, u, fee) > 0 => HasSupply(v)
  PROVE  RefundChoices(v, u, fee) \subseteq Int
<1>1. v.bal[u] \in Nat BY DEF VaultInv, VaultType
<1>2. Shortage(v, u, fee) \in Int
  <2>1. CASE fee > 0
    <3>1. PreviewWithdraw(v, fee) \in Nat BY <2>1, VaultTotals
    <3>2. QED BY <1>1, <2>1, <3>1, ConstantTypes DEF Shortage
  <2>2. CASE ~ (fee > 0)
    <3>1. -fee \in Nat BY <2>2
    <3>2. ConvertToShares(v, -fee) \in Nat BY <3>1, VaultTotals
    <3>3. QED BY <1>1, <2>2, <3>2, ConstantTypes DEF Shortage
  <2>3. QED BY <2>1, <2>2
<1>3. RefundAmount(v, u, fee) \in Int
  <2>1. CASE Shortage(v, u, fee) > 0
    <3>1. PreviewMint(v, Shortage(v, u, fee)) \in Nat BY <1>2, <2>1, VaultTotals
    <3>2. QED BY <2>1, <3>1 DEF RefundAmount
  <2>2. CASE ~ (Shortage(v, u, fee) > 0) BY <2>2 DEF RefundAmount
  <2>3. QED BY <2>1, <2>2
<1>4. QED BY <1>3, InputAssumption DEF RefundChoices

\* The refund that getRefundAmounts computes leaves an account the delegated
\* shares and at most two shares and an asset's worth.
LEMMA RefundIsEnough ==
  ASSUME NEW v, VaultInv(v), HasAssets(v), HasSupply(v),
         NEW u \in Accounts, NEW c \in Accounts, u # c, NEW fee \in Int,
         Shortage(v, u, fee) > 0,
         ~ RefundReverts(v, u, c, RefundAmount(v, u, fee))
  PROVE  LET left == Refunded(v, u, c, RefundAmount(v, u, fee)).bal[u] - Phantom
         IN  0 <= left /\ (left - 2) * TotalAssets(v) < TotalSupply(v)
<1> DEFINE A   == TotalAssets(v)
           S   == TotalSupply(v)
           n   == Shortage(v, u, fee)
           pay == MulDivUp(n, A, S)
           r   == fee - pay
           left == Refunded(v, u, c, RefundAmount(v, u, fee)).bal[u] - Phantom
<1>1. /\ A \in Nat /\ A > 0 /\ S \in Nat /\ S > 0
      /\ v \in VaultType /\ v.bal \in [Accounts -> Nat]
      /\ v.bal[u] \in Nat /\ v.bal[c] \in Nat
  BY VaultTotals DEF HasAssets, HasSupply, VaultInv, VaultType
<1>2. n = Phantom - v.bal[u] + (IF fee > 0 THEN MulDivUp(fee, S, A)
                                ELSE - MulDiv(-fee, S, A))
  BY DEF Shortage, PreviewWithdraw, ConvertToShares
<1>3. RefundAmount(v, u, fee) = r BY DEF RefundAmount, PreviewMint
<1>4. \A x : ConvertToShares(v, x) = MulDiv(x, S, A) BY DEF ConvertToShares
<1> SUFFICES 0 <= left /\ (left - 2) * A < S OBVIOUS
<1> HIDE DEF A, S, n
<1>5. n \in Nat
  <2>1. ASSUME fee > 0 PROVE MulDivUp(fee, S, A) \in Nat
    <3>1. fee \in Nat BY <2>1
    <3>2. QED BY <1>1, <3>1, MulDivNat
  <2>2. ~ (fee > 0) => MulDiv(-fee, S, A) \in Nat BY <1>1, MulDivNat
  <2>3. n > 0 BY DEF n
  <2>4. QED BY <1>1, <1>2, <2>1, <2>2, <2>3, ConstantTypes
<1>6. pay \in Nat /\ n * A <= pay * S /\ pay * S < n * A + S
  BY <1>1, <1>5, MulDivUpCovers, MulDivUpBelow
<1>7. n * A \in Int /\ pay * S \in Int BY <1>1, <1>5, <1>6
<1> HIDE DEF pay, left
\* What moves to or from the account, in shares.
<1>8. CASE r > 0
  <2> DEFINE s == MulDiv(r, S, A)
             f == MulDivUp(fee, S, A)
  <2>1. r \in Nat /\ fee \in Nat /\ fee > 0 BY <1>6, <1>8
  <2>2. /\ s \in Nat /\ f \in Nat /\ fee * S <= f * A
        /\ f * A < fee * S + A /\ r * S < s * A + A
    <3>1. f \in Nat /\ fee * S <= f * A /\ f * A < fee * S + A
      BY <1>1, <2>1, MulDivUpCovers, MulDivUpBelow
    <3> HIDE DEF f, r
    <3>2. s \in Nat /\ r * S < s * A + A BY <1>1, <2>1, MulDivWithin
    <3>3. QED BY <3>1, <3>2
  <2>3. n = Phantom - v.bal[u] + f BY <1>2, <2>1
  <2>4. r * S <= (f - n) * A
    <3>1. r * S = fee * S - pay * S BY <1>1, <1>6, SMT
    <3>2. (f - n) * A = f * A - n * A BY <1>1, <1>5, <2>2, SMT
    <3>3. fee * S \in Int /\ f * A \in Int BY <1>1, <2>2
    <3>4. QED BY <1>6, <1>7, <2>2, <3>1, <3>2, <3>3
  <2>5. s <= f - n
    <3>1. f - n \in Int BY <1>5, <2>2
    <3> HIDE DEF r
    <3>2. QED BY <1>1, <2>1, <2>4, <3>1, MulDivAtMost
  <2>6. Refunded(v, u, c, r) = MoveShares(v, u, c, s)
    BY <1>4, <1>8 DEF Refunded
  <2>7. s <= v.bal[u]
    BY <1>1, <1>3, <1>4, <1>8, <2>2 DEF RefundReverts
  <2> HIDE DEF s, f, r
  <2>8. Refunded(v, u, c, r).bal = [[v.bal EXCEPT ![u] = @ - s] EXCEPT ![c] = @ + s]
    BY <1>1, <2>2, <2>6, <2>7, MoveFields
  <2>9. Refunded(v, u, c, r).bal[u] = v.bal[u] - s BY <1>1, <2>2, <2>8
  <2>10. left = f - n - s
    BY <1>1, <1>3, <1>5, <2>2, <2>3, <2>9, ConstantTypes DEF left
  <2>11. (left - 2) * A < S
    <3>1. (left - 2) * A = f * A - n * A - s * A - A - A
      BY <1>1, <1>5, <2>2, <2>10, SMT
    <3>2. r * S = fee * S - pay * S BY <1>1, <1>6, <2>1, SMT DEF r
    <3>3. /\ f * A \in Int /\ s * A \in Int /\ r * S \in Int /\ fee * S \in Int
      BY <1>1, <2>1, <2>2
    <3>4. QED BY <1>1, <1>6, <1>7, <2>2, <3>1, <3>2, <3>3
  <2>12. QED BY <1>5, <2>2, <2>5, <2>10, <2>11
<1>9. CASE r <= 0
  <2> DEFINE y == pay - fee
             s == MulDiv(y, S, A)
  <2>1. y \in Nat /\ -r = y /\ ~ (r > 0) BY <1>6, <1>9
  <2>2. s \in Nat /\ s * A <= y * S
    <3> HIDE DEF y
    <3>1. QED BY <1>1, <2>1, MulDivWithin
  <2> DEFINE over == s - (Phantom - v.bal[u])
  <2>3. 0 <= over /\ (over - 1) * A < S
    <3>1. CASE fee > 0
      <4> DEFINE f == MulDivUp(fee, S, A)
      <4>0. fee \in Nat BY <3>1
      <4>1. f \in Nat /\ fee * S <= f * A /\ f * A < fee * S + A
        BY <1>1, <4>0, MulDivUpCovers, MulDivUpBelow
      <4>2. n - f = Phantom - v.bal[u] BY <1>1, <1>2, <3>1, <4>1, ConstantTypes
      <4> HIDE DEF f
      <4>3. (n - f) * A <= y * S
        <5>1. y * S = pay * S - fee * S BY <1>1, <1>6, SMT
        <5>2. (n - f) * A = n * A - f * A BY <1>1, <1>5, <4>1, SMT
        <5>3. fee * S \in Int /\ f * A \in Int BY <1>1, <4>1
        <5>4. QED BY <1>6, <1>7, <4>1, <5>1, <5>2, <5>3
      <4>4. n - f \in Int BY <1>5, <4>1
      <4> HIDE DEF y
      <4>5. n - f <= s BY <1>1, <2>1, <4>3, <4>4, MulDivAtLeast
      <4> HIDE DEF s
      <4>6. over = f - n + s BY <1>5, <2>2, <4>1, <4>2
      <4> HIDE DEF over
      <4>7. (over - 1) * A = f * A - n * A + s * A - A
        BY <1>1, <1>5, <2>2, <4>1, <4>6, SMT
      <4>8. y * S = pay * S - fee * S BY <1>1, <1>6, <4>0, SMT DEF y
      <4>9. /\ f * A \in Int /\ s * A \in Int /\ y * S \in Int /\ fee * S \in Int
        BY <1>1, <2>1, <2>2, <4>0, <4>1
      <4>10. (over - 1) * A < S
        BY <1>1, <1>6, <1>7, <2>2, <4>1, <4>7, <4>8, <4>9
      <4>11. QED BY <1>5, <2>2, <4>1, <4>5, <4>6, <4>10
    <3>2. CASE ~ (fee > 0)
      <4> DEFINE g == -fee
                 f == MulDiv(g, S, A)
                 k == g * S
      <4>1. g \in Nat /\ k \in Nat BY <1>1, <3>2, MulNat
      <4>2. f \in Nat /\ f * A <= k /\ k < f * A + A
        <5> HIDE DEF g
        <5>1. QED BY <1>1, <4>1, MulDivWithin
      <4>3. n + f = Phantom - v.bal[u] BY <1>1, <1>2, <3>2, <4>2, ConstantTypes
      <4>4. y * S = pay * S + k
        <5>1. y = pay + g BY <1>6
        <5> HIDE DEF g, y
        <5>2. QED BY <1>1, <1>6, <4>1, <5>1, SMT
      <4> HIDE DEF f, k, g
      <4>5. (n + f) * A <= y * S
        <5>1. (n + f) * A = n * A + f * A BY <1>1, <1>5, <4>2, SMT
        <5>2. f * A \in Int BY <1>1, <4>2
        <5>3. QED BY <1>6, <1>7, <4>1, <4>2, <4>4, <5>1, <5>2
      <4>6. n + f \in Int BY <1>5, <4>2
      <4> HIDE DEF y
      <4>7. n + f <= s BY <1>1, <2>1, <4>5, <4>6, MulDivAtLeast
      <4> HIDE DEF s
      <4>8. over = s - n - f BY <1>5, <2>2, <4>2, <4>3
      <4> HIDE DEF over
      <4>9. (over - 1) * A = s * A - n * A - f * A - A
        BY <1>1, <1>5, <2>2, <4>2, <4>8, SMT
      <4>10. f * A \in Int /\ s * A \in Int BY <1>1, <2>2, <4>2
      <4>11. (over - 1) * A < S
        BY <1>1, <1>6, <1>7, <2>2, <4>1, <4>2, <4>4, <4>9, <4>10
      <4>12. QED BY <1>5, <2>2, <4>2, <4>7, <4>8, <4>11
    <3>3. QED BY <3>1, <3>2
  <2>4. Refunded(v, u, c, r) = MoveShares(v, c, u, s)
    BY <1>4, <2>1 DEF Refunded
  <2> HIDE DEF y, r
  <2>5. s <= v.bal[c]
    <3>1. ~ (r <= 0 /\ v.bal[c] < ConvertToShares(v, -r))
      BY <1>3 DEF RefundReverts
    <3>2. ConvertToShares(v, -r) = s BY <1>4, <2>1
    <3>3. QED BY <1>1, <1>9, <2>2, <3>1, <3>2
  <2> HIDE DEF s
  <2>6. Refunded(v, u, c, r).bal = [[v.bal EXCEPT ![c] = @ - s] EXCEPT ![u] = @ + s]
    BY <1>1, <2>2, <2>4, <2>5, MoveFields
  <2>7. Refunded(v, u, c, r).bal[u] = v.bal[u] + s BY <1>1, <2>2, <2>6
  <2>8. left = over BY <1>1, <1>3, <2>2, <2>7, ConstantTypes DEF left
  <2>9. left \in Int BY <1>1, <2>2, <2>8, ConstantTypes
  <2> HIDE DEF over
  <2>10. (left - 2) * A < S
    <3>1. (left - 2) * A = (left - 1) * A - A /\ (left - 1) * A \in Int
      BY <1>1, <2>9, SMT
    <3>2. QED BY <1>1, <2>3, <2>8, <3>1
  <2>11. QED BY <2>3, <2>8, <2>10
<1>10. r \in Int BY <1>6
<1>11. QED BY <1>8, <1>9, <1>10

LEMMA MintTotals ==
  ASSUME NEW v, VaultInv(v), NEW u \in Accounts, NEW s \in Nat
  PROVE  /\ MintShares(v, u, s) \in VaultType
         /\ MintShares(v, u, s).supply = v.supply + s
         /\ SameAssets(v, MintShares(v, u, s))
<1> DEFINE b == MintShares(v, u, s)
<1>1. v \in VaultType BY DEF VaultInv
<1>2. b = MintShares(v, u, s) OBVIOUS
<1> HIDE DEF b
<1>3. /\ b \in VaultType /\ b.bal = [v.bal EXCEPT ![u] = @ + s]
      /\ b.supply = v.supply + s /\ SameDebts(v, b) /\ SameAssets(v, b)
  BY <1>1, <1>2, MintFields
<1>4. QED BY <1>3 DEF b

LEMMA DepositedTotals ==
  ASSUME NEW v, VaultInv(v), NEW u \in Accounts, NEW assets \in Nat, NEW s \in Nat,
         NEW w, w = Deposited(v, u, assets, s)
  PROVE  /\ TotalAssets(w) = TotalAssets(v) + assets
         /\ TotalSupply(w) = TotalSupply(v) + s
<1>1. v \in VaultType BY DEF VaultInv
<1> DEFINE b == MintShares(v, u, s)
<1>2. b \in VaultType /\ b.supply = v.supply + s /\ SameAssets(v, b)
  BY MintTotals
<1> DEFINE d == b.deposited + assets
<1>3. w = [b EXCEPT !.deposited = d] BY DEF Deposited
<1> HIDE DEF b
<1>4. d \in Nat BY <1>2 DEF VaultType
<1> HIDE DEF d
<1>5. /\ w.deposited = d /\ w.inAMM = b.inAMM /\ w.unrealized = b.unrealized
      /\ w.supply = b.supply /\ w.credited = b.credited
  BY <1>2, <1>3, <1>4 DEF VaultType
<1>6. QED
  BY <1>1, <1>2, <1>5 DEF TotalAssets, TotalSupply, SameAssets, VaultType, d

\* deposit then redeem, mint then withdraw: no rounding leaves a gain.
LEMMA RoundTrip ==
  ASSUME NEW v, VaultInv(v), HasAssets(v), HasSupply(v),
         NEW u \in Accounts, NEW x \in Nat
  PROVE  LET s == ConvertToShares(v, x)
             a == PreviewMint(v, x)
         IN  /\ ConvertToAssets(Deposited(v, u, x, s), s) <= x
             /\ PreviewWithdraw(Deposited(v, u, a, x), a) >= x
<1> DEFINE A == TotalAssets(v)
           S == TotalSupply(v)
           s == MulDiv(x, S, A)
           a == MulDivUp(x, A, S)
<1>1. A \in Nat /\ A > 0 /\ S \in Nat /\ S > 0
  BY VaultTotals DEF HasAssets, HasSupply
<1>2. s = ConvertToShares(v, x) /\ a = PreviewMint(v, x)
  BY DEF ConvertToShares, PreviewMint
<1> HIDE DEF A, S
<1>3. ConvertToAssets(Deposited(v, u, x, s), s) <= x
  <2> DEFINE k == x * S
  <2>1. k \in Nat BY <1>1, MulNat
  <2>2. s \in Nat /\ s * A <= k
    <3>1. k \div A \in Nat /\ A * (k \div A) <= k
      BY <1>1, <2>1, DivNat, DivBounds
    <3>2. A * (k \div A) = (k \div A) * A BY <1>1, <3>1, SMT
    <3>3. QED BY <3>1, <3>2 DEF MulDiv
  <2>3. s * A <= x * S BY <2>2
  <2> HIDE DEF s, k
  <2>4. ConvertToAssets(Deposited(v, u, x, s), s) = MulDiv(s, A + x, S + s)
    BY <2>2, DepositedTotals DEF ConvertToAssets, A, S
  <2>5. s * (A + x) <= x * (S + s)
    <3>1. s * (A + x) = s * A + s * x BY <1>1, <2>2, SMT
    <3>2. x * (S + s) = x * S + s * x BY <1>1, <2>2, SMT
    <3>3. s * A \in Int /\ x * S \in Int /\ s * x \in Int BY <1>1, <2>2
    <3>4. QED BY <2>3, <3>1, <3>2, <3>3
  <2>6. A + x \in Nat /\ S + s \in Nat /\ S + s > 0 BY <1>1, <2>2
  <2>7. QED BY <2>2, <2>4, <2>5, <2>6, MulDivAtMost
<1>4. PreviewWithdraw(Deposited(v, u, a, x), a) >= x
  <2>1. a \in Nat /\ x * A <= a * S BY <1>1, MulDivUpCovers
  <2> HIDE DEF a
  <2> DEFINE b == A + a
             t == S + x
             q == MulDivUp(a, t, b)
  <2>2. PreviewWithdraw(Deposited(v, u, a, x), a) = q
    BY <2>1, DepositedTotals DEF PreviewWithdraw, A, S
  <2>3. b \in Nat /\ b > 0 /\ t \in Nat BY <1>1, <2>1
  <2>4. x * b <= a * t
    <3>1. x * b = x * A + a * x BY <1>1, <2>1, SMT
    <3>2. a * t = a * S + a * x BY <1>1, <2>1, SMT
    <3>3. x * A \in Int /\ a * S \in Int /\ a * x \in Int BY <1>1, <2>1
    <3>4. QED BY <2>1, <3>1, <3>2, <3>3
  <2> HIDE DEF b, t
  <2>5. q \in Nat /\ a * t <= q * b BY <2>1, <2>3, MulDivUpCovers
  <2> HIDE DEF q
  <2>6. b * x < b * (q + 1)
    <3>1. b * x = x * b /\ b * (q + 1) = q * b + b BY <2>3, <2>5, SMT
    <3>2. x * b \in Int /\ a * t \in Int /\ q * b \in Int BY <2>1, <2>3, <2>5
    <3>3. QED BY <2>3, <2>4, <2>5, <3>1, <3>2
  <2>7. x < q + 1 BY <2>3, <2>5, <2>6, CancelFactor
  <2>8. QED BY <2>2, <2>5, <2>7
<1>5. QED BY <1>2, <1>3, <1>4

-----------------------------------------------------------------------------
(* The inductive invariant: types and debts.                               *)

IInv == TypeOK /\ VaultInv(vault)

LEMMA InitIInv == Init => IInv
<1>1. SUFFICES ASSUME Init PROVE IInv OBVIOUS
<1>2. vault \in VaultType /\ VaultInv(vault)
  BY <1>1, ConstantTypes DEF Init, VaultInv, VaultType
<1>3. TypeOK BY <1>1, <1>2 DEF Init, TypeOK, SessionType, NoSession
<1>4. QED BY <1>2, <1>3 DEF IInv

LEMMA UserCallKeeps ==
  ASSUME IInv, UserCall
  PROVE  VaultInv(vault') /\ elapsed' \in BOOLEAN /\ PoolUnchanged
<1> USE DEF IInv
<1>1. /\ Users \subseteq Accounts /\ Spenders = Users
      /\ Amounts \subseteq Nat /\ Allowances \subseteq Nat /\ RawInterest \subseteq Nat
      /\ elapsed \in BOOLEAN
  BY InputAssumption, RawInterestNat DEF Accounts, Spenders, TypeOK
<1>2. ASSUME NEW u \in Users, NEW r \in Users, NEW x \in Amounts, Deposit(u, r, x)
      PROVE  VaultInv(vault') /\ elapsed' \in BOOLEAN /\ PoolUnchanged
  <2>1. PICK raw \in RawInterest :
          LET v == Accrued(vault, u, TRUE, raw)
          IN  /\ ~ AccrueReverts(vault, u, TRUE, raw)
              /\ Commit(Deposited(v, r, x, ConvertToShares(v, x)))
    BY <1>2 DEF Deposit
  <2> DEFINE v == Accrued(vault, u, TRUE, raw)
  <2>2. VaultInv(v) /\ HasAssets(v) BY <1>1, <2>1, AccruedKeeps
  <2>3. vault' = Deposited(v, r, x, ConvertToShares(v, x)) /\ elapsed' = FALSE
    BY <2>1 DEF Commit
  <2> HIDE DEF v
  <2>4. ConvertToShares(v, x) \in Nat BY <1>1, <2>2, VaultTotals
  <2>5. VaultInv(vault') BY <1>1, <2>2, <2>3, <2>4, DepositedKeeps
  <2>6. QED BY <1>2, <2>3, <2>5 DEF Deposit
<1>3. ASSUME NEW u \in Users, NEW r \in Users, NEW x \in Amounts, Mint(u, r, x)
      PROVE  VaultInv(vault') /\ elapsed' \in BOOLEAN /\ PoolUnchanged
  <2>1. PICK raw \in RawInterest :
          LET v      == Accrued(vault, u, TRUE, raw)
              assets == PreviewMint(v, x)
          IN  /\ ~ AccrueReverts(vault, u, TRUE, raw) /\ HasSupply(v)
              /\ Commit(Deposited(v, r, assets, x))
    BY <1>3 DEF Mint
  <2> DEFINE v == Accrued(vault, u, TRUE, raw)
  <2>2. VaultInv(v) /\ HasSupply(v) BY <1>1, <2>1, AccruedKeeps
  <2>3. vault' = Deposited(v, r, PreviewMint(v, x), x) /\ elapsed' = FALSE
    BY <2>1 DEF Commit
  <2> HIDE DEF v
  <2>4. PreviewMint(v, x) \in Nat BY <1>1, <2>2, VaultTotals
  <2>5. VaultInv(vault') BY <1>1, <2>2, <2>3, <2>4, DepositedKeeps
  <2>6. QED BY <1>3, <2>3, <2>5 DEF Mint
<1>4. ASSUME NEW c \in Users, NEW o \in Users, NEW x \in Amounts,
             WithdrawAssets(c, o, x)
      PROVE  VaultInv(vault') /\ elapsed' \in BOOLEAN /\ PoolUnchanged
  <2>1. PICK raw \in RawInterest :
          LET v      == Accrued(vault, o, FALSE, raw)
              shares == PreviewWithdraw(v, x)
          IN  /\ ~ AccrueReverts(vault, o, FALSE, raw) /\ HasAssets(v)
              /\ CanWithdraw(v, c, o, x, shares)
              /\ Commit(Withdrawn(v, c, o, x, shares))
    BY <1>4 DEF WithdrawAssets
  <2> DEFINE v == Accrued(vault, o, FALSE, raw)
             s == PreviewWithdraw(v, x)
  <2>2. VaultInv(v) /\ HasAssets(v) BY <1>1, <2>1, AccruedKeeps
  <2>3. /\ CanWithdraw(v, c, o, x, s)
        /\ vault' = Withdrawn(v, c, o, x, s) /\ elapsed' = FALSE
    BY <2>1 DEF Commit
  <2> HIDE DEF v
  <2>4. s \in Nat BY <1>1, <2>2, VaultTotals
  <2> HIDE DEF s
  <2>5. VaultInv(vault') BY <1>1, <2>2, <2>3, <2>4, WithdrawnKeeps
  <2>6. QED BY <1>4, <2>3, <2>5 DEF WithdrawAssets
<1>5. ASSUME NEW c \in Users, NEW o \in Users, NEW x \in Amounts, Redeem(c, o, x)
      PROVE  VaultInv(vault') /\ elapsed' \in BOOLEAN /\ PoolUnchanged
  <2>1. PICK raw \in RawInterest :
          LET v      == Accrued(vault, o, FALSE, raw)
              assets == ConvertToAssets(v, x)
          IN  /\ ~ AccrueReverts(vault, o, FALSE, raw) /\ HasSupply(v)
              /\ CanWithdraw(v, c, o, assets, x)
              /\ Commit(Withdrawn(v, c, o, assets, x))
    BY <1>5 DEF Redeem
  <2> DEFINE v == Accrued(vault, o, FALSE, raw)
             a == ConvertToAssets(v, x)
  <2>2. VaultInv(v) /\ HasSupply(v) BY <1>1, <2>1, AccruedKeeps
  <2>3. /\ CanWithdraw(v, c, o, a, x)
        /\ vault' = Withdrawn(v, c, o, a, x) /\ elapsed' = FALSE
    BY <2>1 DEF Commit
  <2> HIDE DEF v
  <2>4. a \in Nat BY <1>1, <2>2, VaultTotals
  <2> HIDE DEF a
  <2>5. VaultInv(vault') BY <1>1, <2>2, <2>3, <2>4, WithdrawnKeeps
  <2>6. QED BY <1>5, <2>3, <2>5 DEF Redeem
<1>6. ASSUME NEW u \in Users, NEW r \in Users, NEW x \in Amounts, Transfer(u, r, x)
      PROVE  VaultInv(vault') /\ elapsed' \in BOOLEAN /\ PoolUnchanged
  <2>1. PICK raw \in RawInterest :
          LET v == Accrued(vault, u, FALSE, raw)
          IN  /\ ~ AccrueReverts(vault, u, FALSE, raw)
              /\ x <= v.bal[u] /\ Commit(MoveShares(v, u, r, x))
    BY <1>6 DEF Transfer
  <2> DEFINE v == Accrued(vault, u, FALSE, raw)
  <2>2. VaultInv(v) BY <1>1, <2>1, AccruedKeeps
  <2>3. x <= v.bal[u] /\ vault' = MoveShares(v, u, r, x) /\ elapsed' = FALSE
    BY <2>1 DEF Commit
  <2> HIDE DEF v
  <2>4. VaultInv(vault') BY <1>1, <2>2, <2>3, MoveKeeps
  <2>5. QED BY <1>6, <2>3, <2>4 DEF Transfer
<1>7. ASSUME NEW c \in Users, NEW u \in Users, NEW r \in Users, NEW x \in Amounts,
             TransferFrom(c, u, r, x)
      PROVE  VaultInv(vault') /\ elapsed' \in BOOLEAN /\ PoolUnchanged
  <2>1. PICK raw \in RawInterest :
          LET v == Accrued(vault, u, FALSE, raw)
          IN  /\ ~ AccrueReverts(vault, u, FALSE, raw)
              /\ CanSpend(v, u, c, x) /\ x <= v.bal[u]
              /\ Commit(MoveShares(Spent(v, u, c, x), u, r, x))
    BY <1>7 DEF TransferFrom
  <2> DEFINE v == Accrued(vault, u, FALSE, raw)
             w == Spent(v, u, c, x)
  <2>2. VaultInv(v) BY <1>1, <2>1, AccruedKeeps
  <2>3. /\ CanSpend(v, u, c, x) /\ x <= v.bal[u]
        /\ vault' = MoveShares(w, u, r, x) /\ elapsed' = FALSE
    BY <2>1 DEF Commit
  <2> HIDE DEF v
  <2>4. VaultInv(w) /\ w.bal = v.bal BY <1>1, <2>2, <2>3, SpentKeeps
  <2> HIDE DEF w
  <2>5. VaultInv(vault') BY <1>1, <2>3, <2>4, MoveKeeps
  <2>6. QED BY <1>7, <2>3, <2>5 DEF TransferFrom
<1>8. ASSUME NEW o \in Users, NEW s \in Spenders, NEW x \in Allowances, Approve(o, s, x)
      PROVE  VaultInv(vault') /\ elapsed' \in BOOLEAN /\ PoolUnchanged
  <2>1. vault' = [vault EXCEPT !.allowance[o][s] = x] /\ elapsed' = elapsed
    BY <1>8 DEF Approve, Write
  <2>2. VaultInv(vault') BY <1>1, <2>1, AllowanceKeeps
  <2>3. QED BY <1>1, <1>8, <2>1, <2>2 DEF Approve
<1>9. ASSUME NEW u \in Users, AccrueInterest(u)
      PROVE  VaultInv(vault') /\ elapsed' \in BOOLEAN /\ PoolUnchanged
  <2>1. PICK raw \in RawInterest : /\ ~ AccrueReverts(vault, u, FALSE, raw)
                                    /\ Commit(Accrued(vault, u, FALSE, raw))
    BY <1>9 DEF AccrueInterest
  <2>2. VaultInv(vault') BY <1>1, <2>1, AccruedKeeps DEF Commit
  <2>3. QED BY <1>9, <2>1, <2>2 DEF AccrueInterest, Commit
<1>10. QED
  BY <1>2, <1>3, <1>4, <1>5, <1>6, <1>7, <1>8, <1>9
     DEF UserCall, Withdraw, WithdrawWithPositions

LEMMA PositionAmounts ==
  ASSUME NEW k \in Kinds
  PROVE  /\ \A amm \in AmmDeltas(k, Opening(k)), premium \in Int :
              Movement(Opening(k), amm, premium) \in MovementType
         /\ \A amm \in AmmDeltas(k, Closing(k)) \cup {0}, premium \in Int :
              Movement(Closing(k), amm, premium) \in MovementType
         /\ \A premium \in Int : PremiumOnly(premium) \in MovementType
<1>1. k.short \in Nat /\ k.long \in Nat /\ k.rest \in {0, 1}
  BY InputAssumption
<1>2. /\ Opening(k).create \in BOOLEAN /\ Opening(k).long \in Nat
      /\ Opening(k).short \in Nat
  BY <1>1 DEF Opening
<1>3. /\ Closing(k).create \in BOOLEAN /\ Closing(k).long \in Nat
      /\ Closing(k).short \in Nat
  BY <1>1 DEF Closing, Excess
<1>4. AmmDeltas(k, Opening(k)) \subseteq Int BY <1>2 DEF AmmDeltas
<1>5. AmmDeltas(k, Closing(k)) \subseteq Int BY <1>3 DEF AmmDeltas
<1>6. ASSUME NEW m, m.create \in BOOLEAN, m.long \in Nat, m.short \in Nat,
             NEW amm \in Int, NEW premium \in Int
      PROVE  Movement(m, amm, premium) \in MovementType
  BY <1>6 DEF Movement, MovementType
<1>7. \A premium \in Int : PremiumOnly(premium) \in MovementType
  BY DEF PremiumOnly, MovementType
<1>8. \A amm \in AmmDeltas(k, Opening(k)), premium \in Int :
        Movement(Opening(k), amm, premium) \in MovementType
  <2>1. TAKE amm \in AmmDeltas(k, Opening(k)), premium \in Int
  <2>2. amm \in Int BY <1>4
  <2>3. QED BY <1>2, <1>6, <2>2
<1>9. \A amm \in AmmDeltas(k, Closing(k)) \cup {0}, premium \in Int :
        Movement(Closing(k), amm, premium) \in MovementType
  <2>1. TAKE amm \in AmmDeltas(k, Closing(k)) \cup {0}, premium \in Int
  <2>2. amm \in Int BY <1>5
  <2>3. QED BY <1>3, <1>6, <2>2
<1>10. QED BY <1>7, <1>8, <1>9

LEMMA DispatchKeeps == ASSUME IInv, Dispatch PROVE IInv'
<1> USE DEF IInv
<1>1. /\ Users \subseteq Accounts /\ Premia \subseteq Int
      /\ 0 \in Nat /\ 0 \in Int
  BY InputAssumption DEF Accounts
<1>2. positions \in [Users -> SUBSET Kinds] BY DEF TypeOK
<1>3. PICK u \in Users, k \in Kinds, recipient \in FeeRecipients :
        \/ \E amm \in AmmDeltas(k, Opening(k)) :
             SettleMint(u, k, amm, recipient)
        \/ \E amm \in AmmDeltas(k, Closing(k)), premium \in Premia :
             SettleBurn(u, k, amm, premium, recipient)
        \/ \E premium \in Premia : SettlePremium(u, k, premium, recipient)
  BY DEF Dispatch
<1>4. SUFFICES /\ VaultInv(vault') /\ elapsed' \in BOOLEAN
               /\ positions' \in [Users -> SUBSET Kinds]
               /\ session = session' /\ ~ InSession
  BY DEF TypeOK, VaultInv, InSession
<1>5. CASE \E amm \in AmmDeltas(k, Opening(k)) :
             SettleMint(u, k, amm, recipient)
  <2>1. PICK amm \in AmmDeltas(k, Opening(k)) :
          SettleMint(u, k, amm, recipient)
    BY <1>5
  <2> DEFINE m == Movement(Opening(k), amm, 0)
  <2>2. /\ ~ InSession /\ SettleCall(u, m, Fee(m), recipient)
        /\ positions' = [positions EXCEPT ![u] = @ \cup {k}]
        /\ session' = session
    BY <2>1 DEF SettleMint
  <2>3. m \in MovementType BY <1>1, PositionAmounts
  <2> HIDE DEF m
  <2>4. VaultInv(vault') /\ elapsed' \in BOOLEAN
    BY <1>1, <2>2, <2>3, FeeNat, SettleCallKeeps
  <2>5. QED BY <1>2, <2>2, <2>4
<1>6. CASE \E amm \in AmmDeltas(k, Closing(k)), premium \in Premia :
             SettleBurn(u, k, amm, premium, recipient)
  <2>1. PICK amm \in AmmDeltas(k, Closing(k)), premium \in Premia :
          SettleBurn(u, k, amm, premium, recipient)
    BY <1>6
  <2> DEFINE m == Movement(Closing(k), amm, premium)
  <2>2. /\ ~ InSession /\ SettleCall(u, m, Fee(m), recipient)
        /\ positions' = [positions EXCEPT ![u] = @ \ {k}]
        /\ session' = session
    BY <2>1 DEF SettleBurn
  <2>3. m \in MovementType BY <1>1, PositionAmounts
  <2> HIDE DEF m
  <2>4. VaultInv(vault') /\ elapsed' \in BOOLEAN
    BY <1>1, <2>2, <2>3, FeeNat, SettleCallKeeps
  <2>5. QED BY <1>2, <2>2, <2>4
<1>7. CASE \E premium \in Premia : SettlePremium(u, k, premium, recipient)
  <2>1. PICK premium \in Premia : SettlePremium(u, k, premium, recipient) BY <1>7
  <2> DEFINE m == PremiumOnly(premium)
  <2>2. /\ ~ InSession /\ SettleCall(u, m, Fee(m), recipient)
        /\ positions' = positions /\ session' = session
    BY <2>1 DEF SettlePremium
  <2>3. m \in MovementType BY <1>1, PositionAmounts
  <2> HIDE DEF m
  <2>4. VaultInv(vault') /\ elapsed' \in BOOLEAN
    BY <1>1, <2>2, <2>3, FeeNat, SettleCallKeeps
  <2>5. QED BY <1>2, <2>2, <2>4
<1>8. QED BY <1>3, <1>5, <1>6, <1>7

LEMMA BeginKeeps ==
  ASSUME IInv, NEW kind, NEW c \in Users, NEW u \in Users,
         NEW left \in SUBSET Kinds, Begin(kind, c, u, left)
  PROVE  IInv'
<1> DEFINE b == [vault.bal EXCEPT ![u] = @ + Phantom]
<1>1. VaultInv(vault) /\ vault \in VaultType BY DEF IInv, TypeOK
<1>2. vault.bal \in [Accounts -> Nat] /\ vault.supply \in Nat /\ u \in Accounts
  BY <1>1 DEF VaultType, Accounts
<1>3. b \in [Accounts -> Nat] BY <1>2, ConstantTypes
<1>4. vault' = [vault EXCEPT !.bal = b]
  BY <1>1 DEF Begin, Write, VaultType
<1> HIDE DEF b
<1>5. VaultInv(vault') BY <1>1, <1>3, <1>4, BalancesKeep
<1>6. vault' \in VaultType BY <1>5 DEF VaultInv
<1>7. kind \in {"liquidate", "exercise", "settle"}
  BY InputAssumption DEF Begin
<1>8. /\ session' = [kind |-> kind, caller |-> c, account |-> u,
                     left |-> left, paid |-> 0]
      /\ elapsed' = elapsed /\ positions' = positions
  BY DEF Begin, Write
<1>9. session' \in SessionType BY <1>7, <1>8 DEF SessionType
<1>10. QED BY <1>1, <1>5, <1>6, <1>8, <1>9 DEF IInv, TypeOK, InSession

LEMMA InSessionType ==
  ASSUME TypeOK, InSession
  PROVE  /\ session.kind \in {"liquidate", "exercise", "settle"}
         /\ session.caller \in Users /\ session.account \in Users
         /\ session.caller \in Accounts /\ session.account \in Accounts
         /\ session.left \in SUBSET Kinds /\ session.paid \in Nat
         /\ session \in SessionType \ {NoSession}
  BY DEF TypeOK, SessionType, InSession, NoSession, Accounts

LEMMA SessionSettleKeeps ==
  ASSUME IInv, NEW k \in Kinds, NEW amm \in AmmDeltas(k, Closing(k)) \cup {0},
         NEW premium \in Premia,
         SessionSettle(k, amm, premium)
  PROVE  IInv'
<1> DEFINE keep == session.kind = "settle"
           m    == IF keep THEN PremiumOnly(premium)
                           ELSE Movement(Closing(k), amm, premium)
           left == session.left \ {k}
           paid == IF session.kind = "liquidate"
                   THEN session.paid + Excess(0, premium) ELSE session.paid
<1>1. /\ premium \in Int /\ positions \in [Users -> SUBSET Kinds]
      /\ VaultInv(vault) /\ TypeOK
  BY InputAssumption DEF IInv, TypeOK
<1>2. /\ InSession /\ SettleCall(session.account, m, Fee(m), NoRecipient)
      /\ positions' = IF keep THEN positions
                      ELSE [positions EXCEPT ![session.account] = @ \ {k}]
      /\ session' = [session EXCEPT !.left = left, !.paid = paid]
  BY DEF SessionSettle
<1>3. /\ session.kind \in {"liquidate", "exercise", "settle"}
      /\ session.caller \in Users /\ session.account \in Users
      /\ session.account \in Accounts
      /\ session.left \in SUBSET Kinds /\ session.paid \in Nat
      /\ session \in SessionType \ {NoSession}
  BY <1>1, <1>2, InSessionType
<1>4. m \in MovementType
  <2>1. CASE keep BY <1>1, <2>1, PositionAmounts
  <2>2. CASE ~ keep BY <1>1, <2>2, PositionAmounts
  <2>3. QED BY <2>1, <2>2
<1> HIDE DEF m
<1>5. VaultInv(vault') /\ elapsed' \in BOOLEAN
  BY <1>1, <1>2, <1>3, <1>4, FeeNat, SettleCallKeeps
<1>6. paid \in Nat BY <1>1, <1>3 DEF Excess
<1>7. left \in SUBSET Kinds BY <1>3
<1>8. positions' \in [Users -> SUBSET Kinds] BY <1>1, <1>2, <1>3
<1> HIDE DEF left, paid
<1>9. session' \in SessionType
  BY <1>2, <1>3, <1>6, <1>7 DEF SessionType, NoSession
<1>10. QED
  BY <1>5, <1>8, <1>9
     DEF IInv, TypeOK, VaultInv

LEMMA SettleHaircutKeeps ==
  ASSUME IInv, NEW haircut \in 1..MaxAssets, SettleHaircut(haircut)
  PROVE  IInv'
<1> DEFINE u == session.account
           m == PremiumOnly(haircut)
<1>1. /\ positions \in [Users -> SUBSET Kinds] /\ VaultInv(vault)
      /\ TypeOK /\ haircut \in Nat
  BY VaultAssumption DEF IInv, TypeOK
<1>2. /\ InSession /\ SettleCall(u, m, 0, NoRecipient)
      /\ session' = [session EXCEPT !.paid = 0] /\ positions' = positions
  BY DEF SettleHaircut
<1>3. /\ session.kind \in {"liquidate", "exercise", "settle"}
      /\ session.caller \in Users /\ u \in Users /\ u \in Accounts
      /\ session.left \in SUBSET Kinds /\ session.paid \in Nat
      /\ session \in SessionType \ {NoSession}
  BY <1>1, <1>2, InSessionType
<1>4. m \in MovementType BY <1>1 DEF PremiumOnly, MovementType
<1> HIDE DEF m
<1>5. VaultInv(vault') /\ elapsed' \in BOOLEAN
  BY <1>1, <1>2, <1>3, <1>4, SettleCallKeeps
<1>6. session' \in SessionType BY <1>2, <1>3 DEF SessionType, NoSession
<1>7. QED
  BY <1>1, <1>2, <1>5, <1>6
     DEF IInv, TypeOK, VaultInv

LEMMA FinishLiquidationKeeps ==
  ASSUME IInv, NEW bonus \in Bonuses, FinishLiquidation(bonus)
  PROVE  IInv'
<1>1. /\ bonus \in Int /\ elapsed \in BOOLEAN
      /\ positions \in [Users -> SUBSET Kinds] /\ VaultInv(vault) /\ TypeOK
  BY InputAssumption DEF IInv, TypeOK
<1>2. /\ InSession /\ HasAssets(vault)
      /\ vault' = LiquidationSettled(vault, session.caller, session.account, bonus)
      /\ elapsed' = elapsed
      /\ session' = NoSession /\ positions' = positions
  BY DEF FinishLiquidation, Write
<1>3. session.caller \in Accounts /\ session.account \in Accounts
  BY <1>1, <1>2, InSessionType
<1>4. VaultInv(vault') BY <1>1, <1>2, <1>3, LiquidationSettledKeeps
<1>5. ~ InSession' /\ session' \in SessionType
  BY <1>2 DEF InSession, NoSession, SessionType
<1>6. QED
  BY <1>1, <1>2, <1>4, <1>5 DEF IInv, TypeOK, VaultInv

LEMMA FinishRefundKeeps ==
  ASSUME IInv, NEW fee \in Fees, FinishRefund(fee)
  PROVE  IInv'
<1>1. /\ fee \in Int /\ elapsed \in BOOLEAN
      /\ positions \in [Users -> SUBSET Kinds] /\ VaultInv(vault) /\ TypeOK
  BY InputAssumption DEF IInv, TypeOK
<1> DEFINE u == session.account
           c == session.caller
<1>2. /\ InSession /\ HasAssets(vault)
      /\ Shortage(vault, u, fee) > 0 => HasSupply(vault)
      /\ session' = NoSession /\ positions' = positions
  BY DEF FinishRefund
<1>3. PICK assets \in RefundChoices(vault, u, fee) :
        LET v == Refunded(vault, u, c, assets)
        IN  /\ ~ RefundReverts(vault, u, c, assets)
            /\ Phantom <= v.bal[u]
            /\ Write([v EXCEPT !.bal[u] = @ - Phantom])
  BY DEF FinishRefund
<1> DEFINE v == Refunded(vault, u, c, assets)
           b == [v.bal EXCEPT ![u] = @ - Phantom]
<1>4. u \in Accounts /\ c \in Accounts
  BY <1>1, <1>2, InSessionType
<1>5. assets \in Int BY <1>1, <1>2, <1>4, RefundChoicesInt
<1>6. VaultInv(v) BY <1>1, <1>2, <1>3, <1>4, <1>5, RefundedKeeps
<1>7. /\ vault' = [v EXCEPT !.bal[u] = @ - Phantom] /\ Phantom <= v.bal[u]
      /\ elapsed' = elapsed
  BY <1>3 DEF Write
<1> HIDE DEF v
<1>8. v.bal \in [Accounts -> Nat] BY <1>6 DEF VaultInv, VaultType
<1>9. b \in [Accounts -> Nat] BY <1>4, <1>7, <1>8, ConstantTypes
<1>10. vault' = [v EXCEPT !.bal = b] BY <1>7
<1> HIDE DEF b
<1>11. VaultInv(vault') BY <1>6, <1>9, <1>10, BalancesKeep
<1>12. ~ InSession' /\ session' \in SessionType
  BY <1>2 DEF InSession, NoSession, SessionType
<1>13. QED
  BY <1>1, <1>2, <1>7, <1>11, <1>12
     DEF IInv, TypeOK, VaultInv

LEMMA DispatchFromKeeps == ASSUME IInv, DispatchFrom PROVE IInv'
<1>1. positions \in [Users -> SUBSET Kinds] BY DEF IInv, TypeOK
<1>2. ASSUME NEW c \in Users, NEW u \in Users, BeginLiquidation(c, u) PROVE IInv'
  <2>1. positions[u] \in SUBSET Kinds BY <1>1
  <2>2. QED BY <1>2, <2>1, BeginKeeps DEF BeginLiquidation
<1>3. ASSUME NEW c \in Users, NEW u \in Users, NEW k \in Kinds,
             BeginExercise(c, u, k) \/ BeginSettlement(c, u, k)
      PROVE  IInv'
  <2>1. {k} \in SUBSET Kinds OBVIOUS
  <2>2. QED BY <1>3, <2>1, BeginKeeps DEF BeginExercise, BeginSettlement
<1>4. QED
  BY <1>2, <1>3, SessionSettleKeeps, SettleHaircutKeeps, FinishLiquidationKeeps,
     FinishRefundKeeps DEF DispatchFrom

-----------------------------------------------------------------------------
(* The theorems.                                                           *)

LEMMA StepIInv == IInv /\ [Next]_vars => IInv'
<1>1. SUFFICES ASSUME IInv, [Next]_vars PROVE IInv' OBVIOUS
<1>2. CASE UserCall
  <2>1. VaultInv(vault') /\ elapsed' \in BOOLEAN /\ PoolUnchanged
    BY <1>1, <1>2, UserCallKeeps
  <2>2. positions' = positions /\ session' = session
    BY <2>1 DEF PoolUnchanged
  <2>3. QED BY <1>1, <2>1, <2>2 DEF IInv, TypeOK, VaultInv, InSession
<1>3. CASE Dispatch BY <1>1, <1>3, DispatchKeeps
<1>4. CASE DispatchFrom BY <1>1, <1>4, DispatchFromKeeps
<1>5. CASE PassTime
  BY <1>1, <1>5 DEF PassTime, IInv, TypeOK, VaultInv, InSession
<1>6. CASE UNCHANGED vars
  BY <1>1, <1>6 DEF vars, IInv, TypeOK, VaultInv, InSession
<1>7. QED BY <1>1, <1>2, <1>3, <1>4, <1>5, <1>6 DEF Next

\* The vault's stored quantities stay naturals through every settlement,
\* haircut, clamp and liquidation: no unchecked subtraction of the code wraps.
THEOREM TypeCorrect == Spec => []TypeOK
<1>1. IInv => TypeOK BY DEF IInv
<1>2. QED BY <1>1, InitIInv, StepIInv, PTL DEF Spec

\* A borrower's index is set and never ahead of the market's: the interest
\* of _getUserInterest can always be computed, whoever calls what.
THEOREM IndexStaysOrdered == Spec => []IndexOrder
<1>1. IInv => IndexOrder BY DEF IInv, VaultInv, VaultType, IndexOrder, Accounts
<1>2. QED BY <1>1, InitIInv, StepIInv, PTL DEF Spec

\* Where this token's shortage is the one that is covered, a caller who can
\* afford what getRefundAmounts asks lets the account give its delegated
\* shares back and overpays it by an asset's worth and two shares at most, at
\* any share price and for any fee.  Of a token that is charged in exchange,
\* or whose shortage is left over, it says nothing.
THEOREM RefundIsSufficient == Spec => []RefundCoversRevoke
<1>1. IInv => RefundCoversRevoke
  <2>1. SUFFICES ASSUME IInv, HasAssets(vault), HasSupply(vault),
                        NEW u \in Users, NEW c \in Users, NEW fee \in Fees,
                        Shortage(vault, u, fee) > 0, u # c,
                        ~ RefundReverts(vault, u, c, RefundAmount(vault, u, fee))
                 PROVE  LET left ==
                              Refunded(vault, u, c,
                                       RefundAmount(vault, u, fee)).bal[u] - Phantom
                        IN  /\ 0 <= left
                            /\ (left - 2) * TotalAssets(vault) < TotalSupply(vault)
    BY DEF RefundCoversRevoke
  <2>2. u \in Accounts /\ c \in Accounts /\ fee \in Int
    BY InputAssumption DEF Accounts
  <2>3. QED BY <2>1, <2>2, RefundIsEnough DEF IInv
<1>2. QED BY <1>1, InitIInv, StepIInv, PTL DEF Spec

\* previewDeposit and previewMint, convertToAssets and previewWithdraw round
\* so that nobody gains by entering and leaving, at any share price.
THEOREM NoGainFromRounding == Spec => []RoundTripNeverGains
<1>1. IInv => RoundTripNeverGains
  <2>1. SUFFICES ASSUME IInv, HasAssets(vault), HasSupply(vault),
                        NEW u \in Users, NEW x \in Amounts
                 PROVE  LET s == ConvertToShares(vault, x)
                            v == Deposited(vault, u, x, s)
                            a == PreviewMint(vault, x)
                            w == Deposited(vault, u, a, x)
                        IN  /\ ConvertToAssets(v, s) <= x
                            /\ PreviewWithdraw(w, a) >= x
    BY DEF RoundTripNeverGains
  <2>2. u \in Accounts /\ x \in Nat BY InputAssumption DEF Accounts
  <2>3. QED BY <2>1, <2>2, RoundTrip DEF IInv
<1>2. QED BY <1>1, InitIInv, StepIInv, PTL DEF Spec

-----------------------------------------------------------------------------
(* The ledger.  What the supply counts, and what the pool believes to be   *)
(* in the AMM and bought, are sums over every account: the lemmas on sums  *)
(* of SumTheorems say how a step that changes one entry, or moves from one *)
(* to another, changes them.                                               *)

\* The shares of the supply that are on nobody's balance.
Unissued(v) == v.supply - SumFunction(v.bal)

\* What the ledger's totals depend on.
SameLedger(v, w) ==
    Unissued(w) = Unissued(v) /\ w.net = v.net /\ w.inAMM = v.inAMM

LEMMA AccountsFinite == IsFiniteSet(Users) /\ IsFiniteSet(Accounts)
<1>1. IsFiniteSet(Users) BY VaultAssumption
<1>2. IsFiniteSet({RiskEngine, Builder}) /\ IsFiniteSet({RiskEngine})
  <2>1. IsFiniteSet({RiskEngine}) BY FS_Singleton
  <2>2. {RiskEngine, Builder} = {RiskEngine} \cup {Builder} OBVIOUS
  <2>3. IsFiniteSet({Builder}) BY FS_Singleton
  <2>4. QED BY <2>1, <2>2, <2>3, FS_Union
<1>3. QED BY <1>1, <1>2, FS_Union DEF Accounts

LEMMA BalancesSum ==
  ASSUME NEW b \in [Accounts -> Int] PROVE SumFunction(b) \in Int
<1>1. DOMAIN b = Accounts /\ \A a \in Accounts : b[a] \in Int OBVIOUS
<1>2. SumFunction(b) = SumFunctionOnSet(b, Accounts) BY <1>1, SumWhole
<1>3. QED BY <1>1, <1>2, AccountsFinite, SumInt

LEMMA BalanceShifted ==
  ASSUME NEW b \in [Accounts -> Int], NEW u \in Accounts, NEW d \in Int
  PROVE  SumFunction([b EXCEPT ![u] = @ + d]) = SumFunction(b) + d
BY AccountsFinite, SumShifted

LEMMA MintLedger ==
  ASSUME NEW v \in VaultType, NEW u \in Accounts, NEW s \in Nat,
         NEW w, w = MintShares(v, u, s)
  PROVE  SameLedger(v, w)
<1>1. /\ w \in VaultType /\ w.bal = [v.bal EXCEPT ![u] = @ + s]
      /\ w.supply = v.supply + s
      /\ SameDebts(v, w) /\ SameAssets(v, w)
  BY MintFields
<1>2. v.bal \in [Accounts -> Int] /\ v.supply \in Int BY DEF VaultType
<1>3. SumFunction(w.bal) = SumFunction(v.bal) + s BY <1>1, <1>2, BalanceShifted
<1>4. SumFunction(v.bal) \in Int BY <1>2, BalancesSum
<1>5. Unissued(w) = Unissued(v) BY <1>1, <1>2, <1>3, <1>4 DEF Unissued
<1>6. QED BY <1>1, <1>5 DEF SameLedger, SameDebts, SameAssets

LEMMA BurnLedger ==
  ASSUME NEW v \in VaultType, NEW u \in Accounts, NEW s \in Nat, CanBurn(v, u, s),
         NEW w, w = BurnShares(v, u, s)
  PROVE  SameLedger(v, w)
<1>1. /\ w \in VaultType /\ w.bal = [v.bal EXCEPT ![u] = @ - s]
      /\ w.supply = v.supply - s
      /\ SameDebts(v, w) /\ SameAssets(v, w)
  BY BurnFields
<1>2. v.bal \in [Accounts -> Int] /\ v.supply \in Int /\ -s \in Int BY DEF VaultType
<1>3. w.bal = [v.bal EXCEPT ![u] = @ + -s] BY <1>1, <1>2
<1>4. SumFunction(w.bal) = SumFunction(v.bal) + -s BY <1>2, <1>3, BalanceShifted
<1>5. SumFunction(v.bal) \in Int BY <1>2, BalancesSum
<1>6. Unissued(w) = Unissued(v) BY <1>1, <1>2, <1>4, <1>5 DEF Unissued
<1>7. QED BY <1>1, <1>6 DEF SameLedger, SameDebts, SameAssets

LEMMA MoveLedger ==
  ASSUME NEW v \in VaultType, NEW from \in Accounts, NEW to \in Accounts,
         NEW s \in Nat, s <= v.bal[from],
         NEW w, w = MoveShares(v, from, to, s)
  PROVE  SameLedger(v, w)
<1> DEFINE c == [v.bal EXCEPT ![from] = @ + -s]
<1>1. /\ w \in VaultType /\ w.supply = v.supply
      /\ w.bal = [[v.bal EXCEPT ![from] = @ - s] EXCEPT ![to] = @ + s]
      /\ SameDebts(v, w) /\ SameAssets(v, w)
  BY MoveFields
<1>2. v.bal \in [Accounts -> Int] /\ v.supply \in Int /\ -s \in Int BY DEF VaultType
<1>3. c \in [Accounts -> Int] BY <1>2
<1>4. c = [v.bal EXCEPT ![from] = @ - s] BY <1>2
<1>5. SumFunction(c) = SumFunction(v.bal) + -s BY <1>2, BalanceShifted
<1> HIDE DEF c
<1>6. SumFunction(w.bal) = SumFunction(c) + s BY <1>1, <1>3, <1>4, BalanceShifted
<1>7. SumFunction(v.bal) \in Int BY <1>2, BalancesSum
<1>8. Unissued(w) = Unissued(v) BY <1>1, <1>2, <1>5, <1>6, <1>7 DEF Unissued
<1>9. QED BY <1>1, <1>8 DEF SameLedger, SameDebts, SameAssets

LEMMA FieldsLedger ==
  ASSUME NEW v, NEW w, w.bal = v.bal, w.supply = v.supply,
         w.net = v.net, w.inAMM = v.inAMM
  PROVE  SameLedger(v, w)
BY DEF SameLedger, Unissued

LEMMA LedgerChain ==
  ASSUME NEW v, NEW w, NEW x, SameLedger(v, w), SameLedger(w, x)
  PROVE  SameLedger(v, x)
BY DEF SameLedger

\* Interest is paid in shares that are burned.
LEMMA AccruedLedger ==
  ASSUME NEW v0, VaultInv(v0), NEW u \in Accounts, NEW skip \in BOOLEAN,
         NEW raw \in Nat, ~ AccrueReverts(v0, u, skip, raw),
         NEW w, w = Accrued(v0, u, skip, raw)
  PROVE  SameLedger(v0, w)
<1> DEFINE v      == Grown(v0, raw)
           owed   == InterestOwed(v, u)
           shares == PreviewWithdraw(v, owed)
<1>1. VaultInv(v) /\ HasAssets(v) BY GrownKeeps DEF AccrueReverts
<1>2. SameLedger(v0, v)
  <2>1. v.inAMM = v0.inAMM BY DEF Grown, VaultInv, VaultType
  <2>2. v.bal = v0.bal /\ v.supply = v0.supply /\ v.net = v0.net BY GrownKeeps
  <2> HIDE DEF v
  <2>3. QED BY <2>1, <2>2, FieldsLedger
<1>3. owed \in Nat BY <1>1, OwedNat
<1>4. shares \in Nat BY <1>1, <1>3, VaultTotals
<1>5. v.bal[u] \in Nat /\ v.supply \in Nat /\ v \in VaultType
  BY <1>1 DEF VaultInv, VaultType
<1>6. w = IF owed = 0 THEN Current(v, u)
          ELSE IF skip THEN v
          ELSE IF shares > v.bal[u]
          THEN PayInterest(BurnShares(v, u, v.bal[u]), ConvertToAssets(v, v.bal[u]))
          ELSE Current(PayInterest(BurnShares(v, u, shares), owed), u)
  BY DEF Accrued
<1>7. ~ skip /\ owed # 0 => Lesser(shares, v.bal[u]) <= v.supply
  BY <1>3, <1>4, <1>5 DEF AccrueReverts, Lesser
<1>8. \A b \in VaultType : \A paid : SameLedger(b, PayInterest(b, paid))
  <2>1. TAKE b \in VaultType
  <2> TAKE paid
  <2>2. /\ PayInterest(b, paid).bal = b.bal
        /\ PayInterest(b, paid).supply = b.supply
        /\ PayInterest(b, paid).net = b.net
        /\ PayInterest(b, paid).inAMM = b.inAMM
    BY DEF PayInterest, VaultType
  <2>3. QED BY <2>2, FieldsLedger
<1>9. \A b : b \in VaultType => SameLedger(b, Current(b, u))
  <2>1. TAKE b
  <2>2. HAVE b \in VaultType
  <2>3. /\ Current(b, u).bal = b.bal /\ Current(b, u).supply = b.supply
        /\ Current(b, u).net = b.net /\ Current(b, u).inAMM = b.inAMM
    BY <2>2 DEF Current, VaultType
  <2>4. QED BY <2>3, FieldsLedger
<1> HIDE DEF v, owed, shares
<1>10. SameLedger(v, w)
  <2>1. CASE owed = 0 BY <1>5, <1>6, <1>9, <2>1
  <2>2. CASE owed # 0 /\ skip
    BY <1>6, <2>2, FieldsLedger
  <2>3. CASE owed # 0 /\ ~ skip /\ shares > v.bal[u]
    <3> DEFINE b == BurnShares(v, u, v.bal[u])
    <3>1. CanBurn(v, u, v.bal[u]) BY <1>4, <1>5, <1>7, <2>3 DEF Lesser, CanBurn
    <3>2. SameLedger(v, b) BY <1>5, <3>1, BurnLedger
    <3>3. b \in VaultType BY <1>5, <3>1, BurnFields
    <3>4. w = PayInterest(b, ConvertToAssets(v, v.bal[u])) BY <1>6, <2>3
    <3> HIDE DEF b
    <3>5. SameLedger(b, w) BY <1>8, <3>3, <3>4
    <3>6. QED BY <3>2, <3>5, LedgerChain
  <2>4. CASE owed # 0 /\ ~ skip /\ ~ (shares > v.bal[u])
    <3> DEFINE b == BurnShares(v, u, shares)
               p == PayInterest(b, owed)
    <3>1. CanBurn(v, u, shares) BY <1>4, <1>5, <1>7, <2>4 DEF Lesser, CanBurn
    <3>2. SameLedger(v, b) BY <1>4, <1>5, <3>1, BurnLedger
    <3>3. b \in VaultType BY <1>4, <1>5, <3>1, BurnFields
    <3>4. w = Current(p, u) BY <1>6, <2>4
    <3> HIDE DEF b
    <3>5. p \in VaultType
      <4>1. Excess(b.unrealized, owed) \in Nat
        BY <1>3, <3>3 DEF Excess, VaultType
      <4>2. QED BY <3>3, <4>1 DEF PayInterest, VaultType
    <3>6. SameLedger(b, p) BY <1>8, <3>3
    <3> HIDE DEF p
    <3>7. SameLedger(p, w) BY <1>9, <3>4, <3>5
    <3>8. QED BY <3>2, <3>6, <3>7, LedgerChain
  <2>5. QED BY <2>1, <2>2, <2>3, <2>4
<1>11. QED BY <1>2, <1>10, LedgerChain

-----------------------------------------------------------------------------
(* Deposits, withdrawals, transfers.                                       *)

LEMMA DepositedLedger ==
  ASSUME NEW v, VaultInv(v), NEW u \in Accounts, NEW assets \in Nat, NEW s \in Nat,
         NEW w, w = Deposited(v, u, assets, s)
  PROVE  SameLedger(v, w)
<1> DEFINE b == MintShares(v, u, s)
<1>1. v \in VaultType BY DEF VaultInv
<1>2. SameLedger(v, b) BY <1>1, MintLedger
<1>3. b \in VaultType BY <1>1, MintFields
<1>4. w = [b EXCEPT !.deposited = b.deposited + assets] BY DEF Deposited
<1> HIDE DEF b
<1>5. w.bal = b.bal /\ w.supply = b.supply /\ w.net = b.net /\ w.inAMM = b.inAMM
  BY <1>3, <1>4 DEF VaultType
<1>6. SameLedger(b, w) BY <1>5, FieldsLedger
<1>7. QED BY <1>2, <1>6, LedgerChain

LEMMA SpentLedger ==
  ASSUME NEW v, VaultInv(v), NEW o \in Accounts, NEW c \in Spenders, NEW s \in Nat,
         NEW w, w = Spent(v, o, c, s)
  PROVE  SameLedger(v, w)
<1>1. w.bal = v.bal /\ w.supply = v.supply /\ w.net = v.net /\ w.inAMM = v.inAMM
  BY DEF Spent, VaultInv, VaultType
<1>2. QED BY <1>1, FieldsLedger

LEMMA WithdrawnLedger ==
  ASSUME NEW v, VaultInv(v), NEW c \in Users, NEW o \in Users,
         NEW assets \in Nat, NEW s \in Nat, CanWithdraw(v, c, o, assets, s),
         NEW w, w = Withdrawn(v, c, o, assets, s)
  PROVE  SameLedger(v, w)
<1> DEFINE a == IF c = o THEN v ELSE Spent(v, o, c, s)
           b == BurnShares(a, o, s)
<1>1. o \in Accounts /\ c \in Spenders BY DEF Accounts, Spenders
<1>2. VaultInv(a) /\ a.bal = v.bal /\ a.supply = v.supply /\ SameLedger(v, a)
  <2>1. CASE c = o BY <2>1, FieldsLedger
  <2>2. CASE c # o
    <3>1. CanSpend(v, o, c, s) BY <2>2 DEF CanWithdraw
    <3>2. a = Spent(v, o, c, s) BY <2>2
    <3> HIDE DEF a
    <3>3. QED BY <1>1, <3>1, <3>2, SpentKeeps, SpentLedger
  <2>3. QED BY <2>1, <2>2
<1>3. w = [b EXCEPT !.deposited = b.deposited - assets] BY DEF Withdrawn
<1> HIDE DEF a
<1>4. a \in VaultType /\ CanBurn(a, o, s)
  BY <1>2 DEF CanWithdraw, CanBurn, VaultInv
<1>5. SameLedger(a, b) BY <1>1, <1>4, BurnLedger
<1>6. b \in VaultType BY <1>1, <1>4, BurnFields
<1> HIDE DEF b
<1>7. w.bal = b.bal /\ w.supply = b.supply /\ w.net = b.net /\ w.inAMM = b.inAMM
  BY <1>3, <1>6 DEF VaultType
<1>8. SameLedger(b, w) BY <1>7, FieldsLedger
<1>9. QED BY <1>2, <1>5, <1>8, LedgerChain

\* No entry point of the vault changes who owes what, or the sum of shares.
LEMMA UserCallLedger == ASSUME IInv, UserCall PROVE SameLedger(vault, vault')
<1>1. /\ Users \subseteq Accounts /\ Spenders = Users /\ VaultInv(vault)
      /\ Amounts \subseteq Nat /\ Allowances \subseteq Nat /\ RawInterest \subseteq Nat
  BY InputAssumption, RawInterestNat DEF Accounts, Spenders, IInv
<1>2. ASSUME NEW u \in Users, NEW r \in Users, NEW x \in Amounts, Deposit(u, r, x)
      PROVE  SameLedger(vault, vault')
  <2>1. PICK raw \in RawInterest :
          LET v == Accrued(vault, u, TRUE, raw)
          IN  /\ ~ AccrueReverts(vault, u, TRUE, raw)
              /\ Commit(Deposited(v, r, x, ConvertToShares(v, x)))
    BY <1>2 DEF Deposit
  <2> DEFINE v == Accrued(vault, u, TRUE, raw)
  <2>2. VaultInv(v) /\ HasAssets(v) /\ SameLedger(vault, v)
    BY <1>1, <2>1, AccruedKeeps, AccruedLedger
  <2>3. vault' = Deposited(v, r, x, ConvertToShares(v, x)) BY <2>1 DEF Commit
  <2> HIDE DEF v
  <2>4. ConvertToShares(v, x) \in Nat BY <1>1, <2>2, VaultTotals
  <2>5. SameLedger(v, vault') BY <1>1, <2>2, <2>3, <2>4, DepositedLedger
  <2>6. QED BY <2>2, <2>5, LedgerChain
<1>3. ASSUME NEW u \in Users, NEW r \in Users, NEW x \in Amounts, Mint(u, r, x)
      PROVE  SameLedger(vault, vault')
  <2>1. PICK raw \in RawInterest :
          LET v      == Accrued(vault, u, TRUE, raw)
              assets == PreviewMint(v, x)
          IN  /\ ~ AccrueReverts(vault, u, TRUE, raw) /\ HasSupply(v)
              /\ Commit(Deposited(v, r, assets, x))
    BY <1>3 DEF Mint
  <2> DEFINE v == Accrued(vault, u, TRUE, raw)
  <2>2. VaultInv(v) /\ HasSupply(v) /\ SameLedger(vault, v)
    BY <1>1, <2>1, AccruedKeeps, AccruedLedger
  <2>3. vault' = Deposited(v, r, PreviewMint(v, x), x) BY <2>1 DEF Commit
  <2> HIDE DEF v
  <2>4. PreviewMint(v, x) \in Nat BY <1>1, <2>2, VaultTotals
  <2>5. SameLedger(v, vault') BY <1>1, <2>2, <2>3, <2>4, DepositedLedger
  <2>6. QED BY <2>2, <2>5, LedgerChain
<1>4. ASSUME NEW c \in Users, NEW o \in Users, NEW x \in Amounts,
             WithdrawAssets(c, o, x)
      PROVE  SameLedger(vault, vault')
  <2>1. PICK raw \in RawInterest :
          LET v      == Accrued(vault, o, FALSE, raw)
              shares == PreviewWithdraw(v, x)
          IN  /\ ~ AccrueReverts(vault, o, FALSE, raw) /\ HasAssets(v)
              /\ CanWithdraw(v, c, o, x, shares)
              /\ Commit(Withdrawn(v, c, o, x, shares))
    BY <1>4 DEF WithdrawAssets
  <2> DEFINE v == Accrued(vault, o, FALSE, raw)
             s == PreviewWithdraw(v, x)
  <2>2. VaultInv(v) /\ HasAssets(v) /\ SameLedger(vault, v)
    BY <1>1, <2>1, AccruedKeeps, AccruedLedger
  <2>3. CanWithdraw(v, c, o, x, s) /\ vault' = Withdrawn(v, c, o, x, s)
    BY <2>1 DEF Commit
  <2> HIDE DEF v
  <2>4. s \in Nat BY <1>1, <2>2, VaultTotals
  <2> HIDE DEF s
  <2>5. SameLedger(v, vault') BY <1>1, <2>2, <2>3, <2>4, WithdrawnLedger
  <2>6. QED BY <2>2, <2>5, LedgerChain
<1>5. ASSUME NEW c \in Users, NEW o \in Users, NEW x \in Amounts, Redeem(c, o, x)
      PROVE  SameLedger(vault, vault')
  <2>1. PICK raw \in RawInterest :
          LET v      == Accrued(vault, o, FALSE, raw)
              assets == ConvertToAssets(v, x)
          IN  /\ ~ AccrueReverts(vault, o, FALSE, raw) /\ HasSupply(v)
              /\ CanWithdraw(v, c, o, assets, x)
              /\ Commit(Withdrawn(v, c, o, assets, x))
    BY <1>5 DEF Redeem
  <2> DEFINE v == Accrued(vault, o, FALSE, raw)
             a == ConvertToAssets(v, x)
  <2>2. VaultInv(v) /\ HasSupply(v) /\ SameLedger(vault, v)
    BY <1>1, <2>1, AccruedKeeps, AccruedLedger
  <2>3. CanWithdraw(v, c, o, a, x) /\ vault' = Withdrawn(v, c, o, a, x)
    BY <2>1 DEF Commit
  <2> HIDE DEF v
  <2>4. a \in Nat BY <1>1, <2>2, VaultTotals
  <2> HIDE DEF a
  <2>5. SameLedger(v, vault') BY <1>1, <2>2, <2>3, <2>4, WithdrawnLedger
  <2>6. QED BY <2>2, <2>5, LedgerChain
<1>6. ASSUME NEW u \in Users, NEW r \in Users, NEW x \in Amounts, Transfer(u, r, x)
      PROVE  SameLedger(vault, vault')
  <2>1. PICK raw \in RawInterest :
          LET v == Accrued(vault, u, FALSE, raw)
          IN  /\ ~ AccrueReverts(vault, u, FALSE, raw)
              /\ x <= v.bal[u] /\ Commit(MoveShares(v, u, r, x))
    BY <1>6 DEF Transfer
  <2> DEFINE v == Accrued(vault, u, FALSE, raw)
  <2>2. VaultInv(v) /\ SameLedger(vault, v)
    BY <1>1, <2>1, AccruedKeeps, AccruedLedger
  <2>3. x <= v.bal[u] /\ vault' = MoveShares(v, u, r, x) BY <2>1 DEF Commit
  <2> HIDE DEF v
  <2>4. SameLedger(v, vault') BY <1>1, <2>2, <2>3, MoveLedger DEF VaultInv
  <2>5. QED BY <2>2, <2>4, LedgerChain
<1>7. ASSUME NEW c \in Users, NEW u \in Users, NEW r \in Users, NEW x \in Amounts,
             TransferFrom(c, u, r, x)
      PROVE  SameLedger(vault, vault')
  <2>1. PICK raw \in RawInterest :
          LET v == Accrued(vault, u, FALSE, raw)
          IN  /\ ~ AccrueReverts(vault, u, FALSE, raw)
              /\ CanSpend(v, u, c, x) /\ x <= v.bal[u]
              /\ Commit(MoveShares(Spent(v, u, c, x), u, r, x))
    BY <1>7 DEF TransferFrom
  <2> DEFINE v == Accrued(vault, u, FALSE, raw)
             w == Spent(v, u, c, x)
  <2>2. VaultInv(v) /\ SameLedger(vault, v)
    BY <1>1, <2>1, AccruedKeeps, AccruedLedger
  <2>3. /\ CanSpend(v, u, c, x) /\ x <= v.bal[u]
        /\ vault' = MoveShares(w, u, r, x)
    BY <2>1 DEF Commit
  <2> HIDE DEF v
  <2>4. VaultInv(w) /\ w.bal = v.bal /\ SameLedger(v, w)
    BY <1>1, <2>2, <2>3, SpentKeeps, SpentLedger
  <2> HIDE DEF w
  <2>5. SameLedger(w, vault') BY <1>1, <2>3, <2>4, MoveLedger DEF VaultInv
  <2>6. QED BY <2>2, <2>4, <2>5, LedgerChain
<1>8. ASSUME NEW o \in Users, NEW s \in Spenders, NEW x \in Allowances, Approve(o, s, x)
      PROVE  SameLedger(vault, vault')
  <2>1. vault' = [vault EXCEPT !.allowance[o][s] = x] BY <1>8 DEF Approve, Write
  <2>2. /\ vault'.bal = vault.bal /\ vault'.supply = vault.supply
        /\ vault'.net = vault.net /\ vault'.inAMM = vault.inAMM
    BY <1>1, <2>1 DEF VaultInv, VaultType
  <2>3. QED BY <2>2, FieldsLedger
<1>9. ASSUME NEW u \in Users, AccrueInterest(u) PROVE SameLedger(vault, vault')
  <2>1. PICK raw \in RawInterest : /\ ~ AccrueReverts(vault, u, FALSE, raw)
                                    /\ Commit(Accrued(vault, u, FALSE, raw))
    BY <1>9 DEF AccrueInterest
  <2>2. QED BY <1>1, <2>1, AccruedLedger DEF Commit
<1>10. QED
  BY <1>2, <1>3, <1>4, <1>5, <1>6, <1>7, <1>8, <1>9
     DEF UserCall, Withdraw, WithdrawWithPositions

-----------------------------------------------------------------------------
(* Settlements.                                                            *)

LEMMA ChargedLedger ==
  ASSUME NEW at, VaultInv(at), HasAssets(at), NEW v, VaultInv(v),
         NEW u \in Accounts, NEW fee \in Nat,
         NEW recipient \in FeeRecipients \cup {NoRecipient},
         ~ ChargeReverts(at, v, u, fee, recipient),
         NEW x, x = Charged(at, v, u, fee, recipient)
  PROVE  SameLedger(v, x)
<1> DEFINE s == CommissionShares(at, fee)
           p == MulDiv(s, ProtocolSplit, DECIMALS)
           q == MulDiv(s, BuilderSplit, DECIMALS)
           w == MoveShares(v, u, RiskEngine, p)
<1>1. s \in Nat BY VaultTotals DEF CommissionShares
<1>2. p \in Nat /\ q \in Nat /\ p + q <= s BY <1>1, SplitFits
<1>3. v \in VaultType /\ v.bal \in [Accounts -> Nat] /\ v.supply \in Nat
  BY DEF VaultInv, VaultType
<1>4. s <= v.bal[u] /\ (recipient = NoRecipient => s <= v.supply)
  BY <1>1, <1>3 DEF ChargeReverts
<1>5. x = IF recipient = NoRecipient THEN BurnShares(v, u, s)
          ELSE MoveShares(w, u, recipient, q)
  BY DEF Charged
<1> HIDE DEF s, p, q
<1>6. CASE recipient = NoRecipient
  <2>1. CanBurn(v, u, s) BY <1>4, <1>6 DEF CanBurn
  <2>2. QED BY <1>1, <1>3, <1>5, <1>6, <2>1, BurnLedger
<1>7. CASE recipient # NoRecipient
  <2>1. RiskEngine \in Accounts /\ recipient \in Accounts
    BY <1>7, InputAssumption DEF Accounts
  <2>2. p <= v.bal[u] BY <1>2, <1>3, <1>4, <1>1
  <2>3. SameLedger(v, w) BY <1>2, <1>3, <2>1, <2>2, MoveLedger
  <2>4. w = MoveShares(v, u, RiskEngine, p) OBVIOUS
  <2> HIDE DEF w
  <2>5. /\ w \in VaultType /\ w.supply = v.supply
        /\ w.bal = [[v.bal EXCEPT ![u] = @ - p] EXCEPT ![RiskEngine] = @ + p]
        /\ SameDebts(v, w) /\ SameAssets(v, w)
    BY <1>2, <1>3, <2>1, <2>2, <2>4, MoveFields
  <2>6. q <= w.bal[u] BY <1>1, <1>2, <1>3, <1>4, <2>1, <2>5
  <2>7. SameLedger(w, x) BY <1>2, <1>5, <1>7, <2>1, <2>5, <2>6, MoveLedger
  <2>8. QED BY <2>3, <2>7, LedgerChain
<1>8. QED BY <1>6, <1>7

\* What a settlement of m for u does to the debts and the AMM tally.
Moves(v, w, u, m) ==
    /\ Unissued(w) = Unissued(v)
    /\ w.net = [v.net EXCEPT ![u] = @ + NetBorrows(m)]
    /\ w.inAMM = IF m.create THEN v.inAMM + m.short ELSE v.inAMM - m.short

LEMMA SettledLedger ==
  ASSUME NEW v, VaultInv(v), HasAssets(v), NEW u \in Accounts,
         NEW m \in MovementType, CanBurn(v, u, SharesToBurn(v, m)),
         NEW w, w = Settled(v, u, m)
  PROVE  Moves(v, w, u, m)
<1> DEFINE b == BurnShares(v, u, SharesToBurn(v, m))
           c == MintShares(b, u, SharesToMint(v, m))
<1>1. SharesToBurn(v, m) \in Nat /\ SharesToMint(v, m) \in Nat /\ v \in VaultType
  BY MovementAmounts DEF VaultInv
<1>2. b \in VaultType BY <1>1, BurnFields
<1>3. SameLedger(v, b) BY <1>1, BurnLedger
<1>4. w = [c EXCEPT !.credited  = IF m.create THEN @ + CreditDelta(v, m)
                                              ELSE Excess(@, CreditDelta(v, m)),
                    !.deposited = @ - m.amm + m.premium,
                    !.inAMM     = IF m.create THEN @ + m.short ELSE @ - m.short,
                    !.net[u]    = @ + NetBorrows(m)]
  BY DEF Settled
<1> HIDE DEF b
<1>5. c \in VaultType BY <1>1, <1>2, MintFields
<1>6. SameLedger(b, c) BY <1>1, <1>2, MintLedger
<1> HIDE DEF c
<1>7. /\ w.bal = c.bal /\ w.supply = c.supply
      /\ w.net = [c.net EXCEPT ![u] = @ + NetBorrows(m)]
      /\ w.inAMM = IF m.create THEN c.inAMM + m.short ELSE c.inAMM - m.short
  BY <1>4, <1>5 DEF VaultType
<1>8. SameLedger(v, c) BY <1>3, <1>6, LedgerChain
<1>9. QED BY <1>7, <1>8 DEF Moves, SameLedger, Unissued

LEMMA SettleCallLedger ==
  ASSUME VaultInv(vault), NEW u \in Accounts, NEW m \in MovementType,
         NEW fee \in Nat, NEW recipient \in FeeRecipients \cup {NoRecipient},
         SettleCall(u, m, fee, recipient)
  PROVE  Moves(vault, vault', u, m)
<1>1. PICK raw \in RawInterest :
        LET at == Accrued(vault, u, FALSE, raw)
            v  == Settled(at, u, m)
        IN  /\ ~ AccrueReverts(vault, u, FALSE, raw)
            /\ ~ SettleReverts(at, u, m)
            /\ ~ ChargeReverts(at, v, u, fee, recipient)
            /\ Commit(Charged(at, v, u, fee, recipient))
  BY DEF SettleCall
<1> DEFINE at == Accrued(vault, u, FALSE, raw)
           v  == Settled(at, u, m)
<1>2. /\ ~ AccrueReverts(vault, u, FALSE, raw)
      /\ ~ SettleReverts(at, u, m)
      /\ ~ ChargeReverts(at, v, u, fee, recipient)
      /\ vault' = Charged(at, v, u, fee, recipient)
  BY <1>1 DEF Commit
<1>3. raw \in Nat BY RawInterestNat
<1>4. VaultInv(at) /\ at.userIndex[u] > 0 /\ SameLedger(vault, at)
  BY <1>2, <1>3, AccruedKeeps, AccruedLedger
<1> HIDE DEF at
<1>5. /\ HasAssets(at) /\ CanBurn(at, u, SharesToBurn(at, m))
      /\ at.deposited - m.amm + m.premium >= 0
      /\ m.create \/ m.short <= at.inAMM
  <2>1. /\ at.deposited \in Nat /\ at.inAMM \in Nat /\ m.amm \in Int
        /\ m.premium \in Int /\ m.short \in Nat
    BY <1>4 DEF VaultInv, VaultType, MovementType
  <2>2. QED BY <1>2, <2>1 DEF SettleReverts
<1>6. VaultInv(v) BY <1>4, <1>5, SettledKeeps
<1>7. Moves(at, v, u, m) BY <1>4, <1>5, SettledLedger
<1> HIDE DEF v
<1>8. SameLedger(v, vault') BY <1>2, <1>4, <1>5, <1>6, ChargedLedger
<1>9. QED BY <1>4, <1>7, <1>8 DEF Moves, SameLedger

-----------------------------------------------------------------------------
(* The ends of a session: delegated shares come and go.                    *)

LEMMA BeginLedger ==
  ASSUME VaultInv(vault), NEW kind, NEW c \in Users, NEW u \in Users,
         NEW left, Begin(kind, c, u, left)
  PROVE  /\ Unissued(vault') = Unissued(vault) - Phantom
         /\ vault'.net = vault.net /\ vault'.inAMM = vault.inAMM
<1> DEFINE b == [vault.bal EXCEPT ![u] = @ + Phantom]
<1>1. u \in Accounts /\ vault.bal \in [Accounts -> Int] /\ vault.supply \in Int
  BY DEF VaultInv, VaultType, Accounts
<1>2. vault' = [vault EXCEPT !.bal[u] = @ + Phantom] BY DEF Begin, Write
<1>3. /\ vault'.bal = b /\ vault'.supply = vault.supply
      /\ vault'.net = vault.net /\ vault'.inAMM = vault.inAMM
  BY <1>2 DEF VaultInv, VaultType
<1>4. Phantom \in Int BY ConstantTypes
<1>5. SumFunction(b) = SumFunction(vault.bal) + Phantom
  BY <1>1, <1>4, BalanceShifted
<1>6. SumFunction(vault.bal) \in Int BY <1>1, BalancesSum
<1> HIDE DEF b
<1>7. Unissued(vault') = Unissued(vault) - Phantom
  BY <1>1, <1>3, <1>4, <1>5, <1>6 DEF Unissued
<1>8. QED BY <1>3, <1>7

\* Delegated shares that are gone from the balance are added to the supply.
LEMMA UndelegatedLedger ==
  ASSUME NEW v, VaultInv(v), NEW u \in Accounts, NEW w, w = Undelegated(v, u)
  PROVE  /\ Unissued(w) = Unissued(v) + Phantom
         /\ w.net = v.net /\ w.inAMM = v.inAMM
<1> DEFINE x == v.bal[u]
           d == Excess(x, Phantom) - x
           b == [v.bal EXCEPT ![u] = @ + d]
<1>1. /\ v.bal \in [Accounts -> Int] /\ v.supply \in Nat /\ x \in Nat
      /\ Phantom \in Nat
  BY ConstantTypes DEF VaultInv, VaultType
<1>2. d \in Int /\ x + d = Excess(x, Phantom) /\ Excess(Phantom, x) = Phantom + d
  BY <1>1 DEF Excess
<1>3. /\ w.bal = [v.bal EXCEPT ![u] = Excess(@, Phantom)]
      /\ w.supply = v.supply + Excess(Phantom, x)
      /\ w.net = v.net /\ w.inAMM = v.inAMM
  BY DEF Undelegated, VaultInv, VaultType
<1>4. w.bal = b BY <1>1, <1>2, <1>3
<1>5. SumFunction(b) = SumFunction(v.bal) + d
  <2> HIDE DEF d
  <2>1. QED BY <1>1, <1>2, BalanceShifted
<1>6. SumFunction(v.bal) \in Int BY <1>1, BalancesSum
<1> HIDE DEF b, d, x
<1>7. Unissued(w) = Unissued(v) + Phantom
  BY <1>1, <1>2, <1>3, <1>4, <1>5, <1>6 DEF Unissued
<1>8. QED BY <1>3, <1>7

\* settleLiquidation, whichever way the bonus goes.
LEMMA LiquidationSettledLedger ==
  ASSUME NEW v0, VaultInv(v0), HasAssets(v0), NEW liquidator \in Accounts,
         NEW u \in Accounts, NEW bonus \in Int,
         NEW w, w = LiquidationSettled(v0, liquidator, u, bonus)
  PROVE  /\ Unissued(w) = Unissued(v0) + Phantom
         /\ w.net = v0.net /\ w.inAMM = v0.inAMM
<1>1. CASE bonus < 0
  <2> DEFINE s == ConvertToShares(v0, -bonus)
             d == Deposited(v0, u, -bonus, s)
  <2>1. -bonus \in Nat BY <1>1
  <2>2. s \in Nat BY <2>1, VaultTotals
  <2>3. w = Undelegated(d, u) BY <1>1 DEF LiquidationSettled
  <2> HIDE DEF s
  <2>4. VaultInv(d) /\ SameLedger(v0, d)
    BY <2>1, <2>2, DepositedKeeps, DepositedLedger
  <2> HIDE DEF d
  <2>5. QED BY <2>3, <2>4, UndelegatedLedger DEF SameLedger
<1>2. CASE bonus >= 0
  <2> DEFINE v == Undelegated(v0, u)
             s == ConvertToShares(v, bonus)
             x == v.bal[u]
             l == LossShares(v, u, bonus)
             a == MoveShares(v, u, liquidator, x)
  <2>1. VaultInv(v) /\ SameAssets(v0, v) BY UndelegatedKeeps
  <2>2. /\ Unissued(v) = Unissued(v0) + Phantom
        /\ v.net = v0.net /\ v.inAMM = v0.inAMM
    BY UndelegatedLedger
  <2>3. w = IF s > x THEN MintShares(a, liquidator, l)
            ELSE MoveShares(v, u, liquidator, s)
    BY <1>2 DEF LiquidationSettled
  <2> HIDE DEF v
  <2>4. HasAssets(v) BY <2>1 DEF HasAssets, TotalAssets, SameAssets
  <2>5. bonus \in Nat BY <1>2
  <2>6. s \in Nat /\ x \in Nat /\ l \in Nat /\ v \in VaultType
    BY <2>1, <2>4, <2>5, VaultTotals, LossSharesNat DEF VaultInv, VaultType
  <2> HIDE DEF s, l
  <2>7. SameLedger(v, w)
    <3>1. CASE s > x
      <4>1. SameLedger(v, a) BY <2>6, MoveLedger
      <4>2. a = MoveShares(v, u, liquidator, x) /\ x <= v.bal[u] BY <2>6
      <4> HIDE DEF a, x
      <4>3. /\ a \in VaultType /\ a.supply = v.supply
            /\ a.bal = [[v.bal EXCEPT ![u] = @ - x] EXCEPT ![liquidator] = @ + x]
            /\ SameDebts(v, a) /\ SameAssets(v, a)
        BY <2>6, <4>2, MoveFields
      <4>4. SameLedger(a, w) BY <2>3, <2>6, <3>1, <4>3, MintLedger
      <4>5. QED BY <4>1, <4>4, LedgerChain
    <3>2. CASE ~ (s > x)
      <4>1. s <= x BY <2>6, <3>2
      <4>2. w = MoveShares(v, u, liquidator, s) BY <2>3, <3>2
      <4>3. QED BY <2>6, <4>1, <4>2, MoveLedger
    <3>3. QED BY <3>1, <3>2
  <2>8. QED BY <2>2, <2>7 DEF SameLedger
<1>3. QED BY <1>1, <1>2

LEMMA RefundedLedger ==
  ASSUME NEW v, VaultInv(v), HasAssets(v), NEW u \in Accounts, NEW c \in Accounts,
         NEW assets \in Int, ~ RefundReverts(v, u, c, assets),
         NEW w, w = Refunded(v, u, c, assets)
  PROVE  SameLedger(v, w)
<1>1. v \in VaultType /\ v.bal \in [Accounts -> Nat] BY DEF VaultInv, VaultType
<1>2. CASE assets > 0
  <2> DEFINE s == ConvertToShares(v, assets)
  <2>1. s \in Nat BY <1>2, VaultTotals
  <2>2. s <= v.bal[u] BY <1>1, <1>2, <2>1 DEF RefundReverts
  <2>3. w = MoveShares(v, u, c, s) BY <1>2 DEF Refunded
  <2> HIDE DEF s
  <2>4. QED BY <1>1, <2>1, <2>2, <2>3, MoveLedger
<1>3. CASE assets <= 0
  <2> DEFINE s == ConvertToShares(v, -assets)
  <2>1. -assets \in Nat BY <1>3
  <2>2. s \in Nat BY <2>1, VaultTotals
  <2>3. s <= v.bal[c] BY <1>1, <1>3, <2>2 DEF RefundReverts
  <2>4. ~ (assets > 0) BY <1>3
  <2>5. w = MoveShares(v, c, u, s) BY <2>4 DEF Refunded
  <2> HIDE DEF s
  <2>6. QED BY <1>1, <2>2, <2>3, <2>5, MoveLedger
<1>4. QED BY <1>2, <1>3

LEMMA FinishRefundLedger ==
  ASSUME IInv, NEW fee \in Fees, FinishRefund(fee)
  PROVE  /\ Unissued(vault') = Unissued(vault) + Phantom
         /\ vault'.net = vault.net /\ vault'.inAMM = vault.inAMM
<1> DEFINE u == session.account
           c == session.caller
<1>1. /\ InSession /\ HasAssets(vault)
      /\ Shortage(vault, u, fee) > 0 => HasSupply(vault)
  BY DEF FinishRefund
<1>2. PICK assets \in RefundChoices(vault, u, fee) :
        LET v == Refunded(vault, u, c, assets)
        IN  /\ ~ RefundReverts(vault, u, c, assets)
            /\ Phantom <= v.bal[u]
            /\ Write([v EXCEPT !.bal[u] = @ - Phantom])
  BY DEF FinishRefund
<1> DEFINE v == Refunded(vault, u, c, assets)
           b == [v.bal EXCEPT ![u] = @ + -Phantom]
<1>3. u \in Accounts /\ c \in Accounts BY <1>1, InSessionType DEF IInv
<1>4. assets \in Int /\ VaultInv(vault)
  BY <1>1, <1>3, RefundChoicesInt, InputAssumption DEF IInv
<1>5. VaultInv(v) /\ SameLedger(vault, v)
  BY <1>1, <1>2, <1>3, <1>4, RefundedKeeps, RefundedLedger
<1>6. vault' = [v EXCEPT !.bal[u] = @ - Phantom] BY <1>2 DEF Write
<1> HIDE DEF v
<1>7. v.bal \in [Accounts -> Int] /\ v.supply \in Int BY <1>5 DEF VaultInv, VaultType
<1>8. Phantom \in Int /\ -Phantom \in Int BY ConstantTypes
<1>9. /\ vault'.bal = b /\ vault'.supply = v.supply
      /\ vault'.net = v.net /\ vault'.inAMM = v.inAMM
  BY <1>3, <1>5, <1>6, <1>7, <1>8 DEF VaultInv, VaultType
<1>10. SumFunction(b) = SumFunction(v.bal) + -Phantom
  BY <1>3, <1>7, <1>8, BalanceShifted
<1> HIDE DEF b
<1>11. SumFunction(v.bal) \in Int BY <1>7, BalancesSum
<1>12. Unissued(vault') = Unissued(v) + Phantom
  BY <1>7, <1>8, <1>9, <1>10, <1>11 DEF Unissued
<1>13. QED BY <1>5, <1>9, <1>12 DEF SameLedger

-----------------------------------------------------------------------------
(* What the open positions of all users will give back.                    *)

ShortOf == [k \in Kinds |-> ClosingShort(k)]
NetOf   == [k \in Kinds |-> ClosingNet(k)]

ShortsOpen(p) == SumFunctionOnSet([u \in Users |-> SumFunctionOnSet(ShortOf, p[u])],
                                  Users)

\* Positions are opened one at a time.
FinitelyOpen(p) ==
    p \in [Users -> SUBSET Kinds] /\ \A u \in Users : IsFiniteSet(p[u])

\* The debts of v cover the positions p.
Covered(p, v) ==
    /\ FinitelyOpen(p)
    /\ ShortsOpen(p) <= v.inAMM
    /\ \A u \in Users : SumFunctionOnSet(NetOf, p[u]) <= v.net[u]

\* Closing gives back at most what opening took, whatever is rounded up.
LEMMA KindAmounts ==
  ASSUME NEW k \in Kinds
  PROVE  /\ ShortOf[k] \in Nat /\ NetOf[k] \in Int
         /\ Opening(k).short \in Nat
         /\ ShortOf[k] <= Opening(k).short
         /\ NetOf[k] <= Opening(k).short - Opening(k).long
         /\ ShortOf[k] = Closing(k).short
         /\ NetOf[k] = Closing(k).short - Closing(k).long
<1>1. k.short \in Nat /\ k.long \in Nat /\ k.rest \in {0, 1} BY InputAssumption
<1>2. /\ Opening(k).short = k.short /\ Opening(k).long = k.long
      /\ Closing(k).short = Excess(k.short, k.rest)
      /\ Closing(k).long = IF k.long > 0 THEN k.long + k.rest ELSE 0
  BY DEF Opening, Closing
<1>3. ShortOf[k] = Closing(k).short /\ NetOf[k] = Closing(k).short - Closing(k).long
  BY DEF ShortOf, NetOf, ClosingShort, ClosingNet
<1>4. QED BY <1>1, <1>2, <1>3 DEF Excess

LEMMA OpenSums ==
  ASSUME NEW S \in SUBSET Kinds, IsFiniteSet(S)
  PROVE  SumFunctionOnSet(ShortOf, S) \in Nat /\ SumFunctionOnSet(NetOf, S) \in Int
<1>1. \A k \in S : ShortOf[k] \in Nat /\ NetOf[k] \in Int BY KindAmounts
<1>2. QED BY <1>1, SumNat, SumInt

ChangedFor(p, q, u) == \A x \in Users : x # u => q[x] = p[x]

LEMMA ShortsChanged ==
  ASSUME NEW p, FinitelyOpen(p), NEW q, FinitelyOpen(q), NEW u \in Users,
         ChangedFor(p, q, u)
  PROVE  /\ ShortsOpen(p) \in Int
         /\ ShortsOpen(q) = ShortsOpen(p) - SumFunctionOnSet(ShortOf, p[u])
                              + SumFunctionOnSet(ShortOf, q[u])
<1> DEFINE f == [x \in Users |-> SumFunctionOnSet(ShortOf, p[x])]
           g == [x \in Users |-> SumFunctionOnSet(ShortOf, q[x])]
<1>1. \A x \in Users : /\ p[x] \in SUBSET Kinds /\ IsFiniteSet(p[x])
                       /\ q[x] \in SUBSET Kinds /\ IsFiniteSet(q[x])
  BY DEF FinitelyOpen
<1>2. \A x \in Users : f[x] \in Int /\ g[x] \in Int BY <1>1, OpenSums
<1>3. \A x \in Users : x # u => g[x] = f[x] BY DEF ChangedFor
<1>4. f[u] = SumFunctionOnSet(ShortOf, p[u]) /\ g[u] = SumFunctionOnSet(ShortOf, q[u])
  OBVIOUS
<1>5. ShortsOpen(p) = SumFunctionOnSet(f, Users) /\ ShortsOpen(q) = SumFunctionOnSet(g, Users)
  BY DEF ShortsOpen
<1> HIDE DEF f, g
<1>6. SumFunctionOnSet(g, Users) = SumFunctionOnSet(f, Users) - f[u] + g[u]
  BY <1>2, <1>3, AccountsFinite, SumChanged
<1>7. SumFunctionOnSet(f, Users) \in Int BY <1>2, AccountsFinite, SumInt
<1>8. QED BY <1>4, <1>5, <1>6, <1>7

\* The positions of u change, and the debt grows at least as much.
LEMMA ChangedCovered ==
  ASSUME NEW p, NEW v \in VaultType, NEW w, Covered(p, v), NEW u \in Users,
         NEW q, FinitelyOpen(q), ChangedFor(p, q, u),
         NEW amm \in Int, NEW net \in Int,
         w.inAMM = v.inAMM + amm, w.net = [v.net EXCEPT ![u] = @ + net],
         SumFunctionOnSet(ShortOf, q[u]) <= SumFunctionOnSet(ShortOf, p[u]) + amm,
         SumFunctionOnSet(NetOf, q[u]) <= SumFunctionOnSet(NetOf, p[u]) + net
  PROVE  Covered(q, w)
<1>1. FinitelyOpen(p) BY DEF Covered
<1>2. /\ p[u] \in SUBSET Kinds /\ IsFiniteSet(p[u])
      /\ q[u] \in SUBSET Kinds /\ IsFiniteSet(q[u])
  BY <1>1 DEF FinitelyOpen
<1>3. /\ SumFunctionOnSet(ShortOf, p[u]) \in Int /\ SumFunctionOnSet(NetOf, p[u]) \in Int
      /\ SumFunctionOnSet(ShortOf, q[u]) \in Int /\ SumFunctionOnSet(NetOf, q[u]) \in Int
  BY <1>2, OpenSums
<1>4. /\ ShortsOpen(p) \in Int
      /\ ShortsOpen(q) = ShortsOpen(p) - SumFunctionOnSet(ShortOf, p[u])
                           + SumFunctionOnSet(ShortOf, q[u])
  BY <1>1, ShortsChanged
<1>5. /\ u \in Accounts /\ v.net \in [Accounts -> Int] /\ v.inAMM \in Int
      /\ Users \subseteq Accounts
  BY DEF VaultType, Accounts
<1>6. ShortsOpen(p) <= v.inAMM
      /\ \A x \in Users : SumFunctionOnSet(NetOf, p[x]) <= v.net[x]
  BY DEF Covered
<1>7. ShortsOpen(q) <= w.inAMM BY <1>3, <1>4, <1>5, <1>6
<1>8. ASSUME NEW x \in Users PROVE SumFunctionOnSet(NetOf, q[x]) <= w.net[x]
  <2>1. CASE x = u
    <3>1. w.net[x] = v.net[u] + net BY <1>2, <1>5, <2>1
    <3>2. v.net[u] \in Int BY <1>5
    <3>3. QED BY <1>3, <1>6, <2>1, <3>1, <3>2
  <2>2. CASE x # u
    <3>1. q[x] = p[x] /\ w.net[x] = v.net[x] BY <1>5, <2>2 DEF ChangedFor
    <3>2. QED BY <1>6, <3>1
  <2>3. QED BY <2>1, <2>2
<1>9. QED BY <1>7, <1>8 DEF Covered

\* A position is opened.
LEMMA OpenedCovered ==
  ASSUME NEW p, NEW v \in VaultType, NEW w, Covered(p, v), NEW u \in Users,
         NEW k \in Kinds, k \notin p[u],
         NEW m \in MovementType, m.create, m.short = Opening(k).short,
         m.long = Opening(k).long, Moves(v, w, u, m)
  PROVE  Covered([p EXCEPT ![u] = @ \cup {k}], w)
<1> DEFINE S == p[u] \cup {k}
           q == [p EXCEPT ![u] = S]
           net == m.short - m.long
<1>1. /\ p[u] \in SUBSET Kinds /\ IsFiniteSet(p[u]) /\ FinitelyOpen(p)
  BY DEF Covered, FinitelyOpen
<1>2. IsFiniteSet(S) /\ S \in SUBSET Kinds BY <1>1, FS_AddElement
<1>3. FinitelyOpen(q) /\ ChangedFor(p, q, u) /\ q[u] = S
  BY <1>1, <1>2 DEF FinitelyOpen, ChangedFor
<1>4. \A x \in S : ShortOf[x] \in Int /\ NetOf[x] \in Int BY <1>2, KindAmounts
<1>5. /\ SumFunctionOnSet(ShortOf, S) = ShortOf[k] + SumFunctionOnSet(ShortOf, p[u])
      /\ SumFunctionOnSet(NetOf, S) = NetOf[k] + SumFunctionOnSet(NetOf, p[u])
  BY <1>1, <1>4, SumAdd
<1>6. SumFunctionOnSet(ShortOf, p[u]) \in Int /\ SumFunctionOnSet(NetOf, p[u]) \in Int
  BY <1>1, OpenSums
<1>7. /\ ShortOf[k] \in Int /\ NetOf[k] \in Int /\ m.short \in Int /\ net \in Int
      /\ ShortOf[k] <= m.short /\ NetOf[k] <= net
  BY KindAmounts DEF MovementType
<1>8. w.inAMM = v.inAMM + m.short /\ w.net = [v.net EXCEPT ![u] = @ + net]
  BY DEF Moves, NetBorrows
<1> HIDE DEF S, q, net
<1>9. /\ SumFunctionOnSet(ShortOf, S) <= SumFunctionOnSet(ShortOf, p[u]) + m.short
      /\ SumFunctionOnSet(NetOf, S) <= SumFunctionOnSet(NetOf, p[u]) + net
  BY <1>5, <1>6, <1>7
<1>10. Covered(q, w) BY <1>3, <1>7, <1>8, <1>9, ChangedCovered
<1>11. QED BY <1>10 DEF S, q

\* A position is closed.
LEMMA ClosedCovered ==
  ASSUME NEW p, NEW v \in VaultType, NEW w, Covered(p, v), NEW u \in Users,
         NEW k \in Kinds, k \in p[u],
         NEW m \in MovementType, ~ m.create, m.short = Closing(k).short,
         m.long = Closing(k).long, Moves(v, w, u, m)
  PROVE  Covered([p EXCEPT ![u] = @ \ {k}], w)
<1> DEFINE S == p[u] \ {k}
           q == [p EXCEPT ![u] = S]
           amm == - m.short
           net == m.long - m.short
<1>1. /\ p[u] \in SUBSET Kinds /\ IsFiniteSet(p[u]) /\ FinitelyOpen(p)
  BY DEF Covered, FinitelyOpen
<1>2. IsFiniteSet(S) /\ S \in SUBSET Kinds BY <1>1, FS_RemoveElement
<1>3. FinitelyOpen(q) /\ ChangedFor(p, q, u) /\ q[u] = S
  BY <1>1, <1>2 DEF FinitelyOpen, ChangedFor
<1>4. \A x \in p[u] : ShortOf[x] \in Int /\ NetOf[x] \in Int BY <1>1, KindAmounts
<1>5. /\ SumFunctionOnSet(ShortOf, p[u]) = ShortOf[k] + SumFunctionOnSet(ShortOf, S)
      /\ SumFunctionOnSet(NetOf, p[u]) = NetOf[k] + SumFunctionOnSet(NetOf, S)
  BY <1>1, <1>4, SumRemove
<1>6. SumFunctionOnSet(ShortOf, S) \in Int /\ SumFunctionOnSet(NetOf, S) \in Int
  BY <1>2, OpenSums
<1>7. /\ ShortOf[k] = m.short /\ NetOf[k] = m.short - m.long
      /\ m.short \in Int /\ m.long \in Int /\ amm \in Int /\ net \in Int
  BY KindAmounts DEF MovementType
<1>8. w.inAMM = v.inAMM + amm /\ w.net = [v.net EXCEPT ![u] = @ + net]
  <2>1. w.inAMM = v.inAMM - m.short /\ v.inAMM \in Int BY DEF Moves, VaultType
  <2>2. w.net = [v.net EXCEPT ![u] = @ + net] BY DEF Moves, NetBorrows
  <2>3. QED BY <1>7, <2>1, <2>2
<1>9. /\ SumFunctionOnSet(ShortOf, S) <= SumFunctionOnSet(ShortOf, p[u]) + amm
      /\ SumFunctionOnSet(NetOf, S) <= SumFunctionOnSet(NetOf, p[u]) + net
  BY <1>5, <1>6, <1>7
<1> HIDE DEF S, q, amm, net
<1>10. Covered(q, w) BY <1>3, <1>7, <1>8, <1>9, ChangedCovered
<1>11. QED BY <1>10 DEF S, q

\* Premium alone moves no debt.
LEMMA PremiumCovered ==
  ASSUME NEW p, NEW v \in VaultType, NEW w, Covered(p, v), NEW u \in Users,
         NEW premium, Moves(v, w, u, PremiumOnly(premium))
  PROVE  Covered(p, w)
<1>1. u \in Accounts /\ v.net \in [Accounts -> Int] /\ v.inAMM \in Int
  BY DEF VaultType, Accounts
<1>2. w.inAMM = v.inAMM - 0 /\ w.net = [v.net EXCEPT ![u] = @ + (0 - 0)]
  BY DEF Moves, NetBorrows, PremiumOnly
<1>3. w.inAMM = v.inAMM /\ w.net = v.net BY <1>1, <1>2
<1>4. QED BY <1>3 DEF Covered

-----------------------------------------------------------------------------
(* The invariant of the ledger.                                            *)

\* What the supply holds beyond the balances, in and out of a session.
Outside == IF InSession THEN VirtualShares - Phantom ELSE VirtualShares

\* A session closes positions that are open.
LeftIsOpen == InSession => session.left \subseteq positions[session.account]

LedgerInv ==
    /\ IInv
    /\ Unissued(vault) = Outside
    /\ Covered(positions, vault)
    /\ LeftIsOpen

LEMMA InitLedger == Init => LedgerInv
<1>1. SUFFICES ASSUME Init PROVE LedgerInv OBVIOUS
<1>2. IInv BY <1>1, InitIInv
<1>3. ~ InSession BY <1>1 DEF Init, InSession, NoSession
<1>4. vault.bal = [a \in Accounts |-> 0] /\ vault.supply = VirtualShares
      /\ vault.net = [a \in Accounts |-> 0] /\ vault.inAMM = 0
      /\ positions = [u \in Users |-> {}]
  BY <1>1 DEF Init
<1>5. Unissued(vault) = Outside
  <2>1. DOMAIN vault.bal = Accounts /\ \A a \in Accounts : vault.bal[a] = 0
    BY <1>4
  <2>2. SumFunctionOnSet(vault.bal, Accounts) = 0 BY <2>1, AccountsFinite, SumZeros
  <2>3. SumFunction(vault.bal) = 0 BY <2>1, <2>2, SumWhole
  <2>4. QED BY <1>3, <1>4, <2>3, ConstantTypes DEF Unissued, Outside
<1>6. Covered(positions, vault)
  <2>1. FinitelyOpen(positions) BY <1>4, FS_EmptySet DEF FinitelyOpen
  <2> DEFINE f == [u \in Users |-> SumFunctionOnSet(ShortOf, positions[u])]
  <2>2. \A u \in Users : positions[u] = {} BY <1>4
  <2>3. \A u \in Users : f[u] = 0 BY <2>2, SumEmpty
  <2>4. ShortsOpen(positions) = SumFunctionOnSet(f, Users) BY DEF ShortsOpen
  <2> HIDE DEF f
  <2>5. ShortsOpen(positions) = 0 BY <2>3, <2>4, AccountsFinite, SumZeros
  <2>6. \A u \in Users : SumFunctionOnSet(NetOf, positions[u]) = 0 /\ vault.net[u] = 0
    BY <1>4, <2>2, SumEmpty DEF Accounts
  <2>7. QED BY <1>4, <2>1, <2>5, <2>6 DEF Covered
<1>7. QED BY <1>2, <1>3, <1>5, <1>6 DEF LedgerInv, LeftIsOpen

\* A step that leaves the pool alone and the ledger's totals as they were.
LEMMA LedgerUnmoved ==
  ASSUME LedgerInv, IInv', SameLedger(vault, vault'),
         UNCHANGED <<positions, session>>
  PROVE  LedgerInv'
<1>1. /\ Unissued(vault') = Unissued(vault) /\ vault'.net = vault.net
      /\ vault'.inAMM = vault.inAMM /\ positions' = positions /\ session' = session
  BY DEF SameLedger
<1>2. Covered(positions', vault') BY <1>1 DEF LedgerInv, Covered
<1>3. Outside' = Outside BY <1>1 DEF Outside, InSession
<1>4. LeftIsOpen' BY <1>1 DEF LedgerInv, LeftIsOpen, InSession
<1>5. (Unissued(vault) = Outside)' BY <1>1, <1>3 DEF LedgerInv, Unissued
<1>6. QED BY <1>2, <1>4, <1>5 DEF LedgerInv

LEMMA DispatchLedger ==
  ASSUME LedgerInv, IInv', Dispatch PROVE LedgerInv'
<1>1. /\ Premia \subseteq Int /\ 0 \in Int /\ Users \subseteq Accounts
      /\ VaultInv(vault) /\ vault \in VaultType
      /\ Covered(positions, vault) /\ Unissued(vault) = Outside
  BY InputAssumption DEF LedgerInv, IInv, TypeOK, Accounts
<1>2. PICK u \in Users, k \in Kinds, recipient \in FeeRecipients :
        \/ \E amm \in AmmDeltas(k, Opening(k)) :
             SettleMint(u, k, amm, recipient)
        \/ \E amm \in AmmDeltas(k, Closing(k)), premium \in Premia :
             SettleBurn(u, k, amm, premium, recipient)
        \/ \E premium \in Premia : SettlePremium(u, k, premium, recipient)
  BY DEF Dispatch
<1>3. SUFFICES ASSUME TRUE
               PROVE  /\ Unissued(vault') = Unissued(vault)
                      /\ Covered(positions', vault')
                      /\ session' = session /\ ~ InSession
  BY <1>1 DEF LedgerInv, LeftIsOpen, Outside, InSession, Unissued
<1>4. CASE \E amm \in AmmDeltas(k, Opening(k)) :
             SettleMint(u, k, amm, recipient)
  <2>1. PICK amm \in AmmDeltas(k, Opening(k)) :
          SettleMint(u, k, amm, recipient)
    BY <1>4
  <2> DEFINE m == Movement(Opening(k), amm, 0)
  <2>2. /\ ~ InSession /\ SettleCall(u, m, Fee(m), recipient)
        /\ k \notin positions[u]
        /\ positions' = [positions EXCEPT ![u] = @ \cup {k}]
        /\ session' = session
    BY <2>1 DEF SettleMint
  <2>3. m \in MovementType BY <1>1, PositionAmounts
  <2>4. m.create /\ m.short = Opening(k).short /\ m.long = Opening(k).long
    BY DEF Movement, Opening
  <2> HIDE DEF m
  <2>5. Moves(vault, vault', u, m) BY <1>1, <2>2, <2>3, FeeNat, SettleCallLedger
  <2>6. Covered([positions EXCEPT ![u] = @ \cup {k}], vault')
    BY <1>1, <2>2, <2>3, <2>4, <2>5, OpenedCovered
  <2>7. QED BY <2>2, <2>5, <2>6 DEF Moves
<1>5. CASE \E amm \in AmmDeltas(k, Closing(k)), premium \in Premia :
             SettleBurn(u, k, amm, premium, recipient)
  <2>1. PICK amm \in AmmDeltas(k, Closing(k)), premium \in Premia :
          SettleBurn(u, k, amm, premium, recipient)
    BY <1>5
  <2> DEFINE m == Movement(Closing(k), amm, premium)
  <2>2. /\ ~ InSession /\ SettleCall(u, m, Fee(m), recipient)
        /\ k \in positions[u]
        /\ positions' = [positions EXCEPT ![u] = @ \ {k}]
        /\ session' = session
    BY <2>1 DEF SettleBurn
  <2>3. m \in MovementType BY <1>1, PositionAmounts
  <2>4. ~ m.create /\ m.short = Closing(k).short /\ m.long = Closing(k).long
    BY DEF Movement, Closing
  <2> HIDE DEF m
  <2>5. Moves(vault, vault', u, m) BY <1>1, <2>2, <2>3, FeeNat, SettleCallLedger
  <2>6. Covered([positions EXCEPT ![u] = @ \ {k}], vault')
    BY <1>1, <2>2, <2>3, <2>4, <2>5, ClosedCovered
  <2>7. QED BY <2>2, <2>5, <2>6 DEF Moves
<1>6. CASE \E premium \in Premia : SettlePremium(u, k, premium, recipient)
  <2>1. PICK premium \in Premia : SettlePremium(u, k, premium, recipient) BY <1>6
  <2> DEFINE m == PremiumOnly(premium)
  <2>2. /\ ~ InSession /\ SettleCall(u, m, Fee(m), recipient)
        /\ positions' = positions /\ session' = session
    BY <2>1 DEF SettlePremium
  <2>3. m \in MovementType BY <1>1, PositionAmounts
  <2>4. m = PremiumOnly(premium) OBVIOUS
  <2> HIDE DEF m
  <2>5. Moves(vault, vault', u, m) BY <1>1, <2>2, <2>3, FeeNat, SettleCallLedger
  <2>6. Covered(positions, vault') BY <1>1, <2>4, <2>5, PremiumCovered
  <2>7. QED BY <2>2, <2>5, <2>6 DEF Moves
<1>7. QED BY <1>2, <1>4, <1>5, <1>6

LEMMA BeginKeepsLedger ==
  ASSUME LedgerInv, IInv', NEW kind, NEW c \in Users, NEW u \in Users,
         NEW left, left \subseteq positions[u], Begin(kind, c, u, left)
  PROVE  LedgerInv'
<1>1. VaultInv(vault) /\ Covered(positions, vault) /\ Unissued(vault) = Outside
  BY DEF LedgerInv, IInv
<1>2. /\ Unissued(vault') = Unissued(vault) - Phantom
      /\ vault'.net = vault.net /\ vault'.inAMM = vault.inAMM
  BY <1>1, BeginLedger
<1>3. /\ ~ InSession /\ kind \in Interventions /\ positions' = positions
      /\ session' = [kind |-> kind, caller |-> c, account |-> u,
                     left |-> left, paid |-> 0]
  BY DEF Begin
<1>4. InSession' BY <1>3, InputAssumption DEF InSession
<1>5. Covered(positions', vault') BY <1>1, <1>2, <1>3 DEF Covered
<1>6. (Unissued(vault) = Outside)'
  BY <1>1, <1>2, <1>3, <1>4 DEF Outside, Unissued
<1>7. LeftIsOpen' BY <1>3 DEF LeftIsOpen
<1>8. QED BY <1>5, <1>6, <1>7 DEF LedgerInv

LEMMA SessionSettleLedger ==
  ASSUME LedgerInv, IInv', NEW k \in Kinds,
         NEW amm \in AmmDeltas(k, Closing(k)) \cup {0},
         NEW premium \in Premia,
         SessionSettle(k, amm, premium)
  PROVE  LedgerInv'
<1> DEFINE keep == session.kind = "settle"
           m    == IF keep THEN PremiumOnly(premium)
                           ELSE Movement(Closing(k), amm, premium)
           a    == session.account
<1>1. /\ premium \in Int /\ VaultInv(vault) /\ vault \in VaultType
      /\ TypeOK /\ Covered(positions, vault) /\ Unissued(vault) = Outside
      /\ LeftIsOpen
  BY InputAssumption DEF LedgerInv, IInv, TypeOK
<1>2. /\ InSession /\ k \in session.left /\ SettleCall(a, m, Fee(m), NoRecipient)
      /\ positions' = IF keep THEN positions
                      ELSE [positions EXCEPT ![a] = @ \ {k}]
      /\ session' = [session EXCEPT
                       !.left = @ \ {k},
                       !.paid = IF session.kind = "liquidate"
                                THEN @ + Excess(0, premium) ELSE @]
  BY DEF SessionSettle
<1>3. /\ session.kind \in {"liquidate", "exercise", "settle"}
      /\ a \in Users /\ a \in Accounts
      /\ session \in SessionType \ {NoSession}
  BY <1>1, <1>2, InSessionType
<1>4. m \in MovementType
  <2>1. CASE keep BY <1>1, <2>1, PositionAmounts
  <2>2. CASE ~ keep BY <1>1, <2>2, PositionAmounts
  <2>3. QED BY <2>1, <2>2
<1>5. Moves(vault, vault', a, m)
  <2> HIDE DEF m
  <2>1. QED BY <1>1, <1>2, <1>3, <1>4, FeeNat, SettleCallLedger
<1>6. k \in positions[a] BY <1>1, <1>2 DEF LeftIsOpen
<1>7. Covered(positions', vault')
  <2>1. CASE keep
    <3>1. Moves(vault, vault', a, PremiumOnly(premium)) BY <1>5, <2>1
    <3>2. Covered(positions, vault') BY <1>1, <1>3, <3>1, PremiumCovered
    <3>3. QED BY <1>2, <2>1, <3>2
  <2>2. CASE ~ keep
    <3>1. ~ m.create /\ m.short = Closing(k).short /\ m.long = Closing(k).long
      BY <2>2 DEF Movement, Closing
    <3> HIDE DEF m, a
    <3>2. Covered([positions EXCEPT ![a] = @ \ {k}], vault')
      BY <1>1, <1>3, <1>4, <1>5, <1>6, <3>1, ClosedCovered
    <3>3. QED BY <1>2, <2>2, <3>2
  <2>3. QED BY <2>1, <2>2
<1>8. /\ session'.left = session.left \ {k} /\ session'.kind = session.kind
      /\ session'.account = session.account
  BY <1>2, <1>3 DEF SessionType, NoSession
<1>9. (Unissued(vault) = Outside)'
  BY <1>1, <1>2, <1>5, <1>8 DEF Outside, Unissued, InSession, Moves
<1>10. LeftIsOpen'
  <2>1. session.left \subseteq positions[a] BY <1>1, <1>2 DEF LeftIsOpen
  <2>2. positions[a] \ {k} \subseteq positions'[a]
    BY <1>1, <1>2, <1>3 DEF TypeOK
  <2>3. QED BY <1>8, <2>1, <2>2 DEF LeftIsOpen
<1>11. QED BY <1>7, <1>9, <1>10 DEF LedgerInv

LEMMA SettleHaircutLedger ==
  ASSUME LedgerInv, IInv', NEW haircut \in 1..MaxAssets, SettleHaircut(haircut)
  PROVE  LedgerInv'
<1> DEFINE u == session.account
           m == PremiumOnly(haircut)
<1>1. /\ VaultInv(vault) /\ vault \in VaultType /\ TypeOK /\ haircut \in Nat
      /\ Covered(positions, vault) /\ Unissued(vault) = Outside /\ LeftIsOpen
  BY VaultAssumption DEF LedgerInv, IInv, TypeOK
<1>2. /\ InSession /\ SettleCall(u, m, 0, NoRecipient)
      /\ session.kind = "liquidate" /\ session.left = {}
      /\ session' = [session EXCEPT !.paid = 0] /\ positions' = positions
  BY DEF SettleHaircut
<1>3. /\ u \in Users /\ u \in Accounts /\ session \in SessionType \ {NoSession}
  BY <1>1, <1>2, InSessionType
<1>4. m \in MovementType BY <1>1 DEF PremiumOnly, MovementType
<1>5. Moves(vault, vault', u, m)
  <2> HIDE DEF m
  <2>1. QED BY <1>1, <1>2, <1>3, <1>4, SettleCallLedger
<1>6. Covered(positions, vault') BY <1>1, <1>3, <1>5, PremiumCovered
<1>7. session'.left = {} /\ session'.kind = "liquidate"
  BY <1>2, <1>3 DEF SessionType, NoSession
<1>8. (Unissued(vault) = Outside)'
  BY <1>1, <1>2, <1>5, <1>7 DEF Outside, Unissued, InSession, Moves
<1>9. QED BY <1>2, <1>6, <1>7, <1>8 DEF LedgerInv, LeftIsOpen

\* The two ways a session ends take the delegated shares back.
LEMMA EndKeepsLedger ==
  ASSUME LedgerInv, IInv', InSession, session' = NoSession, positions' = positions,
         Unissued(vault') = Unissued(vault) + Phantom,
         vault'.net = vault.net, vault'.inAMM = vault.inAMM
  PROVE  LedgerInv'
<1>1. Covered(positions', vault') BY DEF LedgerInv, Covered
<1>2. ~ InSession' BY DEF InSession, NoSession
<1>3. (Unissued(vault) = Outside)'
  BY <1>2, ConstantTypes DEF LedgerInv, Outside, Unissued
<1>4. QED BY <1>1, <1>2, <1>3 DEF LedgerInv, LeftIsOpen

LEMMA DispatchFromLedger == ASSUME LedgerInv, IInv', DispatchFrom PROVE LedgerInv'
<1>1. IInv /\ TypeOK /\ VaultInv(vault) BY DEF LedgerInv, IInv
<1>2. ASSUME NEW c \in Users, NEW u \in Users, BeginLiquidation(c, u)
      PROVE  LedgerInv'
  BY <1>2, BeginKeepsLedger DEF BeginLiquidation
<1>3. ASSUME NEW c \in Users, NEW u \in Users, NEW k \in Kinds,
             BeginExercise(c, u, k) \/ BeginSettlement(c, u, k)
      PROVE  LedgerInv'
  <2>1. {k} \subseteq positions[u] BY <1>3 DEF BeginExercise, BeginSettlement
  <2>2. QED BY <1>3, <2>1, BeginKeepsLedger DEF BeginExercise, BeginSettlement
<1>4. ASSUME NEW bonus \in Bonuses, FinishLiquidation(bonus) PROVE LedgerInv'
  <2>1. /\ InSession /\ HasAssets(vault)
        /\ vault' = LiquidationSettled(vault, session.caller, session.account, bonus)
        /\ session' = NoSession /\ positions' = positions
    BY <1>4 DEF FinishLiquidation, Write
  <2>2. session.caller \in Accounts /\ session.account \in Accounts /\ bonus \in Int
    BY <1>1, <2>1, InSessionType, InputAssumption
  <2>3. /\ Unissued(vault') = Unissued(vault) + Phantom
        /\ vault'.net = vault.net /\ vault'.inAMM = vault.inAMM
    BY <1>1, <2>1, <2>2, LiquidationSettledLedger
  <2>4. QED BY <2>1, <2>3, EndKeepsLedger
<1>5. ASSUME NEW fee \in Fees, FinishRefund(fee) PROVE LedgerInv'
  <2>1. InSession /\ session' = NoSession /\ positions' = positions
    BY <1>5 DEF FinishRefund
  <2>2. /\ Unissued(vault') = Unissued(vault) + Phantom
        /\ vault'.net = vault.net /\ vault'.inAMM = vault.inAMM
    BY <1>1, <1>5, FinishRefundLedger
  <2>3. QED BY <2>1, <2>2, EndKeepsLedger
<1>6. QED
  BY <1>2, <1>3, <1>4, <1>5, SessionSettleLedger, SettleHaircutLedger DEF DispatchFrom

LEMMA StepLedger == LedgerInv /\ [Next]_vars => LedgerInv'
<1>1. SUFFICES ASSUME LedgerInv, [Next]_vars PROVE LedgerInv' OBVIOUS
<1>2. IInv /\ IInv' BY <1>1, StepIInv DEF LedgerInv
<1>3. CASE UserCall
  <2>1. SameLedger(vault, vault') BY <1>2, <1>3, UserCallLedger
  <2>2. UNCHANGED <<positions, session>>
    BY <1>2, <1>3, UserCallKeeps DEF PoolUnchanged
  <2>3. QED BY <1>1, <1>2, <2>1, <2>2, LedgerUnmoved
<1>4. CASE Dispatch BY <1>1, <1>2, <1>4, DispatchLedger
<1>5. CASE DispatchFrom BY <1>1, <1>2, <1>5, DispatchFromLedger
<1>6. CASE PassTime \/ UNCHANGED vars
  <2>1. vault' = vault /\ UNCHANGED <<positions, session>> BY <1>6 DEF PassTime, vars
  <2>2. SameLedger(vault, vault') BY <2>1 DEF SameLedger, Unissued
  <2>3. QED BY <1>1, <1>2, <2>1, <2>2, LedgerUnmoved
<1>7. QED BY <1>1, <1>3, <1>4, <1>5, <1>6 DEF Next

-----------------------------------------------------------------------------

\* The supply is what the balances and the virtual shares add up to, less
\* what is delegated: burns, refunds and liquidations inside a session never
\* lose or invent a share, for any number of accounts.
THEOREM SharesStayAddedUp == Spec => []SharesAddUp
<1>1. LedgerInv => SharesAddUp
  <2>1. SUFFICES ASSUME LedgerInv PROVE SharesAddUp OBVIOUS
  <2>2. vault.bal \in [Accounts -> Int] /\ vault.supply \in Int
    BY <2>1 DEF LedgerInv, IInv, TypeOK, VaultType
  <2>3. SumFunction(vault.bal) \in Int BY <2>2, BalancesSum
  <2>4. Cardinality(Delegated) = IF InSession THEN 1 ELSE 0
    BY FS_Singleton, FS_EmptySet DEF Delegated
  <2>5. Phantom * Cardinality(Delegated) = IF InSession THEN Phantom ELSE 0
    <3>1. Phantom * 1 = Phantom /\ Phantom * 0 = 0 BY ConstantTypes
    <3>2. QED BY <2>4, <3>1
  <2>6. vault.supply - SumFunction(vault.bal) = Outside BY <2>1 DEF LedgerInv, Unissued
  <2>7. QED BY <2>2, <2>3, <2>5, <2>6, ConstantTypes DEF SharesAddUp, Outside
<1>2. QED BY <1>1, InitLedger, StepLedger, PTL DEF Spec

\* The virtual shares are nobody's for ever: outside a session, what all the
\* others hold and what nobody holds is beyond any one account's balance.
NobodyHoldsAll ==
    ~ InSession => \A a \in Accounts : vault.bal[a] + VirtualShares <= vault.supply

\* However a vault is emptied, the virtual shares of initialize remain in its
\* supply, so that totalSupply never is zero between transactions, and burning
\* all that an account has (_burn, unchecked) leaves them.
THEOREM VirtualSharesRemain == Spec => []NobodyHoldsAll
<1>1. LedgerInv => NobodyHoldsAll
  <2>1. SUFFICES ASSUME LedgerInv, ~ InSession, NEW a \in Accounts
                 PROVE  vault.bal[a] + VirtualShares <= vault.supply
    BY DEF NobodyHoldsAll
  <2>2. vault.bal \in [Accounts -> Nat] /\ vault.supply \in Nat
    BY <2>1 DEF LedgerInv, IInv, TypeOK, VaultType
  <2>3. SumFunction(vault.bal) = SumFunctionOnSet(vault.bal, Accounts)
    BY <2>2, SumWhole
  <2>4. vault.bal[a] <= SumFunctionOnSet(vault.bal, Accounts)
    BY <2>2, AccountsFinite, SumMember
  <2>5. vault.supply - SumFunction(vault.bal) = VirtualShares
    BY <2>1 DEF LedgerInv, Unissued, Outside
  <2>6. SumFunction(vault.bal) \in Int BY <2>2, BalancesSum
  <2>7. QED BY <2>2, <2>3, <2>4, <2>5, <2>6, ConstantTypes
<1>2. QED BY <1>1, InitLedger, StepLedger, PTL DEF Spec

LEMMA OpenAmounts ==
  ASSUME FinitelyOpen(positions), NEW u \in Users
  PROVE  /\ OpenAmount(u, ClosingShort) = SumFunctionOnSet(ShortOf, positions[u])
         /\ OpenAmount(u, ClosingNet) = SumFunctionOnSet(NetOf, positions[u])
<1> DEFINE P == positions[u]
           f == [k \in P |-> ClosingShort(k)]
           g == [k \in P |-> ClosingNet(k)]
<1>1. IsFiniteSet(P) /\ P \subseteq Kinds BY DEF FinitelyOpen
<1>2. \A k \in P : f[k] = ShortOf[k] /\ g[k] = NetOf[k] BY <1>1 DEF ShortOf, NetOf
<1>3. DOMAIN f = P /\ DOMAIN g = P OBVIOUS
<1>4. OpenAmount(u, ClosingShort) = SumFunction(f) BY DEF OpenAmount
<1>5. OpenAmount(u, ClosingNet) = SumFunction(g) BY DEF OpenAmount
<1> HIDE DEF f, g
<1>6. /\ SumFunctionOnSet(f, P) = SumFunctionOnSet(ShortOf, P)
      /\ SumFunctionOnSet(g, P) = SumFunctionOnSet(NetOf, P)
  BY <1>1, <1>2, SumAgrees
<1>7. QED BY <1>3, <1>4, <1>5, <1>6, SumWhole

\* The AMM tally always covers the shorts that are open, in total over all
\* users and positions: the checked subtraction of a close cannot revert.
THEOREM ShortsStayCovered == Spec => []AmmCoversShorts
<1>1. LedgerInv => AmmCoversShorts
  <2>1. SUFFICES ASSUME LedgerInv PROVE AmmCoversShorts OBVIOUS
  <2>2. FinitelyOpen(positions) /\ ShortsOpen(positions) <= vault.inAMM
    BY <2>1 DEF LedgerInv, Covered
  <2> DEFINE f == [u \in Users |-> OpenAmount(u, ClosingShort)]
             g == [u \in Users |-> SumFunctionOnSet(ShortOf, positions[u])]
  <2>3. f = g BY <2>2, OpenAmounts
  <2>4. DOMAIN g = Users OBVIOUS
  <2>5. ShortsOpen(positions) = SumFunctionOnSet(g, Users) BY DEF ShortsOpen
  <2>6. AmmCoversShorts <=> SumFunction(f) <= vault.inAMM BY DEF AmmCoversShorts
  <2> HIDE DEF f, g
  <2>7. SumFunction(f) = ShortsOpen(positions) BY <2>3, <2>4, <2>5, SumWhole
  <2>8. QED BY <2>2, <2>6, <2>7
<1>2. QED BY <1>1, InitLedger, StepLedger, PTL DEF Spec

\* Nobody's recorded debt falls below what the open positions will pay back,
\* after any number of openings and closings rounded either way.
THEOREM DebtsStayCovered == Spec => []DebtCoversPositions
<1>1. LedgerInv => DebtCoversPositions
  BY OpenAmounts DEF LedgerInv, Covered, DebtCoversPositions
<1>2. QED BY <1>1, InitLedger, StepLedger, PTL DEF Spec

-----------------------------------------------------------------------------
(* The price of a share: what each operation does to the assets and to the *)
(* supply, and that the price never falls by more than the specification   *)
(* allows.  Each operation changes the assets by some a and the supply by  *)
(* some s, of either sign; rounding always leaves assets * s <= a *        *)
(* supply, from which PriceStep gives the price.                           *)

(* Roundings and prices as numbers.                                        *)

\* What a quotient rounded down or up tells about its product.
LEMMA RoundedDown ==
  ASSUME NEW x \in Nat, NEW s \in Nat, NEW c \in Nat, c > 0
  PROVE  /\ MulDiv(x, s, c) \in Nat
         /\ c * MulDiv(x, s, c) <= x * s
         /\ x * s <= c * MulDiv(x, s, c) + c
<1> DEFINE n == x * s
           q == n \div c
<1>1. n \in Nat BY MulNat
<1>2. q \in Nat /\ c * q <= n /\ n < c * q + c BY <1>1, DivNat, DivBounds
<1>3. c * q \in Nat BY <1>2, MulNat
<1> HIDE DEF n, q
<1>4. n <= c * q + c BY <1>1, <1>2, <1>3
<1>5. QED BY <1>2, <1>4 DEF MulDiv, n, q

LEMMA RoundedUp ==
  ASSUME NEW x \in Nat, NEW s \in Nat, NEW c \in Nat, c > 0
  PROVE  /\ MulDivUp(x, s, c) \in Nat
         /\ x * s <= c * MulDivUp(x, s, c)
         /\ c * MulDivUp(x, s, c) <= x * s + c
<1> DEFINE n == x * s
           y == n + (c - 1)
           q == y \div c
<1>1. n \in Nat BY MulNat
<1>2. y \in Nat BY <1>1
<1>3. q \in Nat /\ c * q <= y /\ y < c * q + c BY <1>2, DivNat, DivBounds
<1>4. c * q \in Nat BY <1>3, MulNat
<1> HIDE DEF n, q
<1>5. n <= c * q /\ c * q <= n + c BY <1>1, <1>3, <1>4
<1>6. QED BY <1>3, <1>5 DEF MulDivUp, n, q

LEMMA MulMono ==
  ASSUME NEW a \in Int, NEW b \in Int, a <= b, NEW c \in Nat
  PROVE  a * c <= b * c /\ c * a <= c * b
  BY SMT

LEMMA MulInt == ASSUME NEW a \in Int, NEW b \in Int PROVE a * b \in Int
  BY SMT

\* The price a supply of S and assets of A leave after a change of both.
LEMMA PriceStep ==
  ASSUME NEW A \in Nat, NEW S \in Nat, NEW B \in Int, NEW da \in Int, NEW ds \in Int,
         A + da <= B, A * ds <= da * S
  PROVE  A * (S + ds) <= B * S
<1>1. A * (S + ds) = A * S + A * ds BY SMT
<1>2. (A + da) * S = A * S + da * S BY SMT
<1>3. (A + da) * S <= B * S BY MulMono
<1>4. /\ A * S \in Int /\ A * ds \in Int /\ da * S \in Int /\ B * S \in Int
      /\ (A + da) * S \in Int
  BY MulInt
<1>5. QED BY <1>1, <1>2, <1>3, <1>4

\* Prices compare through a third one, unless nobody holds a share of it.
LEMMA PriceChain ==
  ASSUME NEW A \in Nat, NEW S \in Nat, NEW B \in Nat, NEW T \in Nat, NEW C \in Nat,
         NEW U \in Int, A * T <= B * S, B * U <= C * T, T > 0 \/ U <= 0
  PROVE  A * U <= C * S
<1>1. CASE U <= 0
  <2>1. - U \in Nat BY <1>1
  <2>2. A * (- U) \in Nat /\ C * S \in Nat BY <2>1, MulNat
  <2>3. A * U = - (A * (- U)) BY SMT
  <2>4. QED BY <2>2, <2>3
<1>2. CASE U > 0
  <2>1. U \in Nat /\ T > 0 BY <1>2
  <2>2. A * T \in Int /\ B * S \in Int /\ B * U \in Int /\ C * T \in Int
    BY MulInt
  <2>3. (A * T) * U <= (B * S) * U BY <2>1, <2>2, MulMono
  <2>4. (B * U) * S <= (C * T) * S BY <2>2, MulMono
  <2>5. /\ (A * T) * U = T * (A * U) /\ (B * S) * U = (B * U) * S
        /\ (C * T) * S = T * (C * S)
    BY <2>1, SMT
  <2>6. A * U \in Int /\ C * S \in Int BY MulInt
  <2>7. T * (A * U) <= T * (C * S)
    <3>1. /\ (B * U) * S \in Int /\ T * (A * U) \in Int /\ T * (C * S) \in Int
      BY <2>2, <2>6, MulInt
    <3>2. QED BY <2>3, <2>4, <2>5, <3>1
  <2>8. A * U < C * S + 1
    <3>1. T * (C * S + 1) = T * (C * S) + T BY <2>6, SMT
    <3>2. T * (A * U) \in Int /\ T * (C * S) \in Int BY <2>6, MulInt
    <3>3. T * (A * U) < T * (C * S + 1) BY <2>1, <2>7, <3>1, <3>2
    <3>4. QED BY <2>1, <2>6, <3>3, CancelFactor
  <2>9. QED BY <2>6, <2>8
<1>3. QED BY <1>1, <1>2

\* A share of a better price converts to as many assets or more.
LEMMA BetterPriceConverts ==
  ASSUME NEW A \in Nat, NEW S \in Nat, S > 0, NEW B \in Nat, NEW T \in Nat, T > 0,
         A * T <= B * S, NEW x \in Nat
  PROVE  MulDiv(x, A, S) <= MulDiv(x, B, T)
<1> DEFINE q == MulDiv(x, A, S)
<1>1. q \in Nat /\ S * q <= x * A BY RoundedDown
<1> HIDE DEF q
<1>2. (S * q) * T <= (x * A) * T BY <1>1, MulMono, MulNat
<1>3. x * (A * T) <= x * (B * S) BY MulMono, MulInt
<1>4. /\ (S * q) * T = S * (q * T) /\ (x * A) * T = x * (A * T)
      /\ x * (B * S) = S * (x * B)
  BY <1>1, SMT
<1>5. q * T \in Int /\ x * B \in Int BY <1>1, MulInt
<1>6. S * (q * T) <= S * (x * B)
  <2>1. /\ S * (q * T) \in Int /\ S * (x * B) \in Int /\ x * (A * T) \in Int
    BY <1>5, MulInt
  <2>2. QED BY <1>2, <1>3, <1>4, <2>1
<1>7. q * T < x * B + 1
  <2>1. S * (x * B + 1) = S * (x * B) + S BY <1>5, SMT
  <2>2. S * (q * T) \in Int /\ S * (x * B) \in Int BY <1>5, MulInt
  <2>3. S * (q * T) < S * (x * B + 1) BY <1>6, <2>1, <2>2
  <2>4. QED BY <1>5, <2>3, CancelFactor
<1>8. q * T <= x * B BY <1>5, <1>7
<1>9. QED BY <1>1, <1>8, MulDivAtLeast DEF q

-----------------------------------------------------------------------------
(* The accrual: shares are burned for interest that stays in the totals.   *)

LEMMA SameTotalsPrice ==
  ASSUME NEW v, VaultInv(v), NEW w, SameAssets(v, w), w.supply = v.supply
  PROVE  /\ TotalAssets(w) = TotalAssets(v) /\ TotalSupply(w) = TotalSupply(v)
         /\ PriceHolds(v, w, 0)
<1>1. TotalAssets(w) = TotalAssets(v) /\ TotalSupply(w) = TotalSupply(v)
  BY DEF SameAssets, TotalAssets, TotalSupply
<1>2. TotalAssets(v) \in Nat /\ TotalSupply(v) \in Nat BY VaultTotals
<1>3. TotalSupply(v) - 0 = TotalSupply(v) BY <1>2
<1>4. TotalAssets(v) * TotalSupply(v) \in Int BY <1>2, MulInt
<1>5. QED BY <1>1, <1>3, <1>4 DEF PriceHolds

\* A vault with da more assets and ds more shares than v, da and ds signed.
LEMMA ChangedPrice ==
  ASSUME NEW v, VaultInv(v), NEW w, VaultInv(w), NEW da \in Int, NEW ds \in Int,
         NEW extra \in {0, 1},
         TotalAssets(v) + da <= TotalAssets(w),
         TotalSupply(w) = TotalSupply(v) + ds + extra,
         TotalAssets(v) * ds <= da * TotalSupply(v)
  PROVE  PriceHolds(v, w, extra)
<1>1. /\ TotalAssets(v) \in Nat /\ TotalSupply(v) \in Nat
      /\ TotalAssets(w) \in Nat /\ TotalSupply(w) \in Nat
  BY VaultTotals
<1>2. TotalSupply(w) - extra = TotalSupply(v) + ds BY <1>1
<1>3. TotalAssets(v) * (TotalSupply(v) + ds) <= TotalAssets(w) * TotalSupply(v)
  BY <1>1, PriceStep
<1>4. QED BY <1>2, <1>3 DEF PriceHolds

LEMMA PaidPrice ==
  ASSUME NEW v, VaultInv(v), NEW u \in Accounts, NEW n \in Nat, CanBurn(v, u, n),
         NEW p \in Nat, p * TotalSupply(v) <= TotalAssets(v) * n,
         NEW w, w = PayInterest(BurnShares(v, u, n), p)
  PROVE  /\ VaultInv(w)
         /\ w.deposited = v.deposited /\ w.inAMM = v.inAMM
         /\ w.credited = v.credited /\ w.supply = v.supply - n
         /\ PriceHolds(v, w, 0)
<1> DEFINE b    == BurnShares(v, u, n)
           left == Excess(b.unrealized, p)
<1>1. v \in VaultType BY DEF VaultInv
<1>a. b = BurnShares(v, u, n) OBVIOUS
<1>3. w = [b EXCEPT !.unrealized = left] BY DEF PayInterest
<1> HIDE DEF b
<1>b. /\ b \in VaultType /\ b.bal = [v.bal EXCEPT ![u] = @ - n]
      /\ b.supply = v.supply - n /\ SameDebts(v, b) /\ SameAssets(v, b)
  BY <1>1, <1>a, BurnFields
<1>2. b.supply = v.supply - n /\ SameAssets(v, b) /\ VaultInv(b)
  BY <1>a, <1>b, BurnKeeps
<1>4. b.unrealized \in Nat /\ b.unrealized = v.unrealized /\ b \in VaultType
  BY <1>2 DEF VaultInv, VaultType, SameAssets
<1>5. left \in Nat /\ v.unrealized - p <= left BY <1>4 DEF Excess
<1> HIDE DEF left
<1>6. /\ w.deposited = v.deposited /\ w.inAMM = v.inAMM
      /\ w.credited = v.credited /\ w.supply = v.supply - n
      /\ w.unrealized = left
  BY <1>2, <1>3, <1>4 DEF VaultType, SameAssets
<1>7. VaultInv(w) BY <1>2, <1>3, <1>5, UnrealizedFieldKeeps
<1>8. /\ v.deposited \in Nat /\ v.inAMM \in Nat /\ v.unrealized \in Nat
      /\ v.supply \in Nat /\ v.credited \in Nat
  BY <1>1 DEF VaultType
<1>9. TotalAssets(v) + (-p) <= TotalAssets(w)
  BY <1>5, <1>6, <1>8 DEF TotalAssets
<1>10. TotalSupply(w) = TotalSupply(v) + (-n) + 0
  BY <1>6, <1>8 DEF TotalSupply
<1>11. TotalAssets(v) * (-n) <= (-p) * TotalSupply(v)
  <2>1. TotalAssets(v) \in Nat /\ TotalSupply(v) \in Nat BY VaultTotals
  <2>2. /\ TotalAssets(v) * (-n) = - (TotalAssets(v) * n)
        /\ (-p) * TotalSupply(v) = - (p * TotalSupply(v))
    BY <2>1, SMT
  <2>3. TotalAssets(v) * n \in Int /\ p * TotalSupply(v) \in Int BY <2>1, MulInt
  <2>4. QED BY <2>2, <2>3
<1>12. QED BY <1>6, <1>7, <1>9, <1>10, <1>11, ChangedPrice

LEMMA GrownPrice ==
  ASSUME NEW v, VaultInv(v), NEW raw \in Nat, NEW w, w = Grown(v, raw)
  PROVE  /\ VaultInv(w)
         /\ w.deposited = v.deposited /\ w.inAMM = v.inAMM
         /\ w.credited = v.credited /\ w.supply = v.supply
         /\ PriceHolds(v, w, 0)
<1> DEFINE i == MulDivUp(v.index, WAD + raw, WAD)
           x == MulDivUp(v.inAMM, raw, WAD)
           g == v.unrealized + x
<1>1. /\ v.deposited \in Nat /\ v.inAMM \in Nat /\ v.unrealized \in Nat
      /\ v.supply \in Nat /\ v.credited \in Nat /\ v \in VaultType
  BY DEF VaultInv, VaultType
<1>2. x \in Nat BY <1>1, ConstantTypes, MulDivNat
<1>3. w = [v EXCEPT !.index = i, !.unrealized = g] BY DEF Grown
<1> HIDE DEF i, x
<1>4. /\ w.deposited = v.deposited /\ w.inAMM = v.inAMM
      /\ w.credited = v.credited /\ w.supply = v.supply
      /\ w.unrealized = v.unrealized + x
  BY <1>1, <1>3 DEF VaultType
<1>5. VaultInv(w) BY GrownKeeps
<1>6. TotalAssets(v) + 0 <= TotalAssets(w) BY <1>1, <1>2, <1>4 DEF TotalAssets
<1>7. TotalSupply(w) = TotalSupply(v) + 0 + 0 BY <1>1, <1>4 DEF TotalSupply
<1>8. TotalAssets(v) * 0 <= 0 * TotalSupply(v)
  <2>1. TotalAssets(v) \in Nat /\ TotalSupply(v) \in Nat BY VaultTotals
  <2>2. QED BY <2>1, SMT
<1>9. QED BY <1>4, <1>5, <1>6, <1>7, <1>8, ChangedPrice

\* Two steps in a row; the last may add a share or leave a supply of none.
LEMMA PriceAfter ==
  ASSUME NEW v, VaultInv(v), NEW w, VaultInv(w), NEW x, VaultInv(x),
         NEW extra \in {0, 1},
         PriceHolds(v, w, 0), PriceHolds(w, x, extra),
         TotalSupply(w) > 0 \/ TotalSupply(x) <= extra
  PROVE  PriceHolds(v, x, extra)
<1>1. /\ TotalAssets(v) \in Nat /\ TotalSupply(v) \in Nat
      /\ TotalAssets(w) \in Nat /\ TotalSupply(w) \in Nat
      /\ TotalAssets(x) \in Nat /\ TotalSupply(x) \in Nat
  BY VaultTotals
<1>2. TotalSupply(w) - 0 = TotalSupply(w) /\ TotalSupply(x) - extra \in Int
  BY <1>1
<1>3. TotalSupply(w) > 0 \/ TotalSupply(x) - extra <= 0 BY <1>1
<1>4. TotalAssets(v) * TotalSupply(w) <= TotalAssets(w) * TotalSupply(v)
  BY <1>2 DEF PriceHolds
<1>5. TotalAssets(w) * (TotalSupply(x) - extra) <= TotalAssets(x) * TotalSupply(w)
  BY DEF PriceHolds
<1>6. TotalAssets(v) * (TotalSupply(x) - extra) <= TotalAssets(x) * TotalSupply(v)
  BY <1>1, <1>2, <1>3, <1>4, <1>5, PriceChain
<1>7. QED BY <1>6 DEF PriceHolds

\* What _accrueInterest leaves: the price is not lower, no share is added
\* and the assets in the pool and the credits are those it found.
AccrualFacts(v0, w) ==
    /\ VaultInv(w) /\ HasAssets(v0)
    /\ w.deposited = v0.deposited /\ w.credited = v0.credited
    /\ TotalSupply(w) <= TotalSupply(v0)
    /\ PriceHolds(v0, w, 0)

LEMMA AccruedPrice ==
  ASSUME NEW v0, VaultInv(v0), NEW u \in Accounts, NEW skip \in BOOLEAN,
         NEW raw \in Nat, ~ AccrueReverts(v0, u, skip, raw),
         NEW w, w = Accrued(v0, u, skip, raw)
  PROVE  AccrualFacts(v0, w)
<1> DEFINE v      == Grown(v0, raw)
           owed   == InterestOwed(v, u)
           shares == PreviewWithdraw(v, owed)
<1>1. /\ VaultInv(v) /\ HasAssets(v) /\ HasAssets(v0)
      /\ v.deposited = v0.deposited /\ v.credited = v0.credited
      /\ v.supply = v0.supply /\ PriceHolds(v0, v, 0)
  BY GrownKeeps, GrownPrice DEF AccrueReverts
<1>2. owed \in Nat BY <1>1, OwedNat
<1>3. shares \in Nat BY <1>1, <1>2, VaultTotals
<1>4. /\ v.bal[u] \in Nat /\ v.supply \in Nat /\ v.credited \in Nat
      /\ v0.supply \in Nat /\ v0.credited \in Nat
  BY <1>1 DEF VaultInv, VaultType
<1>5. w = IF owed = 0 THEN Current(v, u)
          ELSE IF skip THEN v
          ELSE IF shares > v.bal[u]
          THEN PayInterest(BurnShares(v, u, v.bal[u]), ConvertToAssets(v, v.bal[u]))
          ELSE Current(PayInterest(BurnShares(v, u, shares), owed), u)
  BY DEF Accrued
<1>6. ~ skip /\ owed # 0 => Lesser(shares, v.bal[u]) <= v.supply
  BY <1>2, <1>3, <1>4 DEF AccrueReverts, Lesser
<1>7. TotalAssets(v) \in Nat /\ TotalAssets(v) > 0 /\ TotalSupply(v) \in Nat
  BY <1>1, VaultTotals DEF HasAssets
<1>8. shares = MulDivUp(owed, TotalSupply(v), TotalAssets(v))
  BY DEF PreviewWithdraw
<1> HIDE DEF v, owed, shares
\* From the grown state it is enough to keep the price and add no share.
<1>9. SUFFICES /\ VaultInv(w)
               /\ w.deposited = v.deposited /\ w.credited = v.credited
               /\ w.supply <= v.supply
               /\ PriceHolds(v, w, 0)
  <2>1. ASSUME VaultInv(w), w.credited = v.credited, w.supply <= v.supply,
               PriceHolds(v, w, 0)
        PROVE  /\ TotalSupply(w) <= TotalSupply(v0)
               /\ PriceHolds(v0, w, 0)
    <3>1. w.supply \in Nat BY <2>1 DEF VaultInv, VaultType
    <3>2. TotalSupply(w) \in Nat /\ TotalSupply(w) <= TotalSupply(v)
          /\ TotalSupply(v) = TotalSupply(v0)
      BY <1>1, <1>4, <2>1, <3>1 DEF TotalSupply
    <3>3. TotalSupply(v) > 0 \/ TotalSupply(w) <= 0 BY <1>7, <3>2
    <3>4. PriceHolds(v0, w, 0) BY <1>1, <2>1, <3>3, PriceAfter
    <3>5. QED BY <3>2, <3>4
  <2>2. QED BY <1>1, <2>1 DEF AccrualFacts
<1>10. CASE owed = 0
  <2>1. w = Current(v, u) BY <1>5, <1>10
  <2>2. VaultInv(w) /\ SameAssets(v, w) /\ w.supply = v.supply
    BY <1>1, <2>1, CurrentKeeps
  <2>3. PriceHolds(v, w, 0) BY <1>1, <2>2, SameTotalsPrice
  <2>4. QED BY <1>4, <2>2, <2>3 DEF SameAssets
<1>11. CASE owed # 0 /\ skip
  <2>1. w = v BY <1>5, <1>11
  <2>2. SameAssets(v, w) BY <2>1 DEF SameAssets
  <2>3. PriceHolds(v, w, 0) BY <1>1, <2>1, <2>2, SameTotalsPrice
  <2>4. QED BY <1>1, <1>4, <2>1, <2>3
<1>12. CASE owed # 0 /\ ~ skip /\ shares > v.bal[u]
  <2> DEFINE n == v.bal[u]
             p == ConvertToAssets(v, n)
  <2>1. CanBurn(v, u, n) BY <1>3, <1>4, <1>6, <1>12 DEF Lesser, CanBurn
  <2>2. TotalSupply(v) > 0
    <3>1. SUFFICES ASSUME TotalSupply(v) = 0 PROVE FALSE BY <1>7
    <3>2. shares = 0 BY <1>2, <1>7, <1>8, <3>1, NothingTimes
    <3>3. QED BY <1>4, <1>12, <3>2
  <2>3. p \in Nat /\ TotalSupply(v) * p <= n * TotalAssets(v)
    BY <1>4, <1>7, <2>2, RoundedDown DEF ConvertToAssets
  <2>4. w = PayInterest(BurnShares(v, u, n), p) BY <1>5, <1>12
  <2>5. n \in Nat BY <1>4
  <2> HIDE DEF n, p
  <2>6. /\ TotalSupply(v) * p = p * TotalSupply(v)
        /\ n * TotalAssets(v) = TotalAssets(v) * n
    BY <1>7, <2>3, <2>5, SMT
  <2>7. p * TotalSupply(v) <= TotalAssets(v) * n BY <2>3, <2>6
  <2>8. /\ VaultInv(w)
        /\ w.deposited = v.deposited /\ w.credited = v.credited
        /\ w.supply = v.supply - n /\ PriceHolds(v, w, 0)
    BY <1>1, <2>1, <2>3, <2>4, <2>5, <2>7, PaidPrice
  <2>9. QED BY <1>4, <2>5, <2>8
<1>13. CASE owed # 0 /\ ~ skip /\ shares <= v.bal[u]
  <2> DEFINE p == PayInterest(BurnShares(v, u, shares), owed)
  <2>1. CanBurn(v, u, shares) BY <1>3, <1>4, <1>6, <1>13 DEF Lesser, CanBurn
  <2>2. owed * TotalSupply(v) <= TotalAssets(v) * shares
    BY <1>2, <1>7, <1>8, RoundedUp
  <2>3. ~ (shares > v.bal[u]) BY <1>3, <1>4, <1>13
  <2>4. w = Current(p, u) BY <1>5, <1>13, <2>3
  <2>5. p = PayInterest(BurnShares(v, u, shares), owed) OBVIOUS
  <2> HIDE DEF p
  <2>6. /\ VaultInv(p)
        /\ p.deposited = v.deposited /\ p.credited = v.credited
        /\ p.supply = v.supply - shares /\ PriceHolds(v, p, 0)
    BY <1>1, <1>2, <1>3, <2>1, <2>2, <2>5, PaidPrice
  <2>7. VaultInv(w) /\ SameAssets(p, w) /\ w.supply = p.supply
    BY <2>4, <2>6, CurrentKeeps
  <2>8. TotalAssets(w) = TotalAssets(p) /\ TotalSupply(w) = TotalSupply(p)
    BY <2>6, <2>7, SameTotalsPrice
  <2>9. PriceHolds(v, w, 0) BY <2>6, <2>8 DEF PriceHolds
  <2>10. QED BY <1>3, <1>4, <2>6, <2>7, <2>9 DEF SameAssets
<1>14. QED BY <1>3, <1>4, <1>10, <1>11, <1>12, <1>13

-----------------------------------------------------------------------------
(* Deposits, withdrawals and transfers.                                    *)

LEMMA DepositedPrice ==
  ASSUME NEW v, VaultInv(v), NEW u \in Accounts, NEW a \in Nat, NEW s \in Nat,
         TotalAssets(v) * s <= a * TotalSupply(v),
         NEW w, w = Deposited(v, u, a, s)
  PROVE  /\ VaultInv(w) /\ w.deposited = v.deposited + a
         /\ TotalSupply(w) = TotalSupply(v) + s
         /\ PriceHolds(v, w, 0)
<1>1. VaultInv(w) BY DepositedKeeps
<1>2. TotalAssets(w) = TotalAssets(v) + a /\ TotalSupply(w) = TotalSupply(v) + s
  BY DepositedTotals
<1>3. w.deposited = v.deposited + a
  <2> DEFINE b == MintShares(v, u, s)
  <2>1. b \in VaultType /\ SameAssets(v, b) BY MintTotals
  <2>2. w = [b EXCEPT !.deposited = @ + a] BY DEF Deposited
  <2> HIDE DEF b
  <2>3. QED BY <2>1, <2>2 DEF VaultType, SameAssets
<1>4. /\ TotalAssets(v) \in Nat /\ TotalSupply(v) \in Nat
      /\ TotalAssets(w) \in Nat /\ TotalSupply(w) \in Nat
  BY <1>1, VaultTotals
<1>5. PriceHolds(v, w, 0)
  <2>1. TotalAssets(v) + a <= TotalAssets(w) BY <1>2, <1>4
  <2>2. TotalSupply(w) = TotalSupply(v) + s + 0 BY <1>2, <1>4
  <2>3. a \in Int /\ s \in Int /\ 0 \in {0, 1} OBVIOUS
  <2>4. QED BY <1>1, <2>1, <2>2, <2>3, ChangedPrice
<1>6. QED BY <1>1, <1>2, <1>3, <1>5

LEMMA SpentTotals ==
  ASSUME NEW v, VaultInv(v), NEW o \in Accounts, NEW c \in Spenders, NEW s \in Nat,
         NEW w, w = Spent(v, o, c, s)
  PROVE  SameAssets(v, w)
<1> DEFINE f == [v.allowance EXCEPT ![o][c] = @ - s]
<1>1. w = v \/ w = [v EXCEPT !.allowance = f]
  BY DEF Spent, VaultInv, VaultType
<1> HIDE DEF f
<1>2. QED BY <1>1 DEF SameAssets, VaultInv, VaultType

LEMMA WithdrawnPrice ==
  ASSUME NEW v, VaultInv(v), NEW c \in Users, NEW o \in Users,
         NEW a \in Nat, NEW s \in Nat, CanWithdraw(v, c, o, a, s),
         a * TotalSupply(v) <= TotalAssets(v) * s,
         NEW w, w = Withdrawn(v, c, o, a, s)
  PROVE  /\ VaultInv(w) /\ w.deposited = v.deposited - a
         /\ TotalSupply(w) <= TotalSupply(v)
         /\ PriceHolds(v, w, 0)
<1> DEFINE x == IF c = o THEN v ELSE Spent(v, o, c, s)
           b == BurnShares(x, o, s)
<1>1. o \in Accounts /\ c \in Spenders BY DEF Accounts, Spenders
<1>2. /\ VaultInv(x) /\ SameAssets(v, x)
      /\ x.bal = v.bal /\ x.supply = v.supply
  <2>1. CASE c = o BY <2>1 DEF SameAssets
  <2>2. CASE c # o
    <3>1. x = Spent(v, o, c, s) BY <2>2
    <3> HIDE DEF x
    <3>2. VaultInv(x) /\ x.bal = v.bal /\ x.supply = v.supply
      BY <1>1, <2>2, <3>1, SpentKeeps DEF CanWithdraw
    <3>3. SameAssets(v, x) BY <1>1, <3>1, SpentTotals
    <3>4. QED BY <3>2, <3>3
  <2>3. QED BY <2>1, <2>2
<1>3. w = [b EXCEPT !.deposited = b.deposited - a] BY DEF Withdrawn
<1> HIDE DEF x
<1>4. CanBurn(x, o, s) BY <1>2 DEF CanWithdraw, CanBurn
<1>5. b = BurnShares(x, o, s) /\ x \in VaultType BY <1>2 DEF VaultInv
<1> HIDE DEF b
<1>6. /\ b \in VaultType /\ b.bal = [x.bal EXCEPT ![o] = @ - s]
      /\ b.supply = x.supply - s /\ SameDebts(x, b) /\ SameAssets(x, b)
  BY <1>1, <1>4, <1>5, BurnFields
<1>7. VaultInv(w) BY WithdrawnKeeps
<1>8. /\ w.deposited = v.deposited - a /\ w.inAMM = v.inAMM
      /\ w.unrealized = v.unrealized /\ w.credited = v.credited
      /\ w.supply = v.supply - s
  BY <1>2, <1>3, <1>6 DEF VaultType, SameAssets
<1>9. /\ v.deposited \in Nat /\ v.inAMM \in Nat /\ v.unrealized \in Nat
      /\ v.supply \in Nat /\ v.credited \in Nat
  BY DEF VaultInv, VaultType
<1>10. TotalAssets(v) + (-a) <= TotalAssets(w) BY <1>8, <1>9 DEF TotalAssets
<1>11. TotalSupply(w) = TotalSupply(v) + (-s) + 0 BY <1>8, <1>9 DEF TotalSupply
<1>12. TotalAssets(v) \in Nat /\ TotalSupply(v) \in Nat BY VaultTotals
<1>13. TotalAssets(v) * (-s) <= (-a) * TotalSupply(v)
  <2>1. /\ TotalAssets(v) * (-s) = - (TotalAssets(v) * s)
        /\ (-a) * TotalSupply(v) = - (a * TotalSupply(v))
    BY <1>12, SMT
  <2>2. TotalAssets(v) * s \in Int /\ a * TotalSupply(v) \in Int BY <1>12, MulInt
  <2>3. QED BY <2>1, <2>2
<1>14. PriceHolds(v, w, 0) BY <1>7, <1>10, <1>11, <1>13, ChangedPrice
<1>15. TotalSupply(w) <= TotalSupply(v) BY <1>11, <1>12
<1>16. QED BY <1>7, <1>8, <1>14, <1>15

LEMMA MovedPrice ==
  ASSUME NEW v, VaultInv(v), NEW from \in Accounts, NEW to \in Accounts,
         NEW s \in Nat, s <= v.bal[from],
         NEW w, w = MoveShares(v, from, to, s)
  PROVE  /\ VaultInv(w) /\ SameAssets(v, w) /\ w.supply = v.supply
         /\ PriceHolds(v, w, 0)
<1>1. v \in VaultType BY DEF VaultInv
<1>2. /\ w \in VaultType /\ w.supply = v.supply
      /\ w.bal = [[v.bal EXCEPT ![from] = @ - s] EXCEPT ![to] = @ + s]
      /\ SameDebts(v, w) /\ SameAssets(v, w)
  BY <1>1, MoveFields
<1>3. VaultInv(w) BY <1>2, SameDebtsKeep
<1>4. PriceHolds(v, w, 0) BY <1>2, SameTotalsPrice
<1>5. QED BY <1>2, <1>3, <1>4

\* What one user call does to the price, the pooled assets and the credits.
UserCallFacts ==
    /\ VaultInv(vault')
    /\ PriceHolds(vault, vault', 0)
    /\ vault'.deposited < vault.deposited =>
         /\ vault'.deposited >= 1
         /\ ConvertToAssets(vault, vault.credited) <= vault'.deposited - 1

\* Of two steps of a call, the accrual and its own, only the second can
\* take assets out of the pool.
LEMMA NothingLeaves ==
  ASSUME VaultInv(vault), NEW v, VaultInv(v), PriceHolds(vault, v, 0),
         v.deposited = vault.deposited,
         VaultInv(vault'), PriceHolds(v, vault', 0),
         TotalSupply(v) > 0 \/ TotalSupply(vault') <= 0,
         v.deposited <= vault'.deposited
  PROVE  UserCallFacts
<1>1. PriceHolds(vault, vault', 0) BY PriceAfter
<1>2. vault.deposited \in Nat /\ vault'.deposited \in Nat
  BY DEF VaultInv, VaultType
<1>3. QED BY <1>1, <1>2 DEF UserCallFacts

\* Assets that leave the pool leave the last one and the credits' behind.
LEMMA CreditsLeft ==
  ASSUME VaultInv(vault), NEW v, VaultInv(v), PriceHolds(vault, v, 0),
         v.deposited = vault.deposited, v.credited = vault.credited,
         HasSupply(v), TotalSupply(v) <= TotalSupply(vault),
         VaultInv(vault'), PriceHolds(v, vault', 0),
         ConvertToAssets(v, v.credited) + 1 <= vault'.deposited
  PROVE  UserCallFacts
<1>1. /\ TotalAssets(vault) \in Nat /\ TotalSupply(vault) \in Nat
      /\ TotalAssets(v) \in Nat /\ TotalSupply(v) \in Nat /\ TotalSupply(v) > 0
  BY VaultTotals DEF HasSupply
<1>2. PriceHolds(vault, vault', 0) BY <1>1, PriceAfter
<1>3. v.credited \in Nat /\ vault'.deposited \in Nat BY DEF VaultInv, VaultType
<1>4. TotalAssets(vault) * TotalSupply(v) <= TotalAssets(v) * TotalSupply(vault)
  <2>1. TotalSupply(v) - 0 = TotalSupply(v) BY <1>1
  <2>2. QED BY <2>1 DEF PriceHolds
<1>5. ConvertToAssets(vault, v.credited) <= ConvertToAssets(v, v.credited)
  BY <1>1, <1>3, <1>4, BetterPriceConverts DEF ConvertToAssets
<1>6. /\ ConvertToAssets(vault, v.credited) \in Nat
      /\ ConvertToAssets(v, v.credited) \in Nat
  BY <1>1, <1>3, VaultTotals DEF HasSupply
<1>7. QED BY <1>2, <1>3, <1>5, <1>6 DEF UserCallFacts

\* A step that only moves shares or sets an allowance after the accrual.
LEMMA OnlySharesMove ==
  ASSUME VaultInv(vault), NEW v, VaultInv(v), PriceHolds(vault, v, 0),
         v.deposited = vault.deposited,
         VaultInv(vault'), SameAssets(v, vault'), vault'.supply = v.supply
  PROVE  UserCallFacts
<1>1. /\ TotalSupply(vault') = TotalSupply(v) /\ PriceHolds(v, vault', 0)
      /\ TotalSupply(v) \in Nat
  BY SameTotalsPrice, VaultTotals
<1>2. TotalSupply(v) > 0 \/ TotalSupply(vault') <= 0 BY <1>1
<1>3. v.deposited <= vault'.deposited BY DEF SameAssets, VaultInv, VaultType
<1>4. QED BY <1>1, <1>2, <1>3, NothingLeaves

LEMMA DepositPrice ==
  ASSUME VaultInv(vault), VaultInv(vault'), NEW u \in Users, NEW r \in Users,
         NEW x \in Nat, Deposit(u, r, x)
  PROVE  UserCallFacts
<1>1. PICK raw \in RawInterest :
        LET v == Accrued(vault, u, TRUE, raw)
        IN  /\ ~ AccrueReverts(vault, u, TRUE, raw)
            /\ Commit(Deposited(v, r, x, ConvertToShares(v, x)))
  BY DEF Deposit
<1> DEFINE v == Accrued(vault, u, TRUE, raw)
           s == ConvertToShares(v, x)
<1>2. u \in Accounts /\ r \in Accounts /\ raw \in Nat
  BY RawInterestNat DEF Accounts
<1>3. VaultInv(v) /\ HasAssets(v) BY <1>1, <1>2, AccruedKeeps
<1>a. ~ AccrueReverts(vault, u, TRUE, raw) /\ TRUE \in BOOLEAN BY <1>1
<1>5. vault' = Deposited(v, r, x, s) BY <1>1 DEF Commit
<1>b. v = Accrued(vault, u, TRUE, raw) OBVIOUS
<1> HIDE DEF v
<1>d. AccrualFacts(vault, v) BY <1>2, <1>a, <1>b, AccruedPrice
<1>4. v.deposited = vault.deposited /\ PriceHolds(vault, v, 0)
  BY <1>d DEF AccrualFacts
<1>6. /\ TotalAssets(v) \in Nat /\ TotalAssets(v) > 0 /\ TotalSupply(v) \in Nat
      /\ v.deposited \in Nat
  BY <1>3, VaultTotals DEF HasAssets, VaultInv, VaultType
<1>7. s \in Nat /\ TotalAssets(v) * s <= x * TotalSupply(v)
  BY <1>6, RoundedDown DEF ConvertToShares
<1>8. TotalSupply(v) = 0 => s = 0
  BY <1>6, NothingTimes DEF ConvertToShares
<1> HIDE DEF s
<1>9. /\ vault'.deposited = v.deposited + x
      /\ TotalSupply(vault') = TotalSupply(v) + s
      /\ PriceHolds(v, vault', 0)
  BY <1>2, <1>3, <1>5, <1>7, DepositedPrice
<1>10. TotalSupply(v) > 0 \/ TotalSupply(vault') <= 0 BY <1>6, <1>8, <1>9
<1>11. v.deposited <= vault'.deposited BY <1>6, <1>9
<1>12. QED BY <1>3, <1>4, <1>9, <1>10, <1>11, NothingLeaves

LEMMA MintPrice ==
  ASSUME VaultInv(vault), VaultInv(vault'), NEW u \in Users, NEW r \in Users,
         NEW x \in Nat, Mint(u, r, x)
  PROVE  UserCallFacts
<1>1. PICK raw \in RawInterest :
        LET v == Accrued(vault, u, TRUE, raw)
        IN  /\ ~ AccrueReverts(vault, u, TRUE, raw) /\ HasSupply(v)
            /\ Commit(Deposited(v, r, PreviewMint(v, x), x))
  BY DEF Mint
<1> DEFINE v == Accrued(vault, u, TRUE, raw)
           a == PreviewMint(v, x)
<1>2. u \in Accounts /\ r \in Accounts /\ raw \in Nat
  BY RawInterestNat DEF Accounts
<1>a. /\ ~ AccrueReverts(vault, u, TRUE, raw) /\ TRUE \in BOOLEAN
      /\ HasSupply(v)
  BY <1>1
<1>4. vault' = Deposited(v, r, a, x) BY <1>1 DEF Commit
<1>b. v = Accrued(vault, u, TRUE, raw) OBVIOUS
<1> HIDE DEF v
<1>d. AccrualFacts(vault, v) BY <1>2, <1>a, <1>b, AccruedPrice
<1>c. VaultInv(v) /\ v.deposited = vault.deposited /\ PriceHolds(vault, v, 0)
  BY <1>d DEF AccrualFacts
<1>3. /\ VaultInv(v) /\ HasSupply(v)
      /\ v.deposited = vault.deposited /\ PriceHolds(vault, v, 0)
  BY <1>a, <1>c
<1>5. /\ TotalAssets(v) \in Nat /\ TotalSupply(v) \in Nat /\ TotalSupply(v) > 0
      /\ v.deposited \in Nat
  BY <1>3, VaultTotals DEF HasSupply, VaultInv, VaultType
<1>6. a \in Nat /\ x * TotalAssets(v) <= TotalSupply(v) * a
  BY <1>5, RoundedUp DEF PreviewMint
<1> HIDE DEF a
<1>7. TotalAssets(v) * x <= a * TotalSupply(v)
  <2>1. /\ TotalAssets(v) * x = x * TotalAssets(v)
        /\ a * TotalSupply(v) = TotalSupply(v) * a
    BY <1>5, <1>6, SMT
  <2>2. QED BY <1>6, <2>1
<1>8. vault'.deposited = v.deposited + a /\ PriceHolds(v, vault', 0)
  BY <1>2, <1>3, <1>4, <1>6, <1>7, DepositedPrice
<1>9. v.deposited <= vault'.deposited BY <1>5, <1>6, <1>8
<1>10. QED BY <1>3, <1>5, <1>8, <1>9, NothingLeaves

LEMMA WithdrawPrice ==
  ASSUME VaultInv(vault), VaultInv(vault'), NEW c \in Users, NEW o \in Users,
         NEW x \in Nat, WithdrawAssets(c, o, x)
  PROVE  UserCallFacts
<1>1. PICK raw \in RawInterest :
        LET v == Accrued(vault, o, FALSE, raw)
            s == PreviewWithdraw(v, x)
        IN  /\ ~ AccrueReverts(vault, o, FALSE, raw)
            /\ HasAssets(v) /\ HasSupply(v)
            /\ x <= MaxWithdraw(v, o)
            /\ CanWithdraw(v, c, o, x, s)
            /\ Commit(Withdrawn(v, c, o, x, s))
  BY DEF WithdrawAssets
<1> DEFINE v == Accrued(vault, o, FALSE, raw)
           s == PreviewWithdraw(v, x)
<1>2. o \in Accounts /\ raw \in Nat BY RawInterestNat DEF Accounts
<1>a. /\ ~ AccrueReverts(vault, o, FALSE, raw) /\ FALSE \in BOOLEAN
      /\ HasAssets(v) /\ HasSupply(v)
  BY <1>1
<1>b. v = Accrued(vault, o, FALSE, raw) OBVIOUS
<1>4. /\ x <= MaxWithdraw(v, o) /\ CanWithdraw(v, c, o, x, s) /\ x > 0
      /\ vault' = Withdrawn(v, c, o, x, s)
  BY <1>1 DEF Commit, WithdrawAssets
<1> HIDE DEF v
<1>d. AccrualFacts(vault, v) BY <1>2, <1>a, <1>b, AccruedPrice
<1>c. /\ VaultInv(v)
      /\ v.deposited = vault.deposited /\ v.credited = vault.credited
      /\ TotalSupply(v) <= TotalSupply(vault) /\ PriceHolds(vault, v, 0)
  BY <1>d DEF AccrualFacts
<1>3. /\ VaultInv(v) /\ HasAssets(v) /\ HasSupply(v)
      /\ v.deposited = vault.deposited /\ v.credited = vault.credited
      /\ TotalSupply(v) <= TotalSupply(vault) /\ PriceHolds(vault, v, 0)
  BY <1>a, <1>c
<1>5. /\ TotalAssets(v) \in Nat /\ TotalAssets(v) > 0 /\ TotalSupply(v) \in Nat
      /\ v.deposited \in Nat /\ v.credited \in Nat /\ v.bal[o] \in Nat
  BY <1>2, <1>3, VaultTotals DEF HasAssets, VaultInv, VaultType
<1>6. s \in Nat /\ x * TotalSupply(v) <= TotalAssets(v) * s
  BY <1>5, RoundedUp DEF PreviewWithdraw
<1> HIDE DEF s
<1>7. vault'.deposited = v.deposited - x /\ PriceHolds(v, vault', 0)
  BY <1>3, <1>4, <1>6, WithdrawnPrice
<1> DEFINE k == ConvertToAssets(v, v.credited)
           e == Excess(v.deposited, 1)
<1>8. k \in Nat /\ ConvertToAssets(v, v.bal[o]) \in Nat
  BY <1>3, <1>5, VaultTotals
<1>9. e \in Nat /\ (e > 0 => e = v.deposited - 1) BY <1>5 DEF Excess
<1>10. MaxWithdraw(v, o) <= Excess(e, k)
  <2>1. Excess(e, k) \in Nat BY <1>8, <1>9, ExcessNat
  <2>2. MaxWithdraw(v, o) = Lesser(Excess(e, k), ConvertToAssets(v, v.bal[o]))
    BY DEF MaxWithdraw, Withdrawable
  <2> HIDE DEF e, k
  <2>3. QED BY <1>8, <2>1, <2>2, LesserNat
<1>11. MaxWithdraw(v, o) \in Int
  <2>1. Excess(e, k) \in Nat BY <1>8, <1>9, ExcessNat
  <2>2. QED BY <1>8, <2>1 DEF MaxWithdraw, Withdrawable, Lesser
<1> HIDE DEF k, e
<1>12. k + 1 <= vault'.deposited
  <2>1. x <= Excess(e, k) /\ x > 0
    BY <1>4, <1>8, <1>9, <1>10, <1>11, ExcessNat
  <2>2. x <= e - k /\ e > 0 BY <1>8, <1>9, <2>1 DEF Excess
  <2>3. QED BY <1>5, <1>7, <1>8, <1>9, <2>2
<1>13. QED BY <1>3, <1>7, <1>12, CreditsLeft DEF k

LEMMA RedeemPrice ==
  ASSUME VaultInv(vault), VaultInv(vault'), NEW c \in Users, NEW o \in Users,
         NEW x \in Nat, Redeem(c, o, x)
  PROVE  UserCallFacts
<1>1. PICK raw \in RawInterest :
        LET v == Accrued(vault, o, FALSE, raw)
            a == ConvertToAssets(v, x)
        IN  /\ ~ AccrueReverts(vault, o, FALSE, raw)
            /\ HasAssets(v) /\ HasSupply(v)
            /\ x <= MaxRedeem(v, o) /\ a > 0
            /\ CanWithdraw(v, c, o, a, x)
            /\ Commit(Withdrawn(v, c, o, a, x))
  BY DEF Redeem
<1> DEFINE v == Accrued(vault, o, FALSE, raw)
           a == ConvertToAssets(v, x)
<1>2. o \in Accounts /\ raw \in Nat BY RawInterestNat DEF Accounts
<1>a. /\ ~ AccrueReverts(vault, o, FALSE, raw) /\ FALSE \in BOOLEAN
      /\ HasAssets(v) /\ HasSupply(v)
  BY <1>1
<1>b. v = Accrued(vault, o, FALSE, raw) OBVIOUS
<1>4. /\ x <= MaxRedeem(v, o) /\ CanWithdraw(v, c, o, a, x) /\ a > 0
      /\ vault' = Withdrawn(v, c, o, a, x)
  BY <1>1 DEF Commit
<1> HIDE DEF v
<1>d. AccrualFacts(vault, v) BY <1>2, <1>a, <1>b, AccruedPrice
<1>c. /\ VaultInv(v)
      /\ v.deposited = vault.deposited /\ v.credited = vault.credited
      /\ TotalSupply(v) <= TotalSupply(vault) /\ PriceHolds(vault, v, 0)
  BY <1>d DEF AccrualFacts
<1>3. /\ VaultInv(v) /\ HasAssets(v) /\ HasSupply(v)
      /\ v.deposited = vault.deposited /\ v.credited = vault.credited
      /\ TotalSupply(v) <= TotalSupply(vault) /\ PriceHolds(vault, v, 0)
  BY <1>a, <1>c
<1> DEFINE A == TotalAssets(v)
           S == TotalSupply(v)
           e == Excess(v.deposited, 1)
           n == ConvertToShares(v, e)
           k == ConvertToAssets(v, v.credited)
<1>5. /\ A \in Nat /\ A > 0 /\ S \in Nat /\ S > 0
      /\ v.deposited \in Nat /\ v.credited \in Nat /\ v.bal[o] \in Nat
  BY <1>2, <1>3, VaultTotals DEF HasAssets, HasSupply, VaultInv, VaultType
<1>6. e \in Nat /\ (e > 0 => e = v.deposited - 1) BY <1>5 DEF Excess
<1>7. MaxRedeem(v, o) = Lesser(Excess(n, v.credited), v.bal[o])
  BY DEF MaxRedeem
<1>8. a = MulDiv(x, A, S) /\ n = MulDiv(e, S, A) /\ k = MulDiv(v.credited, A, S)
  BY DEF ConvertToAssets, ConvertToShares
<1> HIDE DEF A, S, e, n, k, a
<1>9. /\ a \in Nat /\ S * a <= x * A
      /\ n \in Nat /\ A * n <= e * S
      /\ k \in Nat /\ S * k <= v.credited * A
  BY <1>5, <1>6, <1>8, RoundedDown
<1>10. vault'.deposited = v.deposited - a /\ PriceHolds(v, vault', 0)
  <2>1. a * S <= A * x
    <3>1. a * S = S * a /\ A * x = x * A BY <1>5, <1>9, SMT
    <3>2. QED BY <1>9, <3>1
  <2>2. QED BY <1>3, <1>4, <1>9, <2>1, WithdrawnPrice DEF A, S
\* What is redeemed and what is credited are shares of the pooled assets.
<1>11. x + v.credited <= n
  <2>1. Excess(n, v.credited) \in Nat BY <1>5, <1>9 DEF Excess
  <2>2. MaxRedeem(v, o) \in Nat /\ MaxRedeem(v, o) <= Excess(n, v.credited)
    BY <1>5, <1>7, <2>1, LesserNat
  <2>3. x <= Excess(n, v.credited) BY <1>4, <2>1, <2>2
  <2>4. x > 0
    <3>1. SUFFICES ASSUME x = 0 PROVE FALSE OBVIOUS
    <3>2. MulDiv(x, A, S) = 0 BY <1>5, <3>1, NothingTimes
    <3>3. QED BY <1>4, <1>8, <3>2
  <2>5. QED BY <1>5, <1>9, <2>3, <2>4 DEF Excess
<1>12. S * (a + k) < S * (e + 1)
  <2>1. S * (a + k) = S * a + S * k /\ S * (e + 1) = e * S + S
    BY <1>5, <1>6, <1>9, SMT
  <2>2. A * (x + v.credited) = x * A + v.credited * A BY <1>5, SMT
  <2>3. A * (x + v.credited) <= A * n BY <1>5, <1>9, <1>11, MulMono
  <2>4. /\ S * a \in Int /\ S * k \in Int /\ x * A \in Int /\ v.credited * A \in Int
        /\ A * n \in Int /\ e * S \in Int
    BY <1>5, <1>6, <1>9, MulInt
  <2>5. QED BY <1>5, <1>9, <2>1, <2>2, <2>3, <2>4
<1>13. a + k < e + 1 BY <1>5, <1>6, <1>9, <1>12, CancelFactor
<1>14. k + 1 <= vault'.deposited
  BY <1>4, <1>5, <1>6, <1>9, <1>10, <1>13
<1>15. QED BY <1>3, <1>10, <1>14, CreditsLeft DEF k

LEMMA TransferPrice ==
  ASSUME VaultInv(vault), VaultInv(vault'), NEW u \in Users, NEW r \in Users,
         NEW x \in Nat, Transfer(u, r, x)
  PROVE  UserCallFacts
<1>1. PICK raw \in RawInterest :
        LET v == Accrued(vault, u, FALSE, raw)
        IN  /\ ~ AccrueReverts(vault, u, FALSE, raw)
            /\ x <= v.bal[u] /\ Commit(MoveShares(v, u, r, x))
  BY DEF Transfer
<1> DEFINE v == Accrued(vault, u, FALSE, raw)
<1>2. u \in Accounts /\ r \in Accounts /\ raw \in Nat /\ FALSE \in BOOLEAN
  BY RawInterestNat DEF Accounts
<1>3. v = Accrued(vault, u, FALSE, raw) /\ ~ AccrueReverts(vault, u, FALSE, raw)
  BY <1>1
<1>4. x <= v.bal[u] /\ vault' = MoveShares(v, u, r, x) BY <1>1 DEF Commit
<1> HIDE DEF v
<1>5. AccrualFacts(vault, v) BY <1>2, <1>3, AccruedPrice
<1>6. VaultInv(v) /\ v.deposited = vault.deposited /\ PriceHolds(vault, v, 0)
  BY <1>5 DEF AccrualFacts
<1>7. SameAssets(v, vault') /\ vault'.supply = v.supply
  BY <1>2, <1>4, <1>6, MovedPrice
<1>8. QED BY <1>6, <1>7, OnlySharesMove

LEMMA TransferFromPrice ==
  ASSUME VaultInv(vault), VaultInv(vault'), NEW c \in Users, NEW u \in Users,
         NEW r \in Users, NEW x \in Nat, TransferFrom(c, u, r, x)
  PROVE  UserCallFacts
<1>1. PICK raw \in RawInterest :
        LET v == Accrued(vault, u, FALSE, raw)
        IN  /\ ~ AccrueReverts(vault, u, FALSE, raw)
            /\ CanSpend(v, u, c, x) /\ x <= v.bal[u]
            /\ Commit(MoveShares(Spent(v, u, c, x), u, r, x))
  BY DEF TransferFrom
<1> DEFINE v == Accrued(vault, u, FALSE, raw)
           p == Spent(v, u, c, x)
<1>2. /\ u \in Accounts /\ r \in Accounts /\ c \in Spenders
      /\ raw \in Nat /\ FALSE \in BOOLEAN
  BY RawInterestNat DEF Accounts, Spenders
<1>3. v = Accrued(vault, u, FALSE, raw) /\ ~ AccrueReverts(vault, u, FALSE, raw)
  BY <1>1
<1>4. /\ CanSpend(v, u, c, x) /\ x <= v.bal[u]
      /\ vault' = MoveShares(p, u, r, x)
  BY <1>1 DEF Commit
<1> HIDE DEF v
<1>5. AccrualFacts(vault, v) BY <1>2, <1>3, AccruedPrice
<1>6. VaultInv(v) /\ v.deposited = vault.deposited /\ PriceHolds(vault, v, 0)
  BY <1>5 DEF AccrualFacts
<1>7. p = Spent(v, u, c, x) OBVIOUS
<1> HIDE DEF p
<1>8. VaultInv(p) /\ p.bal = v.bal /\ p.supply = v.supply
  BY <1>2, <1>4, <1>6, <1>7, SpentKeeps
<1>9. SameAssets(v, p) BY <1>2, <1>6, <1>7, SpentTotals
<1>10. SameAssets(p, vault') /\ vault'.supply = p.supply
  BY <1>2, <1>4, <1>8, MovedPrice
<1>11. SameAssets(v, vault') /\ vault'.supply = v.supply
  BY <1>8, <1>9, <1>10 DEF SameAssets
<1>12. QED BY <1>6, <1>11, OnlySharesMove

LEMMA ApprovePrice ==
  ASSUME VaultInv(vault), VaultInv(vault'), NEW o \in Users, NEW s \in Spenders,
         NEW x \in Nat, Approve(o, s, x)
  PROVE  UserCallFacts
<1> DEFINE f == [vault.allowance EXCEPT ![o][s] = x]
<1>1. vault' = [vault EXCEPT !.allowance = f]
  BY DEF Approve, Write, VaultInv, VaultType
<1> HIDE DEF f
<1>2. SameAssets(vault, vault') /\ vault'.supply = vault.supply
  BY <1>1 DEF SameAssets, VaultInv, VaultType
<1>3. SameAssets(vault, vault) BY DEF SameAssets
<1>4. PriceHolds(vault, vault, 0) BY <1>3, SameTotalsPrice
<1>5. QED BY <1>2, <1>4, OnlySharesMove

LEMMA AccrueInterestPrice ==
  ASSUME VaultInv(vault), VaultInv(vault'), NEW u \in Users, AccrueInterest(u)
  PROVE  UserCallFacts
<1>1. PICK raw \in RawInterest : /\ ~ AccrueReverts(vault, u, FALSE, raw)
                                  /\ Commit(Accrued(vault, u, FALSE, raw))
  BY DEF AccrueInterest
<1> DEFINE v == Accrued(vault, u, FALSE, raw)
<1>2. u \in Accounts /\ raw \in Nat /\ FALSE \in BOOLEAN
  BY RawInterestNat DEF Accounts
<1>3. v = Accrued(vault, u, FALSE, raw) /\ ~ AccrueReverts(vault, u, FALSE, raw)
  BY <1>1
<1>4. vault' = v BY <1>1 DEF Commit
<1> HIDE DEF v
<1>5. AccrualFacts(vault, v) BY <1>2, <1>3, AccruedPrice
<1>6. VaultInv(v) /\ v.deposited = vault.deposited /\ PriceHolds(vault, v, 0)
  BY <1>5 DEF AccrualFacts
<1>7. SameAssets(v, vault') /\ vault'.supply = v.supply BY <1>4 DEF SameAssets
<1>8. QED BY <1>6, <1>7, OnlySharesMove

LEMMA UserCallPrice == ASSUME IInv, UserCall PROVE UserCallFacts
<1>1. VaultInv(vault) /\ VaultInv(vault') BY UserCallKeeps DEF IInv
<1>2. Amounts \subseteq Nat /\ Allowances \subseteq Nat BY InputAssumption
<1>3. ASSUME NEW u \in Users, NEW r \in Users, NEW x \in Amounts,
             \/ Deposit(u, r, x) \/ Mint(u, r, x)
             \/ Withdraw(u, r, x) \/ WithdrawWithPositions(u, r, x)
             \/ Redeem(u, r, x) \/ Transfer(u, r, x)
      PROVE  UserCallFacts
  <2>1. x \in Nat BY <1>2
  <2>2. CASE Deposit(u, r, x) BY <1>1, <2>1, <2>2, DepositPrice
  <2>3. CASE Mint(u, r, x) BY <1>1, <2>1, <2>3, MintPrice
  <2>4. CASE Withdraw(u, r, x) \/ WithdrawWithPositions(u, r, x)
    <3>1. WithdrawAssets(u, r, x) BY <2>4 DEF Withdraw, WithdrawWithPositions
    <3>2. QED BY <1>1, <2>1, <3>1, WithdrawPrice
  <2>5. CASE Redeem(u, r, x) BY <1>1, <2>1, <2>5, RedeemPrice
  <2>6. CASE Transfer(u, r, x) BY <1>1, <2>1, <2>6, TransferPrice
  <2>7. QED BY <1>3, <2>2, <2>3, <2>4, <2>5, <2>6
<1>4. ASSUME NEW c \in Users, NEW u \in Users, NEW r \in Users, NEW x \in Amounts,
             TransferFrom(c, u, r, x)
      PROVE  UserCallFacts
  BY <1>1, <1>2, <1>4, TransferFromPrice
<1>5. ASSUME NEW u \in Users, NEW r \in Spenders, NEW x \in Allowances,
             Approve(u, r, x)
      PROVE  UserCallFacts
  BY <1>1, <1>2, <1>5, ApprovePrice
<1>6. ASSUME NEW u \in Users, AccrueInterest(u) PROVE UserCallFacts
  BY <1>1, <1>6, AccrueInterestPrice
<1>7. QED BY <1>3, <1>4, <1>5, <1>6 DEF UserCall

-----------------------------------------------------------------------------
(* Settlement: what is paid in shares, what is lent and the commission.    *)

LEMMA SettledShares ==
  ASSUME NEW v, VaultInv(v), HasAssets(v), NEW u \in Accounts, NEW m \in MovementType,
         CanBurn(v, u, SharesToBurn(v, m)), NEW w, w = Settled(v, u, m)
  PROVE  /\ w.supply = v.supply - SharesToBurn(v, m) + SharesToMint(v, m)
         /\ w.credited = (IF m.create THEN v.credited + CreditDelta(v, m)
                                      ELSE Excess(v.credited, CreditDelta(v, m)))
<1> DEFINE n == SharesToBurn(v, m)
           k == SharesToMint(v, m)
           b == BurnShares(v, u, n)
           c == MintShares(b, u, k)
<1>1. n \in Nat /\ k \in Nat /\ v \in VaultType BY MovementAmounts DEF VaultInv
<1>2. b = BurnShares(v, u, n) /\ c = MintShares(b, u, k) /\ CanBurn(v, u, n)
  OBVIOUS
<1> DEFINE credited == IF m.create THEN c.credited + CreditDelta(v, m)
                                   ELSE Excess(c.credited, CreditDelta(v, m))
           deposited == c.deposited - m.amm + m.premium
           inAMM == IF m.create THEN c.inAMM + m.short ELSE c.inAMM - m.short
           net == [c.net EXCEPT ![u] = @ + NetBorrows(m)]
<1>3. w = [c EXCEPT !.credited = credited, !.deposited = deposited,
                    !.inAMM = inAMM, !.net = net]
  BY DEF Settled
<1> HIDE DEF n, k, b, c
<1>4. /\ b \in VaultType /\ b.bal = [v.bal EXCEPT ![u] = @ - n]
      /\ b.supply = v.supply - n /\ SameDebts(v, b) /\ SameAssets(v, b)
  BY <1>1, <1>2, BurnFields
<1>5. /\ c \in VaultType /\ c.bal = [b.bal EXCEPT ![u] = @ + k]
      /\ c.supply = b.supply + k /\ SameDebts(b, c) /\ SameAssets(b, c)
  BY <1>1, <1>2, <1>4, MintFields
<1>6. c.credited = v.credited /\ c.supply = v.supply - n + k
  BY <1>4, <1>5 DEF SameAssets
<1> HIDE DEF deposited, inAMM, net, credited
<1>7. w.supply = c.supply /\ w.credited = credited BY <1>3, <1>5 DEF VaultType
<1>8. QED BY <1>6, <1>7 DEF n, k, credited

\* The shares burned or minted are worth what is paid, or more to the vault.
LEMMA PaymentRounds ==
  ASSUME NEW v, VaultInv(v), HasAssets(v), NEW m \in MovementType
  PROVE  TotalAssets(v) * (SharesToMint(v, m) - SharesToBurn(v, m))
           <= (- TokenToPay(v, m)) * TotalSupply(v)
<1> DEFINE A == TotalAssets(v)
           S == TotalSupply(v)
           t == TokenToPay(v, m)
           n == SharesToBurn(v, m)
           k == SharesToMint(v, m)
<1>1. A \in Nat /\ A > 0 /\ S \in Nat BY VaultTotals DEF HasAssets
<1>2. t \in Int /\ n \in Nat /\ k \in Nat BY MovementAmounts
<1>3. /\ n = IF t > 0 THEN MulDivUp(t, S, A) ELSE 0
      /\ k = IF t < 0 THEN MulDiv(-t, S, A) ELSE 0
  BY DEF SharesToBurn, SharesToMint, PreviewWithdraw, ConvertToShares
<1> HIDE DEF A, S, t, n, k
<1>4. CASE t > 0
  <2>1. t * S <= A * n
    <3>1. t \in Nat /\ n = MulDivUp(t, S, A) BY <1>2, <1>3, <1>4
    <3>2. QED BY <1>1, <3>1, RoundedUp
  <2>2. k = 0 BY <1>2, <1>3, <1>4
  <2>3. A * (k - n) = - (A * n) /\ (-t) * S = - (t * S)
    BY <1>1, <1>2, <2>2, SMT
  <2>4. A * n \in Int /\ t * S \in Int BY <1>1, <1>2, MulInt
  <2>5. A * (k - n) <= (-t) * S BY <2>1, <2>3, <2>4
  <2>6. QED BY <2>5 DEF A, S, t, n, k
<1>5. CASE t < 0
  <2>1. A * k <= (-t) * S
    <3>1. -t \in Nat /\ k = MulDiv(-t, S, A) BY <1>2, <1>3, <1>5
    <3>2. QED BY <1>1, <3>1, RoundedDown
  <2>2. n = 0 /\ k - n = k BY <1>2, <1>3, <1>5
  <2>3. A * (k - n) <= (-t) * S BY <2>1, <2>2
  <2>4. QED BY <2>3 DEF A, S, t, n, k
<1>6. CASE t = 0
  <2>a. ~ (t > 0) /\ ~ (t < 0) /\ 0 - t = 0 BY <1>2, <1>6
  <2>b. n = 0 /\ k = 0 BY <1>3, <2>a
  <2>c. k - n = 0 BY <1>2, <2>b
  <2>d. -t = 0 - t BY <1>2, SMT
  <2>1. k - n = 0 /\ -t = 0 BY <2>a, <2>c, <2>d
  <2>2. A * 0 = 0 /\ 0 * S = 0 BY <1>1, SMT
  <2>3. A * (k - n) <= (-t) * S BY <2>1, <2>2
  <2>4. QED BY <2>3 DEF A, S, t, n, k
<1>7. QED BY <1>2, <1>4, <1>5, <1>6

\* The credits a movement adds, or takes off with a haircut for those that
\* are missing, are worth what is lent but for at most one share.
CreditChange(v, m) ==
    IF m.create THEN CreditDelta(v, m)
    ELSE Excess(v.credited, CreditDelta(v, m)) - v.credited

Lent(v, m) == (IF m.create THEN m.long ELSE - m.long) + Haircut(v, m)

LEMMA CreditRounds ==
  ASSUME NEW v, VaultInv(v), HasAssets(v), NEW m \in MovementType
  PROVE  /\ CreditChange(v, m) \in Int /\ Lent(v, m) \in Int
         /\ TotalAssets(v) * (CreditChange(v, m) - 1)
              <= Lent(v, m) * TotalSupply(v)
<1> DEFINE A == TotalAssets(v)
           S == TotalSupply(v)
           d == CreditDelta(v, m)
           h == Haircut(v, m)
           l == m.long
           e == v.credited
<1>1. A \in Nat /\ A > 0 /\ S \in Nat BY VaultTotals DEF HasAssets
<1>2. d \in Nat /\ h \in Nat /\ l \in Nat /\ m.create \in BOOLEAN
  BY MovementAmounts DEF MovementType
<1>3. e \in Nat BY DEF VaultInv, VaultType
<1>4. /\ d = IF m.create THEN MulDivUp(l, S, A) ELSE MulDiv(l, S, A)
      /\ h = IF m.create \/ d <= e THEN 0 ELSE MulDivUp(d - e, A, S)
      /\ CreditChange(v, m) = IF m.create THEN d ELSE Excess(e, d) - e
      /\ Lent(v, m) = (IF m.create THEN l ELSE -l) + h
  BY DEF CreditDelta, Haircut, CreditChange, Lent, PreviewWithdraw, PreviewMint,
     ConvertToShares
<1> HIDE DEF A, S, d, h, l, e
<1>5. CASE m.create
  <2>1. /\ d = MulDivUp(l, S, A) /\ h = 0
        /\ CreditChange(v, m) = d /\ Lent(v, m) = l
    BY <1>2, <1>4, <1>5
  <2>2. A * d <= l * S + A BY <1>1, <1>2, <2>1, RoundedUp
  <2>3. A * (d - 1) = A * d - A BY <1>1, <1>2, SMT
  <2>4. A * d \in Int /\ l * S \in Int BY <1>1, <1>2, MulInt
  <2>5. A * (d - 1) <= l * S BY <1>1, <2>2, <2>3, <2>4
  <2>6. QED BY <1>2, <2>1, <2>5 DEF A, S
<1>6. CASE ~ m.create /\ d <= e
  <2>1. /\ d = MulDiv(l, S, A) /\ h = 0
        /\ CreditChange(v, m) = -d /\ Lent(v, m) = -l
    BY <1>2, <1>3, <1>4, <1>6 DEF Excess
  <2>2. l * S <= A * d + A BY <1>1, <1>2, <2>1, RoundedDown
  <2>3. A * ((-d) - 1) = - (A * d) - A /\ (-l) * S = - (l * S)
    BY <1>1, <1>2, SMT
  <2>4. A * d \in Int /\ l * S \in Int BY <1>1, <1>2, MulInt
  <2>5. A * ((-d) - 1) <= (-l) * S BY <1>1, <2>2, <2>3, <2>4
  <2>6. QED BY <1>2, <2>1, <2>5 DEF A, S
<1>7. CASE ~ m.create /\ ~ (d <= e)
  <2>1. /\ d = MulDiv(l, S, A) /\ h = MulDivUp(d - e, A, S)
        /\ CreditChange(v, m) = -e /\ Lent(v, m) = (-l) + h
    BY <1>2, <1>3, <1>4, <1>7 DEF Excess
  <2>2. l * S <= A * d + A BY <1>1, <1>2, <2>1, RoundedDown
  <2>3. S > 0
    <3>1. SUFFICES ASSUME S = 0 PROVE FALSE BY <1>1
    <3>2. d = 0 BY <1>1, <1>2, <2>1, <3>1, NothingTimes
    <3>3. QED BY <1>3, <1>7, <3>2
  <2>4. d - e \in Nat BY <1>2, <1>3, <1>7
  <2>5. (d - e) * A <= S * h BY <1>1, <2>1, <2>3, <2>4, RoundedUp
  <2>6. /\ (d - e) * A = A * d - A * e /\ S * h = h * S
        /\ A * ((-e) - 1) = - (A * e) - A
        /\ ((-l) + h) * S = h * S - l * S
    BY <1>1, <1>2, <1>3, SMT
  <2>7. A * d \in Int /\ A * e \in Int /\ l * S \in Int /\ h * S \in Int
    BY <1>1, <1>2, <1>3, MulInt
  <2>8. A * ((-e) - 1) <= ((-l) + h) * S
    BY <1>1, <2>2, <2>5, <2>6, <2>7
  <2>9. -e \in Int /\ (-l) + h \in Int BY <1>2, <1>3
  <2>10. QED BY <2>1, <2>8, <2>9 DEF A, S
<1>8. QED BY <1>2, <1>5, <1>6, <1>7

LEMMA SettledPrice ==
  ASSUME NEW v, VaultInv(v), HasAssets(v), NEW u \in Accounts, v.userIndex[u] > 0,
         NEW m \in MovementType,
         CanBurn(v, u, SharesToBurn(v, m)),
         v.deposited - m.amm + m.premium >= 0,
         m.create \/ m.short <= v.inAMM,
         NEW w, w = Settled(v, u, m)
  PROVE  /\ VaultInv(w) /\ PriceHolds(v, w, 1)
         /\ TotalSupply(v) > 0 \/ TotalSupply(w) <= 1
<1> DEFINE n == SharesToBurn(v, m)
           k == SharesToMint(v, m)
           t == TokenToPay(v, m)
           c == CreditChange(v, m)
           l == Lent(v, m)
           da == (-t) + l
           ds == k - n + (c - 1)
<1>1. /\ m.create \in BOOLEAN /\ m.long \in Nat /\ m.short \in Nat
      /\ m.amm \in Int /\ m.premium \in Int /\ CreditDelta(v, m) \in Nat
      /\ n \in Nat /\ k \in Nat /\ t \in Int /\ Haircut(v, m) \in Nat
  BY MovementAmounts DEF MovementType
<1>2. /\ c \in Int /\ l \in Int
      /\ TotalAssets(v) * (c - 1) <= l * TotalSupply(v)
  BY CreditRounds
<1>3. TotalAssets(v) * (k - n) <= (-t) * TotalSupply(v) BY PaymentRounds
<1>4. /\ VaultInv(w)
      /\ w.deposited = v.deposited - m.amm + m.premium
      /\ w.inAMM = (IF m.create THEN v.inAMM + m.short ELSE v.inAMM - m.short)
      /\ w.unrealized = v.unrealized
  BY SettledKeeps
<1>5. /\ w.supply = v.supply - n + k
      /\ w.credited = (IF m.create THEN v.credited + CreditDelta(v, m)
                                   ELSE Excess(v.credited, CreditDelta(v, m)))
  BY SettledShares
<1>6. /\ v.deposited \in Nat /\ v.inAMM \in Nat /\ v.unrealized \in Nat
      /\ v.supply \in Nat /\ v.credited \in Nat
  BY DEF VaultInv, VaultType
<1>7. w.credited = v.credited + c
  <2>1. Excess(v.credited, CreditDelta(v, m)) \in Nat BY <1>1, <1>6 DEF Excess
  <2>2. QED BY <1>1, <1>5, <1>6, <2>1 DEF CreditChange
<1>8. da = (IF m.create THEN m.short ELSE - m.short) - m.amm + m.premium
  <2>1. t = m.amm - NetBorrows(m) - m.premium + Haircut(v, m) BY DEF TokenToPay
  <2>2. CASE m.create
    <3>1. /\ l = m.long + 0 /\ Haircut(v, m) = 0
          /\ NetBorrows(m) = m.short - m.long
      BY <2>2 DEF Lent, Haircut, NetBorrows
    <3> HIDE DEF t, l
    <3>2. QED BY <1>1, <1>2, <2>1, <2>2, <3>1
  <2>3. CASE ~ m.create
    <3>1. l = (- m.long) + Haircut(v, m) /\ NetBorrows(m) = m.long - m.short
      BY <2>3 DEF Lent, NetBorrows
    <3> HIDE DEF t, l
    <3>2. QED BY <1>1, <1>2, <2>1, <2>3, <3>1
  <2>4. QED BY <2>2, <2>3
<1>9. TotalAssets(v) \in Nat /\ TotalAssets(v) > 0 /\ TotalSupply(v) \in Nat
  BY VaultTotals DEF HasAssets
<1>10. TotalSupply(v) > 0 \/ TotalSupply(w) <= 1
  <2>1. SUFFICES ASSUME TotalSupply(v) = 0 PROVE TotalSupply(w) <= 1 BY <1>9
  <2>2. v.supply = 0 /\ v.credited = 0 BY <1>6, <2>1 DEF TotalSupply
  <2>3. k = 0
    <3>1. CASE t < 0
      <4>1. -t \in Nat BY <1>1, <3>1
      <4>2. ConvertToShares(v, -t) = 0
        BY <1>9, <2>1, <4>1, NothingTimes DEF ConvertToShares
      <4>3. QED BY <3>1, <4>2 DEF SharesToMint
    <3>2. CASE ~ (t < 0) BY <3>2 DEF SharesToMint
    <3>3. QED BY <3>1, <3>2
  <2>4. CreditDelta(v, m) = 0
    <3>1. PreviewWithdraw(v, m.long) = 0 /\ ConvertToShares(v, m.long) = 0
      BY <1>1, <1>9, <2>1, NothingTimes DEF PreviewWithdraw, ConvertToShares
    <3>2. QED BY <3>1 DEF CreditDelta
  <2>5. w.credited = 0 /\ w.supply <= 0
    BY <1>1, <1>5, <2>2, <2>3, <2>4 DEF Excess
  <2>6. w.supply \in Nat BY <1>4 DEF VaultInv, VaultType
  <2>7. QED BY <2>5, <2>6 DEF TotalSupply
<1> HIDE DEF n, k, t, c, l
<1>11. TotalAssets(v) * ds <= da * TotalSupply(v)
  <2>1. /\ TotalAssets(v) * ds
             = TotalAssets(v) * (k - n) + TotalAssets(v) * (c - 1)
        /\ da * TotalSupply(v) = (-t) * TotalSupply(v) + l * TotalSupply(v)
    BY <1>1, <1>2, <1>9, SMT
  <2>2. /\ TotalAssets(v) * (k - n) \in Int /\ TotalAssets(v) * (c - 1) \in Int
        /\ (-t) * TotalSupply(v) \in Int /\ l * TotalSupply(v) \in Int
    BY <1>1, <1>2, <1>9, MulInt
  <2>3. QED BY <1>2, <1>3, <2>1, <2>2
<1>12. TotalAssets(v) + da <= TotalAssets(w)
  BY <1>1, <1>4, <1>6, <1>8 DEF TotalAssets
<1>13. TotalSupply(w) = TotalSupply(v) + ds + 1
  BY <1>1, <1>2, <1>5, <1>6, <1>7 DEF TotalSupply
<1>14. da \in Int /\ ds \in Int BY <1>1, <1>2
<1> HIDE DEF da, ds
<1>15. PriceHolds(v, w, 1)
  <2>1. 1 \in {0, 1} OBVIOUS
  <2>2. QED BY <1>4, <1>11, <1>12, <1>13, <1>14, <2>1, ChangedPrice
<1>16. QED BY <1>4, <1>10, <1>15

\* A commission is burned or moved: no asset leaves, no share is added.
LEMMA ChargedTotals ==
  ASSUME NEW at, VaultInv(at), HasAssets(at), NEW v, VaultInv(v),
         NEW u \in Accounts, NEW fee \in Nat,
         NEW recipient \in FeeRecipients \cup {NoRecipient},
         ~ ChargeReverts(at, v, u, fee, recipient),
         NEW x, x = Charged(at, v, u, fee, recipient)
  PROVE  /\ TotalAssets(x) = TotalAssets(v)
         /\ TotalSupply(x) <= TotalSupply(v)
<1> DEFINE s == CommissionShares(at, fee)
           p == MulDiv(s, ProtocolSplit, DECIMALS)
           q == MulDiv(s, BuilderSplit, DECIMALS)
           w == MoveShares(v, u, RiskEngine, p)
<1>1. s \in Nat BY VaultTotals DEF CommissionShares
<1>2. p \in Nat /\ q \in Nat /\ p + q <= s BY <1>1, SplitFits
<1>3. /\ v.bal \in [Accounts -> Nat] /\ v.supply \in Nat /\ v.credited \in Nat
      /\ v \in VaultType
  BY DEF VaultInv, VaultType
<1>4. s <= v.bal[u] /\ (recipient = NoRecipient => s <= v.supply)
  BY <1>1, <1>3 DEF ChargeReverts
<1>5. x = IF recipient = NoRecipient THEN BurnShares(v, u, s)
          ELSE MoveShares(w, u, recipient, q)
  BY DEF Charged
<1> HIDE DEF s, p, q
<1>6. CASE recipient = NoRecipient
  <2>1. CanBurn(v, u, s) BY <1>4, <1>6 DEF CanBurn
  <2>2. x = BurnShares(v, u, s) BY <1>5, <1>6
  <2>3. /\ x \in VaultType /\ x.bal = [v.bal EXCEPT ![u] = @ - s]
        /\ x.supply = v.supply - s /\ SameDebts(v, x) /\ SameAssets(v, x)
    BY <1>1, <1>3, <2>1, <2>2, BurnFields
  <2>4. QED BY <1>1, <1>3, <2>3 DEF SameAssets, TotalAssets, TotalSupply
<1>7. CASE recipient # NoRecipient
  <2>1. RiskEngine \in Accounts /\ recipient \in Accounts
    BY <1>7, InputAssumption DEF Accounts
  <2>2. p <= v.bal[u] BY <1>2, <1>3, <1>4, <1>1
  <2>3. w = MoveShares(v, u, RiskEngine, p) OBVIOUS
  <2> HIDE DEF w
  <2>4. /\ w \in VaultType /\ w.supply = v.supply
        /\ w.bal = [[v.bal EXCEPT ![u] = @ - p] EXCEPT ![RiskEngine] = @ + p]
        /\ SameDebts(v, w) /\ SameAssets(v, w)
    BY <1>2, <1>3, <2>1, <2>2, <2>3, MoveFields
  <2>5. VaultInv(w) BY <2>4, SameDebtsKeep
  <2>6. q <= w.bal[u] BY <1>1, <1>2, <1>3, <1>4, <2>1, <2>4
  <2>7. x = MoveShares(w, u, recipient, q) BY <1>5, <1>7
  <2>8. SameAssets(w, x) /\ x.supply = w.supply
    BY <1>2, <2>1, <2>5, <2>6, <2>7, MovedPrice
  <2>9. QED BY <1>3, <2>4, <2>8 DEF SameAssets, TotalAssets, TotalSupply
<1>8. QED BY <1>6, <1>7

\* A whole settleMint or settleBurn: accrual, settlement, commission.
LEMMA SettleCallPrice ==
  ASSUME VaultInv(vault), NEW u \in Accounts, NEW m \in MovementType,
         NEW fee \in Nat, NEW recipient \in FeeRecipients \cup {NoRecipient},
         SettleCall(u, m, fee, recipient)
  PROVE  PriceHolds(vault, vault', 1)
<1>1. PICK raw \in RawInterest :
        LET at == Accrued(vault, u, FALSE, raw)
            v  == Settled(at, u, m)
        IN  /\ ~ AccrueReverts(vault, u, FALSE, raw)
            /\ ~ SettleReverts(at, u, m)
            /\ ~ ChargeReverts(at, v, u, fee, recipient)
            /\ Commit(Charged(at, v, u, fee, recipient))
  BY DEF SettleCall
<1> DEFINE at == Accrued(vault, u, FALSE, raw)
           v  == Settled(at, u, m)
<1>2. /\ ~ AccrueReverts(vault, u, FALSE, raw)
      /\ ~ SettleReverts(at, u, m)
      /\ ~ ChargeReverts(at, v, u, fee, recipient)
      /\ vault' = Charged(at, v, u, fee, recipient)
  BY <1>1 DEF Commit
<1>3. raw \in Nat /\ FALSE \in BOOLEAN BY RawInterestNat
<1>4. VaultInv(at) /\ at.userIndex[u] > 0 BY <1>2, <1>3, AccruedKeeps
<1>5. at = Accrued(vault, u, FALSE, raw) /\ v = Settled(at, u, m) OBVIOUS
<1> HIDE DEF at, v
<1>6. AccrualFacts(vault, at) BY <1>2, <1>3, <1>5, AccruedPrice
<1>7. PriceHolds(vault, at, 0) BY <1>6 DEF AccrualFacts
<1>8. /\ HasAssets(at) /\ CanBurn(at, u, SharesToBurn(at, m))
      /\ at.deposited - m.amm + m.premium >= 0
      /\ m.create \/ m.short <= at.inAMM
  <2>1. /\ at.deposited \in Nat /\ at.inAMM \in Nat /\ m.amm \in Int
        /\ m.premium \in Int /\ m.short \in Nat
    BY <1>4 DEF VaultInv, VaultType, MovementType
  <2>2. QED BY <1>2, <2>1 DEF SettleReverts
<1>9. /\ VaultInv(v) /\ PriceHolds(at, v, 1)
      /\ TotalSupply(at) > 0 \/ TotalSupply(v) <= 1
  BY <1>4, <1>5, <1>8, SettledPrice
<1>10. PriceHolds(vault, v, 1)
  <2>1. 1 \in {0, 1} OBVIOUS
  <2>2. QED BY <1>4, <1>7, <1>9, <2>1, PriceAfter
<1>11. /\ TotalAssets(vault') = TotalAssets(v)
       /\ TotalSupply(vault') <= TotalSupply(v)
  BY <1>2, <1>4, <1>8, <1>9, ChargedTotals
<1>12. VaultInv(vault') BY SettleCallKeeps
<1>13. /\ TotalAssets(vault) \in Nat /\ TotalSupply(vault) \in Nat
       /\ TotalAssets(v) \in Nat /\ TotalSupply(v) \in Nat
       /\ TotalSupply(vault') \in Nat
  BY <1>9, <1>12, VaultTotals
<1>14. TotalAssets(vault) * (TotalSupply(vault') - 1)
         <= TotalAssets(vault) * (TotalSupply(v) - 1)
  BY <1>11, <1>13, MulMono
<1>15. TotalAssets(vault) * (TotalSupply(v) - 1)
         <= TotalAssets(vault') * TotalSupply(vault)
  BY <1>10, <1>11 DEF PriceHolds
<1>16. /\ TotalAssets(vault) * (TotalSupply(vault') - 1) \in Int
       /\ TotalAssets(vault) * (TotalSupply(v) - 1) \in Int
       /\ TotalAssets(vault') * TotalSupply(vault) \in Int
  BY <1>11, <1>13, MulInt
<1>17. QED BY <1>14, <1>15, <1>16 DEF PriceHolds

-----------------------------------------------------------------------------
(* Sessions.  A balance that changes without the supply leaves the price.  *)

LEMMA BalancesPrice ==
  ASSUME NEW v, VaultInv(v), NEW b \in [Accounts -> Nat],
         NEW w, w = [v EXCEPT !.bal = b]
  PROVE  SameAssets(v, w) /\ w.supply = v.supply /\ w.bal = b
  BY DEF VaultInv, VaultType, SameAssets

LEMMA BeginPrice ==
  ASSUME VaultInv(vault), NEW kind, NEW c \in Users, NEW u \in Users,
         NEW left, Begin(kind, c, u, left)
  PROVE  PriceHolds(vault, vault', 0)
<1> DEFINE b == [vault.bal EXCEPT ![u] = @ + Phantom]
<1>1. vault.bal \in [Accounts -> Nat] /\ u \in Accounts
  BY DEF VaultInv, VaultType, Accounts
<1>2. b \in [Accounts -> Nat] BY <1>1, ConstantTypes
<1>3. vault' = [vault EXCEPT !.bal = b]
  BY DEF Begin, Write, VaultInv, VaultType
<1> HIDE DEF b
<1>4. SameAssets(vault, vault') /\ vault'.supply = vault.supply
  BY <1>2, <1>3, BalancesPrice
<1>5. QED BY <1>4, SameTotalsPrice

LEMMA FinishRefundPrice ==
  ASSUME IInv, NEW fee \in Fees, FinishRefund(fee)
  PROVE  PriceHolds(vault, vault', 0)
<1> DEFINE u == session.account
           c == session.caller
<1>1. fee \in Int /\ VaultInv(vault) /\ TypeOK
  BY InputAssumption DEF IInv
<1>2. /\ InSession /\ HasAssets(vault)
      /\ Shortage(vault, u, fee) > 0 => HasSupply(vault)
  BY DEF FinishRefund
<1>3. PICK assets \in RefundChoices(vault, u, fee) :
        LET v == Refunded(vault, u, c, assets)
        IN  /\ ~ RefundReverts(vault, u, c, assets)
            /\ Phantom <= v.bal[u]
            /\ Write([v EXCEPT !.bal[u] = @ - Phantom])
  BY DEF FinishRefund
<1> DEFINE v == Refunded(vault, u, c, assets)
           b == [v.bal EXCEPT ![u] = @ - Phantom]
<1>4. u \in Accounts /\ c \in Accounts BY <1>1, <1>2, InSessionType
<1>5. assets \in Int BY <1>1, <1>2, <1>4, RefundChoicesInt
<1>6. VaultInv(v) BY <1>1, <1>2, <1>3, <1>4, <1>5, RefundedKeeps
<1>7. SameAssets(vault, v) /\ v.supply = vault.supply
  <2>1. vault.bal \in [Accounts -> Nat] BY <1>1 DEF VaultInv, VaultType
  <2>2. v = Refunded(vault, u, c, assets) /\ ~ RefundReverts(vault, u, c, assets)
    BY <1>3
  <2> HIDE DEF v
  <2>3. CASE assets > 0
    <3> DEFINE s == ConvertToShares(vault, assets)
    <3>1. s \in Nat BY <1>1, <1>2, <1>5, <2>3, VaultTotals
    <3>2. s <= vault.bal[u] BY <1>4, <2>1, <2>2, <2>3, <3>1 DEF RefundReverts
    <3>3. v = MoveShares(vault, u, c, s) BY <2>2, <2>3 DEF Refunded
    <3> HIDE DEF s
    <3>4. QED BY <1>1, <1>4, <3>1, <3>2, <3>3, MovedPrice
  <2>4. CASE assets <= 0
    <3> DEFINE s == ConvertToShares(vault, -assets)
    <3>1. -assets \in Nat BY <1>5, <2>4
    <3>2. s \in Nat BY <1>1, <1>2, <3>1, VaultTotals
    <3>3. s <= vault.bal[c] BY <1>4, <2>1, <2>2, <2>4, <3>2 DEF RefundReverts
    <3>4. ~ (assets > 0) BY <1>5, <2>4
    <3>5. v = MoveShares(vault, c, u, s) BY <2>2, <3>4 DEF Refunded
    <3> HIDE DEF s
    <3>6. QED BY <1>1, <1>4, <3>2, <3>3, <3>5, MovedPrice
  <2>5. QED BY <1>5, <2>3, <2>4
<1>8. vault' = [v EXCEPT !.bal[u] = @ - Phantom] /\ Phantom <= v.bal[u]
  BY <1>3 DEF Write
<1> HIDE DEF v
<1>9. v.bal \in [Accounts -> Nat] BY <1>6 DEF VaultInv, VaultType
<1>10. b \in [Accounts -> Nat] BY <1>4, <1>8, <1>9, ConstantTypes
<1>11. vault' = [v EXCEPT !.bal = b] BY <1>8
<1> HIDE DEF b
<1>12. SameAssets(v, vault') /\ vault'.supply = v.supply
  BY <1>6, <1>10, <1>11, BalancesPrice
<1>13. SameAssets(vault, vault') /\ vault'.supply = vault.supply
  BY <1>7, <1>12 DEF SameAssets
<1>14. QED BY <1>1, <1>13, SameTotalsPrice

LEMMA UndelegatedTotals ==
  ASSUME NEW v, VaultInv(v), NEW u \in Accounts, NEW w, w = Undelegated(v, u)
  PROVE  /\ VaultInv(w) /\ SameAssets(v, w)
         /\ w.bal[u] = 0 \/ w.supply = v.supply
         /\ \A a \in Accounts : a # u => w.bal[a] = v.bal[a]
<1> DEFINE b == [v.bal EXCEPT ![u] = Excess(@, Phantom)]
           k == v.supply + Excess(Phantom, v.bal[u])
<1>1. /\ v.bal \in [Accounts -> Nat] /\ v.supply \in Nat /\ v \in VaultType
      /\ v.bal[u] \in Nat
  BY DEF VaultInv, VaultType
<1>2. b \in [Accounts -> Nat] /\ k \in Nat BY <1>1, ConstantTypes DEF Excess
<1>3. w = [v EXCEPT !.bal = b, !.supply = k] BY DEF Undelegated
<1>4. b[u] = Excess(v.bal[u], Phantom) /\ \A a \in Accounts : a # u => b[a] = v.bal[a]
  BY <1>1
<1>5. b[u] = 0 \/ k = v.supply BY <1>1, <1>4, ConstantTypes DEF Excess
<1> HIDE DEF b, k
<1>6. /\ w \in VaultType /\ w.bal = b /\ w.supply = k
      /\ SameDebts(v, w) /\ SameAssets(v, w)
  BY <1>1, <1>2, <1>3, ShareFields
<1>7. VaultInv(w) BY UndelegatedKeeps
<1>8. QED BY <1>4, <1>5, <1>6, <1>7

\* Where the shares go when a liquidator other than the account is paid:
\* the account's are taken first, and only what they lack is minted.
LEMMA BonusShares ==
  ASSUME NEW v0, VaultInv(v0), HasAssets(v0), NEW c \in Accounts, NEW u \in Accounts,
         c # u, NEW bonus \in Nat,
         NEW v, v = Undelegated(v0, u),
         NEW w, w = LiquidationSettled(v0, c, u, bonus)
  PROVE  /\ SameAssets(v0, w)
         /\ \/ /\ v.bal[u] < ConvertToShares(v, bonus)
               /\ w.bal[u] = 0
               /\ w.bal[c] = v0.bal[c] + v.bal[u] + LossShares(v, u, bonus)
               /\ w.supply = v.supply + LossShares(v, u, bonus)
            \/ /\ ConvertToShares(v, bonus) <= v.bal[u]
               /\ w.bal[u] = v.bal[u] - ConvertToShares(v, bonus)
               /\ w.bal[c] = v0.bal[c] + ConvertToShares(v, bonus)
               /\ w.supply = v.supply
<1> DEFINE s == ConvertToShares(v, bonus)
           x == v.bal[u]
           l == LossShares(v, u, bonus)
           a == MoveShares(v, u, c, x)
<1>1. /\ VaultInv(v) /\ SameAssets(v0, v) /\ v.bal[c] = v0.bal[c]
  BY UndelegatedTotals
<1>2. w = IF s > x THEN MintShares(a, c, l) ELSE MoveShares(v, u, c, s)
  BY DEF LiquidationSettled
<1>3. HasAssets(v) BY <1>1 DEF HasAssets, TotalAssets, SameAssets
<1>4. /\ s \in Nat /\ x \in Nat /\ l \in Nat
      /\ v.bal \in [Accounts -> Nat] /\ v \in VaultType
  BY <1>1, <1>3, VaultTotals, LossSharesNat DEF VaultInv, VaultType
<1>5. x = v.bal[u] /\ a = MoveShares(v, u, c, x) OBVIOUS
<1> HIDE DEF s, x, l, a
<1>6. CASE s > x
  <2>1. /\ a \in VaultType /\ a.supply = v.supply
        /\ a.bal = [[v.bal EXCEPT ![u] = @ - x] EXCEPT ![c] = @ + x]
        /\ SameDebts(v, a) /\ SameAssets(v, a)
    BY <1>4, <1>5, MoveFields
  <2>2. w = MintShares(a, c, l) BY <1>2, <1>6
  <2>3. /\ w \in VaultType /\ w.bal = [a.bal EXCEPT ![c] = @ + l]
        /\ w.supply = a.supply + l
        /\ SameDebts(a, w) /\ SameAssets(a, w)
    BY <1>4, <2>1, <2>2, MintFields
  <2>4. a.bal[u] = 0 /\ a.bal[c] = v.bal[c] + x BY <1>4, <1>5, <2>1
  <2>5. a.bal \in [Accounts -> Nat] BY <2>1 DEF VaultType
  <2>6. w.bal[u] = 0 /\ w.bal[c] = v.bal[c] + x + l BY <2>3, <2>4, <2>5
  <2>7. SameAssets(v0, w) BY <1>1, <2>1, <2>3 DEF SameAssets
  <2>8. x < s BY <1>4, <1>6
  <2>9. QED BY <1>1, <2>1, <2>3, <2>6, <2>7, <2>8 DEF s, x, l
<1>7. CASE s <= x
  <2>1. w = MoveShares(v, u, c, s) BY <1>2, <1>4, <1>7
  <2>2. /\ w \in VaultType /\ w.supply = v.supply
        /\ w.bal = [[v.bal EXCEPT ![u] = @ - s] EXCEPT ![c] = @ + s]
        /\ SameDebts(v, w) /\ SameAssets(v, w)
    BY <1>4, <1>5, <1>7, <2>1, MoveFields
  <2>3. w.bal[u] = x - s /\ w.bal[c] = v.bal[c] + s BY <1>4, <1>5, <2>2
  <2>4. SameAssets(v0, w) BY <1>1, <2>2 DEF SameAssets
  <2>5. QED BY <1>1, <1>7, <2>2, <2>3, <2>4 DEF s, x
<1>8. QED BY <1>4, <1>6, <1>7

LEMMA FinishLiquidationPrice ==
  ASSUME IInv, NEW bonus \in Bonuses, FinishLiquidation(bonus)
  PROVE  \/ PriceHolds(vault, vault', 0)
         \/ vault'.bal[session.account] = 0
         \/ session.caller = session.account
<1> DEFINE u == session.account
           c == session.caller
<1>1. bonus \in Int /\ VaultInv(vault) /\ TypeOK BY InputAssumption DEF IInv
<1>2. /\ InSession /\ HasAssets(vault)
      /\ vault' = LiquidationSettled(vault, c, u, bonus)
  BY DEF FinishLiquidation, Write
<1>3. u \in Accounts /\ c \in Accounts BY <1>1, <1>2, InSessionType
<1>4. SUFFICES ASSUME c # u
               PROVE  PriceHolds(vault, vault', 0) \/ vault'.bal[u] = 0
  OBVIOUS
<1>5. /\ TotalAssets(vault) \in Nat /\ TotalAssets(vault) > 0
      /\ TotalSupply(vault) \in Nat
  BY <1>1, <1>2, VaultTotals DEF HasAssets
<1>6. CASE bonus < 0
  <2> DEFINE s == ConvertToShares(vault, -bonus)
             d == Deposited(vault, u, -bonus, s)
  <2>1. -bonus \in Nat BY <1>1, <1>6
  <2>2. s \in Nat /\ TotalAssets(vault) * s <= (-bonus) * TotalSupply(vault)
    BY <1>5, <2>1, RoundedDown DEF ConvertToShares
  <2>3. d = Deposited(vault, u, -bonus, s) OBVIOUS
  <2>4. vault' = Undelegated(d, u) BY <1>2, <1>6 DEF LiquidationSettled
  <2> HIDE DEF s, d
  <2>5. VaultInv(d) /\ PriceHolds(vault, d, 0)
    BY <1>1, <1>3, <2>1, <2>2, <2>3, DepositedPrice
  <2>6. /\ SameAssets(d, vault')
        /\ vault'.bal[u] = 0 \/ vault'.supply = d.supply
    BY <1>3, <2>4, <2>5, UndelegatedTotals
  <2>7. ASSUME vault'.supply = d.supply PROVE PriceHolds(vault, vault', 0)
    <3>1. /\ TotalAssets(vault') = TotalAssets(d)
          /\ TotalSupply(vault') = TotalSupply(d)
      BY <2>5, <2>6, <2>7, SameTotalsPrice
    <3>2. QED BY <2>5, <3>1 DEF PriceHolds
  <2>8. QED BY <2>6, <2>7
<1>7. CASE bonus >= 0
  <2> DEFINE v == Undelegated(vault, u)
             s == ConvertToShares(v, bonus)
  <2>1. bonus \in Nat BY <1>1, <1>7
  <2>2. v = Undelegated(vault, u) OBVIOUS
  <2> HIDE DEF v
  <2>3. /\ VaultInv(v) /\ SameAssets(vault, v)
        /\ v.bal[u] = 0 \/ v.supply = vault.supply
    BY <1>1, <1>3, <2>2, UndelegatedTotals
  <2>4. /\ SameAssets(vault, vault')
        /\ \/ vault'.bal[u] = 0
           \/ /\ s <= v.bal[u] /\ vault'.bal[u] = v.bal[u] - s
              /\ vault'.supply = v.supply
    BY <1>1, <1>2, <1>3, <1>4, <2>1, <2>2, BonusShares
  <2>5. v.bal[u] \in Nat BY <1>3, <2>3 DEF VaultInv, VaultType
  <2>6. s \in Nat
    <3>1. HasAssets(v) BY <1>2, <2>3 DEF HasAssets, TotalAssets, SameAssets
    <3>2. QED BY <2>1, <2>3, <3>1, VaultTotals
  <2> HIDE DEF s
  <2>7. vault'.bal[u] = 0 \/ vault'.supply = vault.supply
    BY <2>3, <2>4, <2>5, <2>6
  <2>8. QED BY <1>1, <2>4, <2>7, SameTotalsPrice
<1>8. QED BY <1>1, <1>6, <1>7

LEMMA DivBelow ==
  ASSUME NEW a \in Int, NEW c \in Nat, c > 0
  PROVE  a \div c \in Int /\ c * (a \div c) <= a
  BY SMT

\* The shares minted for a loss dilute the ones they are added to: x of the
\* account and l new ones are worth the bonus at most.
LEMMA LossIsWorthAtMost ==
  ASSUME NEW v, VaultInv(v), HasAssets(v), NEW u \in Accounts, NEW bonus \in Nat,
         v.bal[u] < ConvertToShares(v, bonus)
  PROVE  (v.bal[u] + LossShares(v, u, bonus)) * TotalAssets(v)
           <= bonus * (TotalSupply(v) + LossShares(v, u, bonus))
<1> DEFINE A == TotalAssets(v)
           S == TotalSupply(v)
           x == v.bal[u]
           l == LossShares(v, u, bonus)
           s == ConvertToShares(v, bonus)
           over == IF A - bonus > 1 THEN A - bonus ELSE 1
           owed == bonus * (S - x)
           raw  == owed \div over
           cap  == LossCap * S
<1>1. /\ A \in Nat /\ A > 0 /\ S \in Nat /\ x \in Nat /\ l \in Nat
  BY VaultTotals, LossSharesNat DEF HasAssets, VaultInv, VaultType
<1>2. s \in Nat /\ A * s <= bonus * S
  BY <1>1, RoundedDown DEF ConvertToShares
<1>3. x < s OBVIOUS
<1>4. l = Lesser(Excess(raw, x), cap)
  BY DEF LossShares, MulDiv
<1>5. over \in Nat /\ over > 0 BY <1>1
<1>6. owed \in Int BY <1>1, MulInt
<1>7. over = A - bonus \/ A - bonus <= 0 BY <1>1
<1>8. owed = bonus * S - bonus * x BY <1>1, SMT
<1>9. cap \in Nat BY <1>1, ConstantTypes, MulNat
<1> HIDE DEF A, S, x, l, s, over, owed, cap
<1>10. raw \in Int /\ over * raw <= owed BY <1>5, <1>6, DivBelow
<1> HIDE DEF raw
<1>11. x * A <= bonus * S
  <2>1. A * x <= A * s /\ A * x = x * A
    BY <1>1, <1>2, <1>3, MulMono, SMT
  <2>2. A * x \in Int /\ A * s \in Int /\ bonus * S \in Int
    BY <1>1, <1>2, MulInt
  <2>3. QED BY <1>2, <2>1, <2>2
<1>12. x * A + l * (A - bonus) <= bonus * S
  <2>1. CASE A - bonus <= 0
    <3> DEFINE n == bonus - A
    <3>1. n \in Nat BY <1>1, <2>1
    <3>2. l * (A - bonus) = - (l * n) BY <1>1, SMT
    <3>3. l * n \in Nat BY <1>1, <3>1, MulNat
    <3>4. x * A \in Int /\ bonus * S \in Int BY <1>1, MulInt
    <3> HIDE DEF n
    <3>5. QED BY <1>11, <3>2, <3>3, <3>4
  <2>2. CASE over = A - bonus /\ raw <= x
    <3>1. Excess(raw, x) = 0 BY <1>1, <1>10, <2>2 DEF Excess
    <3>2. l = 0 BY <1>4, <1>9, <3>1 DEF Lesser
    <3>3. l * (A - bonus) = 0 BY <1>1, <3>2, SMT
    <3>4. x * A \in Int BY <1>1, MulInt
    <3>5. QED BY <1>11, <3>3, <3>4
  <2>3. CASE over = A - bonus /\ raw > x
    <3>1. Excess(raw, x) = raw - x BY <2>3 DEF Excess
    <3>2. l <= raw - x BY <1>1, <1>4, <1>9, <1>10, <2>3, <3>1 DEF Lesser
    <3>3. l * over <= (raw - x) * over BY <1>1, <1>5, <1>10, <3>2, MulMono
    <3>4. /\ (raw - x) * over = over * raw - x * over
          /\ x * over = x * A - bonus * x
      BY <1>1, <1>5, <1>10, <2>3, SMT
    <3>5. /\ over * raw \in Int /\ x * over \in Int /\ x * A \in Int
          /\ bonus * x \in Int /\ bonus * S \in Int /\ l * over \in Int
      BY <1>1, <1>5, <1>10, MulInt
    <3>6. x * A + l * over <= bonus * S
      BY <1>8, <1>10, <3>3, <3>4, <3>5
    <3>7. QED BY <2>3, <3>6
  <2>4. QED BY <1>1, <1>7, <1>10, <2>1, <2>2, <2>3
<1>13. (x + l) * A <= bonus * (S + l)
  <2>1. /\ (x + l) * A = x * A + l * A /\ bonus * (S + l) = bonus * S + bonus * l
        /\ l * (A - bonus) = l * A - bonus * l
    BY <1>1, SMT
  <2>2. /\ x * A \in Int /\ l * A \in Int /\ bonus * S \in Int /\ bonus * l \in Int
    BY <1>1, MulInt
  <2>3. QED BY <1>12, <2>1, <2>2
<1>14. QED BY <1>13 DEF A, S, x, l

LEMMA BonusPrice ==
  ASSUME IInv, NEW bonus \in Bonuses, FinishLiquidation(bonus), bonus >= 0,
         session.caller # session.account
  PROVE  (vault'.bal[session.caller] - vault.bal[session.caller])
           * TotalAssets(vault') <= bonus * TotalSupply(vault')
<1> DEFINE u == session.account
           c == session.caller
           v == Undelegated(vault, u)
           s == ConvertToShares(v, bonus)
           l == LossShares(v, u, bonus)
<1>1. bonus \in Nat /\ VaultInv(vault) /\ TypeOK BY InputAssumption DEF IInv
<1>2. /\ InSession /\ HasAssets(vault)
      /\ vault' = LiquidationSettled(vault, c, u, bonus)
  BY DEF FinishLiquidation, Write
<1>3. u \in Accounts /\ c \in Accounts BY <1>1, <1>2, InSessionType
<1>4. v = Undelegated(vault, u) OBVIOUS
<1> HIDE DEF v
<1>5. VaultInv(v) /\ SameAssets(vault, v)
  BY <1>1, <1>3, <1>4, UndelegatedTotals
<1>6. HasAssets(v) BY <1>2, <1>5 DEF HasAssets, TotalAssets, SameAssets
<1>7. /\ TotalAssets(v) \in Nat /\ TotalAssets(v) > 0 /\ TotalSupply(v) \in Nat
      /\ v.supply \in Nat /\ v.credited \in Nat /\ v.bal[u] \in Nat
      /\ vault.bal[c] \in Nat
  BY <1>1, <1>3, <1>5, <1>6, VaultTotals DEF HasAssets, VaultInv, VaultType
<1>8. s \in Nat /\ l \in Nat
  BY <1>1, <1>3, <1>5, <1>6, VaultTotals, LossSharesNat
<1>9. /\ SameAssets(vault, vault')
      /\ \/ /\ v.bal[u] < s
            /\ vault'.bal[c] = vault.bal[c] + v.bal[u] + l
            /\ vault'.supply = v.supply + l
         \/ /\ s <= v.bal[u]
            /\ vault'.bal[c] = vault.bal[c] + s
            /\ vault'.supply = v.supply
  BY <1>1, <1>2, <1>3, <1>4, BonusShares
<1>10. /\ TotalAssets(vault') = TotalAssets(v) /\ vault'.credited = v.credited
  BY <1>5, <1>9 DEF SameAssets, TotalAssets
<1>11. CASE v.bal[u] < s /\ vault'.bal[c] = vault.bal[c] + v.bal[u] + l
            /\ vault'.supply = v.supply + l
  <2>1. (v.bal[u] + l) * TotalAssets(v) <= bonus * (TotalSupply(v) + l)
    BY <1>1, <1>3, <1>5, <1>6, <1>11, LossIsWorthAtMost
  <2> HIDE DEF s, l
  <2>2. vault'.bal[c] - vault.bal[c] = v.bal[u] + l BY <1>7, <1>8, <1>11
  <2>3. TotalSupply(vault') = TotalSupply(v) + l
    BY <1>7, <1>8, <1>10, <1>11 DEF TotalSupply
  <2>4. QED BY <1>10, <2>1, <2>2, <2>3
<1>12. CASE vault'.bal[c] = vault.bal[c] + s /\ vault'.supply = v.supply
  <2>1. TotalAssets(v) * s <= bonus * TotalSupply(v)
    BY <1>1, <1>7, RoundedDown DEF ConvertToShares
  <2> HIDE DEF s, l
  <2>2. vault'.bal[c] - vault.bal[c] = s BY <1>7, <1>8, <1>12
  <2>3. TotalSupply(vault') = TotalSupply(v) BY <1>10, <1>12 DEF TotalSupply
  <2>4. TotalAssets(v) * s = s * TotalAssets(v) BY <1>7, <1>8, SMT
  <2>5. QED BY <1>10, <2>1, <2>2, <2>3, <2>4
<1>13. QED BY <1>9, <1>11, <1>12

LEMMA DispatchPrice == ASSUME IInv, Dispatch PROVE PriceHolds(vault, vault', 1)
<1>1. Users \subseteq Accounts /\ Premia \subseteq Int /\ 0 \in Int
      /\ VaultInv(vault)
  BY InputAssumption DEF Accounts, IInv
<1>2. PICK u \in Users, k \in Kinds, recipient \in FeeRecipients :
        \/ \E amm \in AmmDeltas(k, Opening(k)) :
             SettleMint(u, k, amm, recipient)
        \/ \E amm \in AmmDeltas(k, Closing(k)), premium \in Premia :
             SettleBurn(u, k, amm, premium, recipient)
        \/ \E premium \in Premia : SettlePremium(u, k, premium, recipient)
  BY DEF Dispatch
<1>3. ASSUME NEW m \in MovementType, SettleCall(u, m, Fee(m), recipient)
      PROVE  PriceHolds(vault, vault', 1)
  BY <1>1, <1>3, FeeNat, SettleCallPrice
<1>4. CASE \E amm \in AmmDeltas(k, Opening(k)) :
             SettleMint(u, k, amm, recipient)
  <2>1. PICK amm \in AmmDeltas(k, Opening(k)) :
          SettleMint(u, k, amm, recipient)
    BY <1>4
  <2> DEFINE m == Movement(Opening(k), amm, 0)
  <2>2. SettleCall(u, m, Fee(m), recipient) BY <2>1 DEF SettleMint
  <2>3. m \in MovementType BY <1>1, PositionAmounts
  <2> HIDE DEF m
  <2>4. QED BY <1>3, <2>2, <2>3
<1>5. CASE \E amm \in AmmDeltas(k, Closing(k)), premium \in Premia :
             SettleBurn(u, k, amm, premium, recipient)
  <2>1. PICK amm \in AmmDeltas(k, Closing(k)), premium \in Premia :
          SettleBurn(u, k, amm, premium, recipient)
    BY <1>5
  <2> DEFINE m == Movement(Closing(k), amm, premium)
  <2>2. SettleCall(u, m, Fee(m), recipient) BY <2>1 DEF SettleBurn
  <2>3. m \in MovementType BY <1>1, PositionAmounts
  <2> HIDE DEF m
  <2>4. QED BY <1>3, <2>2, <2>3
<1>6. CASE \E premium \in Premia : SettlePremium(u, k, premium, recipient)
  <2>1. PICK premium \in Premia : SettlePremium(u, k, premium, recipient) BY <1>6
  <2> DEFINE m == PremiumOnly(premium)
  <2>2. SettleCall(u, m, Fee(m), recipient) BY <2>1 DEF SettlePremium
  <2>3. m \in MovementType BY <1>1, PositionAmounts
  <2> HIDE DEF m
  <2>4. QED BY <1>3, <2>2, <2>3
<1>7. QED BY <1>2, <1>4, <1>5, <1>6

LEMMA SessionSettlePrice ==
  ASSUME IInv, NEW k \in Kinds, NEW amm \in AmmDeltas(k, Closing(k)) \cup {0},
         NEW premium \in Premia,
         SessionSettle(k, amm, premium)
  PROVE  PriceHolds(vault, vault', 1)
<1> DEFINE m == IF session.kind = "settle" THEN PremiumOnly(premium)
                ELSE Movement(Closing(k), amm, premium)
<1>1. premium \in Int /\ VaultInv(vault) /\ TypeOK BY InputAssumption DEF IInv
<1>2. InSession /\ SettleCall(session.account, m, Fee(m), NoRecipient)
  BY DEF SessionSettle
<1>3. session.account \in Accounts BY <1>1, <1>2, InSessionType
<1>4. m \in MovementType
  <2>1. CASE session.kind = "settle" BY <1>1, <2>1, PositionAmounts
  <2>2. CASE session.kind # "settle" BY <1>1, <2>2, PositionAmounts
  <2>3. QED BY <2>1, <2>2
<1> HIDE DEF m
<1>5. QED BY <1>1, <1>2, <1>3, <1>4, FeeNat, SettleCallPrice

LEMMA SettleHaircutPrice ==
  ASSUME IInv, NEW haircut \in 1..MaxAssets, SettleHaircut(haircut)
  PROVE  PriceHolds(vault, vault', 1)
<1> DEFINE m == PremiumOnly(haircut)
<1>1. haircut \in Nat /\ VaultInv(vault) /\ TypeOK
  BY VaultAssumption DEF IInv
<1>2. InSession /\ SettleCall(session.account, m, 0, NoRecipient)
  BY DEF SettleHaircut
<1>3. session.account \in Accounts BY <1>1, <1>2, InSessionType
<1>4. m \in MovementType BY <1>1 DEF PremiumOnly, MovementType
<1> HIDE DEF m
<1>5. QED BY <1>1, <1>2, <1>3, <1>4, SettleCallPrice

\* What any step may do to the value of a share.
PriceStepAllowed ==
    \/ PriceHolds(vault, vault', 0)
    \/ (Dispatch \/ DispatchFrom) /\ PriceHolds(vault, vault', 1)
    \/ /\ InSession /\ session.kind = "liquidate" /\ ~ InSession'
       /\ vault'.bal[session.account] = 0 \/ session.caller = session.account

LEMMA DispatchFromPrice == ASSUME IInv, DispatchFrom PROVE PriceStepAllowed
<1>1. VaultInv(vault) BY DEF IInv
<1>2. ASSUME NEW c \in Users, NEW u \in Users,
             \/ BeginLiquidation(c, u)
             \/ \E k \in Kinds : BeginExercise(c, u, k) \/ BeginSettlement(c, u, k)
      PROVE  PriceStepAllowed
  <2>1. PriceHolds(vault, vault', 0)
    BY <1>1, <1>2, BeginPrice DEF BeginLiquidation, BeginExercise, BeginSettlement
  <2>2. QED BY <2>1 DEF PriceStepAllowed
<1>3. ASSUME NEW k \in Kinds, NEW premium \in Premia,
             NEW amm \in AmmDeltas(k, Closing(k)) \cup {0},
             SessionSettle(k, amm, premium)
      PROVE  PriceStepAllowed
  BY <1>3, SessionSettlePrice DEF PriceStepAllowed
<1>4. ASSUME NEW haircut \in 1..MaxAssets, SettleHaircut(haircut)
      PROVE  PriceStepAllowed
  BY <1>4, SettleHaircutPrice DEF PriceStepAllowed
<1>5. ASSUME NEW bonus \in Bonuses, FinishLiquidation(bonus)
      PROVE  PriceStepAllowed
  <2>1. InSession /\ session.kind = "liquidate" /\ ~ InSession'
    BY <1>5 DEF FinishLiquidation, InSession, NoSession
  <2>2. QED BY <1>5, <2>1, FinishLiquidationPrice DEF PriceStepAllowed
<1>6. ASSUME NEW fee \in Fees, FinishRefund(fee) PROVE PriceStepAllowed
  BY <1>6, FinishRefundPrice DEF PriceStepAllowed
<1>7. QED BY <1>2, <1>3, <1>4, <1>5, <1>6 DEF DispatchFrom

LEMMA NextPrice ==
  ASSUME IInv, [Next]_vars PROVE PriceStepAllowed
<1>1. VaultInv(vault) BY DEF IInv
<1>2. CASE UserCall
  BY <1>2, UserCallPrice DEF UserCallFacts, PriceStepAllowed
<1>3. CASE Dispatch BY <1>3, DispatchPrice DEF PriceStepAllowed
<1>4. CASE DispatchFrom BY <1>4, DispatchFromPrice
<1>5. CASE PassTime \/ UNCHANGED vars
  <2>1. vault' = vault BY <1>5 DEF PassTime, vars
  <2>2. SameAssets(vault, vault') /\ vault'.supply = vault.supply
    BY <2>1 DEF SameAssets
  <2>3. QED BY <1>1, <2>2, SameTotalsPrice DEF PriceStepAllowed
<1>6. QED BY <1>2, <1>3, <1>4, <1>5 DEF Next

-----------------------------------------------------------------------------
(* The theorems.                                                           *)

\* maxWithdraw and maxRedeem leave the last asset and, at the price before
\* the call, every credited asset in the pool, although both are computed
\* after the accrual and round on their own.
THEOREM CreditsAreBacked == Spec => CreditsStayBacked
<1>1. IInv /\ [Next]_vars =>
        [ vault'.deposited < vault.deposited /\ UserCall =>
            /\ vault'.deposited >= 1
            /\ ConvertToAssets(vault, vault.credited) <= vault'.deposited - 1 ]_vars
  BY UserCallPrice DEF UserCallFacts
<1>2. QED BY <1>1, InitIInv, StepIInv, PTL DEF Spec, CreditsStayBacked

\* No call lowers the value of a share: deposits, withdrawals and interest
\* never do, a settlement by at most the share of a rounded credit, and only
\* the liquidation of an account left with nothing spreads a loss.
THEOREM SharePriceIsKept == Spec => SharePriceHolds
<1>1. IInv /\ [Next]_vars =>
        [ \/ PriceHolds(vault, vault', 0)
          \/ (Dispatch \/ DispatchFrom) /\ PriceHolds(vault, vault', 1)
          \/ /\ InSession /\ session.kind = "liquidate" /\ ~ InSession'
             /\ \/ vault'.bal[session.account] = 0
                \/ session.caller = session.account ]_vars
  BY NextPrice DEF PriceStepAllowed
<1>2. QED BY <1>1, InitIInv, StepIInv, PTL DEF Spec, SharePriceHolds

\* settleLiquidation pays a liquidator the bonus at most, whatever shares it
\* takes and mints, for every share price, bonus and cap on the loss.
THEOREM LiquidatorGainsAtMostBonus == Spec => BonusIsWorthAtMost
<1>1. IInv /\ [Next]_vars =>
        [ \A bonus \in Bonuses : FinishLiquidation(bonus) /\ bonus >= 0
            /\ session.caller # session.account =>
            LET gain == vault'.bal[session.caller] - vault.bal[session.caller]
            IN  gain * TotalAssets(vault') <= bonus * TotalSupply(vault') ]_vars
  BY BonusPrice
<1>2. QED BY <1>1, InitIInv, StepIInv, PTL DEF Spec, BonusIsWorthAtMost

=============================================================================
