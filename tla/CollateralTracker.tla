------------------------- MODULE CollateralTracker -------------------------
(***************************************************************************)
(* The vault of one token, src/contracts/CollateralTracker.sol: an ERC4626 *)
(* share ledger whose assets are split between the pool (deposited), the   *)
(* AMM (inAMM) and interest that borrowers owe but have not paid           *)
(* (unrealized).  Every function that changes state is an action.  The     *)
(* calls only PanopticPool may make are driven by the pool's own           *)
(* transactions: positions are minted and burned, and while the pool is    *)
(* liquidating, force-exercising or settling an account (a "session") that *)
(* account holds Phantom delegated shares that nobody issued.              *)
(*                                                                         *)
(* One EVM call is one step.  Between the calls of a session the AMM may   *)
(* run foreign code (token callbacks, V4 hooks), so the entry points that  *)
(* the pool's reentrancy guard does not close are enabled there too.       *)
(***************************************************************************)
EXTENDS Integers, FiniteSets, Functions

CONSTANTS
    Users,          \* accounts that deposit, trade and liquidate
    RiskEngine,     \* the account that receives the protocol's commission
    Builder,        \* the account of a builder's wallet
    FeeRecipients,  \* fee recipients the risk parameters may name
    NoRecipient,    \* feeRecipient == 0: the commission is burned
    Kinds,          \* positions: [short, long, wide, rest] of this token
    WAD,            \* 1e18, the unit of the borrow index and of rates
    DECIMALS,       \* the unit of the fees and splits
    VirtualShares,  \* 10^6, the supply nobody owns
    Phantom,        \* type(uint248).max, the delegated shares
    Infinite,       \* type(uint256).max, the allowance that is never spent
    NotionalFee, PremiumFee, ProtocolSplit, BuilderSplit,
    LossCap,        \* 10, the supplies one liquidation may mint
    MaxDeposit,     \* type(uint104).max
    Rates,          \* rawInterest of one elapsed period, in WAD
    Amounts,        \* token and share amounts users ask for
    Allowances,     \* allowances users grant
    Premia,         \* premium realized by one leg or one settlement, signed
    Bonuses,        \* liquidation bonus of this token, signed
    Fees,           \* force exercise fee of this token, signed
    First,          \* whether this is the vault of token0
    Substitutes,    \* the other token's shortage, priced in this one
    Interventions,  \* what dispatchFrom is used for
    MaxAssets, MaxShares, MaxIndex  \* widths (bounds) of what is stored

Accounts == Users \cup {RiskEngine, Builder}
Spenders == Users

ASSUME VaultAssumption ==
    /\ IsFiniteSet(Users)
    /\ WAD \in Nat \ {0} /\ DECIMALS \in Nat \ {0}
    /\ VirtualShares \in Nat \ {0} /\ Phantom \in Nat \ {0}
    /\ Infinite \in Nat
    /\ LossCap \in Nat
    /\ {NotionalFee, PremiumFee, ProtocolSplit, BuilderSplit} \subseteq Nat
    /\ ProtocolSplit + BuilderSplit <= DECIMALS
    /\ {MaxDeposit, MaxAssets, MaxShares, MaxIndex} \subseteq Nat

ASSUME InputAssumption ==
    /\ FeeRecipients \subseteq {NoRecipient, Builder}
    /\ NoRecipient \notin Accounts
    /\ \A k \in Kinds : /\ k.short \in Nat /\ k.long \in Nat
                        /\ k.wide \in BOOLEAN /\ k.rest \in {0, 1}
                        /\ ~ k.wide => k.rest = 0
    /\ Rates \subseteq Nat /\ Amounts \subseteq Nat /\ Allowances \subseteq Nat
    /\ Premia \subseteq Int
    /\ Interventions \subseteq {"liquidate", "exercise", "settle"}
    /\ Bonuses \subseteq Int /\ Fees \subseteq Int /\ Substitutes \subseteq Nat
    /\ First \in BOOLEAN

VARIABLES
    vault,      \* the storage of the CollateralTracker
    elapsed,    \* whether an interest epoch has begun since the last accrual
    positions,  \* PanopticPool: the open positions of each user
    session     \* PanopticPool: the dispatchFrom in progress, if any

vars == <<vault, elapsed, positions, session>>

NoSession == [kind |-> "none"]
InSession == session.kind # "none"
Delegated == IF InSession THEN {session.account} ELSE {}

-----------------------------------------------------------------------------
(* Arithmetic of Math.sol, of totalAssets and of the conversions.          *)

MulDiv(a, b, c)   == (a * b) \div c
MulDivUp(a, b, c) == (a * b + (c - 1)) \div c
Lesser(a, b)      == IF a < b THEN a ELSE b
Excess(a, b)      == IF a > b THEN a - b ELSE 0
Abs(a)            == IF a < 0 THEN -a ELSE a

TotalAssets(v) == v.deposited + v.inAMM + v.unrealized
TotalSupply(v) == v.supply + v.credited

\* The divisions of the code revert when their denominator is zero.
HasAssets(v) == TotalAssets(v) > 0
HasSupply(v) == TotalSupply(v) > 0

\* Mutants: the two roundings turned in the user's favour.
SharesRoundedUp(v, assets)   == MulDivUp(assets, TotalSupply(v), TotalAssets(v))
AssetsRoundedDown(v, shares) == MulDiv(shares, TotalAssets(v), TotalSupply(v))

ConvertToShares(v, assets) == MulDiv(assets, TotalSupply(v), TotalAssets(v))
ConvertToAssets(v, shares) == MulDiv(shares, TotalAssets(v), TotalSupply(v))
PreviewMint(v, shares)     == MulDivUp(shares, TotalAssets(v), TotalSupply(v))
PreviewWithdraw(v, assets) == MulDivUp(assets, TotalSupply(v), TotalAssets(v))

MintShares(v, u, s) == [v EXCEPT !.bal[u] = @ + s, !.supply = @ + s]
BurnShares(v, u, s) == [v EXCEPT !.bal[u] = @ - s, !.supply = @ - s]
MoveShares(v, from, to, s) ==
    [[v EXCEPT !.bal[from] = @ - s] EXCEPT !.bal[to] = @ + s]

\* Checked subtractions: a burn reverts without the balance or the supply.
CanBurn(v, u, s) == s <= v.bal[u] /\ s <= v.supply

-----------------------------------------------------------------------------
(* Interest.                                                               *)

\* Owed by u at the vault's index: netBorrows * (index - user) / user.
InterestOwed(v, u) ==
    IF v.net[u] <= 0 \/ v.userIndex[u] = 0 \/ v.userIndex[u] = v.index
    THEN 0
    ELSE MulDivUp(v.net[u], v.index - v.userIndex[u], v.userIndex[u])

\* The market state after the elapsed time, for a compounded rate raw.
Grown(v, raw) ==
    [v EXCEPT !.index = MulDivUp(@, WAD + raw, WAD),
              !.unrealized = @ + MulDivUp(v.inAMM, raw, WAD)]

\* Mutant: only accounts that borrow already are brought to the index.
CurrentIfBorrowing(v, u) ==
    [v EXCEPT !.userIndex[u] = IF v.net[u] > 0 THEN v.index ELSE @]

Current(v, u) == [v EXCEPT !.userIndex[u] = v.index]

\* Mutant: rounding lets accounts pay more than was accumulated.
PayUnclamped(v, paid) == [v EXCEPT !.unrealized = @ - paid]

PayInterest(v, paid) == [v EXCEPT !.unrealized = Excess(@, paid)]

\* A borrower who cannot pay gives up every share and keeps the old index.
Accrued(v0, u, skip, raw) ==
    LET v      == Grown(v0, raw)
        owed   == InterestOwed(v, u)
        shares == PreviewWithdraw(v, owed)
    IN  IF owed = 0 THEN Current(v, u)
        ELSE IF skip THEN v
        ELSE IF shares > v.bal[u]
        THEN PayInterest(BurnShares(v, u, v.bal[u]), ConvertToAssets(v, v.bal[u]))
        ELSE Current(PayInterest(BurnShares(v, u, shares), owed), u)

\* The burn inside _accrueInterest reverts when it exceeds the supply.
AccrueReverts(v0, u, skip, raw) ==
    LET v == Grown(v0, raw)
    IN  \/ ~ HasAssets(v0)
        \/ /\ ~ skip
           /\ InterestOwed(v, u) # 0
           /\ Lesser(PreviewWithdraw(v, InterestOwed(v, u)), v.bal[u]) > v.supply

RawInterest == IF elapsed THEN Rates ELSE {0}

-----------------------------------------------------------------------------
(* Settlement of a mint, a burn or a premium.  A movement m says whether a *)
(* position is created and how much long, short, AMM and premium it moves. *)

\* Mutant: a creation settled with the sign of a close.
NetAtClose(m)  == m.long - m.short

NetBorrows(m)  == IF m.create THEN m.short - m.long ELSE m.long - m.short

CreditDelta(v, m) == IF m.create THEN PreviewWithdraw(v, m.long)
                                 ELSE ConvertToShares(v, m.long)

\* Mutant: credit that is not on the books is given back all the same.
HaircutForgotten(v, m) == 0

\* What a close pays for credit the vault no longer has on its books.
Haircut(v, m) ==
    IF m.create \/ CreditDelta(v, m) <= v.credited THEN 0
    ELSE PreviewMint(v, CreditDelta(v, m) - v.credited)

TokenToPay(v, m) == m.amm - NetBorrows(m) - m.premium + Haircut(v, m)

SharesToBurn(v, m) ==
    IF TokenToPay(v, m) > 0 THEN PreviewWithdraw(v, TokenToPay(v, m)) ELSE 0

SharesToMint(v, m) ==
    IF TokenToPay(v, m) < 0 THEN ConvertToShares(v, - TokenToPay(v, m)) ELSE 0

\* _updateBalancesAndSettle, after its accrual.
Settled(v, u, m) ==
    [MintShares(BurnShares(v, u, SharesToBurn(v, m)), u, SharesToMint(v, m))
       EXCEPT !.credited  = IF m.create THEN @ + CreditDelta(v, m)
                                        ELSE Excess(@, CreditDelta(v, m)),
              !.deposited = @ - m.amm + m.premium,
              !.inAMM     = IF m.create THEN @ + m.short ELSE @ - m.short,
              !.net[u]    = @ + NetBorrows(m)]

\* The utilization is taken before and after, over a nonzero total.
SettleReverts(v, u, m) ==
    \/ ~ HasAssets(v) \/ ~ HasAssets(Settled(v, u, m))
    \/ ~ CanBurn(v, u, SharesToBurn(v, m))
    \/ v.deposited - m.amm + m.premium < 0
    \/ ~ m.create /\ v.inAMM < m.short

\* The commission is priced at the vault before the settlement: at.
CommissionShares(at, fee) == PreviewWithdraw(at, fee)

Charged(at, v, u, fee, recipient) ==
    LET shares == CommissionShares(at, fee)
    IN  IF recipient = NoRecipient THEN BurnShares(v, u, shares)
        ELSE MoveShares(
               MoveShares(v, u, RiskEngine, MulDiv(shares, ProtocolSplit, DECIMALS)),
               u, recipient, MulDiv(shares, BuilderSplit, DECIMALS))

ChargeReverts(at, v, u, fee, recipient) ==
    LET shares == CommissionShares(at, fee)
    IN  \/ v.bal[u] < shares
        \/ recipient = NoRecipient /\ v.supply < shares

MintFee(m) == MulDivUp(m.short + m.long, NotionalFee, DECIMALS)

BurnFee(m) ==
    LET premiumFee  == MulDivUp(Abs(m.premium), PremiumFee, DECIMALS)
        notionalFee == MulDivUp(m.short + m.long, 10 * NotionalFee, DECIMALS)
    IN  IF m.premium = 0 THEN 0
        ELSE IF m.short = 0 /\ m.long = 0 THEN premiumFee
        ELSE Lesser(premiumFee, notionalFee)

Fee(m) == IF m.create THEN MintFee(m) ELSE BurnFee(m)

-----------------------------------------------------------------------------
(* Amounts of a position.  Chunks of the AMM round a short up when it is   *)
(* opened and down when it is closed, a long the other way: the two differ *)
(* by rest.  A leg without width (a loan or a credit) moves nothing and    *)
(* rounds up both times.                                                   *)

Opening(k) == [create |-> TRUE, long |-> k.long, short |-> k.short]

\* Mutant: the chunks rounded as they are when a position is opened.
ClosingRoundedAsOpened(k) ==
    [create |-> FALSE,
     long  |-> Excess(k.long, k.rest),
     short |-> IF k.short > 0 THEN k.short + k.rest ELSE 0]

Closing(k) ==
    [create |-> FALSE,
     long  |-> IF k.long > 0 THEN k.long + k.rest ELSE 0,
     short |-> Excess(k.short, k.rest)]

\* The AMM settles a leg in this token or, past the strike, in the other one.
AmmDeltas(k, m) ==
    IF ~ k.wide THEN {0}
    ELSE LET flow == {s - l : s \in {0, m.short}, l \in {0, m.long}}
         IN  IF m.create THEN flow ELSE {-f : f \in flow}

Movement(m, amm, premium) ==
    [create |-> m.create, long |-> m.long, short |-> m.short,
     amm |-> amm, premium |-> premium]

PremiumOnly(premium) ==
    [create |-> FALSE, long |-> 0, short |-> 0, amm |-> 0, premium |-> premium]

-----------------------------------------------------------------------------
(* The state a call leaves, unless it overflows the stored widths.         *)

InBounds(v) ==
    /\ v.deposited <= MaxAssets /\ v.inAMM <= MaxAssets
    /\ v.unrealized <= MaxAssets /\ v.index <= MaxIndex
    /\ v.supply <= MaxShares /\ v.credited <= MaxShares
    /\ \A u \in Users : Abs(v.net[u]) <= MaxAssets

\* A call that accrues commits the epoch with its own changes.
Commit(v) == InBounds(v) /\ vault' = v /\ elapsed' = FALSE

Write(v) == InBounds(v) /\ vault' = v /\ UNCHANGED elapsed

\* Foreign code runs while the AMM burns a position and while the other
\* token's vault pays a liquidator; settling premium calls neither.
Reentrant ==
    InSession => \/ session.kind = "liquidate"
                 \/ session.kind = "exercise" /\ session.left # {}

Legless(u) == ~ InSession /\ positions[u] = {}

PoolUnchanged == UNCHANGED <<positions, session>>

-----------------------------------------------------------------------------
(* The ERC4626 and ERC20 entry points.                                     *)

Deposited(v, receiver, assets, shares) ==
    [MintShares(v, receiver, shares) EXCEPT !.deposited = @ + assets]

\* The depositor's own interest is computed and left unpaid (SKIP_INTEREST).
Deposit(caller, receiver, assets) ==
    /\ Reentrant
    /\ 0 < assets /\ assets <= MaxDeposit
    /\ \E raw \in RawInterest :
         LET v == Accrued(vault, caller, TRUE, raw)
         IN  /\ ~ AccrueReverts(vault, caller, TRUE, raw)
             /\ Commit(Deposited(v, receiver, assets, ConvertToShares(v, assets)))
    /\ PoolUnchanged

Mint(caller, receiver, shares) ==
    /\ Reentrant
    /\ \E raw \in RawInterest :
         LET v      == Accrued(vault, caller, TRUE, raw)
             assets == PreviewMint(v, shares)
         IN  /\ ~ AccrueReverts(vault, caller, TRUE, raw) /\ HasSupply(v)
             /\ 0 < assets /\ assets <= MaxDeposit
             /\ Commit(Deposited(v, receiver, assets, shares))
    /\ PoolUnchanged

\* Mutant: the assets that back credited shares can be withdrawn.
WithdrawableWithCredits(v) == Excess(v.deposited, 1)

\* What leaves the last asset and the credited assets in the pool.
Withdrawable(v) ==
    Excess(Excess(v.deposited, 1), ConvertToAssets(v, v.credited))

MaxWithdraw(v, owner) == Lesser(Withdrawable(v), ConvertToAssets(v, v.bal[owner]))

MaxRedeem(v, owner) ==
    Lesser(Excess(ConvertToShares(v, Excess(v.deposited, 1)), v.credited),
           v.bal[owner])

CanSpend(v, owner, spender, shares) ==
    v.allowance[owner][spender] = Infinite \/ shares <= v.allowance[owner][spender]

Spent(v, owner, spender, shares) ==
    IF v.allowance[owner][spender] = Infinite THEN v
    ELSE [v EXCEPT !.allowance[owner][spender] = @ - shares]

\* The owner of the shares needs no allowance to withdraw them.
Withdrawn(v, caller, owner, assets, shares) ==
    [BurnShares(IF caller = owner THEN v ELSE Spent(v, owner, caller, shares),
                owner, shares)
       EXCEPT !.deposited = @ - assets]

CanWithdraw(v, caller, owner, assets, shares) ==
    /\ caller = owner \/ CanSpend(v, owner, caller, shares)
    /\ CanBurn(v, owner, shares)
    /\ assets <= v.deposited

WithdrawAssets(caller, owner, assets) ==
    /\ assets > 0
    /\ \E raw \in RawInterest :
         LET v      == Accrued(vault, owner, FALSE, raw)
             shares == PreviewWithdraw(v, assets)
         IN  /\ ~ AccrueReverts(vault, owner, FALSE, raw)
             /\ HasAssets(v) /\ HasSupply(v)
             /\ assets <= MaxWithdraw(v, owner)
             /\ CanWithdraw(v, caller, owner, assets, shares)
             /\ Commit(Withdrawn(v, caller, owner, assets, shares))
    /\ PoolUnchanged

Withdraw(caller, owner, assets) ==
    Legless(owner) /\ WithdrawAssets(caller, owner, assets)

\* With positions open, the pool's solvency check (not modelled: it may go
\* either way) decides after the burn; the check reverts inside a session.
WithdrawWithPositions(caller, owner, assets) ==
    ~ InSession /\ WithdrawAssets(caller, owner, assets)

Redeem(caller, owner, shares) ==
    /\ Legless(owner)
    /\ \E raw \in RawInterest :
         LET v      == Accrued(vault, owner, FALSE, raw)
             assets == ConvertToAssets(v, shares)
         IN  /\ ~ AccrueReverts(vault, owner, FALSE, raw)
             /\ HasAssets(v) /\ HasSupply(v)
             /\ shares <= MaxRedeem(v, owner)
             /\ assets > 0
             /\ CanWithdraw(v, caller, owner, assets, shares)
             /\ Commit(Withdrawn(v, caller, owner, assets, shares))
    /\ PoolUnchanged

Transfer(from, to, shares) ==
    /\ Legless(from)
    /\ \E raw \in RawInterest :
         LET v == Accrued(vault, from, FALSE, raw)
         IN  /\ ~ AccrueReverts(vault, from, FALSE, raw)
             /\ shares <= v.bal[from]
             /\ Commit(MoveShares(v, from, to, shares))
    /\ PoolUnchanged

TransferFrom(caller, from, to, shares) ==
    /\ Legless(from)
    /\ \E raw \in RawInterest :
         LET v == Accrued(vault, from, FALSE, raw)
         IN  /\ ~ AccrueReverts(vault, from, FALSE, raw)
             /\ CanSpend(v, from, caller, shares)
             /\ shares <= v.bal[from]
             /\ Commit(MoveShares(Spent(v, from, caller, shares), from, to, shares))
    /\ PoolUnchanged

\* The only entry point without a guard of any kind.
Approve(owner, spender, amount) ==
    /\ Reentrant
    /\ Write([vault EXCEPT !.allowance[owner][spender] = amount])
    /\ PoolUnchanged

\* Called by the user, or by the pool for its caller (_accrueInterests).
AccrueInterest(u) ==
    /\ Reentrant
    /\ \E raw \in RawInterest :
         /\ ~ AccrueReverts(vault, u, FALSE, raw)
         /\ Commit(Accrued(vault, u, FALSE, raw))
    /\ PoolUnchanged

\* A transaction takes no time; time stops when the index is at its bound.
PassTime ==
    /\ ~ InSession /\ vault.index < MaxIndex
    /\ elapsed' = TRUE
    /\ UNCHANGED <<vault, positions, session>>

-----------------------------------------------------------------------------
(* Calls of PanopticPool: dispatch.                                        *)

\* settleMint and settleBurn by m for u, after the accrual.
SettleCall(u, m, fee, recipient) ==
    \E raw \in RawInterest :
      LET at == Accrued(vault, u, FALSE, raw)
          v  == Settled(at, u, m)
      IN  /\ ~ AccrueReverts(vault, u, FALSE, raw)
          /\ ~ SettleReverts(at, u, m)
          /\ ~ ChargeReverts(at, v, u, fee, recipient)
          /\ Commit(Charged(at, v, u, fee, recipient))

SettleMint(u, k, amm, recipient) ==
    LET m == Movement(Opening(k), amm, 0)
    IN  /\ ~ InSession
        /\ k \notin positions[u]
        /\ SettleCall(u, m, Fee(m), recipient)
        /\ positions' = [positions EXCEPT ![u] = @ \cup {k}]
        /\ UNCHANGED session

SettleBurn(u, k, amm, premium, recipient) ==
    LET m == Movement(Closing(k), amm, premium)
    IN  /\ ~ InSession
        /\ k \in positions[u]
        /\ SettleCall(u, m, Fee(m), recipient)
        /\ positions' = [positions EXCEPT ![u] = @ \ {k}]
        /\ UNCHANGED session

\* _settleOptions from dispatch: premium alone, the position stays open.
SettlePremium(u, k, premium, recipient) ==
    LET m == PremiumOnly(premium)
    IN  /\ ~ InSession
        /\ k \in positions[u]
        /\ SettleCall(u, m, Fee(m), recipient)
        /\ UNCHANGED <<positions, session>>

-----------------------------------------------------------------------------
(* Calls of PanopticPool: dispatchFrom.  A session delegates, burns the    *)
(* positions in left (or settles their premium), and takes the delegated   *)
(* shares back; its first and last steps are the calls before the first    *)
(* and after the last piece of foreign code.                               *)

Begin(kind, caller, account, left) ==
    /\ ~ InSession
    /\ left # {} /\ kind \in Interventions
    /\ Write([vault EXCEPT !.bal[account] = @ + Phantom])
    /\ session' = [kind |-> kind, caller |-> caller, account |-> account,
                   left |-> left, paid |-> 0]
    /\ UNCHANGED positions

BeginLiquidation(caller, account) ==
    Begin("liquidate", caller, account, positions[account])

BeginExercise(caller, account, k) ==
    k \in positions[account] /\ Begin("exercise", caller, account, {k})

BeginSettlement(caller, account, k) ==
    k \in positions[account] /\ Begin("settle", caller, account, {k})

\* _burnOptions or _settleOptions of one position; no builder is named.  A
\* liquidation does not commit the premium buyers pay until it has settled.
SessionSettle(k, amm, premium) ==
    LET keep == session.kind = "settle"
        m    == IF keep THEN PremiumOnly(premium)
                        ELSE Movement(Closing(k), amm, premium)
    IN  /\ InSession /\ k \in session.left
        /\ keep => amm = 0
        /\ SettleCall(session.account, m, Fee(m), NoRecipient)
        /\ positions' = IF keep THEN positions
                        ELSE [positions EXCEPT ![session.account] = @ \ {k}]
        /\ session' = [session EXCEPT
                         !.left = @ \ {k},
                         !.paid = IF session.kind = "liquidate"
                                  THEN @ + Excess(0, premium) ELSE @]

\* Mutant: the shortfall is not added to the supply.
UndelegatedForgotten(v, account) ==
    [v EXCEPT !.bal[account] = Excess(@, Phantom)]

\* Delegated shares that a liquidated account has burned become supply.
Undelegated(v, account) ==
    [v EXCEPT !.supply = @ + Excess(Phantom, v.bal[account]),
              !.bal[account] = Excess(@, Phantom)]

\* Mutant: the shares already transferred are minted again.
LossSharesTwice(v, account, bonus) ==
    LET rest == TotalAssets(v) - bonus
        raw  == MulDiv(bonus, TotalSupply(v) - v.bal[account],
                       IF rest > 1 THEN rest ELSE 1)
    IN  Lesser(raw, LossCap * TotalSupply(v))

\* Shares minted for the part of a bonus the account cannot cover.
LossShares(v, account, bonus) ==
    LET rest == TotalAssets(v) - bonus
        raw  == MulDiv(bonus, TotalSupply(v) - v.bal[account],
                       IF rest > 1 THEN rest ELSE 1)
    IN  Lesser(Excess(raw, v.bal[account]), LossCap * TotalSupply(v))

\* settleLiquidation: a negative bonus is paid in by the liquidator.
LiquidationSettled(v0, liquidator, account, bonus) ==
    IF bonus < 0
    THEN Undelegated(Deposited(v0, account, -bonus, ConvertToShares(v0, -bonus)),
                     account)
    ELSE LET v      == Undelegated(v0, account)
             shares == ConvertToShares(v, bonus)
         IN  IF shares > v.bal[account]
             THEN MintShares(MoveShares(v, account, liquidator, v.bal[account]),
                             liquidator, LossShares(v, account, bonus))
             ELSE MoveShares(v, account, liquidator, shares)

\* settleAmounts: premium is clawed back from sellers at no fee, and what is
\* left of it is committed to them.
SettleHaircut(haircut) ==
    /\ InSession /\ session.kind = "liquidate" /\ session.left = {}
    /\ 0 < haircut /\ haircut <= session.paid
    /\ SettleCall(session.account, PremiumOnly(haircut), 0, NoRecipient)
    /\ session' = [session EXCEPT !.paid = 0]
    /\ UNCHANGED positions

FinishLiquidation(bonus) ==
    /\ InSession /\ session.kind = "liquidate" /\ session.left = {}
    /\ HasAssets(vault)
    /\ Write(LiquidationSettled(vault, session.caller, session.account, bonus))
    /\ session' = NoSession
    /\ UNCHANGED positions

\* refund: fees owed to (or by) the account, in shares at the current price.
Refunded(v, account, caller, assets) ==
    IF assets > 0 THEN MoveShares(v, account, caller, ConvertToShares(v, assets))
    ELSE MoveShares(v, caller, account, ConvertToShares(v, -assets))

RefundReverts(v, account, caller, assets) ==
    \/ assets > 0 /\ v.bal[account] < ConvertToShares(v, assets)
    \/ assets <= 0 /\ v.bal[caller] < ConvertToShares(v, -assets)

\* RiskEngine.getRefundAmounts: shares missing for the delegation to end.
Shortage(v, account, fee) ==
    Phantom - v.bal[account] + (IF fee > 0 THEN PreviewWithdraw(v, fee)
                                ELSE - ConvertToShares(v, -fee))

\* Mutant: the caller pays the shortage rounded down.
RefundRoundedDown(v, account, fee) ==
    IF Shortage(v, account, fee) > 0
    THEN fee - ConvertToAssets(v, Shortage(v, account, fee))
    ELSE fee

\* An account short of this token has the caller cover it for the other.
RefundAmount(v, account, fee) ==
    IF Shortage(v, account, fee) > 0
    THEN fee - PreviewMint(v, Shortage(v, account, fee))
    ELSE fee

\* Only one shortage is covered, that of token0 if there are two.  The one
\* of the other token is charged to this one without a look at it.
RefundChoices(v, account, fee) ==
    {RefundAmount(v, account, fee)}
      \cup (IF First /\ Shortage(v, account, fee) > 0 THEN {}
            ELSE {fee + other : other \in Substitutes})

FinishRefund(fee) ==
    /\ InSession /\ session.kind # "liquidate" /\ session.left = {}
    /\ session.kind = "settle" => fee = 0
    /\ HasAssets(vault)
    /\ Shortage(vault, session.account, fee) > 0 => HasSupply(vault)
    /\ \E assets \in RefundChoices(vault, session.account, fee) :
         LET v == Refunded(vault, session.account, session.caller, assets)
         IN  /\ ~ RefundReverts(vault, session.account, session.caller, assets)
             /\ Phantom <= v.bal[session.account]
             /\ Write([v EXCEPT !.bal[session.account] = @ - Phantom])
    /\ session' = NoSession
    /\ UNCHANGED positions

-----------------------------------------------------------------------------
(* The specification.                                                      *)

\* initialize: one virtual asset, VirtualShares shares of nobody.
Init ==
    /\ vault = [deposited |-> 1, inAMM |-> 0, unrealized |-> 0,
                supply |-> VirtualShares, credited |-> 0, index |-> WAD,
                bal |-> [a \in Accounts |-> 0],
                net |-> [a \in Accounts |-> 0],
                userIndex |-> [a \in Accounts |-> 0],
                allowance |-> [o \in Accounts |-> [s \in Spenders |-> 0]]]
    /\ elapsed = FALSE
    /\ positions = [u \in Users |-> {}]
    /\ session = NoSession

UserCall ==
    \/ \E u, r \in Users, x \in Amounts :
         \/ Deposit(u, r, x) \/ Mint(u, r, x)
         \/ Withdraw(u, r, x) \/ WithdrawWithPositions(u, r, x)
         \/ Redeem(u, r, x) \/ Transfer(u, r, x)
    \/ \E c, u, r \in Users, x \in Amounts : TransferFrom(c, u, r, x)
    \/ \E u \in Users, r \in Spenders, x \in Allowances : Approve(u, r, x)
    \/ \E u \in Users : AccrueInterest(u)

Dispatch ==
    \E u \in Users, k \in Kinds, recipient \in FeeRecipients :
      \/ \E amm \in AmmDeltas(k, Opening(k)) : SettleMint(u, k, amm, recipient)
      \/ \E amm \in AmmDeltas(k, Closing(k)), premium \in Premia :
           SettleBurn(u, k, amm, premium, recipient)
      \/ \E premium \in Premia : SettlePremium(u, k, premium, recipient)

DispatchFrom ==
    \/ \E caller, account \in Users :
         \/ BeginLiquidation(caller, account)
         \/ \E k \in Kinds : \/ BeginExercise(caller, account, k)
                             \/ BeginSettlement(caller, account, k)
    \/ \E k \in Kinds, premium \in Premia :
         \E amm \in AmmDeltas(k, Closing(k)) \cup {0} :
           SessionSettle(k, amm, premium)
    \/ \E haircut \in 1..MaxAssets : SettleHaircut(haircut)
    \/ \E bonus \in Bonuses : FinishLiquidation(bonus)
    \/ \E fee \in Fees : FinishRefund(fee)

Next == UserCall \/ Dispatch \/ DispatchFrom \/ PassTime

Spec == Init /\ [][Next]_vars

-----------------------------------------------------------------------------
(* Properties.                                                             *)

VaultType ==
    [deposited : Nat, inAMM : Nat, unrealized : Nat, supply : Nat,
     credited : Nat, index : Nat,
     bal : [Accounts -> Nat], net : [Accounts -> Int],
     userIndex : [Accounts -> Nat],
     allowance : [Accounts -> [Spenders -> Nat]]]

SessionType ==
    {NoSession} \cup
    [kind : {"liquidate", "exercise", "settle"}, caller : Users,
     account : Users, left : SUBSET Kinds, paid : Nat]

\* Every stored quantity stays a natural number, whatever is subtracted.
TypeOK ==
    /\ vault \in VaultType
    /\ elapsed \in BOOLEAN
    /\ positions \in [Users -> SUBSET Kinds]
    /\ session \in SessionType

\* No share appears or is lost: the balances and the virtual shares make up
\* the supply, but for the shares delegated in a session, even while the
\* account burns them and others deposit (BurnShares, settleLiquidation).
SharesAddUp ==
    SumFunction(vault.bal) + VirtualShares
        = vault.supply + Phantom * Cardinality(Delegated)

\* A borrower's index is set and never ahead of the market's, so that
\* _getUserInterest cannot revert and lock the account.
IndexOrder ==
    \A u \in Users : vault.net[u] > 0 =>
        0 < vault.userIndex[u] /\ vault.userIndex[u] <= vault.index

OpenAmount(u, f(_)) == SumFunction([k \in positions[u] |-> f(k)])

ClosingShort(k) == Closing(k).short
ClosingNet(k)   == Closing(k).short - Closing(k).long

\* Every open position can give back what it borrowed: the AMM tally covers
\* all the shorts that are open, however the two ends of each are rounded.
AmmCoversShorts ==
    SumFunction([u \in Users |-> OpenAmount(u, ClosingShort)]) <= vault.inAMM

\* Nobody's debt is under-counted by rounding: netBorrows is at least what
\* the open positions will pay back.
DebtCoversPositions ==
    \A u \in Users : OpenAmount(u, ClosingNet) <= vault.net[u]

\* The share price of v is at most that of w, but for extra shares.
PriceHolds(v, w, extra) ==
    TotalAssets(v) * (TotalSupply(w) - extra) <= TotalAssets(w) * TotalSupply(v)

\* The value of a share never falls, whoever calls what in which order and
\* however the amounts round, except by the last share of a credit that a
\* settlement rounds up, and in the liquidation of an account that is left
\* with nothing (the protocol loss of settleLiquidation).
SharePriceHolds ==
    [][ \/ PriceHolds(vault, vault', 0)
        \/ (Dispatch \/ DispatchFrom) /\ PriceHolds(vault, vault', 1)
        \/ /\ InSession /\ session.kind = "liquidate" /\ ~ InSession'
           /\ vault'.bal[session.account] = 0 \/ session.caller = session.account ]_vars

\* Users' withdrawals leave the last asset and, at the price they found,
\* every credited asset behind.
CreditsStayBacked ==
    [][ vault'.deposited < vault.deposited /\ UserCall =>
          /\ vault'.deposited >= 1
          /\ ConvertToAssets(vault, vault.credited) <= vault'.deposited - 1 ]_vars

\* The shares a liquidator receives are worth no more than the bonus, at
\* the price after the loss it causes has been spread over every holder.
BonusIsWorthAtMost ==
    [][ \A bonus \in Bonuses : FinishLiquidation(bonus) /\ bonus >= 0
          /\ session.caller # session.account =>
          LET gain == vault'.bal[session.caller] - vault.bal[session.caller]
          IN  gain * TotalAssets(vault') <= bonus * TotalSupply(vault') ]_vars

\* Where it is this token's shortage that the caller covers (token0's, or
\* token1's alone), what getRefundAmounts asks is enough for the delegated
\* shares to be taken back, and leaves the account no more than an asset's
\* worth and two shares.  Nothing of the kind holds for the token charged
\* in exchange, which may be short as well: revoke then fails.
RefundCoversRevoke ==
    HasAssets(vault) /\ HasSupply(vault) =>
      \A u \in Users, c \in Users, fee \in Fees :
        LET assets == RefundAmount(vault, u, fee)
            left   == Refunded(vault, u, c, assets).bal[u] - Phantom
        IN  (Shortage(vault, u, fee) > 0 /\ u # c
             /\ ~ RefundReverts(vault, u, c, assets)) =>
              /\ 0 <= left
              /\ (left - 2) * TotalAssets(vault) < TotalSupply(vault)

\* Putting assets in and taking them out again never gains an asset, by
\* either pair of entry points.
RoundTripNeverGains ==
    HasAssets(vault) /\ HasSupply(vault) =>
      \A u \in Users, x \in Amounts :
        LET s == ConvertToShares(vault, x)
            v == Deposited(vault, u, x, s)
            a == PreviewMint(vault, x)
            w == Deposited(vault, u, a, x)
        IN  /\ ConvertToAssets(v, s) <= x
            /\ PreviewWithdraw(w, a) >= x

=============================================================================
