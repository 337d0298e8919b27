---------------------------- MODULE ChunkPremium ----------------------------
(***************************************************************************)
(* The premium of one liquidity chunk, in one of its two tokens.           *)
(*                                                                         *)
(* Sellers (Shorts) add liquidity to the AMM and buyers (Longs) take it    *)
(* out again.  SemiFungiblePositionManagerV4.sol collects the AMM's fees   *)
(* and turns them into two accumulators of premium per unit of liquidity:  *)
(* gross, what a seller earns, and owed, what a buyer owes.  PanopticPool  *)
(* .sol keeps the tokens that really came in (settled) and shares them out *)
(* among the sellers in proportion to what each is owed, measured against  *)
(* the total that (accumulator - grossLast) * liquidity stands for.        *)
(*                                                                         *)
(* A position here is one leg of a tokenId in this chunk.  Legs in other   *)
(* chunks, the other token, the swap and the solvency checks do not touch  *)
(* this state.                                                             *)
(***************************************************************************)
EXTENDS Integers, FiniteSets, Functions

CONSTANTS
    Shorts, Longs,  \* the legs that sell and that buy liquidity of the chunk
    Sizes,          \* the liquidity each leg may have
    Fees,           \* amounts the AMM may earn between two transactions
    Q64,            \* 2^64, the scale of the accumulators
    Max128,         \* type(uint128).max
    Vegoid,         \* what sets the premium a buyer pays over the base
    MaxSpread,      \* riskParameters.maxSpread(), in DECIMALS
    DECIMALS,       \* 10_000
    Dust,           \* tolerance: tokens that the roundings of a step may cost
    MaxFees,        \* bound: fees waiting in the AMM
    MaxGross        \* bound: how far the accumulators are run

ASSUME ChunkAssumption ==
    /\ IsFiniteSet(Shorts) /\ IsFiniteSet(Longs)
    /\ Shorts \cap Longs = {}
    /\ Sizes \in [Shorts \cup Longs -> SUBSET (Nat \ {0})]
    /\ Fees \subseteq Nat
    /\ Q64 \in Nat \ {0} /\ Max128 \in Nat \ {0} /\ Vegoid \in Nat \ {0}
    /\ MaxSpread \in Nat /\ DECIMALS \in Nat
    /\ Dust \in Nat /\ MaxFees \in Nat /\ MaxGross \in Nat

VARIABLES
    net,          \* s_accountLiquidity, right slot: liquidity in the AMM
    removed,      \* s_accountLiquidity, left slot: liquidity bought
    owed,         \* s_accountPremiumOwed
    gross,        \* s_accountPremiumGross
    fees,         \* fees in the AMM that were not collected yet
    settled,      \* s_settledTokens
    grossLast,    \* s_grossPremiumLast
    liquidity,    \* the liquidity of each leg, 0 when it is closed
    last,         \* s_options: the accumulator each leg last saw
    liquidating,  \* a liquidation is between its burns and settleAmounts
    due           \* long premium that liquidation burned, not yet settled

pool == <<net, removed>>
premia == <<owed, gross>>
legs == <<liquidity, last>>
rescue == <<liquidating, due>>
vars == <<net, removed, owed, gross, fees, settled, grossLast, liquidity,
          last, liquidating, due>>

Legs == Shorts \cup Longs
Open(p) == liquidity[p] # 0
Total == net + removed

Least(a, b) == IF a <= b THEN a ELSE b
Positive(a) == IF a >= 0 THEN a ELSE 0
Capped(a) == Least(a, Max128)
ToUint128(a) == a % (Max128 + 1)
Fits(a) == a \in 0..Max128

-----------------------------------------------------------------------------
(* The accumulators of the SFPM.                                           *)

(* Mutant: sellers earn as if nothing of theirs had been bought.           *)
DeltasGross(n, r, collected) ==
    LET t == n + r
        base == (collected * t * Q64) \div (n * n)
    IN  [owed |-> Capped((base * (n + r \div Vegoid)) \div t),
         gross |-> Capped(base)]

(* What collected adds, per unit of liquidity, to the two accumulators of  *)
(* a chunk with n in the AMM and r bought.                                 *)
PremiaDeltas(n, r, collected) ==
    LET t == n + r
        base == (collected * t * Q64) \div (n * n)
        paid == n + r \div Vegoid
        earned == t * t - t * r + (r * r) \div Vegoid
    IN  [owed |-> Capped((base * paid) \div t),
         gross |-> Capped((base * earned) \div (t * t))]

(* Mutant: the sums are not capped.                                        *)
AddUncapped(d) == [owed |-> owed + d.owed, gross |-> gross + d.gross]

(* Mutant: they wrap around as unchecked additions do.                     *)
AddWrapping(d) == [owed |-> ToUint128(owed + d.owed),
                   gross |-> ToUint128(gross + d.gross)]

(* Both accumulators stop when either would overflow.                      *)
AddCapped(d) ==
    IF owed + d.owed < Max128 /\ gross + d.gross < Max128
    THEN [owed |-> owed + d.owed, gross |-> gross + d.gross]
    ELSE [owed |-> owed, gross |-> gross]

(* The accumulators with the fees the AMM holds now.                       *)
AccountPremium ==
    IF net # 0
    THEN AddCapped(PremiaDeltas(net, removed, fees))
    ELSE [owed |-> owed, gross |-> gross]

(* Mutant: what a buyer returns stays counted as removed.                  *)
CreateLegKeepsRemoved(added, bought) ==
    /\ Fits(net + added)
    /\ net' = net + added
    /\ removed' = removed + Positive(bought)
    /\ owed' = AccountPremium.owed
    /\ gross' = AccountPremium.gross
    /\ fees' = 0

(* Any change of the liquidity collects the fees of what was there before. *)
CreateLegInAMM(added, bought) ==
    /\ Fits(net + added) /\ Fits(removed + bought)
    /\ net' = net + added
    /\ removed' = removed + bought
    /\ owed' = AccountPremium.owed
    /\ gross' = AccountPremium.gross
    /\ fees' = 0

-----------------------------------------------------------------------------
(* What the pool computes from them.                                       *)

(* _checkLiquiditySpread on n in the AMM and r bought.                     *)
SpreadAllowed(n, r) ==
    \/ n = 0 /\ r = 0
    \/ n # 0 /\ (r * DECIMALS) \div n <= MaxSpread

(* The premium of leg p since it last saw the accumulator, which is c now. *)
Premium(p, c) == ((c - last[p]) * liquidity[p]) \div Q64

(* Mutant: the first to come is paid in full.                              *)
AvailableInFull(total, tokens, premiumOwed, c) == premiumOwed

(* What a seller to whom premiumOwed is owed can take out of tokens.  A    *)
(* total of zero is divided by as type(uint256).max and a negative one     *)
(* wraps around to almost 2^192: neither leaves anything to speak of.      *)
AvailablePremium(total, tokens, premiumOwed, c) ==
    LET accumulated == ((c - grossLast) * total) \div Q64
    IN  IF accumulated <= 0
        THEN 0
        ELSE Least((premiumOwed * tokens) \div accumulated, premiumOwed)

(* Mutants: grossLast is left alone, or its two weights are exchanged.     *)
LastNotAdjusted(t, r, c) == grossLast
LastWeightsSwapped(t, r, c) == (c * t + grossLast * r) \div (t + r)

(* grossLast after r of new liquidity, t before: a seller that comes in is *)
(* owed nothing and the others what they were.                             *)
LastAfterMint(t, r, c) == (c * r + grossLast * t) \div (t + r)

(* grossLast after premium was paid for r of t, with left remaining.       *)
LastAfterSettled(t, r, left, c, premium) ==
    IF left = 0
    THEN c
    ELSE ToUint128(Positive(grossLast * t - c * r + premium * Q64) \div left)

-----------------------------------------------------------------------------
Init ==
    /\ net = 0 /\ removed = 0
    /\ owed = 0 /\ gross = 0
    /\ fees = 0
    /\ settled = 0
    /\ grossLast = 0
    /\ liquidity = [p \in Legs |-> 0]
    /\ last = [p \in Legs |-> 0]
    /\ liquidating = FALSE
    /\ due = 0

(* Swaps pay fees to the liquidity that is in the AMM.                     *)
Accrue(f) ==
    /\ net # 0
    /\ fees + f <= MaxFees
    /\ fees' = fees + f
    /\ LET c == PremiaDeltas(net, removed, fees + f)
       IN  owed + c.owed <= MaxGross /\ gross + c.gross <= MaxGross
    /\ UNCHANGED <<net, removed, owed, gross, settled, grossLast, liquidity,
                   last, liquidating, due>>

(* dispatch on a new tokenId: _mintOptions, _updateSettlementPostMint.     *)
MintShort(p, r) ==
    /\ ~liquidating /\ ~Open(p)
    /\ CreateLegInAMM(r, 0)
    /\ SpreadAllowed(net', removed')
    /\ settled' = settled + fees /\ Fits(settled')
    /\ grossLast' = LastAfterMint(Total, r, gross')
    /\ liquidity' = [liquidity EXCEPT ![p] = r]
    /\ last' = [last EXCEPT ![p] = gross']
    /\ UNCHANGED rescue

MintLong(p, r) ==
    /\ ~liquidating /\ ~Open(p)
    /\ CreateLegInAMM(-r, r)
    /\ SpreadAllowed(net', removed')
    /\ settled' = settled + fees /\ Fits(settled')
    /\ liquidity' = [liquidity EXCEPT ![p] = r]
    /\ last' = [last EXCEPT ![p] = owed']
    /\ UNCHANGED <<grossLast, rescue>>

(* _burnOptions on a short leg: a dispatch of its owner, a force exercise  *)
(* or a liquidation, which all pay the seller what is available.           *)
BurnShort(p) ==
    LET r == liquidity[p]
        premium == Premium(p, gross')
        available == AvailablePremium(Total, settled + fees,
                                      ToUint128(premium), gross')
    IN  /\ Open(p)
        /\ CreateLegInAMM(-r, 0)
        /\ SpreadAllowed(net', removed')
        /\ settled' = settled + fees - available /\ Fits(settled')
        /\ grossLast' = LastAfterSettled(Total, r, Total - r, gross', premium)
        /\ liquidity' = [liquidity EXCEPT ![p] = 0]
        /\ last' = [last EXCEPT ![p] = 0]
        /\ UNCHANGED rescue

(* _burnOptions on a long leg with COMMIT_LONG_SETTLED.  The premium is    *)
(* subtracted as a signed word, which does not revert below zero.          *)
BurnLong(p) ==
    LET premium == Premium(p, owed')
    IN  /\ ~liquidating /\ Open(p)
        /\ CreateLegInAMM(liquidity[p], -liquidity[p])
        /\ Fits(settled + fees) /\ settled + fees + premium <= Max128
        /\ settled' = ToUint128(settled + fees + premium)
        /\ liquidity' = [liquidity EXCEPT ![p] = 0]
        /\ last' = [last EXCEPT ![p] = 0]
        /\ UNCHANGED <<grossLast, rescue>>

(* The same in a liquidation, with DONOT_COMMIT_LONG_SETTLED.              *)
LiquidateLong(p) ==
    /\ Open(p)
    /\ CreateLegInAMM(liquidity[p], -liquidity[p])
    /\ settled' = settled + fees /\ Fits(settled')
    /\ liquidating' = TRUE
    /\ due' = due + Premium(p, owed')
    /\ liquidity' = [liquidity EXCEPT ![p] = 0]
    /\ last' = [last EXCEPT ![p] = 0]
    /\ UNCHANGED grossLast

(* InteractionHelper.settleAmounts: what the haircut leaves is settled.    *)
SettleAmounts(haircut) ==
    /\ liquidating
    /\ settled' = settled + Positive(due - haircut) /\ Fits(settled')
    /\ liquidating' = FALSE
    /\ due' = 0
    /\ UNCHANGED <<pool, premia, fees, grossLast, legs>>

(* _settleOptions on a long leg, by its owner or by anyone in dispatchFrom *)
(* : the buyer pays and stays.  What rounds to nothing here is forgiven if *)
(* the leg pays in its other token; otherwise nothing changes at all.      *)
SettleLong(p) ==
    LET c == AccountPremium.owed
        premium == Premium(p, c)
    IN  /\ ~liquidating /\ Open(p)
        /\ settled + premium <= Max128
        /\ settled' = ToUint128(settled + premium)
        /\ last' = [last EXCEPT ![p] = c]
        /\ UNCHANGED <<pool, premia, fees, grossLast, liquidity, rescue>>

(* _settleOptions on a short leg, by its owner: the seller is paid and     *)
(* stays.  By anyone else it changes nothing.  A leg that got nothing here *)
(* is up to date all the same if it was paid in its other token.           *)
SettleShort(p) ==
    LET c == AccountPremium.gross
        premium == Premium(p, c)
        available == AvailablePremium(Total, settled, ToUint128(premium), c)
    IN  /\ ~liquidating /\ Open(p)
        /\ SpreadAllowed(net, removed)
        /\ settled' = settled - available /\ Fits(settled')
        /\ grossLast' = LastAfterSettled(Total, liquidity[p], Total, c, premium)
        /\ \/ last' = [last EXCEPT ![p] = c]
           \/ available = 0 /\ UNCHANGED last
        /\ UNCHANGED <<pool, premia, fees, liquidity, rescue>>

Next ==
    \/ \E f \in Fees : Accrue(f)
    \/ \E p \in Shorts : \E r \in Sizes[p] : MintShort(p, r)
    \/ \E p \in Longs : \E r \in Sizes[p] : MintLong(p, r)
    \/ \E p \in Shorts : BurnShort(p)
    \/ \E p \in Longs : BurnLong(p)
    \/ \E p \in Longs : LiquidateLong(p)
    \/ \E haircut \in 0..Positive(due) : SettleAmounts(haircut)
    \/ \E p \in Longs : SettleLong(p)
    \/ \E p \in Shorts : SettleShort(p)

Spec == Init /\ [][Next]_vars

-----------------------------------------------------------------------------
(* Properties.                                                             *)

TypeOK ==
    /\ net \in 0..Max128 /\ removed \in 0..Max128
    /\ owed \in 0..Max128 /\ gross \in 0..Max128
    /\ fees \in Nat /\ settled \in 0..Max128 /\ grossLast \in 0..Max128
    /\ liquidity \in [Legs -> Nat]
    /\ \A p \in Legs : liquidity[p] \in {0} \cup Sizes[p]
    /\ last \in [Legs -> 0..Max128]
    /\ liquidating \in BOOLEAN /\ due \in Int

(* Between transactions the SFPM's liquidity of the chunk is the sum of    *)
(* the legs the pool knows, so that what a buyer took out can come back.   *)
LiquidityAddsUp ==
    /\ Total = SumFunctionOnSet(liquidity, Shorts)
    /\ removed = SumFunctionOnSet(liquidity, Longs)

(* The total the pool divides by is at least what all sellers together are *)
(* owed, whatever the accumulator: grossLast is at most the average of     *)
(* what the open short legs last saw.  LastAfterMint and LastAfterSettled  *)
(* are algebra with two roundings, repeated without end.                   *)
ClaimsWithinTotal ==
    grossLast * Total
        <= SumFunctionOnSet([p \in Shorts |-> liquidity[p] * last[p]], Shorts)

(* What the SFPM stored is never taken back: near the limit both           *)
(* accumulators stop, and neither wraps.                                   *)
AccumulatorsNeverFall == [][owed' >= owed /\ gross' >= gross]_vars

(* No leg was settled up to an accumulator that fees, not collected yet,   *)
(* have since taken past its limit: addCapped then falls back on what is   *)
(* stored, and the leg is ahead of it.                                     *)
InStep ==
    /\ \A p \in Shorts : last[p] <= AccountPremium.gross
    /\ \A p \in Longs : last[p] <= AccountPremium.owed

(* What leg p would be paid if it were closed now.                         *)
Payout(p) ==
    LET c == AccountPremium.gross
    IN  AvailablePremium(Total, settled + fees, ToUint128(Premium(p, c)), c)

(* A seller can always close: what _getAvailablePremium grants is there,   *)
(* and the subtraction from settledTokens does not revert.  A leg that is  *)
(* ahead of the accumulator is owed a negative premium, which wraps.       *)
ClosePaidFromSettled ==
    InStep => \A p \in Shorts : Open(p) => Payout(p) <= settled + fees

(* Pro rata, whoever comes first: when a leg is minted, burned, liquidated *)
(* or settled by a buyer, what any other open short leg would be paid does *)
(* not fall by more than the rounding.                                     *)
OthersKeepTheirShare ==
    [][ fees' <= fees /\ ~(\E p \in Shorts : SettleShort(p))
             /\ InStep
          => \A p \in Shorts :
               Open(p) /\ Open(p)' => Payout(p)' >= Payout(p) - Dust ]_vars

(* What the chunk holds and its buyers owe, less what its sellers are      *)
(* owed, in units of Q64.                                                  *)
Backing ==
    LET now == AccountPremium
    IN  (settled + due + fees) * Q64
        + SumFunctionOnSet([p \in Longs |-> (now.owed - last[p]) * liquidity[p]], Longs)
        - SumFunctionOnSet([p \in Shorts |-> (now.gross - last[p]) * liquidity[p]], Shorts)

(* Sellers earn what buyers owe and the AMM pays, and no more: no step but *)
(* a haircut takes from the backing of their claims, up to rounding.  This *)
(* ties the two numerators of _getPremiaDeltas to every settlement.        *)
BackingNeverShrinks ==
    [][ InStep =>
          Backing' >= Backing - Q64 * Dust
                      - (IF liquidating /\ ~liquidating' THEN Q64 * due ELSE 0) ]_vars

(* PanopticPool.sol, above the update of grossPremiumLast: after it,       *)
(* (grossPremium - adjusted) * totalLiquidityPostBurn / 2**64 equals       *)
(* (grossPremium - grossPremiumLast) * totalLiquidityBeforeBurn / 2**64    *)
(* - premiumOwedToPosition.  Here for a seller that is paid and stays.     *)
SettleLeavesRemainder ==
    [][ \A p \in Shorts :
          SettleShort(p) /\ settled' < settled =>
            LET c == AccountPremium.gross
            IN  ((c - grossLast') * Total') \div Q64
                  <= ((c - grossLast) * Total) \div Q64 - Premium(p, c) + Dust ]_vars
=============================================================================
