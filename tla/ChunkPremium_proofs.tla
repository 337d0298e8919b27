------------------------ MODULE ChunkPremium_proofs ------------------------
(* Proofs about ChunkPremium, for every value of its constants.            *)
EXTENDS ChunkPremium, SumTheorems, TLAPS

-----------------------------------------------------------------------------
(* Arithmetic.                                                             *)

LEMMA MulNat == ASSUME NEW a \in Nat, NEW b \in Nat PROVE a * b \in Nat
  BY SMT

LEMMA DivNat == ASSUME NEW a \in Nat, NEW c \in Nat, c > 0 PROVE a \div c \in Nat
  BY SMT

LEMMA DivInt == ASSUME NEW a \in Int, NEW c \in Nat, c > 0 PROVE a \div c \in Int
  BY SMT

LEMMA DivTimes ==
  ASSUME NEW a \in Nat, NEW c \in Nat, c > 0
  PROVE  (a \div c) * c <= a
  BY SMT

LEMMA ModNat == ASSUME NEW a \in Int, NEW c \in Nat, c > 0 PROVE a % c \in 0..(c - 1)
  BY SMT

LEMMA CancelFactor ==
  ASSUME NEW a \in Int, NEW b \in Int, NEW c \in Nat, c > 0, a * c <= b * c
  PROVE  a <= b
<1>1. SUFFICES ASSUME b + 1 <= a PROVE FALSE OBVIOUS
<1>2. (b + 1) * c <= a * c BY <1>1, SMT
<1>3. (b + 1) * c = b * c + c BY SMT
<1>4. a * c \in Int /\ b * c \in Int BY SMT
<1>5. QED BY <1>2, <1>3, <1>4

LEMMA AddNat == ASSUME NEW a \in Nat, NEW b \in Nat PROVE a + b \in Nat
  OBVIOUS

LEMMA AddZero == ASSUME NEW a \in Int PROVE a + 0 = a
  OBVIOUS

LEMMA DivMonotone ==
  ASSUME NEW a \in Int, NEW b \in Int, NEW q \in Nat, q > 0, a <= b
  PROVE  a \div q <= b \div q
<1>1. a \div q \in Int /\ b \div q \in Int /\ (a \div q) * q <= a /\ b < (b \div q + 1) * q
  BY SMT
<1>2. SUFFICES ASSUME b \div q + 1 <= a \div q PROVE FALSE
  BY <1>1
<1>3. (b \div q + 1) * q <= (a \div q) * q
  BY <1>1, <1>2, SMT
<1>4. (b \div q + 1) * q \in Int /\ (a \div q) * q \in Int BY <1>1, SMT
<1>5. QED BY <1>1, <1>3, <1>4

LEMMA MulMonotone ==
  ASSUME NEW a \in Nat, NEW b \in Nat, NEW k \in Nat, a <= b
  PROVE  a * k <= b * k /\ a * k \in Nat /\ b * k \in Nat
<1>1. a * k <= b * k BY SMT
<1>2. QED BY <1>1, MulNat

\* A square less a part of it.
LEMMA SquareLess ==
  ASSUME NEW n \in Nat, NEW r \in Nat
  PROVE  (n + r) * (n + r) - (n + r) * r \in Nat
<1>1. (n + r) * (n + r) - (n + r) * r = (n + r) * n BY SMT
<1>2. (n + r) * n \in Nat BY MulNat
<1>3. QED BY <1>1, <1>2

LEMMA CappedFits == ASSUME NEW a \in Nat PROVE Capped(a) \in 0..Max128
  BY ChunkAssumption DEF Capped, Least

LEMMA ToUint128Fits == ASSUME NEW a \in Int PROVE ToUint128(a) \in 0..Max128
<1>1. Max128 + 1 \in Nat /\ Max128 + 1 > 0 BY ChunkAssumption
<1>2. a % (Max128 + 1) \in 0..((Max128 + 1) - 1) BY <1>1, ModNat
<1>3. QED BY <1>2, ChunkAssumption DEF ToUint128

-----------------------------------------------------------------------------
(* What the operators return.                                              *)

LEMMA PremiaDeltasFit ==
  ASSUME NEW n \in Nat, n # 0, NEW r \in Nat, NEW f \in Nat
  PROVE  /\ PremiaDeltas(n, r, f).owed \in 0..Max128
         /\ PremiaDeltas(n, r, f).gross \in 0..Max128
<1> DEFINE t == n + r
           base == (f * t * Q64) \div (n * n)
           paid == n + r \div Vegoid
           earned == t * t - t * r + (r * r) \div Vegoid
<1>1. t \in Nat /\ t > 0 OBVIOUS
<1>2. Q64 \in Nat /\ Vegoid \in Nat /\ Vegoid > 0 BY ChunkAssumption
<1>3. n * n \in Nat /\ n * n > 0 /\ t * t \in Nat /\ t * t > 0
  <2>1. ASSUME NEW a \in Nat, a > 0 PROVE a * a \in Nat /\ a * a > 0 BY <2>1, SMT
  <2>2. QED BY <1>1, <2>1
<1>4. base \in Nat
  <2>1. f * t \in Nat BY <1>1, MulNat
  <2>2. f * t * Q64 \in Nat BY <1>2, <2>1, MulNat
  <2>3. QED BY <1>3, <2>2, DivNat
<1>5. paid \in Nat BY <1>2, DivNat
<1>6. earned \in Nat
  <2>1. t * t - t * r \in Nat BY SquareLess
  <2>2. r * r \in Nat BY MulNat
  <2>3. (r * r) \div Vegoid \in Nat BY <1>2, <2>2, DivNat
  <2>4. QED BY <2>1, <2>3
<1> HIDE DEF t, base, paid, earned
<1>7. (base * paid) \div t \in Nat BY <1>1, <1>4, <1>5, MulNat, DivNat
<1>8. (base * earned) \div (t * t) \in Nat BY <1>3, <1>4, <1>6, MulNat, DivNat
<1>9. /\ PremiaDeltas(n, r, f).owed = Capped((base * paid) \div t)
      /\ PremiaDeltas(n, r, f).gross = Capped((base * earned) \div (t * t))
  BY DEF PremiaDeltas, t, base, paid, earned
<1>10. QED BY <1>7, <1>8, <1>9, CappedFits

\* The accumulators of now are words no smaller than the stored ones.
LEMMA AccountPremiumFits ==
  ASSUME TypeOK
  PROVE  /\ AccountPremium.owed \in 0..Max128 /\ AccountPremium.owed >= owed
         /\ AccountPremium.gross \in 0..Max128 /\ AccountPremium.gross >= gross
<1> USE DEF TypeOK
<1>1. CASE net = 0 BY <1>1 DEF AccountPremium
<1>2. CASE net # 0
  <2> DEFINE d == PremiaDeltas(net, removed, fees)
  <2>1. d.owed \in 0..Max128 /\ d.gross \in 0..Max128
    BY <1>2, PremiaDeltasFit, ChunkAssumption
  <2> HIDE DEF d
  <2>2. AccountPremium = AddCapped(d) BY <1>2 DEF AccountPremium, d
  <2>3. QED BY <2>1, <2>2, ChunkAssumption DEF AddCapped
<1>3. QED BY <1>1, <1>2

LEMMA PremiumInt ==
  ASSUME TypeOK, NEW p \in Legs, NEW c \in Int
  PROVE  Premium(p, c) \in Int
<1>1. last[p] \in Int /\ liquidity[p] \in Int BY DEF TypeOK
<1>2. c - last[p] \in Int BY <1>1
<1>3. (c - last[p]) * liquidity[p] \in Int BY <1>1, <1>2, SMT
<1>4. QED BY <1>3, DivInt, ChunkAssumption DEF Premium

\* The new seller of a mint is owed nothing, and grossLast is an average.
LEMMA MintAverages ==
  ASSUME NEW t \in Nat, NEW r \in Nat, r > 0, NEW c \in 0..Max128,
         grossLast \in 0..Max128
  PROVE  /\ LastAfterMint(t, r, c) \in 0..Max128
         /\ LastAfterMint(t, r, c) * (t + r) <= c * r + grossLast * t
<1> DEFINE n == c * r + grossLast * t
           q == n \div (t + r)
<1>1. Max128 \in Nat BY ChunkAssumption
<1>2. c * r \in Nat /\ grossLast * t \in Nat BY MulNat
<1>3. n \in Nat BY <1>2
<1>4. q \in Nat BY <1>3, DivNat
<1>5. q * (t + r) <= n
  <2> HIDE DEF n
  <2>1. QED BY <1>3, DivTimes
<1>6. n <= Max128 * (t + r)
  <2>1. c * r <= Max128 * r BY <1>1, SMT
  <2>2. grossLast * t <= Max128 * t BY <1>1, SMT
  <2>3. Max128 * (t + r) = Max128 * t + Max128 * r BY <1>1, SMT
  <2>4. Max128 * t \in Nat /\ Max128 * r \in Nat BY <1>1, MulNat
  <2>5. QED BY <1>2, <2>1, <2>2, <2>3, <2>4
<1> HIDE DEF n, q
<1>7. q <= Max128
  <2>1. q * (t + r) \in Int /\ Max128 * (t + r) \in Int BY <1>1, <1>4, SMT
  <2>2. q * (t + r) <= Max128 * (t + r) BY <1>3, <1>5, <1>6, <2>1
  <2>3. QED BY <1>1, <1>4, <2>2, CancelFactor
<1>8. QED BY <1>1, <1>4, <1>5, <1>7 DEF LastAfterMint, n, q

LEMMA SettledFits ==
  ASSUME NEW t \in Int, NEW r \in Int, NEW left \in Nat, NEW c \in 0..Max128,
         NEW premium \in Int, grossLast \in 0..Max128
  PROVE  LastAfterSettled(t, r, left, c, premium) \in 0..Max128
<1>1. CASE left = 0 BY <1>1 DEF LastAfterSettled
<1>2. CASE left # 0
  <2> DEFINE n == grossLast * t - c * r + premium * Q64
  <2>1. grossLast * t \in Int /\ c * r \in Int /\ premium * Q64 \in Int
    BY ChunkAssumption, SMT
  <2>2. n \in Int BY <2>1
  <2> HIDE DEF n
  <2>3. Positive(n) \in Nat BY <2>2 DEF Positive
  <2>4. Positive(n) \div left \in Int BY <1>2, <2>3, DivNat
  <2>5. ToUint128(Positive(n) \div left) \in 0..Max128 BY <2>4, ToUint128Fits
  <2>6. QED BY <1>2, <2>5 DEF LastAfterSettled, n
<1>3. QED BY <1>1, <1>2

\* A seller that is owed no more than the total finds its share there.
LEMMA ShareIsThere ==
  ASSUME NEW total \in Nat, NEW tokens \in Nat, NEW premiumOwed \in Nat,
         NEW c \in Nat, grossLast \in Nat,
         ((c - grossLast) * total) \div Q64 \in Nat,
         premiumOwed <= ((c - grossLast) * total) \div Q64
  PROVE  AvailablePremium(total, tokens, premiumOwed, c) <= tokens
<1> DEFINE a == ((c - grossLast) * total) \div Q64
           q == (premiumOwed * tokens) \div a
<1>1. CASE a = 0 BY <1>1 DEF AvailablePremium
<1>2. CASE a # 0
  <2>1. a \in Nat /\ premiumOwed <= a OBVIOUS
  <2> HIDE DEF a
  <2>2. premiumOwed * tokens \in Nat BY MulNat
  <2>3. q \in Nat BY <1>2, <2>1, <2>2, DivNat
  <2>4. q * a <= premiumOwed * tokens BY <1>2, <2>1, <2>2, DivTimes
  <2> HIDE DEF q
  <2>5. premiumOwed * tokens <= a * tokens BY <2>1, SMT
  <2>6. a * tokens = tokens * a BY <2>1, SMT
  <2>7. q * a \in Int /\ tokens * a \in Int BY <2>1, <2>3, SMT
  <2>8. q * a <= tokens * a BY <2>2, <2>4, <2>5, <2>6, <2>7
  <2>9. q <= tokens BY <1>2, <2>1, <2>3, <2>8, CancelFactor
  <2>10. QED BY <1>2, <2>3, <2>9 DEF AvailablePremium, Least, a, q
<1>3. QED BY <1>1, <1>2

-----------------------------------------------------------------------------
(* Every action keeps the types.                                           *)

\* What an action that changes the liquidity in the AMM does to the SFPM.
LEMMA CollectedFits ==
  ASSUME TypeOK, NEW a \in Int, NEW b \in Int, CreateLegInAMM(a, b)
  PROVE  /\ net' \in 0..Max128 /\ removed' \in 0..Max128
         /\ owed' \in 0..Max128 /\ owed' >= owed
         /\ gross' \in 0..Max128 /\ gross' >= gross
         /\ fees' \in Nat
  BY AccountPremiumFits DEF CreateLegInAMM, Fits

\* A leg is opened, closed or settled at a liquidity it may have.
LEMMA LegFits ==
  ASSUME TypeOK, NEW p \in Legs, NEW r \in {0} \cup Sizes[p], NEW c \in 0..Max128,
         liquidity' = [liquidity EXCEPT ![p] = r],
         last' = [last EXCEPT ![p] = c]
  PROVE  /\ liquidity' \in [Legs -> Nat]
         /\ \A q \in Legs : liquidity'[q] \in {0} \cup Sizes[q]
         /\ last' \in [Legs -> 0..Max128]
<1>1. r \in Nat BY ChunkAssumption DEF Legs
<1>2. liquidity' \in [Legs -> Nat] BY <1>1 DEF TypeOK
<1>3. \A q \in Legs : liquidity'[q] \in {0} \cup Sizes[q] BY DEF TypeOK
<1>4. last' \in [Legs -> 0..Max128] BY DEF TypeOK
<1>5. QED BY <1>2, <1>3, <1>4

LEMMA TotalNat == ASSUME TypeOK PROVE Total \in Nat
  BY ChunkAssumption DEF TypeOK, Total

LEMMA SizeNat == ASSUME NEW p \in Legs, NEW r \in Sizes[p] PROVE r \in Nat /\ r > 0
  BY ChunkAssumption DEF Legs

LEMMA MintShortKeeps ==
  ASSUME TypeOK, NEW p \in Shorts, NEW r \in Sizes[p], MintShort(p, r)
  PROVE  TypeOK' /\ owed' >= owed /\ gross' >= gross
<1>1. p \in Legs BY DEF Legs
<1>2. r \in Nat /\ r > 0 BY <1>1, SizeNat
<1>3. CreateLegInAMM(r, 0) BY DEF MintShort
<1>4. /\ net' \in 0..Max128 /\ removed' \in 0..Max128
      /\ owed' \in 0..Max128 /\ owed' >= owed
      /\ gross' \in 0..Max128 /\ gross' >= gross
      /\ fees' \in Nat
  BY <1>2, <1>3, CollectedFits
<1>5. grossLast' \in 0..Max128
  <2>1. grossLast \in 0..Max128 /\ Total \in Nat BY TotalNat DEF TypeOK
  <2>2. LastAfterMint(Total, r, gross') \in 0..Max128
    BY <1>2, <1>4, <2>1, MintAverages
  <2>3. QED BY <2>2 DEF MintShort
<1>6. /\ liquidity' \in [Legs -> Nat]
      /\ \A q \in Legs : liquidity'[q] \in {0} \cup Sizes[q]
      /\ last' \in [Legs -> 0..Max128]
  BY <1>1, <1>4, LegFits DEF MintShort
<1>7. settled' \in 0..Max128 BY DEF MintShort, Fits
<1>8. liquidating' \in BOOLEAN /\ due' \in Int BY DEF MintShort, rescue, TypeOK
<1>9. QED BY <1>4, <1>5, <1>6, <1>7, <1>8 DEF TypeOK

LEMMA MintLongKeeps ==
  ASSUME TypeOK, NEW p \in Longs, NEW r \in Sizes[p], MintLong(p, r)
  PROVE  TypeOK' /\ owed' >= owed /\ gross' >= gross
<1>1. p \in Legs BY DEF Legs
<1>2. r \in Int /\ -r \in Int BY <1>1, SizeNat
<1>3. CreateLegInAMM(-r, r) BY DEF MintLong
<1>4. /\ net' \in 0..Max128 /\ removed' \in 0..Max128
      /\ owed' \in 0..Max128 /\ owed' >= owed
      /\ gross' \in 0..Max128 /\ gross' >= gross
      /\ fees' \in Nat
  BY <1>2, <1>3, CollectedFits
<1>5. /\ liquidity' \in [Legs -> Nat]
      /\ \A q \in Legs : liquidity'[q] \in {0} \cup Sizes[q]
      /\ last' \in [Legs -> 0..Max128]
  BY <1>1, <1>4, LegFits DEF MintLong
<1>6. settled' \in 0..Max128 BY DEF MintLong, Fits
<1>7. grossLast' \in 0..Max128 /\ liquidating' \in BOOLEAN /\ due' \in Int
  BY DEF MintLong, rescue, TypeOK
<1>8. QED BY <1>4, <1>5, <1>6, <1>7 DEF TypeOK

LEMMA BurnShortKeeps ==
  ASSUME TypeOK, NEW p \in Shorts, BurnShort(p)
  PROVE  TypeOK' /\ owed' >= owed /\ gross' >= gross
<1> DEFINE r == liquidity[p]
<1>1. p \in Legs /\ r \in Int /\ -r \in Int BY DEF Legs, TypeOK
<1>2. CreateLegInAMM(-r, 0) BY DEF BurnShort
<1>3. /\ net' \in 0..Max128 /\ removed' \in 0..Max128
      /\ owed' \in 0..Max128 /\ owed' >= owed
      /\ gross' \in 0..Max128 /\ gross' >= gross
      /\ fees' \in Nat
  BY <1>1, <1>2, CollectedFits
<1>4. grossLast' \in 0..Max128
  <2>1. Premium(p, gross') \in Int BY <1>1, <1>3, PremiumInt
  <2>2. Total - r \in Nat
    <3>1. net \in Int /\ removed \in Nat /\ Max128 \in Nat
      BY ChunkAssumption DEF TypeOK
    <3>2. net + (-r) \in 0..Max128 BY <1>2 DEF CreateLegInAMM, Fits
    <3>3. QED BY <1>1, <3>1, <3>2 DEF Total
  <2>3. grossLast \in 0..Max128 /\ Total \in Int BY TotalNat DEF TypeOK
  <2>4. LastAfterSettled(Total, r, Total - r, gross', Premium(p, gross')) \in 0..Max128
    BY <1>1, <1>3, <2>1, <2>2, <2>3, SettledFits
  <2>5. QED BY <2>4 DEF BurnShort
<1>5. /\ liquidity' \in [Legs -> Nat]
      /\ \A q \in Legs : liquidity'[q] \in {0} \cup Sizes[q]
      /\ last' \in [Legs -> 0..Max128]
  <2>1. 0 \in 0..Max128 BY ChunkAssumption
  <2>2. QED BY <1>1, <2>1, LegFits DEF BurnShort
<1>6. settled' \in 0..Max128 BY DEF BurnShort, Fits
<1>7. liquidating' \in BOOLEAN /\ due' \in Int BY DEF BurnShort, rescue, TypeOK
<1>8. QED BY <1>3, <1>4, <1>5, <1>6, <1>7 DEF TypeOK

\* The two ways to burn a long leg, which differ in where its premium goes.
LEMMA BurnLongKeeps ==
  ASSUME TypeOK, NEW p \in Longs, BurnLong(p) \/ LiquidateLong(p)
  PROVE  TypeOK' /\ owed' >= owed /\ gross' >= gross
<1> DEFINE r == liquidity[p]
<1>1. p \in Legs /\ r \in Int /\ -r \in Int BY DEF Legs, TypeOK
<1>2. CreateLegInAMM(r, -r) BY DEF BurnLong, LiquidateLong
<1>3. /\ net' \in 0..Max128 /\ removed' \in 0..Max128
      /\ owed' \in 0..Max128 /\ owed' >= owed
      /\ gross' \in 0..Max128 /\ gross' >= gross
      /\ fees' \in Nat
  BY <1>1, <1>2, CollectedFits
<1>4. Premium(p, owed') \in Int BY <1>1, <1>3, PremiumInt
<1>5. /\ liquidity' \in [Legs -> Nat]
      /\ \A q \in Legs : liquidity'[q] \in {0} \cup Sizes[q]
      /\ last' \in [Legs -> 0..Max128]
  <2>1. 0 \in 0..Max128 BY ChunkAssumption
  <2>2. QED BY <1>1, <2>1, LegFits DEF BurnLong, LiquidateLong
<1>6. settled' \in 0..Max128
  <2>1. settled + fees + Premium(p, owed') \in Int
    BY <1>4, ChunkAssumption DEF TypeOK
  <2>2. CASE BurnLong(p) BY <2>1, <2>2, ToUint128Fits DEF BurnLong
  <2>3. CASE LiquidateLong(p) BY <2>3 DEF LiquidateLong, Fits
  <2>4. QED BY <2>2, <2>3
<1>7. grossLast' \in 0..Max128 BY DEF BurnLong, LiquidateLong, TypeOK
<1>8. liquidating' \in BOOLEAN /\ due' \in Int
  <2>1. CASE BurnLong(p) BY <2>1 DEF BurnLong, rescue, TypeOK
  <2>2. CASE LiquidateLong(p) BY <1>4, <2>2 DEF LiquidateLong, TypeOK
  <2>3. QED BY <2>1, <2>2
<1>9. QED BY <1>3, <1>5, <1>6, <1>7, <1>8 DEF TypeOK

LEMMA SettleShortKeeps ==
  ASSUME TypeOK, NEW p \in Shorts, SettleShort(p)
  PROVE  TypeOK' /\ owed' >= owed /\ gross' >= gross
<1> DEFINE c == AccountPremium.gross
<1>1. p \in Legs /\ liquidity[p] \in Int BY DEF Legs, TypeOK
<1>2. c \in 0..Max128 BY AccountPremiumFits
<1>3. grossLast' \in 0..Max128
  <2>1. Premium(p, c) \in Int BY <1>1, <1>2, PremiumInt
  <2>2. grossLast \in 0..Max128 /\ Total \in Nat BY TotalNat DEF TypeOK
  <2> HIDE DEF c
  <2>3. Total \in Int BY <2>2
  <2>4. LastAfterSettled(Total, liquidity[p], Total, c, Premium(p, c)) \in 0..Max128
    BY <1>1, <1>2, <2>1, <2>2, <2>3, SettledFits
  <2>5. QED BY <2>4 DEF SettleShort, c
<1>4. last' \in [Legs -> 0..Max128] BY <1>2 DEF SettleShort, TypeOK
<1>5. settled' \in 0..Max128 BY DEF SettleShort, Fits
<1>6. UNCHANGED <<net, removed, owed, gross, fees, liquidity, liquidating, due>>
  BY DEF SettleShort, pool, premia, rescue
<1>7. owed \in Int /\ gross \in Int BY DEF TypeOK
<1>8. QED BY <1>3, <1>4, <1>5, <1>6, <1>7 DEF TypeOK

LEMMA SettleLongKeeps ==
  ASSUME TypeOK, NEW p \in Longs, SettleLong(p)
  PROVE  TypeOK' /\ owed' >= owed /\ gross' >= gross
<1> DEFINE c == AccountPremium.owed
<1>1. p \in Legs BY DEF Legs
<1>2. c \in 0..Max128 BY AccountPremiumFits
<1>3. Premium(p, c) \in Int BY <1>1, <1>2, PremiumInt
<1>4. settled' \in 0..Max128
  <2>1. settled + Premium(p, c) \in Int BY <1>3 DEF TypeOK
  <2>2. QED BY <2>1, ToUint128Fits DEF SettleLong
<1>5. last' \in [Legs -> 0..Max128] BY <1>2 DEF SettleLong, TypeOK
<1>6. UNCHANGED <<net, removed, owed, gross, fees, grossLast, liquidity, liquidating, due>>
  BY DEF SettleLong, pool, premia, rescue
<1>7. owed \in Int /\ gross \in Int BY DEF TypeOK
<1>8. QED BY <1>4, <1>5, <1>6, <1>7 DEF TypeOK

LEMMA StepKeeps ==
  ASSUME TypeOK, [Next]_vars
  PROVE  TypeOK' /\ owed' >= owed /\ gross' >= gross
<1>0. owed \in Int /\ gross \in Int BY DEF TypeOK
<1>1. ASSUME NEW f \in Fees, Accrue(f)
      PROVE  TypeOK' /\ owed' >= owed /\ gross' >= gross
  <2>1. fees' \in Nat BY <1>1, ChunkAssumption DEF Accrue, TypeOK
  <2>2. QED BY <1>0, <1>1, <2>1 DEF Accrue, TypeOK
<1>2. ASSUME NEW p \in Shorts, NEW r \in Sizes[p], MintShort(p, r)
      PROVE  TypeOK' /\ owed' >= owed /\ gross' >= gross
  BY <1>2, MintShortKeeps
<1>3. ASSUME NEW p \in Longs, NEW r \in Sizes[p], MintLong(p, r)
      PROVE  TypeOK' /\ owed' >= owed /\ gross' >= gross
  BY <1>3, MintLongKeeps
<1>4. ASSUME NEW p \in Shorts, BurnShort(p)
      PROVE  TypeOK' /\ owed' >= owed /\ gross' >= gross
  BY <1>4, BurnShortKeeps
<1>5. ASSUME NEW p \in Longs, BurnLong(p) \/ LiquidateLong(p)
      PROVE  TypeOK' /\ owed' >= owed /\ gross' >= gross
  BY <1>5, BurnLongKeeps
<1>6. ASSUME NEW haircut, SettleAmounts(haircut)
      PROVE  TypeOK' /\ owed' >= owed /\ gross' >= gross
  <2>1. UNCHANGED <<net, removed, owed, gross, fees, grossLast, liquidity, last>>
    BY <1>6 DEF SettleAmounts, pool, premia, legs
  <2>2. settled' \in 0..Max128 /\ due' \in Int BY <1>6 DEF SettleAmounts, Fits
  <2>3. liquidating' \in BOOLEAN BY <1>6, Zenon DEF SettleAmounts
  <2>4. QED BY <1>0, <2>1, <2>2, <2>3 DEF TypeOK
<1>7. ASSUME NEW p \in Longs, SettleLong(p)
      PROVE  TypeOK' /\ owed' >= owed /\ gross' >= gross
  BY <1>7, SettleLongKeeps
<1>8. ASSUME NEW p \in Shorts, SettleShort(p)
      PROVE  TypeOK' /\ owed' >= owed /\ gross' >= gross
  BY <1>8, SettleShortKeeps
<1>9. CASE UNCHANGED vars BY <1>0, <1>9 DEF vars, TypeOK
<1>10. QED BY <1>1, <1>2, <1>3, <1>4, <1>5, <1>6, <1>7, <1>8, <1>9 DEF Next

LEMMA InitTypeOK == ASSUME Init PROVE TypeOK
<1>1. 0 \in 0..Max128 BY ChunkAssumption
<1>2. liquidity \in [Legs -> Nat] /\ last \in [Legs -> 0..Max128]
  BY <1>1 DEF Init
<1>3. \A p \in Legs : liquidity[p] \in {0} \cup Sizes[p] BY DEF Init
<1>4. liquidating \in BOOLEAN BY Zenon DEF Init
<1>5. /\ net = 0 /\ removed = 0 /\ owed = 0 /\ gross = 0
      /\ fees = 0 /\ settled = 0 /\ grossLast = 0 /\ due = 0
  BY DEF Init
<1>6. QED BY <1>1, <1>2, <1>3, <1>4, <1>5 DEF TypeOK

-----------------------------------------------------------------------------
(* The sums over the legs.                                                 *)

\* What the legs last saw, weighted with their liquidity.
Claims == SumFunctionOnSet([p \in Shorts |-> liquidity[p] * last[p]], Shorts)

\* A closed leg counts for nothing.
LEMMA LegTypes ==
  ASSUME TypeOK, NEW p \in Legs
  PROVE  /\ liquidity[p] \in Nat /\ last[p] \in Nat /\ liquidity[p] * last[p] \in Nat
         /\ last[p] <= Max128
<1>1. liquidity[p] \in Nat /\ last[p] \in Nat /\ last[p] <= Max128
  BY ChunkAssumption DEF TypeOK
<1>2. QED BY <1>1, MulNat

\* The sum of the liquidity of some legs when one of them changes.
LEMMA LiquidityChanged ==
  ASSUME TypeOK, TypeOK', NEW S, S \subseteq Legs, IsFiniteSet(S), NEW p \in Legs,
         \A q \in Legs : q # p => liquidity'[q] = liquidity[q]
  PROVE  SumFunctionOnSet(liquidity', S)
           = SumFunctionOnSet(liquidity, S)
               + (IF p \in S THEN liquidity'[p] - liquidity[p] ELSE 0)
<1>1. \A q \in Legs : liquidity[q] \in Int /\ liquidity'[q] \in Int
  BY DEF TypeOK
<1>2. SumFunctionOnSet(liquidity, S) \in Int BY <1>1, SumInt
<1>3. CASE p \in S
  <2>1. SumFunctionOnSet(liquidity', S)
          = SumFunctionOnSet(liquidity, S) - liquidity[p] + liquidity'[p]
    BY <1>1, <1>3, SumChanged
  <2>2. QED BY <1>1, <1>2, <1>3, <2>1
<1>4. CASE p \notin S
  <2>1. \A q \in S : liquidity'[q] = liquidity[q] BY <1>4
  <2>2. SumFunctionOnSet(liquidity', S) = SumFunctionOnSet(liquidity, S)
    BY <2>1, SumAgrees
  <2>3. QED BY <1>2, <1>4, <2>2
<1>5. QED BY <1>3, <1>4

LEMMA SellersFinite ==
  /\ IsFiniteSet(Shorts) /\ IsFiniteSet(Longs)
  /\ Shorts \subseteq Legs /\ Longs \subseteq Legs /\ Shorts \cap Longs = {}
  BY ChunkAssumption DEF Legs

LEMMA ClaimsNat == ASSUME TypeOK PROVE Claims \in Nat
<1> DEFINE f == [p \in Shorts |-> liquidity[p] * last[p]]
<1>1. \A p \in Shorts : f[p] \in Nat BY LegTypes, SellersFinite
<1> HIDE DEF f
<1>2. SumFunctionOnSet(f, Shorts) \in Nat BY <1>1, SellersFinite, SumNat
<1>3. QED BY <1>2 DEF Claims, f

\* The claims when a short leg is opened, closed or settled.
LEMMA ClaimsChanged ==
  ASSUME TypeOK, TypeOK', NEW p \in Shorts,
         \A q \in Shorts : q # p => liquidity'[q] = liquidity[q] /\ last'[q] = last[q]
  PROVE  Claims' = Claims - liquidity[p] * last[p] + liquidity'[p] * last'[p]
<1> DEFINE f == [q \in Shorts |-> liquidity[q] * last[q]]
           g == [q \in Shorts |-> liquidity'[q] * last'[q]]
<1>1. \A q \in Shorts : liquidity[q] * last[q] \in Nat BY LegTypes, SellersFinite
<1>2. \A q \in Shorts : liquidity'[q] * last'[q] \in Nat
  <2>1. ASSUME NEW q \in Shorts PROVE liquidity'[q] \in Nat /\ last'[q] \in Nat
    BY ChunkAssumption, SellersFinite DEF TypeOK
  <2>2. QED BY <2>1, MulNat
<1>3. \A q \in Shorts : f[q] \in Int /\ g[q] \in Int BY <1>1, <1>2
<1>4. \A q \in Shorts : q # p => g[q] = f[q] OBVIOUS
<1>5. f[p] = liquidity[p] * last[p] /\ g[p] = liquidity'[p] * last'[p] OBVIOUS
<1> HIDE DEF f, g
<1>6. SumFunctionOnSet(g, Shorts) = SumFunctionOnSet(f, Shorts) - f[p] + g[p]
  BY <1>3, <1>4, SellersFinite, SumChanged
<1>7. QED BY <1>5, <1>6 DEF Claims, f, g

\* Steps on long legs leave the claims of the sellers alone.
LEMMA ClaimsKept ==
  ASSUME \A q \in Shorts : liquidity'[q] = liquidity[q] /\ last'[q] = last[q]
  PROVE  Claims' = Claims
<1> DEFINE f == [q \in Shorts |-> liquidity[q] * last[q]]
           g == [q \in Shorts |-> liquidity'[q] * last'[q]]
<1>1. f = g OBVIOUS
<1>2. QED BY <1>1 DEF Claims

-----------------------------------------------------------------------------
(* The invariant of the chunk.                                             *)

ChunkInv == TypeOK /\ LiquidityAddsUp /\ ClaimsWithinTotal

LEMMA ClaimsWithin == ClaimsWithinTotal <=> grossLast * Total <= Claims
  BY DEF ClaimsWithinTotal, Claims

\* A step concerns one leg.
OnlyLeg(p) ==
    \A q \in Legs : q # p => liquidity'[q] = liquidity[q] /\ last'[q] = last[q]

\* What a short leg gains or loses, the chunk does.
LEMMA ShortAddsUp ==
  ASSUME TypeOK, TypeOK', LiquidityAddsUp, NEW p \in Shorts, OnlyLeg(p),
         Total' = Total + (liquidity'[p] - liquidity[p]), removed' = removed
  PROVE  LiquidityAddsUp'
<1>1. p \in Legs /\ p \notin Longs BY SellersFinite
<1>2. \A q \in Legs : q # p => liquidity'[q] = liquidity[q] BY DEF OnlyLeg
<1>3. SumFunctionOnSet(liquidity', Shorts)
        = SumFunctionOnSet(liquidity, Shorts) + (liquidity'[p] - liquidity[p])
  BY <1>1, <1>2, SellersFinite, LiquidityChanged
<1>4. SumFunctionOnSet(liquidity', Longs) = SumFunctionOnSet(liquidity, Longs) + 0
  BY <1>1, <1>2, SellersFinite, LiquidityChanged
<1>5. removed \in Int BY DEF TypeOK
<1>6. QED BY <1>3, <1>4, <1>5 DEF LiquidityAddsUp

\* What a long leg takes is removed, and the total stays.
LEMMA LongAddsUp ==
  ASSUME TypeOK, TypeOK', LiquidityAddsUp, NEW p \in Longs, OnlyLeg(p),
         Total' = Total, removed' = removed + (liquidity'[p] - liquidity[p])
  PROVE  LiquidityAddsUp'
<1>1. p \in Legs /\ p \notin Shorts BY SellersFinite
<1>2. \A q \in Legs : q # p => liquidity'[q] = liquidity[q] BY DEF OnlyLeg
<1>3. SumFunctionOnSet(liquidity', Longs)
        = SumFunctionOnSet(liquidity, Longs) + (liquidity'[p] - liquidity[p])
  BY <1>1, <1>2, SellersFinite, LiquidityChanged
<1>4. SumFunctionOnSet(liquidity', Shorts) = SumFunctionOnSet(liquidity, Shorts) + 0
  BY <1>1, <1>2, SellersFinite, LiquidityChanged
<1>5. Total \in Int BY TotalNat
<1>6. QED BY <1>3, <1>4, <1>5 DEF LiquidityAddsUp

\* A leg that changes nothing of the chunk's liquidity.
LEMMA SameAddsUp ==
  ASSUME LiquidityAddsUp, UNCHANGED <<net, removed, liquidity>>
  PROVE  LiquidityAddsUp' /\ Total' = Total
BY DEF LiquidityAddsUp, Total

\* Steps on long legs and on the tokens leave both sides alone.
LEMMA ClaimsStayWithin ==
  ASSUME ClaimsWithinTotal, Total' = Total, grossLast' = grossLast,
         \A q \in Shorts : liquidity'[q] = liquidity[q] /\ last'[q] = last[q]
  PROVE  ClaimsWithinTotal'
<1>1. Claims' = Claims BY ClaimsKept
<1>2. grossLast' * Total' <= Claims' BY <1>1, ClaimsWithin
<1>3. QED BY <1>2 DEF ClaimsWithinTotal, Claims

LEMMA ClaimOfOne ==
  ASSUME TypeOK, NEW p \in Shorts
  PROVE  liquidity[p] * last[p] <= Claims
<1> DEFINE f == [q \in Shorts |-> liquidity[q] * last[q]]
<1>1. \A q \in Shorts : f[q] \in Nat BY LegTypes, SellersFinite
<1>2. f[p] = liquidity[p] * last[p] OBVIOUS
<1> HIDE DEF f
<1>3. f[p] <= SumFunctionOnSet(f, Shorts) BY <1>1, SellersFinite, SumMember
<1>4. QED BY <1>2, <1>3 DEF Claims, f

\* What is left of the claims after a seller's premium was computed: the
\* roundings of the premium and of the quotient are both downwards.
LEMMA ClaimsLeft ==
  ASSUME TypeOK, ClaimsWithinTotal, NEW p \in Shorts, NEW c \in 0..Max128,
         NEW left \in Nat
  PROVE  LastAfterSettled(Total, liquidity[p], left, c, Premium(p, c)) * left
           <= Claims - liquidity[p] * last[p]
<1> DEFINE r == liquidity[p]
           l == last[p]
           t == Total
           m == Premium(p, c)
           room == Claims - r * l
<1>1. /\ r \in Nat /\ l \in Nat /\ r * l \in Nat /\ t \in Nat /\ Claims \in Nat
      /\ grossLast \in Nat /\ c \in Int /\ Q64 \in Nat /\ Q64 > 0
      /\ Max128 \in Nat
  BY LegTypes, SellersFinite, TotalNat, ClaimsNat, ChunkAssumption DEF TypeOK
<1>2. room \in Nat BY <1>1, ClaimOfOne
<1>3. m \in Int BY <1>1, PremiumInt, SellersFinite
<1>4. m * Q64 <= c * r - r * l
  <2>1. (c - l) * r = c * r - r * l BY <1>1, SMT
  <2>2. c * r - r * l \in Int BY <1>1, SMT
  <2>3. m = (c * r - r * l) \div Q64 BY <2>1 DEF Premium
  <2> HIDE DEF m, l, r
  <2>4. ASSUME NEW a \in Int, NEW q \in Nat, q > 0 PROVE (a \div q) * q <= a
    BY <2>4, SMT
  <2>5. QED BY <1>1, <2>2, <2>3, <2>4
<1>5. grossLast * t <= Claims BY ClaimsWithin
<1> DEFINE n == grossLast * t - c * r + m * Q64
<1>6. n \in Int /\ n <= room
  <2>1. grossLast * t \in Int /\ c * r \in Int BY <1>1, SMT
  <2>2. m * Q64 \in Int BY <1>1, <1>3, SMT
  <2> HIDE DEF m, l, r, t
  <2>3. QED BY <1>1, <1>4, <1>5, <2>1, <2>2
<1> HIDE DEF m, l, r, t, n, room
<1>7. CASE left = 0
  <2>1. LastAfterSettled(t, r, left, c, m) = c BY <1>7 DEF LastAfterSettled
  <2>2. c * 0 = 0 BY <1>1, SMT
  <2>3. c * left <= room BY <1>2, <1>7, <2>2
  <2>4. QED BY <2>1, <2>3 DEF m, l, r, t, room
<1>8. CASE left # 0
  <2> DEFINE pos == Positive(n)
             q == pos \div left
  <2>1. pos \in Nat /\ pos <= room BY <1>2, <1>6 DEF Positive
  <2> HIDE DEF pos
  <2>2. q \in Nat /\ q * left <= pos BY <1>8, <2>1, DivNat, DivTimes
  <2> HIDE DEF q
  <2>3. ToUint128(q) \in Nat /\ ToUint128(q) <= q
    <3>1. ASSUME NEW a \in Nat, NEW b \in Nat, b > 0
          PROVE  a % b \in Nat /\ a % b <= a
      BY <3>1, SMT
    <3>2. Max128 + 1 \in Nat /\ Max128 + 1 > 0 BY <1>1
    <3>3. QED BY <2>2, <3>1, <3>2 DEF ToUint128
  <2>4. ToUint128(q) * left <= q * left BY <2>2, <2>3, SMT
  <2>5. ToUint128(q) * left \in Int /\ q * left \in Int BY <2>2, <2>3, SMT
  <2>6. ToUint128(q) * left <= room BY <1>2, <2>1, <2>2, <2>4, <2>5
  <2>7. LastAfterSettled(t, r, left, c, m) = ToUint128(q)
    BY <1>8 DEF LastAfterSettled, n, pos, q
  <2>8. QED BY <2>6, <2>7 DEF m, l, r, t, room
<1>9. QED BY <1>7, <1>8

-----------------------------------------------------------------------------
(* Every action keeps the invariant.                                       *)

LEMMA MintShortAddsUp ==
  ASSUME ChunkInv, NEW p \in Shorts, NEW r \in Sizes[p], MintShort(p, r)
  PROVE  ChunkInv'
<1>0. TypeOK /\ LiquidityAddsUp /\ ClaimsWithinTotal BY DEF ChunkInv
<1>1. TypeOK' BY <1>0, MintShortKeeps
<1>2. p \in Legs /\ r \in Nat /\ r > 0 BY SellersFinite, SizeNat
<1>3. OnlyLeg(p) BY <1>0 DEF MintShort, OnlyLeg, TypeOK
<1>4. liquidity[p] = 0 /\ liquidity'[p] = r /\ last'[p] = gross'
  BY <1>0, <1>2 DEF MintShort, Open, TypeOK
<1>5. net \in Int /\ removed \in Int /\ net' = net + r /\ removed' = removed + 0
  BY <1>0 DEF MintShort, CreateLegInAMM, TypeOK
<1>6. Total' = Total + r /\ removed' = removed BY <1>2, <1>5 DEF Total
<1>7. LiquidityAddsUp'
  <2>1. Total' = Total + (liquidity'[p] - liquidity[p]) BY <1>2, <1>4, <1>6
  <2>2. QED BY <1>0, <1>1, <1>3, <1>6, <2>1, ShortAddsUp
<1>8. ClaimsWithinTotal'
  <2>1. /\ Total \in Nat /\ gross' \in 0..Max128 /\ grossLast \in 0..Max128
        /\ last[p] \in Nat /\ Claims \in Nat /\ Max128 \in Nat
    BY <1>0, <1>1, <1>2, TotalNat, LegTypes, ClaimsNat, ChunkAssumption DEF TypeOK
  <2>2. grossLast' = LastAfterMint(Total, r, gross') BY DEF MintShort
  <2>3. /\ LastAfterMint(Total, r, gross') \in 0..Max128
        /\ LastAfterMint(Total, r, gross') * (Total + r)
             <= gross' * r + grossLast * Total
    BY <1>2, <2>1, MintAverages
  <2>4. \A q \in Shorts : q # p => liquidity'[q] = liquidity[q] /\ last'[q] = last[q]
    BY <1>3, SellersFinite DEF OnlyLeg
  <2>5. Claims' = Claims - liquidity[p] * last[p] + liquidity'[p] * last'[p]
    BY <1>0, <1>1, <2>4, ClaimsChanged
  <2>6. 0 * last[p] = 0 /\ r * gross' = gross' * r /\ gross' * r \in Int
    BY <1>2, <2>1, SMT
  <2>7. Claims' = Claims + gross' * r BY <1>4, <2>1, <2>5, <2>6
  <2>8. grossLast * Total <= Claims /\ grossLast * Total \in Int
    <3>1. grossLast * Total \in Int BY <2>1, SMT
    <3>2. QED BY <1>0, <3>1, ClaimsWithin
  <2>9. grossLast' * Total' <= gross' * r + grossLast * Total
    BY <1>6, <2>2, <2>3
  <2>10. grossLast' * Total' \in Int
    <3>1. grossLast' \in Int /\ Total' \in Int BY <1>2, <1>6, <2>1, <2>2, <2>3
    <3>2. QED BY <3>1, SMT
  <2>11. grossLast' * Total' <= Claims'
    BY <2>1, <2>6, <2>7, <2>8, <2>9, <2>10
  <2>12. QED BY <2>11 DEF ClaimsWithinTotal, Claims
<1>9. QED BY <1>1, <1>7, <1>8 DEF ChunkInv

\* What the four steps of a long leg have in common.
LEMMA LongLegAddsUp ==
  ASSUME ChunkInv, TypeOK', NEW p \in Longs, OnlyLeg(p), Total' = Total,
         removed' = removed + (liquidity'[p] - liquidity[p]), grossLast' = grossLast
  PROVE  ChunkInv'
<1>1. LiquidityAddsUp' BY LongAddsUp DEF ChunkInv
<1>2. \A q \in Shorts : liquidity'[q] = liquidity[q] /\ last'[q] = last[q]
  BY SellersFinite DEF OnlyLeg
<1>3. ClaimsWithinTotal' BY <1>2, ClaimsStayWithin DEF ChunkInv
<1>4. QED BY <1>1, <1>3 DEF ChunkInv

LEMMA MintLongAddsUp ==
  ASSUME ChunkInv, NEW p \in Longs, NEW r \in Sizes[p], MintLong(p, r)
  PROVE  ChunkInv'
<1>0. TypeOK BY DEF ChunkInv
<1>1. TypeOK' BY <1>0, MintLongKeeps
<1>2. p \in Legs /\ r \in Nat BY SellersFinite, SizeNat
<1>3. OnlyLeg(p) BY <1>0 DEF MintLong, OnlyLeg, TypeOK
<1>4. liquidity[p] = 0 /\ liquidity'[p] = r
  BY <1>0, <1>2 DEF MintLong, Open, TypeOK
<1>5. net \in Int /\ removed \in Int /\ net' = net + (-r) /\ removed' = removed + r
  BY <1>0 DEF MintLong, CreateLegInAMM, TypeOK
<1>6. Total' = Total /\ removed' = removed + (liquidity'[p] - liquidity[p])
  BY <1>2, <1>4, <1>5 DEF Total
<1>7. grossLast' = grossLast BY DEF MintLong
<1>8. QED BY <1>1, <1>3, <1>6, <1>7, LongLegAddsUp

LEMMA BurnLongAddsUp ==
  ASSUME ChunkInv, NEW p \in Longs, BurnLong(p) \/ LiquidateLong(p)
  PROVE  ChunkInv'
<1>0. TypeOK BY DEF ChunkInv
<1>1. TypeOK' BY <1>0, BurnLongKeeps
<1>2. p \in Legs /\ liquidity[p] \in Nat BY <1>0, SellersFinite, LegTypes
<1>3. OnlyLeg(p) BY <1>0 DEF BurnLong, LiquidateLong, OnlyLeg, TypeOK
<1>4. liquidity'[p] = 0 BY <1>0, <1>2 DEF BurnLong, LiquidateLong, TypeOK
<1>5. /\ net \in Int /\ removed \in Int
      /\ net' = net + liquidity[p] /\ removed' = removed + (-liquidity[p])
  BY <1>0 DEF BurnLong, LiquidateLong, CreateLegInAMM, TypeOK
<1>6. Total' = Total /\ removed' = removed + (liquidity'[p] - liquidity[p])
  BY <1>2, <1>4, <1>5 DEF Total
<1>7. grossLast' = grossLast BY DEF BurnLong, LiquidateLong
<1>8. QED BY <1>1, <1>3, <1>6, <1>7, LongLegAddsUp

LEMMA SettleLongAddsUp ==
  ASSUME ChunkInv, NEW p \in Longs, SettleLong(p)
  PROVE  ChunkInv'
<1>0. TypeOK BY DEF ChunkInv
<1>1. TypeOK' BY <1>0, SettleLongKeeps
<1>2. p \in Legs /\ liquidity[p] \in Nat BY <1>0, SellersFinite, LegTypes
<1>3. OnlyLeg(p) BY <1>0 DEF SettleLong, OnlyLeg, TypeOK
<1>4. UNCHANGED <<net, removed, liquidity, grossLast>>
  BY DEF SettleLong, pool
<1>5. Total' = Total /\ removed \in Int BY <1>0, <1>4 DEF Total, TypeOK
<1>6. removed' = removed + (liquidity'[p] - liquidity[p]) BY <1>2, <1>4, <1>5
<1>7. QED BY <1>1, <1>3, <1>4, <1>5, <1>6, LongLegAddsUp

LEMMA BurnShortAddsUp ==
  ASSUME ChunkInv, NEW p \in Shorts, BurnShort(p)
  PROVE  ChunkInv'
<1> DEFINE r == liquidity[p]
<1>0. TypeOK /\ LiquidityAddsUp /\ ClaimsWithinTotal BY DEF ChunkInv
<1>1. TypeOK' BY <1>0, BurnShortKeeps
<1>2. p \in Legs /\ r \in Nat BY <1>0, SellersFinite, LegTypes
<1>3. OnlyLeg(p) BY <1>0 DEF BurnShort, OnlyLeg, TypeOK
<1>4. liquidity'[p] = 0 /\ last'[p] = 0 BY <1>0, <1>2 DEF BurnShort, TypeOK
<1>5. net \in Int /\ removed \in Int /\ net' = net + (-r) /\ removed' = removed + 0
  BY <1>0 DEF BurnShort, CreateLegInAMM, TypeOK
<1>6. Total' = Total - r /\ removed' = removed BY <1>2, <1>5 DEF Total
<1>7. LiquidityAddsUp'
  <2>1. Total \in Int BY <1>0, TotalNat
  <2>2. Total' = Total + (liquidity'[p] - liquidity[p]) BY <1>2, <1>4, <1>6, <2>1
  <2>3. QED BY <1>0, <1>1, <1>3, <1>6, <2>2, ShortAddsUp
<1>8. ClaimsWithinTotal'
  <2>1. /\ Total \in Nat /\ gross' \in 0..Max128 /\ Claims \in Nat
        /\ r * last[p] \in Nat
    BY <1>0, <1>1, <1>2, TotalNat, LegTypes, ClaimsNat DEF TypeOK
  <2>2. Total - r \in Nat
    <3>1. net' \in Nat /\ removed' \in Nat BY <1>1, ChunkAssumption DEF TypeOK
    <3>2. net' + removed' \in Nat BY <3>1, AddNat
    <3>3. Total - r = net' + removed' BY <1>6 DEF Total
    <3>4. QED BY <3>2, <3>3
  <2>3. LastAfterSettled(Total, r, Total - r, gross', Premium(p, gross')) * (Total - r)
          <= Claims - r * last[p]
    BY <1>0, <2>1, <2>2, ClaimsLeft
  <2>4. grossLast' = LastAfterSettled(Total, r, Total - r, gross', Premium(p, gross'))
    BY DEF BurnShort
  <2>5. \A q \in Shorts : q # p => liquidity'[q] = liquidity[q] /\ last'[q] = last[q]
    BY <1>3, SellersFinite DEF OnlyLeg
  <2>6. Claims' = Claims - r * last[p] + liquidity'[p] * last'[p]
    BY <1>0, <1>1, <2>5, ClaimsChanged
  <2>7. Claims' = Claims - r * last[p]
    <3>1. 0 * 0 = 0 BY SMT
    <3>2. QED BY <1>4, <2>1, <2>6, <3>1
  <2>8. grossLast' * Total' <= Claims' BY <1>6, <2>3, <2>4, <2>7
  <2>9. QED BY <2>8 DEF ClaimsWithinTotal, Claims
<1>9. QED BY <1>1, <1>7, <1>8 DEF ChunkInv

LEMMA SettleShortAddsUp ==
  ASSUME ChunkInv, NEW p \in Shorts, SettleShort(p)
  PROVE  ChunkInv'
<1> DEFINE r == liquidity[p]
           c == AccountPremium.gross
<1>0. TypeOK /\ LiquidityAddsUp /\ ClaimsWithinTotal BY DEF ChunkInv
<1>1. TypeOK' BY <1>0, SettleShortKeeps
<1>2. p \in Legs /\ r \in Nat BY <1>0, SellersFinite, LegTypes
<1>3. OnlyLeg(p) BY <1>0 DEF SettleShort, OnlyLeg, TypeOK
<1>4. UNCHANGED <<net, removed, liquidity>> BY DEF SettleShort, pool
<1>5. LiquidityAddsUp' /\ Total' = Total BY <1>0, <1>4, SameAddsUp
<1>6. ClaimsWithinTotal'
  <2>1. c \in 0..Max128 BY <1>0, AccountPremiumFits
  <2>2. grossLast' = LastAfterSettled(Total, r, Total, c, Premium(p, c))
    BY DEF SettleShort
  <2> HIDE DEF c
  <2>3. Total \in Nat /\ Claims \in Nat /\ r * last[p] \in Nat
    BY <1>0, <1>2, TotalNat, LegTypes, ClaimsNat
  <2>4. LastAfterSettled(Total, r, Total, c, Premium(p, c)) * Total
          <= Claims - r * last[p]
    BY <1>0, <2>1, <2>3, ClaimsLeft
  <2>5. \A q \in Shorts : q # p => liquidity'[q] = liquidity[q] /\ last'[q] = last[q]
    BY <1>3, SellersFinite DEF OnlyLeg
  <2>6. Claims' = Claims - r * last[p] + liquidity'[p] * last'[p]
    BY <1>0, <1>1, <2>5, ClaimsChanged
  <2>7. liquidity'[p] * last'[p] \in Nat
    <3>1. liquidity'[p] \in Nat /\ last'[p] \in Nat
      BY <1>1, <1>2, ChunkAssumption DEF TypeOK
    <3>2. QED BY <3>1, MulNat
  <2>8. grossLast' \in Int BY <1>1 DEF TypeOK
  <2>9. grossLast' * Total \in Int BY <2>3, <2>8, SMT
  <2>10. grossLast' * Total <= Claims - r * last[p] BY <2>2, <2>4
  <2>11. grossLast' * Total' <= Claims'
    BY <1>5, <2>3, <2>6, <2>7, <2>9, <2>10
  <2>12. QED BY <2>11 DEF ClaimsWithinTotal, Claims
<1>7. QED BY <1>1, <1>5, <1>6 DEF ChunkInv

LEMMA InitChunkInv == Init => ChunkInv
<1>1. SUFFICES ASSUME Init PROVE ChunkInv OBVIOUS
<1>2. TypeOK BY <1>1, InitTypeOK
<1>3. net = 0 /\ removed = 0 /\ grossLast = 0 /\ Total = 0 BY <1>1 DEF Init, Total
<1>4. LiquidityAddsUp
  <2>1. \A p \in Legs : liquidity[p] = 0 BY <1>1 DEF Init
  <2>2. /\ SumFunctionOnSet(liquidity, Shorts) = 0
        /\ SumFunctionOnSet(liquidity, Longs) = 0
    BY <2>1, SellersFinite, SumZeros
  <2>3. QED BY <1>3, <2>2 DEF LiquidityAddsUp
<1>5. ClaimsWithinTotal
  <2>1. Claims \in Nat BY <1>2, ClaimsNat
  <2>2. 0 * 0 = 0 BY SMT
  <2>3. QED BY <1>3, <2>1, <2>2, ClaimsWithin
<1>6. QED BY <1>2, <1>4, <1>5 DEF ChunkInv

LEMMA StepChunkInv == ChunkInv /\ [Next]_vars => ChunkInv'
<1>0. SUFFICES ASSUME ChunkInv, [Next]_vars PROVE ChunkInv' OBVIOUS
<1>1. TypeOK /\ LiquidityAddsUp /\ ClaimsWithinTotal BY <1>0 DEF ChunkInv
<1>2. TypeOK' BY <1>0, <1>1, StepKeeps
<1>3. ASSUME UNCHANGED <<net, removed, liquidity, last, grossLast>> PROVE ChunkInv'
  <2>1. LiquidityAddsUp' /\ Total' = Total BY <1>1, <1>3, SameAddsUp
  <2>2. \A q \in Shorts : liquidity'[q] = liquidity[q] /\ last'[q] = last[q]
    BY <1>3
  <2>3. ClaimsWithinTotal' BY <1>1, <1>3, <2>1, <2>2, ClaimsStayWithin
  <2>4. QED BY <1>2, <2>1, <2>3 DEF ChunkInv
<1>4. ASSUME NEW f \in Fees, Accrue(f) PROVE ChunkInv'
  BY <1>3, <1>4 DEF Accrue
<1>5. ASSUME NEW p \in Shorts, NEW r \in Sizes[p], MintShort(p, r) PROVE ChunkInv'
  BY <1>0, <1>5, MintShortAddsUp
<1>6. ASSUME NEW p \in Longs, NEW r \in Sizes[p], MintLong(p, r) PROVE ChunkInv'
  BY <1>0, <1>6, MintLongAddsUp
<1>7. ASSUME NEW p \in Shorts, BurnShort(p) PROVE ChunkInv'
  BY <1>0, <1>7, BurnShortAddsUp
<1>8. ASSUME NEW p \in Longs, BurnLong(p) \/ LiquidateLong(p) PROVE ChunkInv'
  BY <1>0, <1>8, BurnLongAddsUp
<1>9. ASSUME NEW haircut, SettleAmounts(haircut) PROVE ChunkInv'
  BY <1>3, <1>9 DEF SettleAmounts, pool, legs
<1>10. ASSUME NEW p \in Longs, SettleLong(p) PROVE ChunkInv'
  BY <1>0, <1>10, SettleLongAddsUp
<1>11. ASSUME NEW p \in Shorts, SettleShort(p) PROVE ChunkInv'
  BY <1>0, <1>11, SettleShortAddsUp
<1>12. CASE UNCHANGED vars BY <1>3, <1>12 DEF vars
<1>13. QED BY <1>0, <1>4, <1>5, <1>6, <1>7, <1>8, <1>9, <1>10, <1>11, <1>12 DEF Next

-----------------------------------------------------------------------------
(* What a seller is paid.                                                  *)

\* What one seller is owed is part of what all of them are, when none of
\* them is ahead of the accumulator.
LEMMA OwedToOne ==
  ASSUME TypeOK, LiquidityAddsUp, NEW p \in Shorts, NEW c \in Nat,
         \A q \in Shorts : last[q] <= c
  PROVE  Claims + (c - last[p]) * liquidity[p] <= c * Total
<1> DEFINE f == [q \in Shorts |-> liquidity[q] * last[q]]
           h == [q \in Shorts |-> IF q = p THEN c * liquidity[q]
                                           ELSE liquidity[q] * last[q]]
           g == [q \in Shorts |-> c * liquidity[q]]
<1>1. ASSUME NEW q \in Shorts
      PROVE  /\ liquidity[q] \in Nat /\ last[q] \in Nat
             /\ f[q] \in Nat /\ g[q] \in Int /\ h[q] \in Int
             /\ f[q] <= g[q] /\ h[q] <= g[q]
  <2>1. liquidity[q] \in Nat /\ last[q] \in Nat /\ liquidity[q] * last[q] \in Nat
    BY LegTypes, SellersFinite
  <2>2. c * liquidity[q] \in Nat BY <2>1, MulNat
  <2>3. liquidity[q] * last[q] <= c * liquidity[q] BY <2>1, SMT
  <2>4. QED BY <2>1, <2>2, <2>3
<1>2. \A q \in Shorts : q # p => h[q] = f[q] OBVIOUS
<1>3. h[p] = c * liquidity[p] /\ f[p] = liquidity[p] * last[p] OBVIOUS
<1>4. \A q \in Shorts : g[q] = c * liquidity[q] OBVIOUS
<1> HIDE DEF f, g, h
<1>5. SumFunctionOnSet(h, Shorts) = SumFunctionOnSet(f, Shorts) - f[p] + h[p]
  <2>1. \A q \in Shorts : f[q] \in Int /\ h[q] \in Int BY <1>1
  <2>2. QED BY <1>2, <2>1, SellersFinite, SumChanged
<1>6. SumFunctionOnSet(h, Shorts) <= SumFunctionOnSet(g, Shorts)
  BY <1>1, SellersFinite, SumOrdered
<1>7. SumFunctionOnSet(g, Shorts) = c * Total
  <2>1. \A q \in Shorts : liquidity[q] \in Int /\ g[q] = c * liquidity[q]
    BY <1>1, <1>4
  <2>2. SumFunctionOnSet(g, Shorts) = c * SumFunctionOnSet(liquidity, Shorts)
    BY <2>1, SellersFinite, SumScaled
  <2>3. QED BY <2>2 DEF LiquidityAddsUp
<1>8. Claims = SumFunctionOnSet(f, Shorts) BY DEF Claims, f
<1>9. (c - last[p]) * liquidity[p] = c * liquidity[p] - liquidity[p] * last[p]
  BY <1>1, SMT
<1>10. /\ c * liquidity[p] \in Int /\ liquidity[p] * last[p] \in Int
       /\ Claims \in Int /\ c * Total \in Int
  <2>1. Total \in Nat /\ liquidity[p] \in Nat /\ last[p] \in Nat BY <1>1, TotalNat
  <2>2. QED BY <2>1, ClaimsNat, MulNat
<1>11. QED BY <1>3, <1>5, <1>6, <1>7, <1>8, <1>9, <1>10

LEMMA PaidFromSettled ==
  ASSUME ChunkInv, InStep, NEW p \in Shorts
  PROVE  Payout(p) <= settled + fees
<1> DEFINE c == AccountPremium.gross
           m == Premium(p, c)
           a == ((c - grossLast) * Total) \div Q64
<1>0. TypeOK /\ LiquidityAddsUp /\ ClaimsWithinTotal BY DEF ChunkInv
<1>1. /\ c \in Nat /\ Total \in Nat /\ Claims \in Nat
      /\ liquidity[p] \in Nat /\ last[p] \in Nat /\ grossLast \in Nat
      /\ Q64 \in Nat /\ Q64 > 0 /\ settled + fees \in Nat /\ Max128 \in Nat
  <2>1. c \in Nat BY <1>0, AccountPremiumFits, ChunkAssumption
  <2>2. Total \in Nat /\ Claims \in Nat /\ liquidity[p] \in Nat /\ last[p] \in Nat
    BY <1>0, TotalNat, ClaimsNat, LegTypes, SellersFinite
  <2>3. grossLast \in Nat /\ settled \in Nat /\ fees \in Nat
    BY <1>0, ChunkAssumption DEF TypeOK
  <2>4. QED BY <2>1, <2>2, <2>3, ChunkAssumption
<1>2. \A q \in Shorts : last[q] <= c BY DEF InStep
<1> HIDE DEF c
<1> DEFINE x == (c - last[p]) * liquidity[p]
           y == (c - grossLast) * Total
<1>3. x \in Nat /\ y \in Int /\ x <= y
  <2>1. c - last[p] \in Nat BY <1>1, <1>2
  <2>2. x \in Nat BY <1>1, <2>1, MulNat
  <2>3. y = c * Total - grossLast * Total BY <1>1, SMT
  <2>4. c * Total \in Int /\ grossLast * Total \in Int BY <1>1, SMT
  <2>5. Claims + x <= c * Total BY <1>0, <1>1, <1>2, OwedToOne
  <2>6. grossLast * Total <= Claims BY <1>0, ClaimsWithin
  <2> HIDE DEF x, y
  <2>7. QED BY <1>1, <2>2, <2>3, <2>4, <2>5, <2>6
<1>4. m = x \div Q64 /\ a = y \div Q64 BY DEF Premium
<1> HIDE DEF m, a, x, y
<1>5. m \in Nat /\ a \in Int /\ m <= a
  <2>1. x \div Q64 \in Nat /\ y \div Q64 \in Int BY <1>1, <1>3, DivNat, DivInt
  <2>2. x \div Q64 <= y \div Q64 BY <1>1, <1>3, DivMonotone
  <2>3. QED BY <1>4, <2>1, <2>2
<1>6. ToUint128(m) \in Nat /\ ToUint128(m) <= a
  <2>1. ASSUME NEW u \in Nat, NEW v \in Nat, v > 0 PROVE u % v \in Nat /\ u % v <= u
    BY <2>1, SMT
  <2>2. Max128 + 1 \in Nat /\ Max128 + 1 > 0 BY <1>1
  <2>3. ToUint128(m) \in Nat /\ ToUint128(m) <= m BY <1>5, <2>1, <2>2 DEF ToUint128
  <2>4. QED BY <1>5, <2>3
<1>7. a \in Nat BY <1>5
<1>8. AvailablePremium(Total, settled + fees, ToUint128(m), c) <= settled + fees
  <2> DEFINE u == ToUint128(m)
             k == settled + fees
  <2>1. u \in Nat /\ k \in Nat /\ u <= a BY <1>1, <1>6
  <2> HIDE DEF u, k
  <2>2. AvailablePremium(Total, k, u, c) <= k
    BY <1>1, <1>7, <2>1, ShareIsThere DEF a
  <2>3. QED BY <2>2 DEF u, k
<1>9. Payout(p) = AvailablePremium(Total, settled + fees, ToUint128(m), c)
  BY DEF Payout, m, c
<1>10. QED BY <1>8, <1>9

-----------------------------------------------------------------------------
(* Away from their limit the accumulators that a caller sees never fall,   *)
(* and no leg gets ahead of them.                                          *)

\* What the fees that are not collected add.
Pending ==
    IF net # 0 THEN PremiaDeltas(net, removed, fees) ELSE [owed |-> 0, gross |-> 0]

\* Collecting them keeps the accumulators within their bound.
RoomLeft == owed + Pending.owed <= MaxGross /\ gross + Pending.gross <= MaxGross

PremiaInv == TypeOK /\ RoomLeft /\ InStep

LEMMA CappedMonotone ==
  ASSUME NEW a \in Int, NEW b \in Int, a <= b PROVE Capped(a) <= Capped(b)
  BY ChunkAssumption DEF Capped, Least

\* More fees never add less.
LEMMA PremiaMonotone ==
  ASSUME NEW n \in Nat, n # 0, NEW r \in Nat, NEW f \in Nat, NEW g \in Nat, f <= g
  PROVE  /\ PremiaDeltas(n, r, f).owed <= PremiaDeltas(n, r, g).owed
         /\ PremiaDeltas(n, r, f).gross <= PremiaDeltas(n, r, g).gross
<1> DEFINE t == n + r
           base(k) == (k * t * Q64) \div (n * n)
           paid == n + r \div Vegoid
           earned == t * t - t * r + (r * r) \div Vegoid
<1>1. t \in Nat /\ t > 0 /\ Q64 \in Nat /\ Vegoid \in Nat /\ Vegoid > 0
  BY ChunkAssumption
<1>2. n * n \in Nat /\ n * n > 0 /\ t * t \in Nat /\ t * t > 0
  <2>1. ASSUME NEW a \in Nat, a > 0 PROVE a * a \in Nat /\ a * a > 0 BY <2>1, SMT
  <2>2. QED BY <1>1, <2>1
<1>3. paid \in Nat BY <1>1, DivNat
<1>4. earned \in Nat
  <2>1. t * t - t * r \in Nat BY SquareLess
  <2>2. (r * r) \div Vegoid \in Nat BY <1>1, MulNat, DivNat
  <2>3. QED BY <2>1, <2>2
<1> HIDE DEF t, paid, earned
<1>5. base(f) \in Nat /\ base(g) \in Nat /\ base(f) <= base(g)
  <2>1. f * t <= g * t /\ f * t \in Nat /\ g * t \in Nat BY <1>1, MulMonotone
  <2>2. /\ f * t * Q64 <= g * t * Q64
        /\ f * t * Q64 \in Nat /\ g * t * Q64 \in Nat
    BY <1>1, <2>1, MulMonotone
  <2>3. QED BY <1>2, <2>2, DivNat, DivMonotone
<1> DEFINE x == base(f)
           y == base(g)
<1>6. x \in Nat /\ y \in Nat /\ x <= y BY <1>5
<1>7. /\ PremiaDeltas(n, r, f).owed = Capped((x * paid) \div t)
      /\ PremiaDeltas(n, r, g).owed = Capped((y * paid) \div t)
      /\ PremiaDeltas(n, r, f).gross = Capped((x * earned) \div (t * t))
      /\ PremiaDeltas(n, r, g).gross = Capped((y * earned) \div (t * t))
  BY DEF PremiaDeltas, t, paid, earned
<1> HIDE DEF x, y, base
<1>8. Capped((x * paid) \div t) <= Capped((y * paid) \div t)
  <2>1. x * paid <= y * paid /\ x * paid \in Nat /\ y * paid \in Nat
    BY <1>3, <1>6, MulMonotone
  <2>2. /\ (x * paid) \div t <= (y * paid) \div t
        /\ (x * paid) \div t \in Int /\ (y * paid) \div t \in Int
    BY <1>1, <2>1, DivMonotone, DivInt
  <2>3. QED BY <2>2, CappedMonotone
<1>9. Capped((x * earned) \div (t * t)) <= Capped((y * earned) \div (t * t))
  <2>1. x * earned <= y * earned /\ x * earned \in Nat /\ y * earned \in Nat
    BY <1>4, <1>6, MulMonotone
  <2>2. /\ (x * earned) \div (t * t) <= (y * earned) \div (t * t)
        /\ (x * earned) \div (t * t) \in Int /\ (y * earned) \div (t * t) \in Int
    BY <1>2, <2>1, DivMonotone, DivInt
  <2>3. QED BY <2>2, CappedMonotone
<1>10. QED BY <1>7, <1>8, <1>9

\* No fees add nothing.
LEMMA NothingPending ==
  ASSUME TypeOK, fees = 0 PROVE Pending.owed = 0 /\ Pending.gross = 0
<1>1. CASE net = 0 BY <1>1 DEF Pending
<1>2. CASE net # 0
  <2> DEFINE t == net + removed
             paid == net + removed \div Vegoid
             earned == t * t - t * removed + (removed * removed) \div Vegoid
  <2>1. net \in Nat /\ removed \in Nat /\ Q64 \in Nat /\ Vegoid \in Nat /\ Vegoid > 0
    BY ChunkAssumption DEF TypeOK
  <2>2. t \in Nat /\ t > 0 BY <1>2, <2>1
  <2>3. net * net \in Nat /\ net * net > 0 /\ t * t \in Nat /\ t * t > 0
    <3>1. ASSUME NEW a \in Nat, a > 0 PROVE a * a \in Nat /\ a * a > 0 BY <3>1, SMT
    <3>2. QED BY <1>2, <2>1, <2>2, <3>1
  <2>4. paid \in Nat BY <2>1, DivNat
  <2>5. earned \in Nat
    <3>1. t * t - t * removed \in Nat BY <2>1, SquareLess
    <3>2. (removed * removed) \div Vegoid \in Nat BY <2>1, MulNat, DivNat
    <3>3. QED BY <3>1, <3>2
  <2> HIDE DEF t, paid, earned
  <2>6. ASSUME NEW a \in Nat PROVE 0 * a = 0 BY SMT
  <2>7. ASSUME NEW a \in Nat, a > 0 PROVE 0 \div a = 0 BY <2>7, SMT
  <2>8. (0 * t * Q64) \div (net * net) = 0 BY <2>1, <2>2, <2>3, <2>6, <2>7
  <2>9. (0 * paid) \div t = 0 /\ (0 * earned) \div (t * t) = 0
    BY <2>2, <2>3, <2>4, <2>5, <2>6, <2>7
  <2>10. Capped(0) = 0 BY ChunkAssumption DEF Capped, Least
  <2>11. /\ PremiaDeltas(net, removed, 0).owed = Capped((0 * paid) \div t)
         /\ PremiaDeltas(net, removed, 0).gross = Capped((0 * earned) \div (t * t))
    BY <2>8 DEF PremiaDeltas, t, paid, earned
  <2>12. QED BY <1>2, <2>9, <2>10, <2>11 DEF Pending
<1>3. QED BY <1>1, <1>2

LEMMA PendingNat == ASSUME TypeOK PROVE Pending.owed \in Nat /\ Pending.gross \in Nat
<1>1. CASE net = 0 BY <1>1 DEF Pending
<1>2. CASE net # 0
  <2>1. net \in Nat /\ removed \in Nat /\ fees \in Nat BY ChunkAssumption DEF TypeOK
  <2>2. /\ PremiaDeltas(net, removed, fees).owed \in 0..Max128
        /\ PremiaDeltas(net, removed, fees).gross \in 0..Max128
    BY <1>2, <2>1, PremiaDeltasFit
  <2>3. QED BY <1>2, <2>2 DEF Pending
<1>3. QED BY <1>1, <1>2

\* Below the limit a caller sees what was stored and what is pending.
LEMMA SeenBelowLimit ==
  ASSUME TypeOK, RoomLeft, MaxGross < Max128
  PROVE  /\ AccountPremium.owed = owed + Pending.owed
         /\ AccountPremium.gross = gross + Pending.gross
<1>1. /\ owed \in Int /\ gross \in Int /\ Max128 \in Int /\ MaxGross \in Int
      /\ Pending.owed \in Nat /\ Pending.gross \in Nat
  BY PendingNat, ChunkAssumption DEF TypeOK
<1>2. CASE net = 0 BY <1>1, <1>2 DEF AccountPremium, Pending
<1>3. CASE net # 0
  <2> DEFINE d == PremiaDeltas(net, removed, fees)
  <2>1. d = Pending BY <1>3 DEF Pending
  <2>2. AccountPremium = AddCapped(d) BY <1>3 DEF AccountPremium
  <2> HIDE DEF d
  <2>3. owed + d.owed < Max128 /\ gross + d.gross < Max128
    BY <1>1, <2>1 DEF RoomLeft
  <2>4. AddCapped(d) = [owed |-> owed + d.owed, gross |-> gross + d.gross]
    BY <2>3 DEF AddCapped
  <2>5. QED BY <2>1, <2>2, <2>4
<1>4. QED BY <1>2, <1>3

\* After fees were collected a caller sees what is stored.
LEMMA SeenWhenCollected ==
  ASSUME TypeOK, fees = 0
  PROVE  AccountPremium.owed = owed /\ AccountPremium.gross = gross
<1>1. CASE net = 0 BY <1>1 DEF AccountPremium
<1>2. CASE net # 0
  <2> DEFINE d == PremiaDeltas(net, removed, fees)
  <2>1. d = Pending BY <1>2 DEF Pending
  <2>2. d.owed = 0 /\ d.gross = 0 BY <2>1, NothingPending
  <2>3. AccountPremium = AddCapped(d) BY <1>2 DEF AccountPremium
  <2> HIDE DEF d
  <2>4. owed \in Int /\ gross \in Int BY DEF TypeOK
  <2>5. QED BY <2>2, <2>3, <2>4 DEF AddCapped
<1>3. QED BY <1>1, <1>2

\* The two lemmas of the state after a step.
LEMMA SeenNext ==
  TypeOK' /\ fees' = 0 =>
      /\ AccountPremium.owed' = owed' /\ AccountPremium.gross' = gross'
      /\ Pending.owed' = 0 /\ Pending.gross' = 0
<1> DEFINE Goal == TypeOK /\ fees = 0 =>
                     /\ AccountPremium.owed = owed /\ AccountPremium.gross = gross
                     /\ Pending.owed = 0 /\ Pending.gross = 0
<1>1. Goal BY SeenWhenCollected, NothingPending
<1> HIDE DEF Goal
<1>2. Goal' BY <1>1, PTL
<1>3. QED BY <1>2 DEF Goal

LEMMA SeenBelowNext ==
  ASSUME MaxGross < Max128
  PROVE  TypeOK' /\ RoomLeft' =>
             /\ AccountPremium.owed' = owed' + Pending.owed'
             /\ AccountPremium.gross' = gross' + Pending.gross'
<1> DEFINE Goal == TypeOK /\ RoomLeft =>
                     /\ AccountPremium.owed = owed + Pending.owed
                     /\ AccountPremium.gross = gross + Pending.gross
<1>1. Goal BY SeenBelowLimit
<1> HIDE DEF Goal
<1>2. Goal' BY <1>1, PTL
<1>3. QED BY <1>2 DEF Goal

LEMMA SeenTypes ==
  TypeOK' => AccountPremium.owed' \in Int /\ AccountPremium.gross' \in Int
<1> DEFINE Goal == TypeOK => AccountPremium.owed \in Int /\ AccountPremium.gross \in Int
<1>1. Goal BY AccountPremiumFits
<1> HIDE DEF Goal
<1>2. Goal' BY <1>1, PTL
<1>3. QED BY <1>2 DEF Goal

\* A step that collects: everybody sees what was stored before it.
LEMMA CollectInStep ==
  ASSUME PremiaInv, MaxGross < Max128, TypeOK', NEW a, NEW b, CreateLegInAMM(a, b),
         NEW p \in Legs, OnlyLeg(p),
         p \in Shorts => last'[p] <= gross', p \in Longs => last'[p] <= owed'
  PROVE  PremiaInv'
<1>1. TypeOK /\ RoomLeft /\ InStep BY DEF PremiaInv
<1>2. fees' = 0 /\ owed' = AccountPremium.owed /\ gross' = AccountPremium.gross
  BY DEF CreateLegInAMM
<1>3. /\ AccountPremium.owed' = owed' /\ AccountPremium.gross' = gross'
      /\ Pending.owed' = 0 /\ Pending.gross' = 0
  BY <1>2, SeenNext
<1>4. owed' = owed + Pending.owed /\ gross' = gross + Pending.gross
  BY <1>1, <1>2, SeenBelowLimit
<1>5. RoomLeft'
  <2>1. owed' \in Int /\ gross' \in Int BY DEF TypeOK
  <2>2. owed' + 0 = owed' /\ gross' + 0 = gross' BY <2>1, AddZero
  <2>3. owed' <= MaxGross /\ gross' <= MaxGross BY <1>1, <1>4 DEF RoomLeft
  <2>4. owed' + Pending.owed' <= MaxGross /\ gross' + Pending.gross' <= MaxGross
    BY <1>3, <2>2, <2>3
  <2>5. QED BY <2>4 DEF RoomLeft
<1>6. InStep'
  <2>1. ASSUME NEW q \in Shorts PROVE last'[q] <= AccountPremium.gross'
    <3>1. CASE q = p BY <1>3, <3>1
    <3>2. CASE q # p
      <4>1. last'[q] = last[q] BY <3>2, SellersFinite DEF OnlyLeg
      <4>2. QED BY <1>1, <1>2, <1>3, <4>1 DEF InStep
    <3>3. QED BY <3>1, <3>2
  <2>2. ASSUME NEW q \in Longs PROVE last'[q] <= AccountPremium.owed'
    <3>1. CASE q = p BY <1>3, <3>1
    <3>2. CASE q # p
      <4>1. last'[q] = last[q] BY <3>2, SellersFinite DEF OnlyLeg
      <4>2. QED BY <1>1, <1>2, <1>3, <4>1 DEF InStep
    <3>3. QED BY <3>1, <3>2
  <2>3. QED BY <2>1, <2>2 DEF InStep
<1>7. QED BY <1>5, <1>6 DEF PremiaInv

\* A step that collects nothing: everybody sees what they saw.
LEMMA SettleInStep ==
  ASSUME PremiaInv, TypeOK', UNCHANGED <<net, removed, owed, gross, fees>>,
         \A q \in Shorts : last'[q] \in {last[q], AccountPremium.gross},
         \A q \in Longs : last'[q] \in {last[q], AccountPremium.owed}
  PROVE  PremiaInv'
<1>1. TypeOK /\ RoomLeft /\ InStep BY DEF PremiaInv
<1>2. AccountPremium' = AccountPremium /\ Pending' = Pending
  BY DEF AccountPremium, AddCapped, Pending
<1>3. RoomLeft' BY <1>1, <1>2 DEF RoomLeft
<1>4. AccountPremium.owed \in Int /\ AccountPremium.gross \in Int
  BY <1>1, AccountPremiumFits
<1>5. InStep'
  <2>1. ASSUME NEW q \in Shorts PROVE last'[q] <= AccountPremium.gross'
    BY <1>1, <1>2, <1>4 DEF InStep
  <2>2. ASSUME NEW q \in Longs PROVE last'[q] <= AccountPremium.owed'
    BY <1>1, <1>2, <1>4 DEF InStep
  <2>3. QED BY <2>1, <2>2 DEF InStep
<1>6. QED BY <1>3, <1>5 DEF PremiaInv

\* Fees that come in: everybody sees no less.
LEMMA AccrueInStep ==
  ASSUME PremiaInv, MaxGross < Max128, TypeOK', NEW f \in Fees, Accrue(f)
  PROVE  PremiaInv'
<1>1. TypeOK /\ RoomLeft /\ InStep BY DEF PremiaInv
<1>2. /\ net # 0 /\ fees' = fees + f
      /\ UNCHANGED <<net, removed, owed, gross, last>>
  BY DEF Accrue
<1>3. /\ net \in Nat /\ removed \in Nat /\ fees \in Nat /\ f \in Nat
      /\ fees + f \in Nat /\ fees <= fees + f
      /\ owed \in Int /\ gross \in Int
  BY <1>1, ChunkAssumption DEF TypeOK
<1> DEFINE d == PremiaDeltas(net, removed, fees)
           e == PremiaDeltas(net, removed, fees + f)
<1>4. Pending = d /\ Pending' = e BY <1>2 DEF Pending
<1>5. d.owed <= e.owed /\ d.gross <= e.gross BY <1>2, <1>3, PremiaMonotone
<1>6. owed + e.owed <= MaxGross /\ gross + e.gross <= MaxGross BY DEF Accrue
<1>7. /\ d.owed \in Nat /\ d.gross \in Nat /\ e.owed \in Nat /\ e.gross \in Nat
  <2>1. /\ d.owed \in 0..Max128 /\ d.gross \in 0..Max128
        /\ e.owed \in 0..Max128 /\ e.gross \in 0..Max128
    BY <1>2, <1>3, PremiaDeltasFit
  <2>2. QED BY <2>1, ChunkAssumption
<1> HIDE DEF d, e
<1>8. RoomLeft' BY <1>2, <1>4, <1>6 DEF RoomLeft
<1>9. /\ AccountPremium.owed <= AccountPremium.owed'
      /\ AccountPremium.gross <= AccountPremium.gross'
  <2>1. AccountPremium.owed = owed + d.owed /\ AccountPremium.gross = gross + d.gross
    BY <1>1, <1>4, SeenBelowLimit
  <2>2. AccountPremium.owed' = owed + e.owed /\ AccountPremium.gross' = gross + e.gross
    <3>1. /\ AccountPremium.owed' = owed' + Pending.owed'
          /\ AccountPremium.gross' = gross' + Pending.gross'
      BY <1>8, SeenBelowNext
    <3>2. Pending.owed' = e.owed /\ Pending.gross' = e.gross BY <1>4
    <3>3. QED BY <1>2, <3>1, <3>2
  <2>3. QED BY <1>3, <1>5, <1>7, <2>1, <2>2
<1>10. InStep'
  <2>1. /\ AccountPremium.owed \in Int /\ AccountPremium.gross \in Int
        /\ AccountPremium.owed' \in Int /\ AccountPremium.gross' \in Int
    <3>1. AccountPremium.owed \in Int /\ AccountPremium.gross \in Int
      BY <1>1, AccountPremiumFits
    <3>2. QED BY <3>1, SeenTypes
  <2>2. \A q \in Legs : last[q] \in Int BY <1>1, LegTypes
  <2>3. ASSUME NEW q \in Shorts PROVE last'[q] <= AccountPremium.gross'
    <3>1. last[q] <= AccountPremium.gross /\ last'[q] = last[q] /\ last[q] \in Int
      BY <1>1, <1>2, <2>2, SellersFinite DEF InStep
    <3>2. QED BY <1>9, <2>1, <3>1
  <2>4. ASSUME NEW q \in Longs PROVE last'[q] <= AccountPremium.owed'
    <3>1. last[q] <= AccountPremium.owed /\ last'[q] = last[q] /\ last[q] \in Int
      BY <1>1, <1>2, <2>2, SellersFinite DEF InStep
    <3>2. QED BY <1>9, <2>1, <3>1
  <2>5. QED BY <2>3, <2>4 DEF InStep
<1>11. QED BY <1>8, <1>10 DEF PremiaInv

\* Every step keeps the legs in step below the limit.
LEMMA StepPremiaInv ==
  ASSUME MaxGross < Max128
  PROVE  PremiaInv /\ [Next]_vars => PremiaInv'
<1>0. SUFFICES ASSUME PremiaInv, [Next]_vars PROVE PremiaInv' OBVIOUS
<1>1. TypeOK /\ InStep BY <1>0 DEF PremiaInv
<1>2. TypeOK' BY <1>0, <1>1, StepKeeps
<1>3. /\ gross' \in Nat /\ owed' \in Nat BY <1>2, ChunkAssumption DEF TypeOK
<1>4. ASSUME UNCHANGED <<net, removed, owed, gross, fees, last>> PROVE PremiaInv'
  BY <1>0, <1>2, <1>4, SettleInStep
<1>5. ASSUME NEW f \in Fees, Accrue(f) PROVE PremiaInv'
  BY <1>0, <1>2, <1>5, AccrueInStep
<1>6. ASSUME NEW p \in Shorts, NEW r \in Sizes[p], MintShort(p, r) PROVE PremiaInv'
  <2>1. p \in Legs /\ p \notin Longs BY SellersFinite
  <2>2. OnlyLeg(p) /\ CreateLegInAMM(r, 0) BY <1>1, <1>6 DEF MintShort, OnlyLeg, TypeOK
  <2>3. last'[p] = gross' BY <1>1, <1>6, <2>1 DEF MintShort, TypeOK
  <2>4. last'[p] <= gross' BY <1>3, <2>3
  <2>5. QED BY <1>0, <1>2, <2>1, <2>2, <2>4, CollectInStep
<1>7. ASSUME NEW p \in Longs, NEW r \in Sizes[p], MintLong(p, r) PROVE PremiaInv'
  <2>1. p \in Legs /\ p \notin Shorts BY SellersFinite
  <2>2. OnlyLeg(p) /\ CreateLegInAMM(-r, r) BY <1>1, <1>7 DEF MintLong, OnlyLeg, TypeOK
  <2>3. last'[p] = owed' BY <1>1, <1>7, <2>1 DEF MintLong, TypeOK
  <2>4. last'[p] <= owed' BY <1>3, <2>3
  <2>5. QED BY <1>0, <1>2, <2>1, <2>2, <2>4, CollectInStep
<1>8. ASSUME NEW p \in Shorts, BurnShort(p) PROVE PremiaInv'
  <2>1. p \in Legs /\ p \notin Longs BY SellersFinite
  <2>2. OnlyLeg(p) /\ CreateLegInAMM(-liquidity[p], 0)
    BY <1>1, <1>8 DEF BurnShort, OnlyLeg, TypeOK
  <2>3. last'[p] = 0 BY <1>1, <1>8, <2>1 DEF BurnShort, TypeOK
  <2>4. last'[p] <= gross' BY <1>3, <2>3
  <2>5. QED BY <1>0, <1>2, <2>1, <2>2, <2>4, CollectInStep
<1>9. ASSUME NEW p \in Longs, BurnLong(p) \/ LiquidateLong(p) PROVE PremiaInv'
  <2>1. p \in Legs /\ p \notin Shorts BY SellersFinite
  <2>2. OnlyLeg(p) /\ CreateLegInAMM(liquidity[p], -liquidity[p])
    BY <1>1, <1>9 DEF BurnLong, LiquidateLong, OnlyLeg, TypeOK
  <2>3. last'[p] = 0 BY <1>1, <1>9, <2>1 DEF BurnLong, LiquidateLong, TypeOK
  <2>4. last'[p] <= owed' BY <1>3, <2>3
  <2>5. QED BY <1>0, <1>2, <2>1, <2>2, <2>4, CollectInStep
<1>10. ASSUME NEW haircut, SettleAmounts(haircut) PROVE PremiaInv'
  BY <1>4, <1>10 DEF SettleAmounts, pool, premia, legs
<1>11. ASSUME NEW p \in Longs, SettleLong(p) PROVE PremiaInv'
  <2>1. UNCHANGED <<net, removed, owed, gross, fees>>
    BY <1>11 DEF SettleLong, pool, premia
  <2>2. \A q \in Legs : last'[q] = IF q = p THEN AccountPremium.owed ELSE last[q]
    BY <1>1, <1>11 DEF SettleLong, TypeOK
  <2>3. \A q \in Shorts : last'[q] = last[q] BY <2>2, SellersFinite
  <2>4. \A q \in Longs : last'[q] \in {last[q], AccountPremium.owed}
    BY <2>2, SellersFinite
  <2>5. QED BY <1>0, <1>2, <2>1, <2>3, <2>4, SettleInStep
<1>12. ASSUME NEW p \in Shorts, SettleShort(p) PROVE PremiaInv'
  <2>1. UNCHANGED <<net, removed, owed, gross, fees>>
    BY <1>12 DEF SettleShort, pool, premia
  <2>2. \A q \in Legs :
          last'[q] = last[q] \/ (q = p /\ last'[q] = AccountPremium.gross)
    BY <1>1, <1>12 DEF SettleShort, TypeOK
  <2>3. \A q \in Longs : last'[q] = last[q] BY <2>2, SellersFinite
  <2>4. \A q \in Shorts : last'[q] \in {last[q], AccountPremium.gross}
    BY <2>2, SellersFinite
  <2>5. QED BY <1>0, <1>2, <2>1, <2>3, <2>4, SettleInStep
<1>13. CASE UNCHANGED vars BY <1>4, <1>13 DEF vars
<1>14. QED BY <1>0, <1>5, <1>6, <1>7, <1>8, <1>9, <1>10, <1>11, <1>12, <1>13 DEF Next

LEMMA InitPremiaInv == Init => PremiaInv
<1>1. SUFFICES ASSUME Init PROVE PremiaInv OBVIOUS
<1>2. TypeOK BY <1>1, InitTypeOK
<1>3. /\ net = 0 /\ owed = 0 /\ gross = 0 /\ MaxGross \in Nat
      /\ \A p \in Legs : last[p] = 0
  BY <1>1, ChunkAssumption DEF Init
<1>4. RoomLeft BY <1>3 DEF RoomLeft, Pending
<1>5. InStep
  <2>1. AccountPremium.owed = 0 /\ AccountPremium.gross = 0
    BY <1>3 DEF AccountPremium
  <2>2. QED BY <1>3, <2>1, SellersFinite DEF InStep
<1>6. QED BY <1>2, <1>4, <1>5 DEF PremiaInv

-----------------------------------------------------------------------------
(* Theorems.                                                               *)

\* Words stay words: the SFPM's liquidity and accumulators, the settled
\* tokens and grossLast, after any sequence of mints, burns, settlements and
\* liquidations (_createLegInAMM, _updateSettlementPostMint and PostBurn).
THEOREM TypeCorrect == Spec => []TypeOK
<1>1. Init => TypeOK BY InitTypeOK
<1>2. TypeOK /\ [Next]_vars => TypeOK' BY StepKeeps
<1>3. QED BY <1>1, <1>2, PTL DEF Spec

\* No operation lowers the accumulators the SFPM stores, whatever the fees
\* and the liquidity: addCapped stops both, and neither ever wraps.
THEOREM StoredAccumulatorsOnlyGrow == Spec => AccumulatorsNeverFall
<1>1. TypeOK /\ [Next]_vars => [owed' >= owed /\ gross' >= gross]_vars
  BY StepKeeps
<1>2. QED BY <1>1, TypeCorrect, PTL DEF Spec, AccumulatorsNeverFall

\* The liquidity of a chunk in s_accountLiquidity is the sum of its open
\* legs, in the AMM and bought: whatever is minted, burned or liquidated, what
\* a buyer took out can come back (_createLegInAMM, _getLiquidities).
THEOREM LiquidityIsAccounted == Spec => []LiquidityAddsUp
<1>1. ChunkInv => LiquidityAddsUp BY DEF ChunkInv
<1>2. QED BY <1>1, InitChunkInv, StepChunkInv, PTL DEF Spec

\* The total that _getAvailablePremium divides by is never less than what all
\* sellers together are owed: grossLast stays at most the average of what the
\* open short legs last saw through every mint, burn and settlement
\* (_updateSettlementPostMint, _updateSettlementPostBurn).
THEOREM ClaimsStayCovered == Spec => []ClaimsWithinTotal
<1>1. ChunkInv => ClaimsWithinTotal BY DEF ChunkInv
<1>2. QED BY <1>1, InitChunkInv, StepChunkInv, PTL DEF Spec

\* Whatever the fees, the sizes and the order, a seller is granted no more
\* than the chunk has settled, so that the close does not revert, unless a
\* leg is ahead of accumulators that stopped at their limit.
THEOREM SellersCanClose == Spec => []ClosePaidFromSettled
<1>1. ChunkInv => ClosePaidFromSettled
  BY PaidFromSettled DEF ClosePaidFromSettled
<1>2. QED BY <1>1, InitChunkInv, StepChunkInv, PTL DEF Spec

\* As long as the accumulators stay below type(uint128).max, no leg is ever
\* ahead of what getAccountPremium returns: fees only add to it, and a leg
\* that is settled before they are collected is not overtaken by that.
THEOREM LegsStayInStep ==
  ASSUME MaxGross < Max128 PROVE Spec => []InStep
<1>1. Init => PremiaInv BY InitPremiaInv
<1>2. PremiaInv /\ [Next]_vars => PremiaInv' BY StepPremiaInv
<1>3. PremiaInv => InStep BY DEF PremiaInv
<1>4. QED BY <1>1, <1>2, <1>3, PTL DEF Spec

\* The two together: below the limit every seller can always close.
THEOREM SellersAlwaysClose ==
  ASSUME MaxGross < Max128
  PROVE  Spec => [](\A p \in Shorts : Open(p) => Payout(p) <= settled + fees)
<1> DEFINE Paid == \A p \in Shorts : Open(p) => Payout(p) <= settled + fees
<1>1. InStep /\ ClosePaidFromSettled => Paid BY DEF ClosePaidFromSettled
<1>2. Spec => []InStep BY LegsStayInStep
<1> HIDE DEF Paid
<1>3. Spec => []Paid BY <1>1, <1>2, SellersCanClose, PTL
<1>4. QED BY <1>3 DEF Paid
=============================================================================
