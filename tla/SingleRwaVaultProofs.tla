------------------------ MODULE SingleRwaVaultProofs -------------------------
(***************************************************************************)
(* Theorems about SingleRwaVault, for every value of its constants: its    *)
(* types, and where the shares are (conservation of the supply, and the    *)
(* agreement of escrow with the redemption queue), whatever the signs of   *)
(* the amounts that calls name.                                            *)
(***************************************************************************)
EXTENDS SingleRwaVault, TotalProofs

-----------------------------------------------------------------------------
(* Arithmetic *)

\* Dividing a natural by a positive one rounds down.
LEMMA QuotientOfNats ==
  ASSUME NEW n \in Nat, NEW c \in Nat \ {0}
  PROVE  Quotient(n, c) = n \div c
BY DEF Quotient, Magnitude

\* Dividing by anything but zero gives an integer.
LEMMA QuotientIsInt ==
  ASSUME NEW n \in Int, NEW c \in Int \ {0}
  PROVE  Quotient(n, c) \in Int
<1>1. Magnitude(n) \in Nat /\ Magnitude(c) \in Nat \ {0} BY DEF Magnitude
<1>2. Magnitude(n) \div Magnitude(c) \in Nat BY <1>1, QuotientIsNat
<1> QED BY <1>2 DEF Quotient

\* mul_div of naturals is a natural, and undoing the division loses nothing in
\* the caller's favour.
LEMMA MulDivIsNat ==
  ASSUME NEW a \in Nat, NEW b \in Nat, NEW c \in Nat \ {0}
  PROVE  MulDiv(a, b, c) \in Nat /\ c * MulDiv(a, b, c) <= a * b
<1>1. a * b \in Nat BY ProductIsNat
<1>2. MulDiv(a, b, c) = (a * b) \div c BY <1>1, QuotientOfNats DEF MulDiv
<1> QED BY <1>1, <1>2, QuotientIsNat

\* mul_div_ceil of naturals is a natural.
LEMMA MulDivCeilIsNat ==
  ASSUME NEW a \in Nat, NEW b \in Nat, NEW c \in Nat \ {0}
  PROVE  MulDivCeil(a, b, c) \in Nat
<1>1. a * b \in Nat BY ProductIsNat
<1>2. a * b + c - 1 \in Nat BY <1>1
<1>3. MulDivCeil(a, b, c) = (a * b + c - 1) \div c
  BY <1>2, QuotientOfNats DEF MulDivCeil
<1> QED BY <1>2, <1>3, QuotientIsNat

\* The product of two integers is an integer.
LEMMA ProductIsInt == ASSUME NEW a \in Int, NEW b \in Int PROVE a * b \in Int
  OBVIOUS

\* mul_div and mul_div_ceil of signed amounts.
LEMMA MulDivIsInt ==
  ASSUME NEW a \in Int, NEW b \in Int, NEW c \in Int \ {0}
  PROVE  MulDiv(a, b, c) \in Int /\ MulDivCeil(a, b, c) \in Int
<1>1. a * b \in Int BY ProductIsInt
<1>2. a * b + c - 1 \in Int BY <1>1
<1> QED BY <1>1, <1>2, QuotientIsInt DEF MulDiv, MulDivCeil

\* The prices quoted are integers wherever they are defined.
LEMMA PricesAreInt ==
  ASSUME NEW supply \in Int, NEW ta \in Int, NEW x \in Int
  PROVE  /\ (supply # 0 /\ ta # 0 => Divides(ta + VirtualOffset))
              => /\ ConvertToSharesFloor(x, supply, ta) \in Int
                 /\ PreviewWithdraw(x, supply, ta) \in Int
         /\ (supply # 0 /\ ta # 0 => Divides(supply + VirtualOffset))
              => PreviewMint(x, supply, ta) \in Int
         /\ (supply # 0 => Divides(supply + VirtualOffset))
              => ConvertToAssetsFloor(x, supply, ta) \in Int
<1>1. supply + VirtualOffset \in Int /\ ta + VirtualOffset \in Int
  BY OffsetAssumption
<1>2. ASSUME Divides(ta + VirtualOffset)
      PROVE  /\ MulDiv(x, supply + VirtualOffset, ta + VirtualOffset) \in Int
             /\ MulDivCeil(x, supply + VirtualOffset, ta + VirtualOffset) \in Int
  <2>1. ta + VirtualOffset \in Int \ {0} BY <1>1, <1>2 DEF Divides
  <2> QED BY <1>1, <2>1, MulDivIsInt
<1>3. ASSUME Divides(supply + VirtualOffset)
      PROVE  /\ MulDiv(x, ta + VirtualOffset, supply + VirtualOffset) \in Int
             /\ MulDivCeil(x, ta + VirtualOffset, supply + VirtualOffset) \in Int
  <2>1. supply + VirtualOffset \in Int \ {0} BY <1>1, <1>3 DEF Divides
  <2> QED BY <1>1, <2>1, MulDivIsInt
<1> QED
  BY <1>2, <1>3
  DEF ConvertToSharesFloor, ConvertToAssetsFloor, PreviewMint, PreviewWithdraw

\* A fraction of at most one of a natural is at most that natural.
LEMMA FractionBounds ==
  ASSUME NEW a \in Nat, NEW b \in Nat, NEW c \in Nat \ {0}, b <= c
  PROVE  MulDiv(a, b, c) \in Nat /\ MulDiv(a, b, c) <= a
<1> DEFINE q == MulDiv(a, b, c)
<1>1. q \in Nat /\ c * q <= a * b
  BY MulDivIsNat
<1>2. a * b <= c * a
  OBVIOUS
<1> HIDE DEF q
<1>3. ASSUME q >= a + 1 PROVE FALSE
  <2>1. c * q >= c * (a + 1) BY <1>1, <1>3
  <2>2. c * (a + 1) = c * a + c BY <1>1
  <2> QED BY <2>1, <2>2, <1>1, <1>2, ProductIsNat
<1>4. q <= a BY <1>1, <1>3
<1> QED BY <1>1, <1>4 DEF q

\* The fee never exceeds what it is taken from.
LEMMA FeeBounds ==
  ASSUME NEW assets \in Nat, NEW bps \in 0..1000
  PROVE  /\ EarlyRedemptionFee(assets, bps) \in Nat
         /\ EarlyRedemptionFee(assets, bps) <= assets
<1>1. bps \in Nat /\ 10000 \in Nat \ {0} /\ bps <= 10000
  OBVIOUS
<1>2. MulDiv(assets, bps, 10000) \in Nat /\ MulDiv(assets, bps, 10000) <= assets
  BY <1>1, FractionBounds
<1> QED BY <1>2 DEF EarlyRedemptionFee

\* The vested fraction is a natural.
LEMMA FractionIsNat ==
  ASSUME NEW elapsed \in Nat, NEW period \in Nat \ {0}
  PROVE  (IF elapsed >= period THEN VestingPrecision
          ELSE (elapsed * VestingPrecision) \div period) \in Nat
<1>1. (elapsed * VestingPrecision) \div period \in Nat
  BY PrecisionAssumption, ProductIsNat, QuotientIsNat
<1> QED BY <1>1, PrecisionAssumption

\* What has vested of an amount is an integer; of a natural, a natural.
LEMMA VestedIsInt ==
  ASSUME NEW amount \in Int, NEW elapsed \in Nat, NEW period \in Nat \ {0}
  PROVE  /\ VestedAmount(amount, elapsed, period) \in Int
         /\ amount \in Nat => VestedAmount(amount, elapsed, period) \in Nat
<1> DEFINE fraction == IF elapsed >= period THEN VestingPrecision
                       ELSE (elapsed * VestingPrecision) \div period
<1>1. fraction \in Nat BY FractionIsNat
<1>2. VestedAmount(amount, elapsed, period) = Quotient(amount * fraction, VestingPrecision)
  BY DEF VestedAmount
<1> HIDE DEF fraction
<1>3. amount * fraction \in Int BY <1>1, ProductIsInt
<1>4. VestingPrecision \in Int \ {0} BY PrecisionAssumption
<1>5. Quotient(amount * fraction, VestingPrecision) \in Int
  BY <1>3, <1>4, QuotientIsInt
<1>6. ASSUME amount \in Nat PROVE Quotient(amount * fraction, VestingPrecision) \in Nat
  <2>1. amount * fraction \in Nat BY <1>1, <1>6, ProductIsNat
  <2> QED BY <2>1, PrecisionAssumption, QuotientOfNats, QuotientIsNat
<1> QED BY <1>2, <1>5, <1>6

\* A set of naturals that is not empty has a least element: the initial segments
\* of its elements are finite, and strict inclusion of finite sets is well founded.
LEMMA LeastNatural ==
  ASSUME NEW S \in SUBSET Nat, S # {}
  PROVE  \E c \in S : \A d \in S : c <= d
<1> DEFINE F == {0..c : c \in S}
           R == StrictSubsetOrdering(Nat)
<1>1. \A c \in Nat : 0..c \in FiniteSubsetsOf(Nat)
  BY FS_Interval DEF FiniteSubsetsOf
<1>2. F \subseteq FiniteSubsetsOf(Nat) /\ F # {}
  BY <1>1
<1>3. IsWellFoundedOn(R, FiniteSubsetsOf(Nat))
  BY FS_StrictSubsetOrderingWellFounded
<1>4. PICK c \in S : \A y \in F : ~(<<y, 0..c>> \in R)
  <2> HIDE DEF R
  <2>1. \E x \in F : \A y \in F : ~(<<y, x>> \in R)
    <3> HIDE DEF F
    <3> QED BY <1>2, <1>3, WFMin
  <2> QED BY <2>1
<1>5. ASSUME NEW d \in S, d < c PROVE FALSE
  <2>1. 0..d \subseteq 0..c /\ 0..d # 0..c
    <3>1. c \in 0..c /\ c \notin 0..d BY <1>5
    <3>2. 0..d \subseteq 0..c BY <1>5
    <3> QED BY <3>1, <3>2
  <2>2. 0..d \in SUBSET Nat /\ 0..c \in SUBSET Nat OBVIOUS
  <2>3. <<0..d, 0..c>> \in R BY <2>1, <2>2 DEF StrictSubsetOrdering
  <2> QED BY <2>3, <1>4
<1> QED BY <1>4, <1>5

-----------------------------------------------------------------------------
(* The type of the state: the parts an action leaves alone *)

\* A part of the type holds after a step that leaves its variables alone.
LEMMA UntouchedParts ==
  ASSUME TypeOK
  PROVE  /\ UNCHANGED now => ClockOK'
         /\ UNCHANGED lifeVars => LifeOK'
         /\ UNCHANGED stopVars => StopOK'
         /\ UNCHANGED complianceVars => ComplianceOK'
         /\ UNCHANGED shareVars => SharesOK'
         /\ UNCHANGED allowance => AllowanceOK'
         /\ UNCHANGED fundVars => FundsOK'
         /\ UNCHANGED investorVars => InvestorsOK'
         /\ UNCHANGED asset => AssetOK'
         /\ UNCHANGED epochVars => EpochsOK'
         /\ UNCHANGED <<snapshotVars, epochVars>> => SnapshotsOK'
         /\ UNCHANGED <<claimVars, epochVars>> => ClaimsOK'
         /\ UNCHANGED requests => RequestsOK'
         /\ UNCHANGED <<emergencyVars, lifeVars>> => EmergencyOK'
         /\ UNCHANGED <<outflow, negativeCalls>> => OutflowOK'
<1> USE DEF TypeOK
<1>1. UNCHANGED now => ClockOK' BY DEF ClockOK
<1>2. UNCHANGED lifeVars => LifeOK' BY DEF LifeOK, lifeVars
<1>3. UNCHANGED stopVars => StopOK' BY DEF StopOK, stopVars
<1>4. UNCHANGED complianceVars => ComplianceOK' BY DEF ComplianceOK, complianceVars
<1>5. UNCHANGED shareVars => SharesOK' BY DEF SharesOK, shareVars
<1>6. UNCHANGED allowance => AllowanceOK' BY DEF AllowanceOK
<1>7. UNCHANGED fundVars => FundsOK' BY DEF FundsOK, fundVars
<1>8. UNCHANGED investorVars => InvestorsOK' BY DEF InvestorsOK, investorVars
<1>9. UNCHANGED asset => AssetOK' BY DEF AssetOK
<1>10. UNCHANGED epochVars => EpochsOK' BY DEF EpochsOK, epochVars
<1>11. UNCHANGED <<snapshotVars, epochVars>> => SnapshotsOK'
  BY DEF SnapshotsOK, snapshotVars, epochVars
<1>12. UNCHANGED <<claimVars, epochVars>> => ClaimsOK'
  BY DEF ClaimsOK, claimVars, epochVars
<1>13. UNCHANGED requests => RequestsOK' BY DEF RequestsOK
<1>14. UNCHANGED <<emergencyVars, lifeVars>> => EmergencyOK'
  BY DEF EmergencyOK, emergencyVars, lifeVars
<1>15. UNCHANGED <<outflow, negativeCalls>> => OutflowOK' BY DEF OutflowOK
<1> QED
  BY <1>1, <1>2, <1>3, <1>4, <1>5, <1>6, <1>7, <1>8, <1>9, <1>10, <1>11, <1>12,
     <1>13, <1>14, <1>15

-----------------------------------------------------------------------------
(* The type of the state: the helpers the actions are built from *)

\* The asset token moves naturals between accounts: it refuses anything else.
LEMMA TransferAssetType ==
  ASSUME AssetOK, NEW from \in Accounts, NEW to \in Accounts, NEW amount \in Int,
         TransferAsset(from, to, amount)
  PROVE  AssetOK' /\ amount \in Nat
  BY DEF AssetOK, TransferAsset

\* A snapshot covers the epochs up to the present one.
LEMMA UpdateSnapshotsType ==
  ASSUME TypeOK, NEW parties \in SUBSET Users, UpdateSnapshots(parties),
         UNCHANGED epochVars
  PROVE  SnapshotsOK'
<1>1. /\ SharesOK /\ EpochsOK /\ SnapshotsOK
      /\ epochs' = epochs
      /\ CurrentEpoch \in Nat
  BY DEF TypeOK, EpochsOK, epochVars, CurrentEpoch
<1>2. ASSUME NEW u \in Users PROVE SnapshotOf(u) \in [1..CurrentEpoch -> Int]
  <2>1. /\ lastInteraction[u] \in 0..CurrentEpoch
        /\ sharesAtEpoch[u] \in [1..lastInteraction[u] -> Int]
        /\ balance[u] \in Int
    BY <1>1 DEF SnapshotsOK, SharesOK, CurrentEpoch
  <2>2. 1..lastInteraction[u] \cup (lastInteraction[u] + 1)..CurrentEpoch
          = 1..CurrentEpoch
    BY <2>1, <1>1
  <2> QED BY <2>1, <2>2 DEF SnapshotOf
<1>3. lastInteraction' \in [Users -> 0..Len(epochs)]
  BY <1>1 DEF SnapshotsOK, UpdateSnapshots, CurrentEpoch
<1>4. sharesAtEpoch' = [u \in Users |-> sharesAtEpoch'[u]]
  BY DEF UpdateSnapshots
<1>5. ASSUME NEW u \in Users PROVE sharesAtEpoch'[u] \in [1..lastInteraction'[u] -> Int]
  BY <1>1, <1>2 DEF SnapshotsOK, UpdateSnapshots
<1> QED BY <1>1, <1>3, <1>4, <1>5 DEF SnapshotsOK

\* Allowances stay well formed; a negative charge raises one.
LEMMA ChargeCallerType ==
  ASSUME TypeOK, NEW owner \in Users, NEW caller \in Users, NEW amount \in Int,
         SpendAllowance(owner, caller, amount) \/ ChargeCaller(owner, caller, amount)
  PROVE  AllowanceOK'
<1>1. AllowanceOK BY DEF TypeOK
<1>2. allowance[owner][caller] \in [amount : Int, expires : Nat]
  BY <1>1 DEF AllowanceOK
<1>3. AllowanceOf(owner, caller) \in Int BY <1>2 DEF AllowanceOf
<1>4. CASE SpendAllowance(owner, caller, amount)
  <2>1. AllowanceOf(owner, caller) - amount \in Int
    BY <1>3, <1>4 DEF SpendAllowance
  <2> DEFINE left == AllowanceOf(owner, caller) - amount
  <2>2. allowance' = [allowance EXCEPT ![owner][caller].amount = left]
    BY <1>4 DEF SpendAllowance
  <2> HIDE DEF left
  <2>3. left \in Int BY <2>1 DEF left
  <2> DEFINE record == [allowance[owner][caller] EXCEPT !.amount = left]
             row == [allowance[owner] EXCEPT ![caller] = record]
  <2>4. record \in [amount : Int, expires : Nat]
    BY <1>2, <2>3
  <2>5. row \in [Users -> [amount : Int, expires : Nat]]
    <3> HIDE DEF record
    <3> QED BY <1>1, <2>4 DEF AllowanceOK
  <2>6. allowance' = [allowance EXCEPT ![owner] = row]
    BY <2>2
  <2> HIDE DEF row
  <2> QED BY <1>1, <2>5, <2>6 DEF AllowanceOK
<1>5. CASE UNCHANGED allowance
  BY <1>1, <1>5 DEF AllowanceOK
<1> QED BY <1>4, <1>5 DEF ChargeCaller

\* Burning keeps the balances and the snapshots well formed.
LEMMA BurnType ==
  ASSUME TypeOK, NEW user \in Users, NEW shares \in Int, Burn(user, shares),
         UNCHANGED escrow, UNCHANGED epochVars
  PROVE  SharesOK' /\ SnapshotsOK'
<1>1. SnapshotsOK' BY UpdateSnapshotsType DEF Burn
<1>2. SharesOK' BY DEF TypeOK, SharesOK, Burn
<1> QED BY <1>1, <1>2

\* The recorded deposit of a user stays natural.
LEMMA LowerUserDepositedType ==
  ASSUME TypeOK, NEW user \in Users, NEW assets \in Int,
         LowerUserDeposited(user, assets), totalDeposited' \in Int
  PROVE  FundsOK'
  BY DEF TypeOK, FundsOK, LowerUserDeposited

\* The part of the yield of an epoch a user is entitled to is an integer.
LEMMA EntitlementIsInt ==
  ASSUME TypeOK, NEW user \in Users, NEW epoch \in 1..CurrentEpoch
  PROVE  /\ epochs[epoch] \in EpochRecords
         /\ epoch \in Epochs
         /\ SharesForEpoch(user, epoch) \in Int
         /\ EpochEntitlement(user, epoch) \in Int
<1>1. epochs[epoch] \in EpochRecords /\ epoch \in Epochs
  BY BoundAssumption DEF TypeOK, EpochsOK, CurrentEpoch, Epochs
<1>2. /\ epochs[epoch].yield \in Nat
      /\ epochs[epoch].totalShares \in Int
  BY <1>1 DEF EpochRecords
<1>3. /\ balance[user] \in Int
      /\ lastInteraction[user] \in Nat
      /\ sharesAtEpoch[user] \in [1..lastInteraction[user] -> Int]
  BY DEF TypeOK, SharesOK, SnapshotsOK, EpochsOK
<1>4. SharesForEpoch(user, epoch) \in Int
  BY <1>3 DEF SharesForEpoch
<1>5. ASSUME epochs[epoch].totalShares # 0
      PROVE MulDiv(epochs[epoch].yield, SharesForEpoch(user, epoch),
                   epochs[epoch].totalShares) \in Int
  <2> DEFINE shares == SharesForEpoch(user, epoch)
             record == epochs[epoch]
  <2>1. record.yield \in Int /\ record.totalShares \in Int \ {0} BY <1>2, <1>5
  <2>2. shares \in Int BY <1>4
  <2> HIDE DEF shares, record
  <2>3. MulDiv(record.yield, shares, record.totalShares) \in Int BY <2>1, <2>2, MulDivIsInt
  <2> QED BY <2>3 DEF shares, record
<1>6. EpochEntitlement(user, epoch) \in Int
  BY <1>5 DEF EpochEntitlement
<1> QED BY <1>1, <1>4, <1>6

\* What a claim of one epoch would pay is an integer.
LEMMA PendingIsInt ==
  ASSUME TypeOK, NEW user \in Users, NEW epoch \in 1..CurrentEpoch
  PROVE  PendingYieldForEpoch(user, epoch) \in Int
<1> DEFINE full == EpochEntitlement(user, epoch)
           since == epochs[epoch].timestamp
           taken == epochYieldClaimed[user][epoch]
           vested == IF now <= since THEN 0
                     ELSE VestedAmount(full, now - since, config.vestingPeriod)
<1>1. full \in Int BY EntitlementIsInt
<1>2. since \in Nat BY EntitlementIsInt DEF EpochRecords
<1>3. taken \in Nat BY EntitlementIsInt DEF TypeOK, ClaimsOK
<1>4. config.vestingPeriod \in Nat /\ now \in Nat
  BY DEF TypeOK, LifeOK, Configs, ClockOK
<1>5. ASSUME config.vestingPeriod # 0 PROVE vested \in Int
  <2>1. CASE now <= since BY <2>1
  <2>2. CASE ~(now <= since)
    <3>1. now - since \in Nat BY <2>2, <1>2, <1>4
    <3>2. VestedAmount(full, now - since, config.vestingPeriod) \in Int
      BY <3>1, <1>1, <1>4, <1>5, VestedIsInt
    <3> QED BY <2>2, <3>2
  <2> QED BY <2>1, <2>2
<1>6. PendingYieldForEpoch(user, epoch) =
        IF epoch \in hasClaimed[user] THEN 0
        ELSE IF config.vestingPeriod = 0 \/ since = 0 THEN full
        ELSE IF vested <= taken THEN 0 ELSE vested - taken
  BY DEF PendingYieldForEpoch
<1> HIDE DEF full, since, taken, vested
<1> QED BY <1>1, <1>3, <1>5, <1>6

\* Crediting a claim keeps what is credited well formed.
LEMMA CreditType ==
  ASSUME TypeOK, NEW user \in Users, NEW covered \in SUBSET (1..CurrentEpoch),
         Credit(user, covered)
  PROVE  credited' \in [Users -> [Epochs -> Int]]
<1> DEFINE part(e) == IF e \in covered THEN PendingYieldForEpoch(user, e) ELSE 0
           row == [e \in Epochs |-> credited[user][e] + part(e)]
<1>1. credited \in [Users -> [Epochs -> Int]] BY DEF TypeOK, ClaimsOK
<1>2. ASSUME NEW e \in Epochs PROVE part(e) \in Int
  <2>1. ASSUME e \in covered PROVE PendingYieldForEpoch(user, e) \in Int
    BY <2>1, PendingIsInt
  <2> QED BY <2>1
<1>3. credited' = [credited EXCEPT ![user] = row]
  BY <1>1 DEF Credit
<1>4. row \in [Epochs -> Int]
  <2> HIDE DEF part
  <2> QED BY <1>1, <1>2
<1> HIDE DEF row
<1> QED BY <1>1, <1>3, <1>4

\* The epochs a claim covers exist.
LEMMA UnclaimedExist ==
  ASSUME TypeOK, NEW user \in Users
  PROVE  /\ CurrentEpoch \in Nat
         /\ lastClaimed[user] \in 0..CurrentEpoch
         /\ UnclaimedEpochs(user) \in SUBSET (1..CurrentEpoch)
  BY DEF TypeOK, ClaimsOK, EpochsOK, CurrentEpoch, UnclaimedEpochs

\* What is pending over all epochs is an integer.
LEMMA PendingYieldIsInt ==
  ASSUME TypeOK, NEW user \in Users
  PROVE  PendingYield(user) \in Int
<1> DEFINE covered == UnclaimedEpochs(user)
           pending == [e \in covered |-> PendingYieldForEpoch(user, e)]
<1>1. covered \in SUBSET (1..CurrentEpoch) /\ CurrentEpoch \in Nat BY UnclaimedExist
<1>2. IsFiniteSet(covered)
  <2>1. IsFiniteSet(1..CurrentEpoch) BY <1>1, FS_Interval
  <2> HIDE DEF covered
  <2> QED BY <1>1, <2>1, FS_Subset
<1>3. \A e \in covered : pending[e] \in Int BY <1>1, PendingIsInt
<1> HIDE DEF covered, pending
<1>4. Net(pending, covered) \in Int BY <1>2, <1>3, NetIsInt
<1> QED BY <1>4 DEF PendingYield, pending, covered

\* Paying a claim keeps the claim accounts and the token balances natural.
LEMMA PayYieldType ==
  ASSUME TypeOK, NEW user \in Users, NEW amount \in Nat, PayYield(user, amount)
  PROVE  /\ totalYieldClaimed' \in [Users -> Nat]
         /\ yieldShortfall' \in [Users -> Nat]
         /\ yieldClaimsVolume' \in Nat
         /\ AssetOK'
<1> DEFINE paid == IF amount <= Cash THEN amount ELSE Cash
<1>1. asset \in [Accounts -> Nat] /\ Vault \in Accounts /\ user \in Accounts
  BY DEF TypeOK, AssetOK, Accounts
<1>2. paid \in Nat /\ amount - paid \in Nat
  BY <1>1 DEF Cash
<1>3. /\ totalYieldClaimed' = [totalYieldClaimed EXCEPT ![user] = @ + paid]
      /\ yieldClaimsVolume' = yieldClaimsVolume + paid
      /\ yieldShortfall' = [yieldShortfall EXCEPT ![user] = @ + (amount - paid)]
      /\ TransferAsset(Vault, user, paid)
  BY DEF PayYield
<1> HIDE DEF paid
<1>4. AssetOK' BY <1>1, <1>2, <1>3, TransferAssetType DEF TypeOK
<1> QED BY <1>2, <1>3, <1>4 DEF TypeOK, ClaimsOK

-----------------------------------------------------------------------------
(* The type of the state: the actions *)

\* Amounts a call may name are integers.
LEMMA InputsAreInt ==
  /\ AssetAmounts \subseteq Int /\ ShareAmounts \subseteq Int
  /\ YieldAmounts \subseteq Int /\ Periods \subseteq Nat /\ FeeChoices \subseteq Nat
  /\ Users \subseteq Accounts /\ Vault \in Accounts /\ Operator \in Accounts
  BY InputAssumption DEF Accounts

\* Deposits and mints.
LEMMA InvestType ==
  ASSUME TypeOK, NEW caller \in Users, NEW receiver \in Users,
         NEW assets \in Int, NEW shares \in Int,
         Invest(caller, receiver, assets, shares),
         negativeCalls' \in BOOLEAN
  PROVE  TypeOK'
<1>0. assets \in Nat
  <2>1. config.minDeposit \in Nat BY DEF TypeOK, LifeOK, Configs
  <2> QED BY <2>1 DEF Invest
<1>6. OutflowOK' BY DEF TypeOK, OutflowOK, Invest
<1>1. SnapshotsOK' BY UpdateSnapshotsType DEF Invest
<1>2. SharesOK' BY DEF TypeOK, SharesOK, Invest
<1>3. FundsOK' BY <1>0 DEF TypeOK, FundsOK, Invest
<1>4. InvestorsOK' BY DEF TypeOK, InvestorsOK, ClockOK, Invest
<1>5. AssetOK' BY TransferAssetType, InputsAreInt DEF TypeOK, Invest
<1> QED BY <1>1, <1>2, <1>3, <1>4, <1>5, <1>6, UntouchedParts DEF TypeOK, Invest

\* Withdrawals and redemptions, whose claims are typed by the caller.
LEMMA ExitType ==
  ASSUME TypeOK, NEW caller \in Users, NEW receiver \in Users, NEW owner \in Users,
         NEW assets \in Int, NEW shares \in Int, NEW yield \in Int,
         Exit(caller, receiver, owner, assets, shares, yield), ClaimsOK'
  PROVE  TypeOK'
<1>1. SharesOK' /\ SnapshotsOK' BY BurnType DEF Exit
<1>2. AllowanceOK' BY ChargeCallerType DEF Exit
<1>3. totalDeposited' \in Int BY DEF TypeOK, FundsOK, Exit
<1>4. FundsOK' BY <1>3, LowerUserDepositedType DEF Exit
<1>5. InvestorsOK' BY DEF TypeOK, InvestorsOK, Exit
<1>6. assets + yield \in Int OBVIOUS
<1>7. AssetOK' BY <1>6, TransferAssetType, InputsAreInt DEF TypeOK, Exit
<1> QED
  BY <1>1, <1>2, <1>4, <1>5, <1>7, UntouchedParts DEF TypeOK, Exit

\* The prices of the state.
LEMMA QuotesAreInt ==
  ASSUME TypeOK, NEW x \in Int
  PROVE  /\ SharesPriced => /\ SharesFor(x) \in Int
                            /\ PreviewWithdraw(x, totalSupply, TotalAssets) \in Int
         /\ MintPriced => PreviewMint(x, totalSupply, TotalAssets) \in Int
         /\ AssetsPriced => AssetsFor(x) \in Int
<1>1. totalSupply \in Int /\ TotalAssets \in Int
  BY DEF TypeOK, SharesOK, FundsOK, TotalAssets
<1> QED
  BY <1>1, PricesAreInt DEF SharesPriced, MintPriced, AssetsPriced, SharesFor, AssetsFor

\* What is noted of a call's sign is a truth value.
LEMMA NotedSign == \A amount : TypeOK /\ NoteSign(amount) => negativeCalls' \in BOOLEAN
  BY DEF TypeOK, OutflowOK, NoteSign

\* Deposits, mints, withdrawals and redemptions keep the type.
LEMMA InvestNextType == ASSUME TypeOK, InvestNext PROVE TypeOK'
<1> USE InputsAreInt
<1>1. ASSUME NEW caller \in Users, NEW receiver \in Users, NEW assets \in AssetAmounts,
             Deposit(caller, assets, receiver)
      PROVE TypeOK'
  <2>1. SharesFor(assets) \in Int
    BY <1>1, QuotesAreInt DEF Deposit
  <2>2. negativeCalls' \in BOOLEAN BY <1>1 DEF Deposit, TypeOK, OutflowOK
  <2> QED BY <1>1, <2>1, <2>2, InvestType DEF Deposit
<1>2. ASSUME NEW caller \in Users, NEW receiver \in Users, NEW shares \in ShareAmounts,
             Mint(caller, shares, receiver)
      PROVE TypeOK'
  <2>1. PreviewMint(shares, totalSupply, TotalAssets) \in Int
    BY <1>2, QuotesAreInt DEF Mint
  <2>2. negativeCalls' \in BOOLEAN BY <1>2, NotedSign DEF Mint
  <2> QED BY <1>2, <2>1, <2>2, InvestType DEF Mint
<1>3. ASSUME NEW caller \in Users, NEW receiver \in Users, NEW owner \in Users,
             NEW assets \in AssetAmounts, Withdraw(caller, assets, receiver, owner)
      PROVE TypeOK'
  <2>1. PreviewWithdraw(assets, totalSupply, TotalAssets) \in Int
    BY <1>3, QuotesAreInt DEF Withdraw
  <2>2. ClaimsOK' BY <1>3, UntouchedParts DEF Withdraw, Exit, epochVars
  <2> QED BY <1>3, <2>1, <2>2, ExitType DEF Withdraw
<1>4. ASSUME NEW caller \in Users, NEW receiver \in Users, NEW owner \in Users,
             NEW shares \in ShareAmounts, Redeem(caller, shares, receiver, owner)
      PROVE TypeOK'
  <2>1. AssetsFor(shares) \in Int
    BY <1>4, QuotesAreInt DEF Redeem
  <2>2. ClaimsOK' BY <1>4, UntouchedParts DEF Redeem, Exit, epochVars
  <2> QED BY <1>4, <2>1, <2>2, ExitType DEF Redeem
<1> QED BY <1>1, <1>2, <1>3, <1>4 DEF InvestNext

\* A distribution adds an epoch that nobody has a snapshot of or has claimed.
LEMMA DistributeYieldType ==
  ASSUME TypeOK, NEW amount \in Int, DistributeYield(amount)
  PROVE  TypeOK'
<1> DEFINE record == [yield |-> amount, totalShares |-> totalSupply,
                      timestamp |-> now, totalAssets |-> totalDeposited + amount]
<1>1. record \in EpochRecords
  BY DEF DistributeYield, TypeOK, SharesOK, FundsOK, ClockOK, EpochRecords
<1>2. epochs' = Append(epochs, record) /\ holdersAt' = Append(holdersAt, balance)
  BY DEF DistributeYield
<1> HIDE DEF record
<1>3. EpochsOK /\ CurrentEpoch < MaxEpochs /\ balance \in [Users -> Int]
  BY DEF TypeOK, DistributeYield, SharesOK
<1>4. EpochsOK'
  BY <1>1, <1>2, <1>3, BoundAssumption DEF EpochsOK, CurrentEpoch
<1>5. Len(epochs') = Len(epochs) + 1 /\ Len(epochs) \in Nat
  BY <1>2, <1>3 DEF EpochsOK
<1>6. SnapshotsOK'
  <2>1. UNCHANGED <<sharesAtEpoch, lastInteraction>> BY DEF DistributeYield, snapshotVars
  <2> QED BY <1>5, <2>1 DEF TypeOK, SnapshotsOK
<1>7. ClaimsOK'
  <2>1. UNCHANGED claimVars BY DEF DistributeYield
  <2>2. 1..Len(epochs) \subseteq 1..Len(epochs') /\ 0..Len(epochs) \subseteq 0..Len(epochs')
    BY <1>5
  <2> QED BY <2>1, <2>2 DEF TypeOK, ClaimsOK, claimVars
<1>8. FundsOK' BY DEF TypeOK, FundsOK, DistributeYield
<1>9. AssetOK' BY TransferAssetType, InputsAreInt DEF TypeOK, DistributeYield
<1> QED
  BY <1>4, <1>6, <1>7, <1>8, <1>9, UntouchedParts DEF TypeOK, DistributeYield

\* claim_yield moves the cursor to the newest epoch and keeps the type.
LEMMA ClaimYieldType ==
  ASSUME TypeOK, NEW user \in Users, ClaimYield(user)
  PROVE  TypeOK'
<1>1. /\ CurrentEpoch \in Nat /\ lastClaimed[user] \in 0..CurrentEpoch
      /\ UnclaimedEpochs(user) \in SUBSET (1..CurrentEpoch)
  BY UnclaimedExist
<1>2. credited' \in [Users -> [Epochs -> Int]]
  BY <1>1, CreditType DEF ClaimYield
<1>3. /\ totalYieldClaimed' \in [Users -> Nat] /\ yieldShortfall' \in [Users -> Nat]
      /\ yieldClaimsVolume' \in Nat /\ AssetOK'
  <2>1. PendingYield(user) \in Nat BY PendingYieldIsInt DEF ClaimYield
  <2> QED BY <2>1, PayYieldType DEF ClaimYield
<1>4. lastClaimed' \in [Users -> 0..Len(epochs)]
  BY <1>1 DEF ClaimYield, TypeOK, ClaimsOK, CurrentEpoch
<1>5. hasClaimed' \in [Users -> SUBSET (1..Len(epochs))]
  <2>1. (lastClaimed[user] + 1)..CurrentEpoch \subseteq 1..CurrentEpoch
    BY <1>1
  <2> QED BY <2>1 DEF ClaimYield, TypeOK, ClaimsOK, CurrentEpoch
<1>6. epochs' = epochs /\ epochYieldClaimed' = epochYieldClaimed
  BY DEF ClaimYield, epochVars
<1>7. ClaimsOK' BY <1>2, <1>3, <1>4, <1>5, <1>6 DEF TypeOK, ClaimsOK
<1> QED BY <1>3, <1>7, UntouchedParts DEF TypeOK, ClaimYield

\* The cursor stays within the epochs, and passes claimed ones: the walk stops.
LEMMA CursorType ==
  ASSUME TypeOK, NEW user \in Users, NEW claimed \in SUBSET (1..CurrentEpoch)
  PROVE  /\ AdvancedCursor(user, claimed) \in 0..CurrentEpoch
         /\ (lastClaimed[user] + 1)..AdvancedCursor(user, claimed) \subseteq claimed
<1>1. CurrentEpoch \in Nat /\ lastClaimed[user] \in 0..CurrentEpoch
  BY UnclaimedExist
<1> DEFINE from == lastClaimed[user]
           gaps == {c \in from..CurrentEpoch : c = CurrentEpoch \/ c + 1 \notin claimed}
<1>2. gaps \subseteq Nat /\ CurrentEpoch \in gaps
  BY <1>1
<1>3. PICK c \in gaps : \A d \in gaps : c <= d
  <2> HIDE DEF gaps
  <2> QED BY <1>2, LeastNatural
<1>4. (from + 1)..c \subseteq claimed
  <2>1. SUFFICES ASSUME NEW e \in (from + 1)..c PROVE e \in claimed
    OBVIOUS
  <2>2. e - 1 \in from..CurrentEpoch /\ e - 1 < c
    BY <1>1, <1>3
  <2>3. e - 1 \notin gaps BY <2>2, <1>3
  <2> QED BY <1>1, <2>2, <2>3
<1>5. \E d \in from..CurrentEpoch :
        (from + 1)..d \subseteq claimed /\ (d = CurrentEpoch \/ d + 1 \notin claimed)
  BY <1>3, <1>4
<1> QED BY <1>1, <1>5 DEF AdvancedCursor

\* claim_yield_for_epoch marks at most an epoch that exists and keeps the type.
LEMMA ClaimYieldForEpochType ==
  ASSUME TypeOK, NEW user \in Users, NEW epoch \in 1..CurrentEpoch,
         ClaimYieldForEpoch(user, epoch)
  PROVE  TypeOK'
<1> DEFINE total == epochYieldClaimed[user][epoch] + PendingYieldForEpoch(user, epoch)
           claimed == hasClaimed[user] \cup {epoch}
<1>1. /\ CurrentEpoch \in Nat /\ epoch \in Epochs
      /\ PendingYieldForEpoch(user, epoch) \in Nat
  BY UnclaimedExist, EntitlementIsInt, PendingIsInt DEF ClaimYieldForEpoch
<1>2. epochYieldClaimed[user][epoch] \in Nat /\ claimed \in SUBSET (1..CurrentEpoch)
  BY <1>1 DEF TypeOK, ClaimsOK, CurrentEpoch
<1>3. credited' \in [Users -> [Epochs -> Int]]
  <2>1. {epoch} \in SUBSET (1..CurrentEpoch) OBVIOUS
  <2> QED BY <2>1, CreditType DEF ClaimYieldForEpoch
<1>4. /\ totalYieldClaimed' \in [Users -> Nat] /\ yieldShortfall' \in [Users -> Nat]
      /\ yieldClaimsVolume' \in Nat /\ AssetOK'
  BY <1>1, PayYieldType DEF ClaimYieldForEpoch
<1>5. epochYieldClaimed' \in [Users -> [Epochs -> Nat]]
  <2>1. epochYieldClaimed' = [epochYieldClaimed EXCEPT ![user][epoch] = total]
    BY DEF ClaimYieldForEpoch
  <2>2. total \in Nat BY <1>1, <1>2
  <2> HIDE DEF total
  <2>3. [epochYieldClaimed[user] EXCEPT ![epoch] = total] \in [Epochs -> Nat]
    BY <2>2 DEF TypeOK, ClaimsOK
  <2> QED BY <2>1, <2>3 DEF TypeOK, ClaimsOK
<1>6. /\ hasClaimed' \in [Users -> SUBSET (1..Len(epochs))]
      /\ lastClaimed' \in [Users -> 0..Len(epochs)]
  <2>1. \/ UNCHANGED <<hasClaimed, lastClaimed>>
        \/ /\ hasClaimed' = [hasClaimed EXCEPT ![user] = claimed]
           /\ lastClaimed' = [lastClaimed EXCEPT ![user] = AdvancedCursor(user, claimed)]
    BY DEF ClaimYieldForEpoch
  <2>2. AdvancedCursor(user, claimed) \in 0..CurrentEpoch
    BY <1>2, CursorType
  <2> HIDE DEF claimed
  <2> QED BY <1>2, <2>1, <2>2 DEF TypeOK, ClaimsOK, CurrentEpoch
<1>7. epochs' = epochs BY DEF ClaimYieldForEpoch, epochVars
<1>8. ClaimsOK' BY <1>3, <1>4, <1>5, <1>6, <1>7 DEF ClaimsOK
<1> QED BY <1>4, <1>8, UntouchedParts DEF TypeOK, ClaimYieldForEpoch

\* resolve_yield_shortfall lowers the shortfall to a natural.
LEMMA ResolveYieldShortfallType ==
  ASSUME TypeOK, NEW user \in Users, NEW amount \in Int,
         ResolveYieldShortfall(user, amount)
  PROVE  TypeOK'
<1>1. AssetOK' BY TransferAssetType, InputsAreInt DEF TypeOK, ResolveYieldShortfall
<1>2. ClaimsOK'
  <2>1. yieldShortfall' \in [Users -> Nat]
    BY DEF TypeOK, ClaimsOK, ResolveYieldShortfall
  <2> QED BY <2>1 DEF TypeOK, ClaimsOK, ResolveYieldShortfall, epochVars
<1>3. OutflowOK' BY DEF TypeOK, OutflowOK, ResolveYieldShortfall
<1> QED
  BY <1>1, <1>2, <1>3, UntouchedParts DEF TypeOK, ResolveYieldShortfall

\* Distributions, claims and resolved shortfalls keep the type.
LEMMA YieldNextType == ASSUME TypeOK, YieldNext PROVE TypeOK'
  BY InputsAreInt, DistributeYieldType, ClaimYieldType, ClaimYieldForEpochType,
     ResolveYieldShortfallType DEF YieldNext

\* A redemption at maturity claims what is pending on the way.
LEMMA RedeemAtMaturityType ==
  ASSUME TypeOK, NEW caller \in Users, NEW receiver \in Users, NEW owner \in Users,
         NEW shares \in Int, RedeemAtMaturity(caller, shares, receiver, owner)
  PROVE  TypeOK'
<1> DEFINE pending == PendingYield(owner)
           paid == IF pending > 0 THEN pending ELSE 0
           covered == IF pending > 0 THEN UnclaimedEpochs(owner) ELSE {}
<1>1. /\ pending \in Int
      /\ Credit(owner, covered)
      /\ Exit(caller, receiver, owner, AssetsFor(shares), shares, paid)
      /\ hasClaimed' = [hasClaimed EXCEPT ![owner] = IF pending > 0 THEN @ \cup 1..CurrentEpoch
                                                     ELSE @]
      /\ totalYieldClaimed' = [totalYieldClaimed EXCEPT ![owner] = @ + paid]
      /\ yieldClaimsVolume' = yieldClaimsVolume + paid
      /\ UNCHANGED <<lastClaimed, epochYieldClaimed, yieldShortfall>>
      /\ AssetsPriced
  BY PendingYieldIsInt DEF RedeemAtMaturity
<1>2. AssetsFor(shares) \in Int BY <1>1, QuotesAreInt
<1>3. covered \in SUBSET (1..CurrentEpoch) BY UnclaimedExist
<1>4. paid \in Nat BY <1>1
<1> HIDE DEF pending, paid, covered
<1>5. credited' \in [Users -> [Epochs -> Int]] BY <1>1, <1>3, CreditType
<1>6. epochs' = epochs BY <1>1 DEF Exit, epochVars
<1>7. hasClaimed' \in [Users -> SUBSET (1..Len(epochs))]
  <2>1. hasClaimed \in [Users -> SUBSET (1..Len(epochs))] BY DEF TypeOK, ClaimsOK
  <2>2. \/ hasClaimed' = [hasClaimed EXCEPT ![owner] = @ \cup 1..Len(epochs)]
        \/ hasClaimed' = [hasClaimed EXCEPT ![owner] = @]
    BY <1>1 DEF CurrentEpoch
  <2> QED BY <1>6, <2>1, <2>2
<1>8. ClaimsOK'
  <2>1. /\ lastClaimed' \in [Users -> 0..Len(epochs')]
        /\ epochYieldClaimed' \in [Users -> [Epochs -> Nat]]
        /\ yieldShortfall' \in [Users -> Nat]
    BY <1>1, <1>6 DEF TypeOK, ClaimsOK
  <2>2. totalYieldClaimed' \in [Users -> Nat] /\ yieldClaimsVolume' \in Nat
    <3>1. totalYieldClaimed \in [Users -> Nat] /\ yieldClaimsVolume \in Nat
      BY DEF TypeOK, ClaimsOK
    <3>2. /\ totalYieldClaimed' = [totalYieldClaimed EXCEPT ![owner] = @ + paid]
          /\ yieldClaimsVolume' = yieldClaimsVolume + paid
      BY <1>1
    <3> QED BY <1>4, <3>1, <3>2
  <2> QED BY <1>5, <1>6, <1>7, <2>1, <2>2 DEF ClaimsOK
<1> QED BY <1>1, <1>2, <1>4, <1>8, ExitType

\* A request that is queued is a record of its type.
LEMMA RequestType ==
  ASSUME TypeOK, NEW id \in 1..Len(requests)
  PROVE  /\ requests[id] \in RequestRecords
         /\ requests[id].user \in Users
         /\ requests[id].shares \in Nat
         /\ requests[id].value \in Int
<1>1. requests[id] \in RequestRecords BY DEF TypeOK, RequestsOK
<1> QED BY <1>1 DEF RequestRecords

\* Answering a request only changes its status.
LEMMA AnsweredType ==
  ASSUME TypeOK, NEW id \in 1..Len(requests), NEW status \in {"Approved", "Rejected"},
         requests' = [requests EXCEPT ![id].status = status]
  PROVE  RequestsOK'
<1>1. [requests[id] EXCEPT !.status = status] \in RequestRecords
  BY RequestType DEF RequestRecords
<1>2. requests' = [requests EXCEPT ![id] = [requests[id] EXCEPT !.status = status]]
  OBVIOUS
<1> DEFINE answered == [requests[id] EXCEPT !.status = status]
<1> HIDE DEF answered
<1> QED BY <1>1, <1>2 DEF TypeOK, RequestsOK, answered

\* A new request is well formed; its shares move to escrow.
LEMMA RequestEarlyRedemptionType ==
  ASSUME TypeOK, NEW user \in Users, NEW shares \in Int,
         RequestEarlyRedemption(user, shares)
  PROVE  TypeOK'
<1> DEFINE record == [user |-> user, shares |-> shares,
                      value |-> AssetsFor(shares), status |-> "Pending"]
<1>1. record \in RequestRecords
  <2>1. AssetsFor(shares) \in Int /\ shares \in Nat
    BY QuotesAreInt DEF RequestEarlyRedemption
  <2> QED BY <2>1 DEF RequestRecords
<1>2. requests' = Append(requests, record) BY DEF RequestEarlyRedemption
<1> HIDE DEF record
<1>3. RequestsOK' BY <1>1, <1>2 DEF TypeOK, RequestsOK
<1>4. SnapshotsOK' BY UpdateSnapshotsType DEF RequestEarlyRedemption
<1>5. SharesOK' BY DEF TypeOK, SharesOK, RequestEarlyRedemption
<1> QED
  BY <1>3, <1>4, <1>5, UntouchedParts DEF TypeOK, RequestEarlyRedemption

\* The fee on a value is an integer.
LEMMA FeeIsInt ==
  ASSUME TypeOK, NEW value \in Int
  PROVE  EarlyRedemptionFee(value, config.feeBps) \in Int
<1>1. config.feeBps \in Int
  <2>1. config.feeBps \in 0..1000 BY DEF TypeOK, LifeOK, Configs
  <2>2. \A n \in 0..1000 : n \in Int OBVIOUS
  <2> QED BY <2>1, <2>2
<1> DEFINE bps == config.feeBps
<1>2. bps \in Int BY <1>1
<1>3. 10000 \in Int \ {0} OBVIOUS
<1> HIDE DEF bps
<1>4. MulDiv(value, bps, 10000) \in Int BY <1>2, <1>3, MulDivIsInt
<1> QED BY <1>4 DEF EarlyRedemptionFee, bps

\* Processing pays a natural, or the token refuses.
LEMMA ProcessEarlyRedemptionType ==
  ASSUME TypeOK, NEW id \in 1..Len(requests), ProcessEarlyRedemption(id)
  PROVE  TypeOK'
<1> DEFINE user == requests[id].user
           value == requests[id].value
           fee == EarlyRedemptionFee(value, config.feeBps)
           net == value - fee
<1>1. user \in Users /\ requests[id].shares \in Nat /\ value \in Int
  BY RequestType
<1>2. net \in Int
  <2>1. fee \in Int BY <1>1, FeeIsInt
  <2> HIDE DEF fee, value
  <2> QED BY <1>1, <2>1
<1>3. /\ requests' = [requests EXCEPT ![id].status = "Approved"]
      /\ requests[id].shares <= escrow[user]
      /\ escrow' = [escrow EXCEPT ![user] = @ - requests[id].shares]
      /\ totalSupply' = totalSupply - requests[id].shares
      /\ totalDeposited' = totalDeposited - net
      /\ LowerUserDeposited(user, net)
      /\ TransferAsset(Vault, user, net)
      /\ UNCHANGED balance
  BY DEF ProcessEarlyRedemption
<1> HIDE DEF user, net
<1>4. RequestsOK' BY <1>3, AnsweredType
<1>5. SharesOK' BY <1>1, <1>3 DEF TypeOK, SharesOK
<1>6. totalDeposited' \in Int BY <1>2, <1>3 DEF TypeOK, FundsOK
<1>7. FundsOK' BY <1>1, <1>2, <1>3, <1>6, LowerUserDepositedType
<1>8. AssetOK' BY <1>1, <1>2, <1>3, TransferAssetType, InputsAreInt DEF TypeOK
<1>9. /\ UNCHANGED <<now, lifeVars, stopVars, complianceVars, allowance, investorVars>>
      /\ UNCHANGED <<snapshotVars, epochVars, claimVars, emergencyVars, outflow>>
      /\ UNCHANGED negativeCalls
  BY DEF ProcessEarlyRedemption
<1> QED BY <1>4, <1>5, <1>7, <1>8, <1>9, UntouchedParts DEF TypeOK

\* Cancelling or rejecting moves the shares back.
LEMMA ReturnFromEscrowType ==
  ASSUME TypeOK, NEW id \in 1..Len(requests), ReturnFromEscrow(id)
  PROVE  TypeOK'
<1> DEFINE user == requests[id].user
<1>1. user \in Users /\ requests[id].shares \in Nat BY RequestType
<1>2. /\ requests' = [requests EXCEPT ![id].status = "Rejected"]
      /\ requests[id].shares <= escrow[user]
      /\ escrow' = [escrow EXCEPT ![user] = @ - requests[id].shares]
      /\ balance' = [balance EXCEPT ![user] = @ + requests[id].shares]
      /\ UpdateSnapshots({user})
      /\ UNCHANGED <<totalSupply, epochVars>>
  BY DEF ReturnFromEscrow
<1> HIDE DEF user
<1>3. RequestsOK' BY <1>2, AnsweredType
<1>4. SharesOK' BY <1>1, <1>2 DEF TypeOK, SharesOK
<1>5. SnapshotsOK' BY <1>1, <1>2, UpdateSnapshotsType
<1> QED BY <1>3, <1>4, <1>5, UntouchedParts DEF TypeOK, ReturnFromEscrow

\* Redemptions at maturity and the request queue keep the type.
LEMMA RedemptionNextType == ASSUME TypeOK, RedemptionNext PROVE TypeOK'
  BY InputsAreInt, RedeemAtMaturityType, RequestEarlyRedemptionType,
     ProcessEarlyRedemptionType, ReturnFromEscrowType
  DEF RedemptionNext, CancelEarlyRedemption, RejectEarlyRedemption

\* The lifecycle moves; none of them enters Emergency.
LEMMA MoveToType ==
  ASSUME TypeOK, NEW state \in VaultStates \ {"Emergency"}, MoveTo(state)
  PROVE  TypeOK'
<1>1. LifeOK' BY DEF TypeOK, LifeOK, MoveTo
<1>2. EmergencyOK'
  BY DEF TypeOK, EmergencyOK, MoveTo, otherVars, emergencyVars
<1> QED
  BY <1>1, <1>2, UntouchedParts DEF TypeOK, MoveTo, otherVars

\* A refund burns the whole balance and keeps the type.
LEMMA RefundType ==
  ASSUME TypeOK, NEW user \in Users, Refund(user)
  PROVE  TypeOK'
<1>1. balance[user] \in Int BY DEF TypeOK, SharesOK
<1>2. AssetsFor(balance[user]) \in Int BY <1>1, QuotesAreInt DEF Refund
<1>3. /\ Burn(user, balance[user])
      /\ totalDeposited' = totalDeposited - AssetsFor(balance[user])
      /\ userDeposited' = [userDeposited EXCEPT ![user] = 0]
      /\ TransferAsset(Vault, user, AssetsFor(balance[user]))
      /\ UNCHANGED <<otherVars, lifeVars, escrow>>
  BY DEF Refund
<1>4. SharesOK' /\ SnapshotsOK' BY <1>1, <1>3, BurnType DEF otherVars
<1>5. FundsOK' BY <1>2, <1>3 DEF TypeOK, FundsOK
<1>6. AssetOK' BY <1>2, <1>3, TransferAssetType, InputsAreInt DEF TypeOK
<1> QED BY <1>3, <1>4, <1>5, <1>6, UntouchedParts DEF TypeOK, otherVars

\* The lifecycle keeps the type.
LEMMA LifecycleNextType == ASSUME TypeOK, LifecycleNext PROVE TypeOK'
<1>1. {"Active", "Cancelled", "Matured", "Closed"} \subseteq VaultStates \ {"Emergency"}
  BY DEF VaultStates
<1> QED
  BY <1>1, MoveToType, RefundType
  DEF LifecycleNext, ActivateVault, CancelFunding, MatureVault, CloseVault

\* A change of the settings.
LEMMA ConfigureType ==
  ASSUME TypeOK, NEW newConfig \in Configs, Configure(newConfig)
  PROVE  TypeOK'
<1>1. LifeOK' BY DEF TypeOK, LifeOK, Configure
<1>2. EmergencyOK' BY DEF TypeOK, EmergencyOK, Configure, otherVars, emergencyVars
<1> QED
  BY <1>1, <1>2, UntouchedParts DEF TypeOK, Configure, otherVars

\* The limits an operator sets stay within Configs; a fee is at most 1000 bps.
LEMMA LimitsNextType == ASSUME TypeOK, LimitsNext PROVE TypeOK'
<1> USE InputsAreInt
<1>1. config \in Configs BY DEF TypeOK, LifeOK
<1>2. ASSUME NEW target \in AssetAmounts, SetFundingTarget(target) PROVE TypeOK'
  <2>1. [config EXCEPT !.fundingTarget = target] \in Configs BY <1>1 DEF Configs
  <2> QED BY <1>2, <2>1, ConfigureType DEF SetFundingTarget
<1>3. ASSUME NEW min \in Int, NEW max \in Int, SetDepositLimits(min, max) PROVE TypeOK'
  <2>1. [config EXCEPT !.minDeposit = min, !.maxDepositPerUser = max] \in Configs
    <3>1. min \in Nat /\ max \in Nat BY <1>3 DEF SetDepositLimits
    <3> QED BY <1>1, <3>1 DEF Configs
  <2> QED BY <1>3, <2>1, ConfigureType DEF SetDepositLimits
<1>4. config.minDeposit \in Nat /\ config.maxDepositPerUser \in Nat BY <1>1 DEF Configs
<1>5. ASSUME NEW max \in 0..Cardinality(Users), SetMaxInvestors(max) PROVE TypeOK'
  <2>1. max \in Nat
    BY UsersAssumption, FS_CardinalityType
  <2>2. [config EXCEPT !.maxInvestors = max] \in Configs BY <1>1, <2>1 DEF Configs
  <2> QED BY <1>5, <2>2, ConfigureType DEF SetMaxInvestors
<1>6. ASSUME NEW bps \in FeeChoices, SetEarlyRedemptionFee(bps) PROVE TypeOK'
  <2>1. bps \in 0..1000 BY <1>6 DEF SetEarlyRedemptionFee
  <2>2. [config EXCEPT !.feeBps = bps] \in Configs BY <1>1, <2>1 DEF Configs
  <2> QED BY <1>6, <2>2, ConfigureType DEF SetEarlyRedemptionFee
<1> QED
  BY <1>2, <1>3, <1>4, <1>5, <1>6
  DEF LimitsNext, SetMinDeposit, SetMaxDepositPerUser

\* The terms an operator sets stay within Configs.
LEMMA TermsNextType == ASSUME TypeOK, TermsNext PROVE TypeOK'
<1>1. config \in Configs BY DEF TypeOK, LifeOK
<1>2. ASSUME NEW date \in 0..MaxTime, SetMaturityDate(date) PROVE TypeOK'
  <2>1. date \in Nat BY BoundAssumption
  <2>2. [config EXCEPT !.maturityDate = date] \in Configs BY <1>1, <2>1 DEF Configs
  <2> QED BY <1>2, <2>2, ConfigureType DEF SetMaturityDate
<1>3. ASSUME NEW period \in Periods, SetYieldVestingPeriod(period) PROVE TypeOK'
  <2>1. [config EXCEPT !.vestingPeriod = period] \in Configs
    BY <1>1, InputsAreInt DEF Configs
  <2> QED BY <1>3, <2>1, ConfigureType DEF SetYieldVestingPeriod
<1>4. ASSUME NEW period \in Periods, SetLockUpPeriod(period) PROVE TypeOK'
  <2>1. [config EXCEPT !.lockUpPeriod = period] \in Configs
    BY <1>1, InputsAreInt DEF Configs
  <2> QED BY <1>4, <2>1, ConfigureType DEF SetLockUpPeriod
<1> QED BY <1>2, <1>3, <1>4 DEF TermsNext

\* Pausing and freezing keep the type.
LEMMA FreezeNextType == ASSUME TypeOK, FreezeNext PROVE TypeOK'
<1>1. StopOK' BY DEF TypeOK, StopOK, FreezeNext, Pause, Unpause, SetFreezeFlags, Stop
<1>2. UNCHANGED <<unstoppedVars, asset, outflow>>
  BY DEF FreezeNext, Pause, Unpause, SetFreezeFlags
<1> QED BY <1>1, <1>2, UntouchedParts DEF TypeOK, unstoppedVars

\* Emergency calls keep the type; the frozen supply is positive in Emergency.
LEMMA EmergencyNextType == ASSUME TypeOK, EmergencyNext PROVE TypeOK'
<1>0. Cash \in Nat /\ Users \cup {Operator} \subseteq Accounts
  BY InputsAreInt DEF TypeOK, AssetOK, Cash
<1>1. ASSUME NEW recipient \in Users \cup {Operator}, EmergencyWithdraw(recipient)
      PROVE TypeOK'
  <2>1. StopOK' BY <1>1 DEF EmergencyWithdraw, Stop, StopOK
  <2>2. AssetOK'
    BY <1>0, <1>1, TransferAssetType, InputsAreInt DEF TypeOK, EmergencyWithdraw
  <2>3. OutflowOK'
    <3>1. outflow' = outflow + Cash /\ negativeCalls' = negativeCalls
      BY <1>1 DEF EmergencyWithdraw, unstoppedVars
    <3> QED BY <1>0, <3>1 DEF TypeOK, OutflowOK
  <2> QED
    BY <1>1, <2>1, <2>2, <2>3, UntouchedParts DEF TypeOK, EmergencyWithdraw, unstoppedVars
<1>2. ASSUME EmergencyEnableProRata PROVE TypeOK'
  <2>1. LifeOK' BY <1>2 DEF TypeOK, LifeOK, EmergencyEnableProRata, VaultStates
  <2>2. StopOK' BY <1>2 DEF TypeOK, StopOK, EmergencyEnableProRata
  <2>3. EmergencyOK'
    <3>1. /\ emergency' = [emergency EXCEPT !.balance = Cash, !.supply = totalSupply]
          /\ emergencyPaid' = 0
      BY <1>2 DEF EmergencyEnableProRata
    <3>2. totalSupply \in Nat /\ totalSupply > 0
      BY <1>2 DEF TypeOK, SharesOK, EmergencyEnableProRata
    <3>3. emergency \in [balance : Nat, supply : Nat, claimed : SUBSET Users]
      BY DEF TypeOK, EmergencyOK
    <3> HIDE DEF Cash
    <3>4. /\ emergency' \in [balance : Nat, supply : Nat, claimed : SUBSET Users]
          /\ emergency'.supply = totalSupply
      BY <1>0, <3>1, <3>2, <3>3
    <3> QED BY <3>1, <3>2, <3>4 DEF EmergencyOK
  <2> QED
    BY <1>2, <2>1, <2>2, <2>3, UntouchedParts DEF TypeOK, EmergencyEnableProRata
<1>3. ASSUME NEW user \in Users, EmergencyClaim(user) PROVE TypeOK'
  <2> DEFINE amount == MulDiv(emergency.balance, balance[user], emergency.supply)
  <2>1. balance[user] \in Nat BY <1>3 DEF TypeOK, SharesOK, EmergencyClaim
  <2>2. emergency.balance \in Nat /\ emergency.supply \in Nat \ {0}
    BY <1>3 DEF TypeOK, EmergencyOK, EmergencyClaim
  <2>3. amount \in Nat BY <2>1, <2>2, MulDivIsNat
  <2>4. /\ emergency' = [emergency EXCEPT !.claimed = @ \cup {user}]
        /\ Burn(user, balance[user])
        /\ TransferAsset(Vault, user, amount)
        /\ outflow' = outflow + amount
        /\ emergencyPaid' = emergencyPaid + amount
        /\ UNCHANGED <<now, lifeVars, stopVars, complianceVars, escrow, allowance,
                       fundVars, investorVars, epochVars, claimVars, requests>>
        /\ UNCHANGED negativeCalls
    BY <1>3 DEF EmergencyClaim
  <2> HIDE DEF amount
  <2>5. SharesOK' /\ SnapshotsOK' BY <2>1, <2>4, BurnType
  <2>6. AssetOK' BY <2>3, <2>4, TransferAssetType, InputsAreInt DEF TypeOK
  <2>7. OutflowOK' BY <2>3, <2>4 DEF TypeOK, OutflowOK
  <2>8. EmergencyOK'
    <3>1. emergency \in [balance : Nat, supply : Nat, claimed : SUBSET Users]
      BY DEF TypeOK, EmergencyOK
    <3>2. /\ emergency' \in [balance : Nat, supply : Nat, claimed : SUBSET Users]
          /\ emergency'.supply = emergency.supply
      BY <2>4, <3>1
    <3>3. emergencyPaid' \in Nat BY <2>3, <2>4 DEF TypeOK, EmergencyOK
    <3> QED BY <2>4, <3>2, <3>3 DEF TypeOK, EmergencyOK, lifeVars
  <2> QED BY <2>4, <2>5, <2>6, <2>7, <2>8, UntouchedParts DEF TypeOK
<1> QED BY <1>1, <1>2, <1>3 DEF EmergencyNext

\* Moving shares between users.
LEMMA MoveSharesType ==
  ASSUME TypeOK, NEW from \in Users, NEW to \in Users, NEW amount \in Int,
         MoveShares(from, to, amount)
  PROVE  SharesOK' /\ SnapshotsOK' /\ OutflowOK'
<1>1. SnapshotsOK' BY UpdateSnapshotsType DEF MoveShares, tokenUnchanged
<1>2. /\ amount <= balance[from]
      /\ balance' = [[balance EXCEPT ![from] = @ - amount] EXCEPT ![to] = @ + amount]
      /\ UNCHANGED <<escrow, totalSupply>>
  BY DEF MoveShares, BalancesAfterMove, tokenUnchanged
<1>3. [balance EXCEPT ![from] = @ - amount] \in [Users -> Int]
  BY <1>2 DEF TypeOK, SharesOK
<1>4. SharesOK' BY <1>2, <1>3 DEF TypeOK, SharesOK
<1>5. OutflowOK' BY NotedSign DEF MoveShares, tokenUnchanged, TypeOK, OutflowOK
<1> QED BY <1>1, <1>4, <1>5

\* Transfers and burns keep the type.
LEMMA TransferNextType == ASSUME TypeOK, TransferNext PROVE TypeOK'
<1> USE InputsAreInt
<1>1. ASSUME NEW from \in Users, NEW amount \in ShareAmounts, BurnShares(from, amount)
      PROVE TypeOK'
  <2>1. SharesOK' /\ SnapshotsOK'
    BY <1>1, BurnType DEF BurnShares, tokenUnchanged
  <2>2. OutflowOK' BY <1>1, NotedSign DEF BurnShares, tokenUnchanged, TypeOK, OutflowOK
  <2> QED BY <1>1, <2>1, <2>2, UntouchedParts DEF TypeOK, BurnShares, tokenUnchanged
<1>2. ASSUME NEW from \in Users, NEW to \in Users, NEW amount \in ShareAmounts,
             Transfer(from, to, amount)
      PROVE TypeOK'
  <2>1. SharesOK' /\ SnapshotsOK' /\ OutflowOK' BY <1>2, MoveSharesType DEF Transfer
  <2> QED
    BY <1>2, <2>1, UntouchedParts DEF TypeOK, Transfer, MoveShares, tokenUnchanged
<1> QED BY <1>1, <1>2 DEF TransferNext

\* Allowances and what is done with them keep the type.
LEMMA AllowanceNextType == ASSUME TypeOK, AllowanceNext PROVE TypeOK'
<1> USE InputsAreInt
<1>1. ASSUME NEW from \in Users, NEW spender \in Users, NEW amount \in ShareAmounts,
             NEW expires \in 0..MaxTime, Approve(from, spender, amount, expires)
      PROVE TypeOK'
  <2>1. expires \in Nat BY BoundAssumption
  <2> DEFINE entry == [amount |-> amount, expires |-> expires]
  <2>2. entry \in [amount : Int, expires : Nat] BY <2>1
  <2>3. allowance' = [allowance EXCEPT ![from][spender] = entry]
    BY <1>1 DEF Approve
  <2> HIDE DEF entry
  <2>4. [allowance[from] EXCEPT ![spender] = entry] \in [Users -> [amount : Int, expires : Nat]]
    BY <2>2 DEF TypeOK, AllowanceOK
  <2>5. AllowanceOK' BY <2>3, <2>4 DEF TypeOK, AllowanceOK
  <2>6. UNCHANGED <<tokenUnchanged, balance, totalSupply, snapshotVars, negativeCalls>>
    BY <1>1 DEF Approve
  <2>7. UNCHANGED shareVars BY <2>6 DEF tokenUnchanged, shareVars
  <2> QED BY <2>5, <2>6, <2>7, UntouchedParts DEF TypeOK, tokenUnchanged
<1>2. ASSUME NEW spender \in Users, NEW from \in Users, NEW to \in Users,
             NEW amount \in ShareAmounts, TransferFrom(spender, from, to, amount)
      PROVE TypeOK'
  <2>1. SharesOK' /\ SnapshotsOK' /\ OutflowOK' BY <1>2, MoveSharesType DEF TransferFrom
  <2>2. AllowanceOK' BY <1>2, ChargeCallerType DEF TransferFrom
  <2> QED
    BY <1>2, <2>1, <2>2, UntouchedParts DEF TypeOK, TransferFrom, MoveShares, tokenUnchanged
<1>3. ASSUME NEW spender \in Users, NEW from \in Users, NEW amount \in ShareAmounts,
             BurnFrom(spender, from, amount)
      PROVE TypeOK'
  <2>1. SharesOK' /\ SnapshotsOK' BY <1>3, BurnType DEF BurnFrom, tokenUnchanged
  <2>2. AllowanceOK' BY <1>3, ChargeCallerType DEF BurnFrom
  <2>3. OutflowOK' BY <1>3, NotedSign DEF BurnFrom, tokenUnchanged, TypeOK, OutflowOK
  <2> QED BY <1>3, <2>1, <2>2, <2>3, UntouchedParts DEF TypeOK, BurnFrom, tokenUnchanged
<1> QED BY <1>1, <1>2, <1>3 DEF AllowanceNext

\* The compliance lists stay sets of users.
LEMMA ComplianceNextType == ASSUME TypeOK, ComplianceNext PROVE TypeOK'
<1>1. ComplianceOK'
  BY DEF TypeOK, ComplianceOK, ComplianceNext, SetBlacklisted, SetTransferExempt,
         SetTransferRequiresKyc, KycChanges, complianceVars
<1>2. UNCHANGED complianceUnchanged
  BY DEF ComplianceNext, SetBlacklisted, SetTransferExempt, SetTransferRequiresKyc, KycChanges
<1>3. LifeOK'
  <2>1. config' \in Configs
    BY DEF TypeOK, LifeOK, Configs, ComplianceNext, SetBlacklisted, SetTransferExempt,
           SetTransferRequiresKyc, KycChanges
  <2> QED BY <1>2, <2>1 DEF TypeOK, LifeOK, complianceUnchanged
<1>4. EmergencyOK'
  BY <1>2 DEF TypeOK, EmergencyOK, complianceUnchanged, emergencyVars
<1> QED BY <1>1, <1>2, <1>3, <1>4, UntouchedParts DEF TypeOK, complianceUnchanged

\* The clock stays a natural.
LEMMA AdvanceTimeType == ASSUME TypeOK, AdvanceTime PROVE TypeOK'
<1>1. ClockOK' BY DEF TypeOK, ClockOK, AdvanceTime
<1> QED BY <1>1, UntouchedParts DEF TypeOK, AdvanceTime

\* A step that changes nothing keeps the type.
LEMMA StutterType == ASSUME TypeOK, UNCHANGED vars PROVE TypeOK'
  BY UntouchedParts DEF TypeOK, vars

\* The constructor leaves the storage well formed.
LEMMA InitType == ASSUME Init PROVE TypeOK
<1> USE DEF Init
<1>1. ClockOK /\ LifeOK /\ StopOK /\ ComplianceOK
  BY InitAssumption DEF ClockOK, LifeOK, VaultStates, StopOK, ComplianceOK
<1>2. SharesOK /\ FundsOK /\ InvestorsOK /\ OutflowOK
  <2>1. SharesOK /\ FundsOK /\ InvestorsOK BY DEF SharesOK, FundsOK, InvestorsOK
  <2>2. outflow \in Nat OBVIOUS
  <2>3. negativeCalls \in BOOLEAN OBVIOUS
  <2> QED BY <2>1, <2>2, <2>3 DEF OutflowOK
<1>3. AllowanceOK
  <2> DEFINE none == [amount |-> 0, expires |-> 0]
  <2>1. none \in [amount : Int, expires : Nat] OBVIOUS
  <2>2. allowance = [u \in Users |-> [s \in Users |-> none]] OBVIOUS
  <2> HIDE DEF none
  <2> QED BY <2>1, <2>2 DEF AllowanceOK
<1>4. AssetOK
  BY InitAssumption DEF AssetOK, Accounts
<1>5. EpochsOK
  BY BoundAssumption DEF EpochsOK
<1>6. epochs = <<>> /\ Len(epochs) = 0
  OBVIOUS
<1>7. SnapshotsOK
  <2>1. \A u \in Users : sharesAtEpoch[u] = <<>> /\ lastInteraction[u] = 0
    OBVIOUS
  <2>2. <<>> \in [1..0 -> Int] OBVIOUS
  <2> QED BY <1>6, <2>1, <2>2 DEF SnapshotsOK
<1>8. ClaimsOK
  <2>1. NoEpochs \in [Epochs -> Nat] /\ NoEpochs \in [Epochs -> Int] BY DEF NoEpochs
  <2> QED BY <1>6, <2>1 DEF ClaimsOK
<1>9. RequestsOK BY DEF RequestsOK
<1>10. EmergencyOK BY DEF EmergencyOK
<1> QED
  BY <1>1, <1>2, <1>3, <1>4, <1>5, <1>7, <1>8, <1>9, <1>10 DEF TypeOK

\* Every call keeps the type.
LEMMA NextType == ASSUME TypeOK, [Next]_vars PROVE TypeOK'
  BY InvestNextType, YieldNextType, LifecycleNextType, LimitsNextType, TermsNextType,
     RedemptionNextType, FreezeNextType, EmergencyNextType, TransferNextType,
     AllowanceNextType, ComplianceNextType, AdvanceTimeType, StutterType
  DEF Next

\* Type correctness: in every reachable state of a vault, for every set of users,
\* every configuration and every input, the storage is well formed; the epochs a
\* user has a snapshot for are those up to the last interaction, and the claim
\* cursor never passes the last distribution.
THEOREM TypeInvariant == Spec => []TypeOK
<1>1. Init => TypeOK BY InitType
<1>2. TypeOK /\ [Next]_vars => TypeOK' BY NextType
<1> QED BY <1>1, <1>2, PTL DEF Spec

-----------------------------------------------------------------------------
(* Conservation *)

\* The sums of the balances and of the escrow are those of finitely many numbers.
LEMMA HoldingsAreInt ==
  ASSUME TypeOK
  PROVE  /\ IsFiniteSet(Users)
         /\ \A u \in Users : balance[u] \in Int /\ escrow[u] \in Nat
         /\ Net(balance, Users) \in Int /\ Total(escrow, Users) \in Nat
BY UsersAssumption, TotalIsNat, NetIsInt DEF TypeOK, SharesOK

\* A step that changes the holdings of one user and the supply by as much keeps
\* the shares conserved.
LEMMA OneHolderKeepsShares ==
  ASSUME TypeOK, TypeOK', ShareConservation, NEW user \in Users,
         \A u \in Users \ {user} : balance'[u] = balance[u] /\ escrow'[u] = escrow[u],
         totalSupply' - totalSupply
           = (balance'[user] - balance[user]) + (escrow'[user] - escrow[user])
  PROVE  ShareConservation'
<1>1. /\ IsFiniteSet(Users)
      /\ \A u \in Users : balance[u] \in Int /\ escrow[u] \in Nat
      /\ Net(balance, Users) \in Int /\ Total(escrow, Users) \in Nat
  BY HoldingsAreInt
<1>2. \A u \in Users : balance'[u] \in Int /\ escrow'[u] \in Nat
  BY DEF TypeOK, SharesOK
<1>3. Net(balance', Users) = Net(balance, Users) - balance[user] + balance'[user]
  BY <1>1, <1>2, NetChange
<1>4. Total(escrow', Users) = Total(escrow, Users) - escrow[user] + escrow'[user]
  BY <1>1, <1>2, TotalChange
<1>5. totalSupply \in Int /\ totalSupply' \in Int BY DEF TypeOK, SharesOK
<1>6. totalSupply = Net(balance, Users) + Total(escrow, Users) BY DEF ShareConservation
<1>7. totalSupply' = Net(balance', Users) + Total(escrow', Users)
  <2> DEFINE N == Net(balance, Users)
             T == Total(escrow, Users)
  <2>1. N \in Int /\ T \in Int BY <1>1
  <2> HIDE DEF N, T
  <2>2. /\ balance[user] \in Int /\ balance'[user] \in Int
        /\ escrow[user] \in Int /\ escrow'[user] \in Int
    BY <1>1, <1>2
  <2>3. totalSupply = N + T BY <1>6 DEF N, T
  <2> DEFINE s == totalSupply
             t == totalSupply'
             b == balance[user]
             c == balance'[user]
             d == escrow[user]
             e == escrow'[user]
  <2>4. t - s = (c - b) + (e - d) OBVIOUS
  <2>5. s \in Int /\ t \in Int BY <1>5
  <2>6. b \in Int /\ c \in Int /\ d \in Int /\ e \in Int BY <2>2
  <2>7. t = s + (c - b) + (e - d)
    <3> HIDE DEF s, t, b, c, d, e
    <3> QED BY <2>4, <2>5, <2>6
  <2>8. t = (N - b + c) + (T - d + e)
    <3>1. s = N + T BY <2>3
    <3> HIDE DEF s, t, b, c, d, e
    <3> QED BY <2>1, <2>5, <2>6, <2>7, <3>1
  <2> QED BY <1>3, <1>4, <2>8 DEF N, T
<1> QED BY <1>7 DEF ShareConservation

\* Steps that touch no share.
LEMMA UntouchedShares == ShareConservation /\ UNCHANGED shareVars => ShareConservation'
BY DEF ShareConservation, shareVars

\* A burn takes as much from the supply as from the balance.
LEMMA BurnKeepsShares ==
  ASSUME TypeOK, TypeOK', ShareConservation, NEW user \in Users, NEW shares \in Int,
         Burn(user, shares), UNCHANGED escrow
  PROVE  ShareConservation'
<1>1. /\ balance' = [balance EXCEPT ![user] = @ - shares]
      /\ totalSupply' = totalSupply - shares
  BY DEF Burn
<1>2. balance \in [Users -> Int] /\ escrow \in [Users -> Nat] /\ totalSupply \in Int
  BY DEF TypeOK, SharesOK
<1>3. balance'[user] = balance[user] - shares BY <1>1, <1>2
<1>4. \A u \in Users \ {user} : balance'[u] = balance[u] /\ escrow'[u] = escrow[u]
  BY <1>1, <1>2
<1>5. totalSupply' - totalSupply
        = (balance'[user] - balance[user]) + (escrow'[user] - escrow[user])
  BY <1>1, <1>2, <1>3
<1> QED BY <1>4, <1>5, OneHolderKeepsShares

\* A transfer takes from one user what it gives to another, or nothing at all
\* when both are the same.
LEMMA TransferKeepsShares ==
  ASSUME TypeOK, TypeOK', ShareConservation, NEW from \in Users, NEW to \in Users,
         NEW amount \in Int, MoveShares(from, to, amount)
  PROVE  ShareConservation'
<1> DEFINE mid == [balance EXCEPT ![from] = @ - amount]
<1>1. /\ balance' = [mid EXCEPT ![to] = @ + amount]
      /\ amount <= balance[from]
      /\ UNCHANGED <<escrow, totalSupply>>
  BY DEF MoveShares, BalancesAfterMove, tokenUnchanged
<1>2. balance \in [Users -> Int] /\ balance' \in [Users -> Int]
  BY DEF TypeOK, SharesOK
<1>3. /\ mid \in [Users -> Int] /\ mid[from] = balance[from] - amount
      /\ \A u \in Users \ {from} : mid[u] = balance[u]
  BY <1>1, <1>2
<1>4. /\ balance'[to] = mid[to] + amount
      /\ \A u \in Users \ {to} : balance'[u] = mid[u]
  BY <1>1, <1>2, <1>3
<1>5. IsFiniteSet(Users) /\ Net(balance, Users) \in Int BY HoldingsAreInt
<1> HIDE DEF mid
<1>6. Net(mid, Users) = Net(balance, Users) - balance[from] + mid[from]
  BY <1>2, <1>3, <1>5, NetChange
<1>7. Net(balance', Users) = Net(mid, Users) - mid[to] + balance'[to]
  BY <1>2, <1>3, <1>4, <1>5, NetChange
<1>8. Net(mid, Users) = Net(balance, Users) - amount
  BY <1>2, <1>3, <1>5, <1>6
<1>9. Net(balance', Users) = Net(balance, Users)
  BY <1>3, <1>4, <1>5, <1>7, <1>8
<1> QED BY <1>1, <1>9 DEF ShareConservation

\* Escrow and the balance exchange shares, or escrow leaves with the supply.
LEMMA QueueKeepsShares ==
  ASSUME TypeOK, TypeOK', ShareConservation,
         \/ \E user \in Users, shares \in ShareAmounts : RequestEarlyRedemption(user, shares)
         \/ \E id \in 1..Len(requests) : ProcessEarlyRedemption(id) \/ ReturnFromEscrow(id)
  PROVE  ShareConservation'
<1>1. /\ balance \in [Users -> Int] /\ escrow \in [Users -> Nat] /\ totalSupply \in Int
      /\ balance' \in [Users -> Int] /\ escrow' \in [Users -> Nat]
  BY DEF TypeOK, SharesOK
<1>2. ASSUME NEW user \in Users, NEW shares \in Int,
             \/ /\ balance' = [balance EXCEPT ![user] = @ - shares]
                /\ escrow' = [escrow EXCEPT ![user] = @ + shares]
                /\ totalSupply' = totalSupply
             \/ /\ balance' = [balance EXCEPT ![user] = @ + shares]
                /\ escrow' = [escrow EXCEPT ![user] = @ - shares]
                /\ totalSupply' = totalSupply
             \/ /\ balance' = balance
                /\ escrow' = [escrow EXCEPT ![user] = @ - shares]
                /\ totalSupply' = totalSupply - shares
      PROVE  ShareConservation'
  <2>1. \A u \in Users \ {user} : balance'[u] = balance[u] /\ escrow'[u] = escrow[u]
    BY <1>1, <1>2
  <2>2. totalSupply' - totalSupply
          = (balance'[user] - balance[user]) + (escrow'[user] - escrow[user])
    BY <1>1, <1>2
  <2> QED BY <2>1, <2>2, OneHolderKeepsShares
<1>3. ASSUME NEW user \in Users, NEW shares \in ShareAmounts,
             RequestEarlyRedemption(user, shares)
      PROVE  ShareConservation'
  BY <1>2, <1>3, InputsAreInt DEF RequestEarlyRedemption
<1>4. ASSUME NEW id \in 1..Len(requests), ProcessEarlyRedemption(id)
      PROVE  ShareConservation'
  <2> DEFINE user == requests[id].user
             shares == requests[id].shares
  <2>1. user \in Users /\ shares \in Int BY RequestType
  <2>2. /\ balance' = balance
        /\ escrow' = [escrow EXCEPT ![user] = @ - shares]
        /\ totalSupply' = totalSupply - shares
    BY <1>4 DEF ProcessEarlyRedemption
  <2> HIDE DEF user, shares
  <2> QED BY <1>2, <2>1, <2>2
<1>5. ASSUME NEW id \in 1..Len(requests), ReturnFromEscrow(id)
      PROVE  ShareConservation'
  <2> DEFINE user == requests[id].user
             shares == requests[id].shares
  <2>1. user \in Users /\ shares \in Int BY RequestType
  <2>2. /\ balance' = [balance EXCEPT ![user] = @ + shares]
        /\ escrow' = [escrow EXCEPT ![user] = @ - shares]
        /\ totalSupply' = totalSupply
    BY <1>5 DEF ReturnFromEscrow, shareVars
  <2> HIDE DEF user, shares
  <2> QED BY <1>2, <2>1, <2>2
<1> QED BY <1>3, <1>4, <1>5

\* A mint gives the receiver what it adds to the supply.
LEMMA InvestKeepsShares ==
  ASSUME TypeOK, TypeOK', ShareConservation, NEW caller, NEW receiver \in Users,
         NEW assets, NEW shares \in Int, Invest(caller, receiver, assets, shares)
  PROVE  ShareConservation'
<1>1. /\ balance' = [balance EXCEPT ![receiver] = @ + shares]
      /\ escrow' = escrow
      /\ totalSupply' = totalSupply + shares
  BY DEF Invest
<1>2. balance \in [Users -> Int] /\ escrow \in [Users -> Nat] /\ totalSupply \in Int
  BY DEF TypeOK, SharesOK
<1>3. \A u \in Users \ {receiver} : balance'[u] = balance[u] /\ escrow'[u] = escrow[u]
  BY <1>1, <1>2
<1>4. totalSupply' - totalSupply
        = (balance'[receiver] - balance[receiver]) + (escrow'[receiver] - escrow[receiver])
  BY <1>1, <1>2
<1> QED BY <1>3, <1>4, OneHolderKeepsShares

\* Every call conserves the shares.
LEMMA NextKeepsShares ==
  ASSUME TypeOK, ShareConservation, [Next]_vars
  PROVE  ShareConservation'
<1> USE InputsAreInt
<1>0. TypeOK' BY NextType
<1>1. ASSUME NEW user \in Users, NEW shares \in Int, Burn(user, shares), UNCHANGED escrow
      PROVE  ShareConservation'
  BY <1>0, <1>1, BurnKeepsShares
<1>2. ASSUME SharesPriced, NEW x \in Int
      PROVE  /\ SharesFor(x) \in Int
             /\ PreviewWithdraw(x, totalSupply, TotalAssets) \in Int
  BY <1>2, QuotesAreInt
<1>3. CASE InvestNext
  <2>1. ASSUME NEW caller, NEW receiver \in Users, NEW assets, NEW shares \in Int,
               Invest(caller, receiver, assets, shares)
        PROVE  ShareConservation'
    BY <1>0, <2>1, InvestKeepsShares
  <2>2. ASSUME NEW caller, NEW receiver, NEW owner \in Users, NEW assets,
               NEW shares \in Int, Exit(caller, receiver, owner, assets, shares, 0)
        PROVE  ShareConservation'
    BY <1>1, <2>2 DEF Exit
  <2> QED
    BY <1>2, <1>3, <2>1, <2>2
    DEF InvestNext, Deposit, Mint, Withdraw, Redeem
<1>4. CASE YieldNext
  <2>1. UNCHANGED shareVars
    BY <1>4
    DEF YieldNext, DistributeYield, ClaimYield, ClaimYieldForEpoch, ResolveYieldShortfall
  <2> QED BY <2>1, UntouchedShares
<1>5. CASE LifecycleNext
  <2>1. ASSUME NEW user \in Users, Refund(user) PROVE ShareConservation'
    <3>1. balance[user] \in Int BY DEF TypeOK, SharesOK
    <3> QED BY <1>1, <2>1, <3>1 DEF Refund
  <2>2. ASSUME NEW state, MoveTo(state) PROVE ShareConservation'
    BY <2>2, UntouchedShares DEF MoveTo
  <2> QED
    BY <1>5, <2>1, <2>2
    DEF LifecycleNext, ActivateVault, CancelFunding, MatureVault, CloseVault
<1>6. CASE LimitsNext \/ TermsNext
  <2>1. ASSUME NEW c, Configure(c) PROVE ShareConservation'
    BY <2>1, UntouchedShares DEF Configure
  <2> QED
    BY <1>6, <2>1
    DEF LimitsNext, TermsNext, SetFundingTarget, SetMinDeposit, SetMaxDepositPerUser,
        SetDepositLimits, SetMaxInvestors, SetEarlyRedemptionFee, SetMaturityDate,
        SetYieldVestingPeriod, SetLockUpPeriod
<1>7. CASE RedemptionNext
  <2>1. ASSUME NEW caller, NEW receiver, NEW owner \in Users, NEW shares \in ShareAmounts,
               RedeemAtMaturity(caller, shares, receiver, owner)
        PROVE  ShareConservation'
    BY <1>1, <2>1 DEF RedeemAtMaturity, Exit
  <2>2. ASSUME \/ \E user \in Users, shares \in ShareAmounts :
                    RequestEarlyRedemption(user, shares)
               \/ \E id \in 1..Len(requests) :
                    ProcessEarlyRedemption(id) \/ ReturnFromEscrow(id)
        PROVE  ShareConservation'
    BY <1>0, <2>2, QueueKeepsShares
  <2> QED
    BY <1>7, <2>1, <2>2 DEF RedemptionNext, CancelEarlyRedemption, RejectEarlyRedemption
<1>8. CASE FreezeNext
  BY <1>8, UntouchedShares DEF FreezeNext, Pause, Unpause, SetFreezeFlags, unstoppedVars
<1>9. CASE EmergencyNext
  <2>1. ASSUME NEW user \in Users, EmergencyClaim(user) PROVE ShareConservation'
    <3>1. balance[user] \in Int BY DEF TypeOK, SharesOK
    <3> QED BY <1>1, <2>1, <3>1 DEF EmergencyClaim
  <2> QED
    BY <1>9, <2>1, UntouchedShares
    DEF EmergencyNext, EmergencyWithdraw, EmergencyEnableProRata, unstoppedVars
<1>10. CASE TransferNext \/ AllowanceNext
  <2>1. ASSUME NEW from \in Users, NEW to \in Users, NEW amount \in ShareAmounts,
               MoveShares(from, to, amount)
        PROVE  ShareConservation'
    BY <1>0, <2>1, TransferKeepsShares
  <2>2. ASSUME NEW from, NEW spender, NEW amount, NEW expires,
               Approve(from, spender, amount, expires)
        PROVE  ShareConservation'
    BY <2>2, UntouchedShares DEF Approve, tokenUnchanged, shareVars
  <2>3. ASSUME NEW from \in Users, NEW amount \in ShareAmounts, BurnShares(from, amount)
        PROVE  ShareConservation'
    BY <1>1, <2>3 DEF BurnShares, tokenUnchanged
  <2>4. ASSUME NEW spender, NEW from \in Users, NEW amount \in ShareAmounts,
               BurnFrom(spender, from, amount)
        PROVE  ShareConservation'
    BY <1>1, <2>4 DEF BurnFrom, tokenUnchanged
  <2> QED
    BY <1>10, <2>1, <2>2, <2>3, <2>4
    DEF TransferNext, AllowanceNext, Transfer, TransferFrom
<1>11. CASE ComplianceNext \/ AdvanceTime \/ UNCHANGED vars
  <2>1. UNCHANGED shareVars
    BY <1>11
    DEF ComplianceNext, SetBlacklisted, SetTransferExempt, SetTransferRequiresKyc,
        KycChanges, complianceUnchanged, AdvanceTime, vars
  <2> QED BY <2>1, UntouchedShares
<1> QED
  BY <1>3, <1>4, <1>5, <1>6, <1>7, <1>8, <1>9, <1>10, <1>11 DEF Next

\* In every reachable state, for any number of users and amounts of any sign, the
\* supply is what the balances and the escrow hold: no mint, burn, transfer, escrow move,
\* approval, refund or emergency claim creates, loses or doubles a share.
THEOREM SharesConserved == Spec => []ShareConservation
<1>1. Init => ShareConservation
  <2>1. ASSUME Init PROVE ShareConservation
    <3>1. \A u \in Users : balance[u] = 0 /\ escrow[u] = 0 BY <2>1 DEF Init
    <3>2. Net(balance, Users) = 0 /\ Total(escrow, Users) = 0
      BY <3>1, TotalZero, NetZero, UsersAssumption
    <3> QED BY <2>1, <3>2 DEF Init, ShareConservation
  <2> QED BY <2>1
<1>2. TypeOK /\ ShareConservation /\ [Next]_vars => ShareConservation'
  BY NextKeepsShares
<1> QED BY <1>1, <1>2, TypeInvariant, PTL DEF Spec

-----------------------------------------------------------------------------
(* The redemption queue *)

Requested == [id \in DOMAIN requests |-> requests[id].shares]

\* What EscrowMatchesQueue sums: finitely many naturals.
LEMMA QueueIsFinite ==
  ASSUME TypeOK, NEW u \in Users
  PROVE  /\ DOMAIN requests = 1..Len(requests) /\ Len(requests) \in Nat
         /\ PendingOf(u) \subseteq DOMAIN requests
         /\ IsFiniteSet(PendingOf(u))
         /\ \A id \in PendingOf(u) : Requested[id] \in Nat
<1>1. requests \in Seq(RequestRecords) BY DEF TypeOK, RequestsOK
<1>2. DOMAIN requests = 1..Len(requests) /\ Len(requests) \in Nat BY <1>1
<1>3. PendingOf(u) \subseteq DOMAIN requests BY DEF PendingOf
<1>4. IsFiniteSet(1..Len(requests)) BY <1>2, FS_Interval
<1>5. IsFiniteSet(PendingOf(u)) BY <1>2, <1>3, <1>4, FS_Subset
<1>6. ASSUME NEW id \in DOMAIN requests PROVE requests[id].shares \in Nat
  <2>1. requests[id] \in RequestRecords BY <1>1, <1>2
  <2> QED BY <2>1 DEF RequestRecords
<1> QED BY <1>2, <1>3, <1>5, <1>6 DEF Requested

\* Steps that touch neither the queue nor the escrow.
LEMMA UntouchedQueue ==
  EscrowMatchesQueue /\ UNCHANGED <<escrow, requests>> => EscrowMatchesQueue'
BY DEF EscrowMatchesQueue, PendingOf, Pending

\* A new request is pending and holds what its user gave to escrow.
LEMMA RequestKeepsQueue ==
  ASSUME TypeOK, TypeOK', EscrowMatchesQueue, NEW user \in Users, NEW shares \in Int,
         RequestEarlyRedemption(user, shares)
  PROVE  EscrowMatchesQueue'
<1> DEFINE new == Len(requests) + 1
<1>1. PICK value : requests' = Append(requests, [user |-> user, shares |-> shares,
                                                 value |-> value, status |-> "Pending"])
  BY DEF RequestEarlyRedemption
<1>2. escrow' = [escrow EXCEPT ![user] = @ + shares] BY DEF RequestEarlyRedemption
<1>3. requests \in Seq(RequestRecords) /\ Len(requests) \in Nat
      /\ DOMAIN requests = 1..Len(requests)
  BY DEF TypeOK, RequestsOK
<1>4. /\ DOMAIN requests' = 1..new
      /\ \A id \in 1..Len(requests) : requests'[id] = requests[id]
      /\ requests'[new] = [user |-> user, shares |-> shares, value |-> value,
                           status |-> "Pending"]
  BY <1>1, <1>3
<1>5. new \notin DOMAIN requests BY <1>3
<1>6. \A id \in DOMAIN requests : Requested'[id] = Requested[id]
  BY <1>3, <1>4 DEF Requested
<1>7. Requested'[new] = shares /\ shares \in Nat
  BY <1>3, <1>4 DEF Requested, RequestEarlyRedemption
<1>8. ASSUME NEW u \in Users PROVE escrow'[u] = Total(Requested', PendingOf(u)')
  <2>1. /\ PendingOf(u) \subseteq DOMAIN requests
        /\ PendingOf(u)' \subseteq DOMAIN requests'
        /\ IsFiniteSet(PendingOf(u)')
        /\ \A id \in PendingOf(u)' : Requested'[id] \in Nat
    <3>1. PendingOf(u) \subseteq DOMAIN requests BY DEF PendingOf
    <3>2. PendingOf(u)' \subseteq DOMAIN requests' BY DEF PendingOf
    <3>3. new \in Nat BY <1>3
    <3>4. IsFiniteSet(1..new)
      <4> HIDE DEF new
      <4> QED BY <3>3, FS_Interval
    <3>5. IsFiniteSet(PendingOf(u)') BY <1>4, <3>2, <3>4, FS_Subset
    <3>6. \A id \in DOMAIN requests : requests[id].shares \in Nat
      <4>1. ASSUME NEW id \in DOMAIN requests PROVE requests[id].shares \in Nat
        <5>1. requests[id] \in RequestRecords BY <1>3
        <5> QED BY <5>1 DEF RequestRecords
      <4> QED BY <4>1
    <3>7. \A id \in DOMAIN requests' : Requested'[id] \in Nat
      BY <1>3, <1>4, <1>6, <1>7, <3>6 DEF Requested
    <3> QED BY <3>1, <3>2, <3>5, <3>7
  <2>2. Total(Requested', PendingOf(u)) = Total(Requested, PendingOf(u))
    BY <1>6, <2>1, TotalSame
  <2>3. escrow[u] = Total(Requested, PendingOf(u))
    BY DEF EscrowMatchesQueue, Requested
  <2>4. \A id \in DOMAIN requests : id \in PendingOf(u)' <=> id \in PendingOf(u)
    BY <1>3, <1>4 DEF PendingOf, Pending
  <2>5. new \in PendingOf(u)' <=> u = user
    BY <1>3, <1>4 DEF PendingOf, Pending
  <2>6. DOMAIN requests' = DOMAIN requests \cup {new} BY <1>3, <1>4
  <2>7. CASE u = user
    <3>1. PendingOf(u)' \ {new} = PendingOf(u)
      <4> HIDE DEF new
      <4> QED BY <1>5, <2>1, <2>4, <2>6
    <3>2. new \in PendingOf(u)' BY <2>5, <2>7
    <3>3. Total(Requested', PendingOf(u)')
            = Total(Requested', PendingOf(u)' \ {new}) + Requested'[new]
      BY <2>1, <3>2, TotalSplit
    <3>4. escrow'[u] = escrow[u] + shares BY <1>2, <2>7 DEF TypeOK, SharesOK
    <3> QED BY <1>7, <2>2, <2>3, <3>1, <3>3, <3>4
  <2>8. CASE u # user
    <3>1. PendingOf(u)' = PendingOf(u)
      <4>1. new \notin PendingOf(u)' BY <2>5, <2>8
      <4> HIDE DEF new
      <4> QED BY <1>5, <2>1, <2>4, <2>6, <4>1
    <3>2. escrow'[u] = escrow[u] BY <1>2, <2>8 DEF TypeOK, SharesOK
    <3> QED BY <2>2, <2>3, <3>1, <3>2
  <2> QED BY <2>7, <2>8
<1> QED BY <1>8 DEF EscrowMatchesQueue, Requested

\* An answered request is no longer pending, and its shares have left escrow.
LEMMA AnswerKeepsQueue ==
  ASSUME TypeOK, EscrowMatchesQueue, NEW id \in 1..Len(requests), Pending(id),
         NEW status, status # "Pending",
         requests' = [requests EXCEPT ![id].status = status],
         escrow' = [escrow EXCEPT ![requests[id].user] = @ - requests[id].shares]
  PROVE  EscrowMatchesQueue'
<1>1. requests \in Seq(RequestRecords) /\ DOMAIN requests = 1..Len(requests)
  BY DEF TypeOK, RequestsOK
<1>2. requests[id] \in RequestRecords BY <1>1
<1>3. /\ DOMAIN requests' = DOMAIN requests
      /\ requests'[id].status = status
      /\ \A r \in DOMAIN requests : /\ requests'[r].user = requests[r].user
                                    /\ requests'[r].shares = requests[r].shares
      /\ \A r \in DOMAIN requests \ {id} : requests'[r] = requests[r]
  BY <1>1, <1>2 DEF RequestRecords
<1>4. Requested' = Requested BY <1>3 DEF Requested
<1>5. ASSUME NEW u \in Users PROVE PendingOf(u)' = PendingOf(u) \ {id}
  <2>1. id \notin PendingOf(u)' BY <1>3 DEF PendingOf, Pending
  <2>2. \A r \in DOMAIN requests \ {id} : r \in PendingOf(u)' <=> r \in PendingOf(u)
    BY <1>3 DEF PendingOf, Pending
  <2>3. PendingOf(u) \subseteq DOMAIN requests /\ PendingOf(u)' \subseteq DOMAIN requests
    BY <1>3 DEF PendingOf
  <2> QED BY <2>1, <2>2, <2>3
<1>6. ASSUME NEW u \in Users PROVE escrow'[u] = Total(Requested', PendingOf(u)')
  <2>1. escrow[u] = Total(Requested, PendingOf(u))
    BY DEF EscrowMatchesQueue, Requested
  <2>2. CASE u = requests[id].user
    <3>1. id \in PendingOf(u) BY <1>1, <2>2 DEF PendingOf
    <3>2. Total(Requested, PendingOf(u))
            = Total(Requested, PendingOf(u) \ {id}) + Requested[id]
      BY <3>1, QueueIsFinite, TotalSplit
    <3>3. Total(Requested, PendingOf(u) \ {id}) \in Nat
      BY QueueIsFinite, FS_RemoveElement, TotalIsNat, <3>1
    <3>4. Requested[id] = requests[id].shares /\ requests[id].shares \in Nat
      BY <1>1, <1>2 DEF Requested, RequestRecords
    <3>5. escrow'[u] = escrow[u] - requests[id].shares
      BY <2>2 DEF TypeOK, SharesOK
    <3>6. escrow'[u] = Total(Requested, PendingOf(u) \ {id})
      BY <2>1, <3>2, <3>3, <3>4, <3>5
    <3> QED BY <1>4, <1>5, <3>6
  <2>3. CASE u # requests[id].user
    <3>1. PendingOf(u) \ {id} = PendingOf(u) BY <2>3 DEF PendingOf
    <3>2. escrow'[u] = escrow[u] BY <2>3 DEF TypeOK, SharesOK
    <3> QED BY <1>4, <1>5, <2>1, <3>1, <3>2
  <2> QED BY <2>2, <2>3
<1> QED BY <1>6 DEF EscrowMatchesQueue, Requested

\* Every call keeps the escrow and the queue in step.
LEMMA NextKeepsQueue ==
  ASSUME TypeOK, EscrowMatchesQueue, [Next]_vars
  PROVE  EscrowMatchesQueue'
<1>1. CASE RedemptionNext
  <2>1. ASSUME NEW caller, NEW receiver, NEW owner, NEW shares,
               RedeemAtMaturity(caller, shares, receiver, owner)
        PROVE  EscrowMatchesQueue'
    BY <2>1, UntouchedQueue DEF RedeemAtMaturity, Exit
  <2>2. ASSUME NEW user \in Users, NEW shares \in ShareAmounts,
               RequestEarlyRedemption(user, shares)
        PROVE  EscrowMatchesQueue'
    BY <2>2, RequestKeepsQueue, InputsAreInt, NextType
  <2>3. ASSUME NEW id \in 1..Len(requests), ProcessEarlyRedemption(id)
        PROVE  EscrowMatchesQueue'
    BY <2>3, AnswerKeepsQueue DEF ProcessEarlyRedemption
  <2>4. ASSUME NEW id \in 1..Len(requests), ReturnFromEscrow(id)
        PROVE  EscrowMatchesQueue'
    BY <2>4, AnswerKeepsQueue DEF ReturnFromEscrow
  <2> QED
    BY <1>1, <2>1, <2>2, <2>3, <2>4
    DEF RedemptionNext, CancelEarlyRedemption, RejectEarlyRedemption
<1>2. CASE InvestNext \/ YieldNext
  <2>1. InvestNext => UNCHANGED <<escrow, requests>>
    BY DEF InvestNext, Deposit, Mint, Withdraw, Redeem, Invest, Exit
  <2>2. YieldNext => UNCHANGED <<escrow, requests>>
    BY DEF YieldNext, DistributeYield, ClaimYield, ClaimYieldForEpoch,
           ResolveYieldShortfall, shareVars
  <2> QED BY <1>2, <2>1, <2>2, UntouchedQueue
<1>3. CASE LifecycleNext \/ LimitsNext \/ TermsNext
  <2>1. UNCHANGED <<escrow, requests>>
    BY <1>3
    DEF LifecycleNext, LimitsNext, TermsNext, ActivateVault, CancelFunding, MatureVault,
        CloseVault, MoveTo, Refund, SetFundingTarget, SetMinDeposit, SetMaxDepositPerUser,
        SetDepositLimits, SetMaxInvestors, SetEarlyRedemptionFee, SetMaturityDate,
        SetYieldVestingPeriod, SetLockUpPeriod, Configure, otherVars, shareVars
  <2> QED BY <2>1, UntouchedQueue
<1>4. CASE FreezeNext \/ EmergencyNext
  <2>1. UNCHANGED <<escrow, requests>>
    BY <1>4
    DEF FreezeNext, EmergencyNext, Pause, Unpause, SetFreezeFlags, EmergencyWithdraw,
        EmergencyEnableProRata, EmergencyClaim, unstoppedVars, shareVars
  <2> QED BY <2>1, UntouchedQueue
<1>5. CASE TransferNext \/ AllowanceNext
  <2>1. UNCHANGED <<escrow, requests>>
    BY <1>5
    DEF TransferNext, AllowanceNext, Approve, BurnShares, BurnFrom, Transfer,
        TransferFrom, MoveShares, tokenUnchanged
  <2> QED BY <2>1, UntouchedQueue
<1>6. CASE ComplianceNext \/ AdvanceTime \/ UNCHANGED vars
  <2>1. UNCHANGED <<escrow, requests>>
    BY <1>6
    DEF ComplianceNext, SetBlacklisted, SetTransferExempt, SetTransferRequiresKyc,
        KycChanges, complianceUnchanged, AdvanceTime, vars, shareVars
  <2> QED BY <2>1, UntouchedQueue
<1> QED BY <1>1, <1>2, <1>3, <1>4, <1>5, <1>6 DEF Next

\* For any number of requests and users: the escrow of a user is what the pending
\* requests of that user hold, so process, cancel and reject always find the
\* shares they need, once.
THEOREM EscrowIsQueue == Spec => []EscrowMatchesQueue
<1>1. Init => EscrowMatchesQueue
  <2>1. ASSUME Init, NEW u \in Users
        PROVE  escrow[u] = Total([id \in DOMAIN requests |-> requests[id].shares],
                                 PendingOf(u))
    <3>1. PendingOf(u) = {} /\ escrow[u] = 0 BY <2>1 DEF Init, PendingOf
    <3> QED BY <3>1, TotalZero
  <2> QED BY <2>1 DEF EscrowMatchesQueue
<1>2. TypeOK /\ EscrowMatchesQueue /\ [Next]_vars => EscrowMatchesQueue'
  BY NextKeepsQueue
<1> QED BY <1>1, <1>2, TypeInvariant, PTL DEF Spec
=============================================================================
