--------------------------- MODULE VaultPriceProofs ----------------------------
(***************************************************************************)
(* What a share is worth, as long as no call has named a negative number   *)
(* of shares: the supply is backed by the total assets, the price of a     *)
(* share never falls while shares are outstanding, the value locked in a   *)
(* pending request stays within that price, and a closed vault stays       *)
(* empty.  What the vault has to pay with: its tokens reconcile with its   *)
(* accounts, and cover the refunds of a cancelled round and the emergency  *)
(* claims.                                                                 *)
(***************************************************************************)
EXTENDS SingleRwaVaultProofs

\* The two sides of the price, with the virtual offset.
Supply == totalSupply + VirtualOffset
Assets == totalDeposited + VirtualOffset

-----------------------------------------------------------------------------
(* Arithmetic of the price *)

\* Rounding up loses nothing to the vault.
LEMMA MulDivCeilCovers ==
  ASSUME NEW a \in Nat, NEW b \in Nat, NEW c \in Nat \ {0}
  PROVE  MulDivCeil(a, b, c) \in Nat /\ a * b <= c * MulDivCeil(a, b, c)
<1> DEFINE n == a * b
           q == (n + c - 1) \div c
<1>1. n \in Nat BY ProductIsNat
<1>2. n + c - 1 \in Nat BY <1>1
<1> HIDE DEF n
<1>3. q \in Nat /\ n <= c * q BY <1>1, <1>2
<1>4. Quotient(n + c - 1, c) = q BY <1>2, QuotientOfNats
<1> QED BY <1>3, <1>4 DEF MulDivCeil, n

\* Paying out at most the price of the shares that go keeps the price.
LEMMA PayOutKeepsPrice ==
  ASSUME NEW a \in Nat, NEW s \in Nat, NEW assets \in Nat, NEW shares \in Nat,
         assets * s <= shares * a
  PROVE  (a - assets) * s >= a * (s - shares)
<1>1. (a - assets) * s = a * s - assets * s OBVIOUS
<1>2. a * (s - shares) = a * s - shares * a OBVIOUS
<1>3. a * s \in Nat /\ assets * s \in Nat /\ shares * a \in Nat BY ProductIsNat
<1> QED BY <1>1, <1>2, <1>3

\* Taking in at least the price of the shares that come keeps the price.
LEMMA PayInKeepsPrice ==
  ASSUME NEW a \in Nat, NEW s \in Nat, NEW assets \in Nat, NEW shares \in Nat,
         shares * a <= assets * s
  PROVE  (a + assets) * s >= a * (s + shares)
<1>1. (a + assets) * s = a * s + assets * s OBVIOUS
<1>2. a * (s + shares) = a * s + shares * a OBVIOUS
<1>3. a * s \in Nat /\ assets * s \in Nat /\ shares * a \in Nat BY ProductIsNat
<1> QED BY <1>1, <1>2, <1>3

\* Both sides of the price compare as the accounts do.
LEMMA OffsetBothSides ==
  ASSUME NEW supply \in Nat, NEW ta \in Int, NEW v \in Nat, v > 0
  PROVE  /\ supply + v \in Int /\ supply + v > 0 /\ ta + v \in Int
         /\ supply + v <= ta + v <=> supply <= ta
OBVIOUS

\* What grows no faster than a bound stays below it.
LEMMA GrowthBelow ==
  ASSUME NEW s \in Nat, NEW a \in Int, NEW s2 \in Nat, NEW a2 \in Int,
         s <= a, s2 - s <= a2 - a
  PROVE  s2 <= a2
OBVIOUS

\* Nothing is worth nothing.
LEMMA ZeroTimes == ASSUME NEW x \in Int PROVE 0 * x = 0
OBVIOUS

\* A price of at least one stays so when it does not fall.
LEMMA BackingFollows ==
  ASSUME NEW a \in Int, NEW s \in Int, NEW a2 \in Int, NEW s2 \in Int,
         s > 0, s2 > 0, s <= a, a2 * s >= a * s2
  PROVE  s2 <= a2
<1> SUFFICES ASSUME a2 + 1 <= s2 PROVE FALSE OBVIOUS
<1>1. (a2 + 1) * s <= s2 * s OBVIOUS
<1>2. (a2 + 1) * s = a2 * s + s OBVIOUS
<1>3. s2 * s <= s2 * a OBVIOUS
<1>4. s2 * a = a * s2 OBVIOUS
<1>5. a2 * s \in Int /\ a * s2 \in Int /\ s2 * s \in Int OBVIOUS
<1> QED BY <1>1, <1>2, <1>3, <1>4, <1>5

\* A value within the price of its shares stays within it when it does not fall.
LEMMA ValueFollows ==
  ASSUME NEW a \in Int, NEW s \in Int, NEW a2 \in Int, NEW s2 \in Int,
         NEW value \in Nat, NEW shares \in Nat,
         s > 0, s2 > 0, value * s <= shares * a, a2 * s >= a * s2
  PROVE  value * s2 <= shares * a2
<1> DEFINE v == value * s2
           w == shares * a2
<1> SUFFICES ASSUME w + 1 <= v PROVE FALSE OBVIOUS
<1>1. v \in Int /\ w \in Int OBVIOUS
<1>2. v * s <= (shares * a) * s2
  <2>1. v * s = (value * s) * s2 OBVIOUS
  <2>2. (value * s) * s2 <= (shares * a) * s2
    <3> DEFINE x == value * s
               y == shares * a
    <3>1. x \in Int /\ y \in Int /\ x <= y OBVIOUS
    <3> HIDE DEF x, y
    <3>2. x * s2 <= y * s2 BY <3>1
    <3> QED BY <3>2 DEF x, y
  <2> QED BY <2>1, <2>2
<1>3. (shares * a) * s2 <= w * s
  <2>1. (shares * a) * s2 = shares * (a * s2) OBVIOUS
  <2>2. w * s = shares * (a2 * s) OBVIOUS
  <2>3. shares * (a * s2) <= shares * (a2 * s)
    <3> DEFINE x == a * s2
               y == a2 * s
    <3>1. x \in Int /\ y \in Int /\ x <= y OBVIOUS
    <3> HIDE DEF x, y
    <3>2. shares * x <= shares * y BY <3>1
    <3> QED BY <3>2 DEF x, y
  <2> QED BY <2>1, <2>2, <2>3
<1> DEFINE x == (shares * a) * s2
<1>4. x \in Int OBVIOUS
<1> HIDE DEF v, w, x
<1>5. (w + 1) * s <= v * s BY <1>1
<1>6. (w + 1) * s = w * s + s /\ w * s \in Int /\ v * s \in Int BY <1>1
<1> QED BY <1>2, <1>3, <1>4, <1>5, <1>6 DEF x

-----------------------------------------------------------------------------
(* What the invariants say of one state *)

\* What no negative number of shares has touched: nobody holds or is promised a
\* negative amount.
Natural == /\ ~negativeCalls
           /\ balance \in [Users -> Nat]
           /\ totalSupply \in Nat
           /\ \A id \in DOMAIN requests : requests[id].value \in Nat

\* The holdings of the users, and their sums, are naturals.
LEMMA HoldingsAreNat ==
  ASSUME TypeOK, Natural
  PROVE  /\ IsFiniteSet(Users)
         /\ \A u \in Users : balance[u] \in Nat /\ escrow[u] \in Nat
         /\ Total(balance, Users) \in Nat /\ Total(escrow, Users) \in Nat
         /\ Net(balance, Users) = Total(balance, Users)
<1>1. \A u \in Users : balance[u] \in Nat /\ escrow[u] \in Nat
  BY DEF TypeOK, SharesOK, Natural
<1> QED BY <1>1, UsersAssumption, TotalIsNat, NetOfNats

\* The accounts are integers, the supply is a natural and bounds what anyone
\* holds; with the backing, both sides of the price are positive.
LEMMA SupplyBounds ==
  ASSUME TypeOK, Natural, ShareConservation
  PROVE  /\ totalSupply \in Nat /\ totalDeposited \in Int
         /\ VirtualOffset \in Nat /\ VirtualOffset > 0
         /\ \A u \in Users : balance[u] <= totalSupply /\ escrow[u] <= totalSupply
<1>1. /\ IsFiniteSet(Users)
      /\ \A u \in Users : balance[u] \in Nat /\ escrow[u] \in Nat
      /\ Total(balance, Users) \in Nat /\ Total(escrow, Users) \in Nat
      /\ Net(balance, Users) = Total(balance, Users)
  BY HoldingsAreNat
<1>2. \A u \in Users : /\ balance[u] <= Total(balance, Users)
                       /\ escrow[u] <= Total(escrow, Users)
  BY <1>1, TotalBounds
<1>3. totalSupply \in Nat /\ totalDeposited \in Int BY DEF TypeOK, FundsOK, Natural
<1>4. totalSupply = Total(balance, Users) + Total(escrow, Users)
  BY <1>1 DEF ShareConservation
<1>5. \A u \in Users : balance[u] <= totalSupply /\ escrow[u] <= totalSupply
  BY <1>1, <1>2, <1>4
<1> QED BY <1>3, <1>5, OffsetAssumption

\* A pending request holds at most the supply.
LEMMA PendingWithinSupply ==
  ASSUME TypeOK, Natural, ShareConservation, EscrowMatchesQueue,
         NEW id \in DOMAIN requests, Pending(id)
  PROVE  /\ requests[id].shares \in Nat /\ requests[id].value \in Nat
         /\ requests[id].shares <= totalSupply
<1>1. id \in 1..Len(requests) BY DEF TypeOK, RequestsOK
<1> DEFINE u == requests[id].user
<1>2. u \in Users /\ requests[id].shares \in Nat /\ requests[id].value \in Nat
  BY <1>1, RequestType DEF Natural
<1>3. id \in PendingOf(u) BY DEF PendingOf
<1> HIDE DEF u
<1>4. Requested[id] <= Total(Requested, PendingOf(u))
  BY <1>2, <1>3, QueueIsFinite, TotalBounds
<1>5. Requested[id] = requests[id].shares BY DEF Requested
<1>6. Total(Requested, PendingOf(u)) = escrow[u]
  BY <1>2 DEF EscrowMatchesQueue, Requested
<1>7. escrow[u] <= totalSupply /\ escrow[u] \in Nat /\ totalSupply \in Nat
  BY <1>2, SupplyBounds DEF TypeOK, SharesOK
<1> QED BY <1>2, <1>4, <1>5, <1>6, <1>7

\* While shares are outstanding every quote is rounded in the vault's favour.
LEMMA QuotesFavourVault ==
  ASSUME TypeOK, Natural, ShareConservation, SharesBacked, totalSupply > 0, NEW x \in Nat
  PROVE  /\ Supply \in Nat \ {0} /\ Assets \in Nat \ {0}
         /\ SharesFor(x) \in Nat /\ SharesFor(x) * Assets <= x * Supply
         /\ AssetsFor(x) \in Nat /\ AssetsFor(x) * Supply <= x * Assets
         /\ PreviewMint(x, totalSupply, TotalAssets) \in Nat
         /\ x * Assets <= PreviewMint(x, totalSupply, TotalAssets) * Supply
         /\ PreviewWithdraw(x, totalSupply, TotalAssets) \in Nat
         /\ x * Supply <= PreviewWithdraw(x, totalSupply, TotalAssets) * Assets
<1>1. /\ totalSupply \in Nat /\ totalDeposited \in Nat /\ totalDeposited > 0
      /\ VirtualOffset \in Nat
  BY SupplyBounds DEF Natural, SharesBacked, Backed
<1>2. Supply \in Nat \ {0} /\ Assets \in Nat \ {0}
  BY <1>1 DEF Supply, Assets
<1>3. /\ SharesFor(x) = MulDiv(x, Supply, Assets)
      /\ AssetsFor(x) = MulDiv(x, Assets, Supply)
      /\ PreviewMint(x, totalSupply, TotalAssets) = MulDivCeil(x, Assets, Supply)
      /\ PreviewWithdraw(x, totalSupply, TotalAssets) = MulDivCeil(x, Supply, Assets)
  BY <1>1 DEF SharesFor, AssetsFor, ConvertToSharesFloor, ConvertToAssetsFloor,
              PreviewMint, PreviewWithdraw, TotalAssets, Supply, Assets
<1>4. /\ SharesFor(x) \in Nat /\ Assets * SharesFor(x) <= x * Supply
      /\ AssetsFor(x) \in Nat /\ Supply * AssetsFor(x) <= x * Assets
  BY <1>2, <1>3, MulDivIsNat
<1> DEFINE pm == PreviewMint(x, totalSupply, TotalAssets)
           pw == PreviewWithdraw(x, totalSupply, TotalAssets)
<1>5. /\ pm \in Nat /\ x * Assets <= Supply * pm
      /\ pw \in Nat /\ x * Supply <= Assets * pw
  BY <1>2, <1>3, MulDivCeilCovers
<1> HIDE DEF pm, pw
<1>6. /\ Assets * SharesFor(x) = SharesFor(x) * Assets
      /\ Supply * AssetsFor(x) = AssetsFor(x) * Supply
      /\ Supply * pm = pm * Supply /\ Assets * pw = pw * Assets
  BY <1>2, <1>4, <1>5
<1> QED BY <1>2, <1>4, <1>5, <1>6 DEF pm, pw

\* With no share outstanding one share costs one unit.
LEMMA EmptyQuotes ==
  ASSUME totalSupply = 0, NEW x
  PROVE  /\ SharesFor(x) = x /\ AssetsFor(x) = x
         /\ PreviewMint(x, totalSupply, TotalAssets) = x
         /\ PreviewWithdraw(x, totalSupply, TotalAssets) = x
BY DEF SharesFor, AssetsFor, ConvertToSharesFloor, ConvertToAssetsFloor, PreviewMint,
       PreviewWithdraw

-----------------------------------------------------------------------------
(* Fair steps *)

\* A step that does not lower the price of the shares outstanding, or with none
\* outstanding takes in at least one unit for each share it makes.
Fair == \/ totalSupply > 0 /\ Assets' * Supply >= Assets * Supply'
        \/ totalSupply = 0 /\ totalSupply' - totalSupply <= totalDeposited' - totalDeposited

\* The accounts stay as they are.
LEMMA UntouchedIsFair ==
  ASSUME TypeOK, Natural, ShareConservation, UNCHANGED <<totalSupply, totalDeposited>>
  PROVE  Fair
<1>1. totalSupply \in Nat /\ totalDeposited \in Int /\ VirtualOffset \in Nat
  BY SupplyBounds
<1>2. Assets \in Int /\ Supply \in Int /\ Assets' = Assets /\ Supply' = Supply
  BY <1>1 DEF Assets, Supply
<1>3. Assets * Supply \in Int BY <1>2
<1> QED BY <1>1, <1>2, <1>3 DEF Fair

\* Shares leave for at most their price.
LEMMA PayOutIsFair ==
  ASSUME TypeOK, Natural, ShareConservation, SharesBacked,
         NEW assets \in Nat, NEW shares \in Nat,
         totalSupply > 0 => assets * Supply <= shares * Assets,
         totalSupply = 0 => shares = assets,
         totalSupply' = totalSupply - shares, totalDeposited' = totalDeposited - assets
  PROVE  Fair
<1>1. totalSupply \in Nat /\ totalDeposited \in Nat /\ VirtualOffset \in Nat
  BY SupplyBounds DEF Natural, SharesBacked, Backed
<1>2. /\ Assets \in Nat /\ Supply \in Nat
      /\ Assets' = Assets - assets /\ Supply' = Supply - shares
  BY <1>1 DEF Assets, Supply
<1>3. CASE totalSupply > 0
  BY <1>2, <1>3, PayOutKeepsPrice DEF Fair
<1>4. CASE totalSupply = 0
  BY <1>1, <1>4 DEF Fair
<1> QED BY <1>1, <1>3, <1>4

\* Shares come for at least their price.
LEMMA PayInIsFair ==
  ASSUME TypeOK, Natural, ShareConservation, SharesBacked,
         NEW assets \in Nat, NEW shares \in Nat,
         totalSupply > 0 => shares * Assets <= assets * Supply,
         totalSupply = 0 => shares = assets,
         totalSupply' = totalSupply + shares, totalDeposited' = totalDeposited + assets
  PROVE  Fair
<1>1. totalSupply \in Nat /\ totalDeposited \in Nat /\ VirtualOffset \in Nat
  BY SupplyBounds DEF Natural, SharesBacked, Backed
<1>2. /\ Assets \in Nat /\ Supply \in Nat
      /\ Assets' = Assets + assets /\ Supply' = Supply + shares
  BY <1>1 DEF Assets, Supply
<1>3. CASE totalSupply > 0
  BY <1>2, <1>3, PayInKeepsPrice DEF Fair
<1>4. CASE totalSupply = 0
  BY <1>1, <1>4 DEF Fair
<1> QED BY <1>1, <1>3, <1>4

\* A burn pays nothing, and with no share outstanding there is nothing to burn.
LEMMA BurnIsFair ==
  ASSUME TypeOK, Natural, ShareConservation, SharesBacked, NEW user \in Users, NEW shares \in Nat,
         Burn(user, shares), UNCHANGED totalDeposited
  PROVE  Fair
<1>1. shares <= balance[user] /\ totalSupply' = totalSupply - shares BY DEF Burn
<1>2. /\ totalSupply \in Nat /\ totalDeposited \in Nat /\ balance[user] \in Nat
      /\ balance[user] <= totalSupply /\ VirtualOffset \in Nat
  BY SupplyBounds DEF Natural, SharesBacked, Backed, TypeOK, SharesOK
<1>3. totalSupply = 0 => shares = 0 BY <1>1, <1>2
<1>4. 0 * Supply <= shares * Assets
  <2>1. Assets \in Nat /\ Supply \in Nat BY <1>2 DEF Assets, Supply
  <2>2. shares * Assets \in Nat /\ 0 * Supply = 0 BY <2>1, ProductIsNat
  <2> QED BY <2>2
<1>5. totalDeposited' = totalDeposited - 0 BY <1>2
<1> QED BY <1>1, <1>3, <1>4, <1>5, PayOutIsFair

\* Deposits are of naturals, the minimum being one.
LEMMA InvestedIsNat ==
  ASSUME TypeOK, NEW caller, NEW receiver, NEW assets \in AssetAmounts, NEW shares,
         Invest(caller, receiver, assets, shares)
  PROVE  assets \in Nat
<1>1. config.minDeposit \in Nat BY DEF TypeOK, LifeOK, Configs
<1>2. assets \in Int /\ assets >= config.minDeposit BY InputsAreInt DEF Invest
<1> QED BY <1>1, <1>2

\* So is what a call that notes no negative number moves.
LEMMA NotedIsNat ==
  ASSUME NEW amount \in Int, NoteSign(amount), ~negativeCalls'
  PROVE  amount \in Nat
<1>1. ~(amount < 0) BY DEF NoteSign
<1> QED BY <1>1

\* Deposits and mints.
LEMMA InvestIsFair ==
  ASSUME TypeOK, Natural, ShareConservation, SharesBacked, InvestNext, ~negativeCalls'
  PROVE  Fair
<1>1. totalSupply \in Nat BY SupplyBounds
<1>2. ASSUME NEW caller, NEW receiver, NEW assets \in AssetAmounts,
             Deposit(caller, assets, receiver)
      PROVE  Fair
  <2>0. assets \in Nat BY <1>2, InvestedIsNat DEF Deposit
  <2> DEFINE shares == SharesFor(assets)
  <2>1. /\ totalSupply' = totalSupply + shares
        /\ totalDeposited' = totalDeposited + assets
    BY <1>2 DEF Deposit, Invest
  <2>2. totalSupply > 0 => shares \in Nat /\ shares * Assets <= assets * Supply
    BY <2>0, QuotesFavourVault
  <2>3. totalSupply = 0 => shares = assets BY EmptyQuotes
  <2> HIDE DEF shares
  <2>4. shares \in Nat BY <1>1, <2>0, <2>2, <2>3
  <2> QED BY <2>0, <2>1, <2>2, <2>3, <2>4, PayInIsFair
<1>3. ASSUME NEW caller, NEW receiver, NEW shares \in ShareAmounts,
             Mint(caller, shares, receiver)
      PROVE  Fair
  <2>0. shares \in Nat BY <1>3, InputsAreInt, NotedIsNat DEF Mint
  <2> DEFINE assets == PreviewMint(shares, totalSupply, TotalAssets)
  <2>1. /\ totalSupply' = totalSupply + shares
        /\ totalDeposited' = totalDeposited + assets
    BY <1>3 DEF Mint, Invest
  <2>2. totalSupply > 0 => assets \in Nat /\ shares * Assets <= assets * Supply
    BY <2>0, QuotesFavourVault
  <2>3. totalSupply = 0 => assets = shares BY EmptyQuotes
  <2> HIDE DEF assets
  <2>4. assets \in Nat BY <1>1, <2>0, <2>2, <2>3
  <2> QED BY <2>0, <2>1, <2>2, <2>3, <2>4, PayInIsFair
<1>4. ASSUME NEW caller, NEW receiver, NEW owner, NEW assets \in AssetAmounts,
             Withdraw(caller, assets, receiver, owner)
      PROVE  Fair
  <2>0. assets \in Nat BY <1>4, InputsAreInt DEF Withdraw
  <2> DEFINE shares == PreviewWithdraw(assets, totalSupply, TotalAssets)
  <2>1. /\ totalSupply' = totalSupply - shares
        /\ totalDeposited' = totalDeposited - assets
    BY <1>4 DEF Withdraw, Exit, Burn
  <2>2. totalSupply > 0 => shares \in Nat /\ assets * Supply <= shares * Assets
    BY <2>0, QuotesFavourVault
  <2>3. totalSupply = 0 => shares = assets BY EmptyQuotes
  <2> HIDE DEF shares
  <2>4. shares \in Nat BY <1>1, <2>0, <2>2, <2>3
  <2> QED BY <2>0, <2>1, <2>2, <2>3, <2>4, PayOutIsFair
<1>5. ASSUME NEW caller, NEW receiver, NEW owner, NEW shares \in ShareAmounts,
             Redeem(caller, shares, receiver, owner)
      PROVE  Fair
  <2>0. shares \in Nat BY <1>5, InputsAreInt DEF Redeem
  <2> DEFINE assets == AssetsFor(shares)
  <2>1. /\ totalSupply' = totalSupply - shares
        /\ totalDeposited' = totalDeposited - assets
    BY <1>5 DEF Redeem, Exit, Burn
  <2>2. totalSupply > 0 => assets \in Nat /\ assets * Supply <= shares * Assets
    BY <2>0, QuotesFavourVault
  <2>3. totalSupply = 0 => assets = shares BY EmptyQuotes
  <2> HIDE DEF assets
  <2>4. assets \in Nat BY <1>1, <2>0, <2>2, <2>3
  <2> QED BY <2>0, <2>1, <2>2, <2>3, <2>4, PayOutIsFair
<1> QED BY <1>2, <1>3, <1>4, <1>5 DEF InvestNext

\* Redemption at maturity and the request queue: what was locked in pays at most
\* the price of now.
LEMMA RedemptionIsFair ==
  ASSUME TypeOK, Natural, ShareConservation, EscrowMatchesQueue, SharesBacked,
         LockedValueWithinPrice, RedemptionNext
  PROVE  Fair
<1>1. totalSupply \in Nat BY SupplyBounds
<1>2. ASSUME NEW caller, NEW receiver, NEW owner, NEW shares \in ShareAmounts,
             RedeemAtMaturity(caller, shares, receiver, owner)
      PROVE  Fair
  <2> DEFINE assets == AssetsFor(shares)
  <2>0. shares \in Nat BY <1>2, InputsAreInt DEF RedeemAtMaturity
  <2>1. /\ totalSupply' = totalSupply - shares
        /\ totalDeposited' = totalDeposited - assets
    BY <1>2 DEF RedeemAtMaturity, Exit, Burn
  <2>2. totalSupply > 0 => assets \in Nat /\ assets * Supply <= shares * Assets
    BY <2>0, QuotesFavourVault
  <2>3. totalSupply = 0 => assets = shares BY EmptyQuotes
  <2> HIDE DEF assets
  <2>4. assets \in Nat BY <1>1, <2>0, <2>2, <2>3
  <2> QED BY <2>0, <2>1, <2>2, <2>3, <2>4, PayOutIsFair
<1>3. ASSUME NEW user, NEW shares, RequestEarlyRedemption(user, shares) PROVE Fair
  BY <1>3, UntouchedIsFair DEF RequestEarlyRedemption, fundVars
<1>4. ASSUME NEW id, ReturnFromEscrow(id) PROVE Fair
  BY <1>4, UntouchedIsFair DEF ReturnFromEscrow, fundVars
<1>5. ASSUME NEW id \in 1..Len(requests), ProcessEarlyRedemption(id) PROVE Fair
  <2> DEFINE value == requests[id].value
             shares == requests[id].shares
             fee == EarlyRedemptionFee(value, config.feeBps)
             net == value - fee
  <2>1. id \in DOMAIN requests /\ Pending(id)
    BY <1>5 DEF ProcessEarlyRedemption, TypeOK, RequestsOK
  <2>2. shares \in Nat /\ value \in Nat /\ shares <= totalSupply
    BY <2>1, PendingWithinSupply
  <2>3. value * Supply <= shares * Assets
    BY <2>1 DEF Natural, LockedValueWithinPrice, Supply, Assets
  <2>4. /\ totalSupply' = totalSupply - shares
        /\ totalDeposited' = totalDeposited - net
    BY <1>5 DEF ProcessEarlyRedemption
  <2>5. fee \in Nat /\ fee <= value
    <3>1. config.feeBps \in 0..1000 BY DEF TypeOK, LifeOK, Configs
    <3> HIDE DEF value
    <3> QED BY <2>2, <3>1, FeeBounds
  <2> HIDE DEF fee, value, shares
  <2>6. net \in Nat /\ net <= value BY <2>2, <2>5
  <2> HIDE DEF net
  <2>7. /\ Supply \in Nat /\ Supply > 0 /\ Assets \in Nat
    BY SupplyBounds DEF Natural, SharesBacked, Backed, Supply, Assets
  <2>8. net * Supply <= value * Supply BY <2>2, <2>6, <2>7
  <2>9. net * Supply <= shares * Assets
    <3>1. /\ net * Supply \in Nat /\ value * Supply \in Nat /\ shares * Assets \in Nat
      BY <2>2, <2>6, <2>7, ProductIsNat
    <3> QED BY <2>3, <2>8, <3>1
  <2>10. totalSupply = 0 => shares = net
    <3> SUFFICES ASSUME totalSupply = 0 PROVE shares = net OBVIOUS
    <3>1. shares = 0 BY <2>2
    <3>2. shares * Assets = 0 BY <2>7, <3>1
    <3>3. net * Supply <= 0 BY <2>9, <3>2
    <3>4. ASSUME net > 0 PROVE FALSE
      <4>1. net * Supply > 0 BY <2>6, <2>7, <3>4
      <4>2. net * Supply \in Nat BY <2>6, <2>7, ProductIsNat
      <4> QED BY <3>3, <4>1, <4>2
    <3> QED BY <2>6, <3>1, <3>4
  <2> QED BY <2>2, <2>4, <2>6, <2>9, <2>10, PayOutIsFair
<1> QED
  BY <1>2, <1>3, <1>4, <1>5 DEF RedemptionNext, CancelEarlyRedemption, RejectEarlyRedemption

\* Every call is fair.
LEMMA NextIsFair ==
  ASSUME TypeOK, Natural, ShareConservation, EscrowMatchesQueue, SharesBacked,
         LockedValueWithinPrice, [Next]_vars, ~negativeCalls'
  PROVE  Fair
<1>1. CASE YieldNext
  <2>1. ASSUME NEW amount \in YieldAmounts, DistributeYield(amount) PROVE Fair
    <3>0. amount \in Nat BY <2>1, InputsAreInt DEF DistributeYield
    <3>1. /\ totalSupply' = totalSupply + 0
          /\ totalDeposited' = totalDeposited + amount
          /\ totalSupply > 0
      BY <2>1, SupplyBounds DEF DistributeYield, shareVars
    <3>2. Supply \in Nat /\ Assets \in Nat
      BY SupplyBounds DEF Natural, SharesBacked, Backed, Supply, Assets
    <3>3. 0 * Assets <= amount * Supply
      <4>1. 0 * Assets = 0 /\ amount * Supply \in Nat BY <3>0, <3>2, ProductIsNat
      <4> QED BY <4>1
    <3> QED BY <3>0, <3>1, <3>3, PayInIsFair
  <2>2. ASSUME NEW user, ClaimYield(user) PROVE Fair
    BY <2>2, UntouchedIsFair DEF ClaimYield, shareVars, fundVars
  <2>3. ASSUME NEW user, NEW epoch, ClaimYieldForEpoch(user, epoch) PROVE Fair
    BY <2>3, UntouchedIsFair DEF ClaimYieldForEpoch, shareVars, fundVars
  <2>4. ASSUME NEW user, NEW amount, ResolveYieldShortfall(user, amount) PROVE Fair
    BY <2>4, UntouchedIsFair DEF ResolveYieldShortfall, shareVars, fundVars
  <2> QED BY <1>1, <2>1, <2>2, <2>3, <2>4 DEF YieldNext
<1>2. CASE LifecycleNext
  <2>1. ASSUME NEW user \in Users, Refund(user) PROVE Fair
    <3> DEFINE shares == balance[user]
               assets == AssetsFor(shares)
    <3>1. shares \in Nat BY DEF Natural
    <3>2. /\ totalSupply' = totalSupply - shares
          /\ totalDeposited' = totalDeposited - assets
      BY <2>1 DEF Refund, Burn
    <3>3. totalSupply > 0 => assets \in Nat /\ assets * Supply <= shares * Assets
      BY <3>1, QuotesFavourVault
    <3>4. totalSupply = 0 => assets = shares BY EmptyQuotes
    <3>5. totalSupply \in Nat BY SupplyBounds
    <3> HIDE DEF assets, shares
    <3>6. assets \in Nat BY <3>1, <3>3, <3>4, <3>5
    <3> QED BY <3>1, <3>2, <3>3, <3>4, <3>6, PayOutIsFair
  <2>2. ASSUME NEW state, MoveTo(state) PROVE Fair
    BY <2>2, UntouchedIsFair DEF MoveTo, shareVars, fundVars
  <2> QED
    BY <1>2, <2>1, <2>2
    DEF LifecycleNext, ActivateVault, CancelFunding, MatureVault, CloseVault
<1>3. CASE LimitsNext \/ TermsNext
  <2>1. ASSUME NEW c, Configure(c) PROVE Fair
    BY <2>1, UntouchedIsFair DEF Configure, shareVars, fundVars
  <2> QED
    BY <1>3, <2>1
    DEF LimitsNext, TermsNext, SetFundingTarget, SetMinDeposit, SetMaxDepositPerUser,
        SetDepositLimits, SetMaxInvestors, SetEarlyRedemptionFee, SetMaturityDate,
        SetYieldVestingPeriod, SetLockUpPeriod
<1>4. CASE FreezeNext
  BY <1>4, UntouchedIsFair
  DEF FreezeNext, Pause, Unpause, SetFreezeFlags, unstoppedVars, shareVars, fundVars
<1>5. CASE EmergencyNext
  <2>1. ASSUME NEW user \in Users, EmergencyClaim(user) PROVE Fair
    <3>1. balance[user] \in Nat BY DEF Natural
    <3> QED BY <2>1, <3>1, BurnIsFair DEF EmergencyClaim, fundVars
  <2> QED
    BY <1>5, <2>1, UntouchedIsFair
    DEF EmergencyNext, EmergencyWithdraw, EmergencyEnableProRata, unstoppedVars,
        shareVars, fundVars
<1>6. CASE TransferNext \/ AllowanceNext
  <2>1. ASSUME NEW from, NEW to, NEW amount, MoveShares(from, to, amount) PROVE Fair
    BY <2>1, UntouchedIsFair DEF MoveShares, tokenUnchanged, fundVars
  <2>2. ASSUME NEW from, NEW spender, NEW amount, NEW expires,
               Approve(from, spender, amount, expires)
        PROVE  Fair
    BY <2>2, UntouchedIsFair DEF Approve, tokenUnchanged, fundVars
  <2>3. ASSUME NEW from \in Users, NEW amount \in ShareAmounts,
               Burn(from, amount), NoteSign(amount), UNCHANGED tokenUnchanged
        PROVE  Fair
    <3>1. amount \in Nat BY <2>3, InputsAreInt, NotedIsNat
    <3> QED BY <2>3, <3>1, BurnIsFair DEF tokenUnchanged, fundVars
  <2> QED
    BY <1>6, <2>1, <2>2, <2>3
    DEF TransferNext, AllowanceNext, Transfer, TransferFrom, BurnShares, BurnFrom
<1>7. CASE ComplianceNext \/ AdvanceTime \/ UNCHANGED vars
  <2>1. UNCHANGED <<shareVars, fundVars>>
    BY <1>7
    DEF ComplianceNext, SetBlacklisted, SetTransferExempt, SetTransferRequiresKyc,
        KycChanges, complianceUnchanged, AdvanceTime, vars
  <2> QED BY <2>1, UntouchedIsFair DEF shareVars, fundVars
<1> QED
  BY <1>1, <1>2, <1>3, <1>4, <1>5, <1>6, <1>7, InvestIsFair, RedemptionIsFair DEF Next

-----------------------------------------------------------------------------
(* The price invariant *)

\* A fair step leaves the supply backed.
LEMMA FairKeepsBacking ==
  ASSUME TypeOK, TypeOK', Natural, Natural', ShareConservation, SharesBacked, Fair
  PROVE  SharesBacked'
<1>1. /\ totalSupply \in Nat /\ totalDeposited \in Int
      /\ VirtualOffset \in Nat /\ VirtualOffset > 0
  BY SupplyBounds
<1>2. totalSupply' \in Nat /\ totalDeposited' \in Int
  BY DEF Natural, TypeOK, FundsOK
<1>5. /\ Supply' = totalSupply' + VirtualOffset
      /\ Assets' = totalDeposited' + VirtualOffset
  BY DEF Supply, Assets
<1>3. CASE totalSupply > 0 /\ Assets' * Supply >= Assets * Supply'
  <2>1. Supply \in Int /\ Supply > 0 /\ Assets \in Int /\ Supply <= Assets
    BY <1>1 DEF Supply, Assets, Natural, SharesBacked, Backed
  <2>2. Supply' \in Int /\ Supply' > 0 /\ Assets' \in Int
    <3>1. /\ totalSupply' + VirtualOffset \in Int
          /\ totalSupply' + VirtualOffset > 0
          /\ totalDeposited' + VirtualOffset \in Int
      BY <1>1, <1>2, OffsetBothSides
    <3> QED BY <3>1, <1>5
  <2>3. Supply' <= Assets' BY <1>3, <2>1, <2>2, BackingFollows
  <2>4. totalSupply' <= totalDeposited' BY <1>1, <1>2, <1>5, <2>3, OffsetBothSides
  <2>5. 0 <= totalSupply' BY <1>2
  <2> QED BY <2>4, <2>5 DEF Natural, SharesBacked, Backed
<1>4. CASE totalSupply = 0 /\ totalSupply' - totalSupply <= totalDeposited' - totalDeposited
  <2>1. totalSupply <= totalDeposited BY DEF Natural, SharesBacked, Backed
  <2>2. totalSupply' <= totalDeposited'
    <3>1. totalSupply' - totalSupply <= totalDeposited' - totalDeposited BY <1>4
    <3>2. totalSupply \in Nat /\ totalDeposited \in Int BY <1>1
    <3> QED BY <1>2, <2>1, <3>1, <3>2, GrowthBelow
  <2>3. 0 <= totalSupply' BY <1>2
  <2> QED BY <2>2, <2>3 DEF Natural, SharesBacked, Backed
<1> QED BY <1>3, <1>4 DEF Fair

\* A request pending after a step was pending before it with the same shares and
\* value, or has just been made at the price of now.
LEMMA PendingComesFrom ==
  ASSUME TypeOK, Natural, ShareConservation, SharesBacked, [Next]_vars,
         NEW id \in DOMAIN requests', Pending(id)'
  PROVE  \/ /\ id \in DOMAIN requests /\ Pending(id)
            /\ requests'[id].shares = requests[id].shares
            /\ requests'[id].value = requests[id].value
         \/ /\ UNCHANGED <<totalSupply, totalDeposited>>
            /\ requests'[id].value * Supply <= requests'[id].shares * Assets
<1> DEFINE Old == /\ id \in DOMAIN requests /\ Pending(id)
                  /\ requests'[id].shares = requests[id].shares
                  /\ requests'[id].value = requests[id].value
           New == /\ UNCHANGED <<totalSupply, totalDeposited>>
                  /\ requests'[id].value * Supply <= requests'[id].shares * Assets
<1>0. requests' = requests => Old BY DEF Pending
<1>1. requests \in Seq(RequestRecords) /\ DOMAIN requests = 1..Len(requests)
      /\ Len(requests) \in Nat
  BY DEF TypeOK, RequestsOK
<1>2. ASSUME NEW r \in 1..Len(requests), NEW status, status # "Pending",
             requests' = [requests EXCEPT ![r].status = status]
      PROVE  Old
  <2>1. requests[r] \in RequestRecords BY <1>1
  <2>2. /\ DOMAIN requests' = DOMAIN requests
        /\ requests'[r].status = status
        /\ \A q \in DOMAIN requests \ {r} : requests'[q] = requests[q]
    BY <1>1, <1>2, <2>1 DEF RequestRecords
  <2> QED BY <1>2, <2>2 DEF Pending
<1>3. ASSUME NEW user \in Users, NEW shares \in ShareAmounts,
             RequestEarlyRedemption(user, shares)
      PROVE  Old \/ New
  <2> DEFINE new == Len(requests) + 1
             value == AssetsFor(shares)
  <2>1. requests' = Append(requests, [user |-> user, shares |-> shares,
                                      value |-> value, status |-> "Pending"])
    BY <1>3 DEF RequestEarlyRedemption
  <2>2. /\ DOMAIN requests' = 1..new
        /\ \A q \in 1..Len(requests) : requests'[q] = requests[q]
        /\ requests'[new].shares = shares /\ requests'[new].value = value
    <3> HIDE DEF value
    <3> QED BY <1>1, <2>1
  <2>3. CASE id # new
    <3>1. id \in DOMAIN requests BY <1>1, <2>2, <2>3
    <3> QED BY <1>1, <2>2, <3>1 DEF Pending
  <2>4. CASE id = new
    <3>1. shares \in Nat /\ shares > 0 /\ shares <= balance[user]
          /\ UNCHANGED <<totalSupply, totalDeposited>>
      BY <1>3, InputsAreInt DEF RequestEarlyRedemption, fundVars
    <3>2. totalSupply > 0
      BY <3>1, SupplyBounds DEF Natural
    <3>3. value * Supply <= shares * Assets BY <3>1, <3>2, QuotesFavourVault
    <3> HIDE DEF value
    <3> QED BY <2>2, <2>4, <3>1, <3>3
  <2> QED BY <2>3, <2>4
<1>4. ASSUME RedemptionNext PROVE Old \/ New
  <2>1. ASSUME NEW caller, NEW receiver, NEW owner, NEW shares,
               RedeemAtMaturity(caller, shares, receiver, owner)
        PROVE  Old
    BY <1>0, <2>1 DEF RedeemAtMaturity, Exit
  <2>2. ASSUME NEW r \in 1..Len(requests), ProcessEarlyRedemption(r) \/ ReturnFromEscrow(r)
        PROVE  Old
    BY <1>2, <2>2 DEF ProcessEarlyRedemption, ReturnFromEscrow
  <2> HIDE DEF Old, New
  <2> QED
    BY <1>3, <1>4, <2>1, <2>2
    DEF RedemptionNext, CancelEarlyRedemption, RejectEarlyRedemption
<1>5. ASSUME ~RedemptionNext PROVE requests' = requests
  <2>1. InvestNext => requests' = requests
    BY DEF InvestNext, Deposit, Mint, Withdraw, Redeem, Invest, Exit
  <2>2. YieldNext => requests' = requests
    BY DEF YieldNext, DistributeYield, ClaimYield, ClaimYieldForEpoch, ResolveYieldShortfall
  <2>3. LifecycleNext \/ LimitsNext \/ TermsNext => requests' = requests
    BY DEF LifecycleNext, LimitsNext, TermsNext, ActivateVault, CancelFunding, MatureVault,
        CloseVault, MoveTo, Refund, SetFundingTarget, SetMinDeposit, SetMaxDepositPerUser,
        SetDepositLimits, SetMaxInvestors, SetEarlyRedemptionFee, SetMaturityDate,
        SetYieldVestingPeriod, SetLockUpPeriod, Configure, otherVars
  <2>4. FreezeNext \/ EmergencyNext => requests' = requests
    BY DEF FreezeNext, EmergencyNext, Pause, Unpause, SetFreezeFlags, EmergencyWithdraw,
        EmergencyEnableProRata, EmergencyClaim, unstoppedVars
  <2>5. TransferNext \/ AllowanceNext => requests' = requests
    BY DEF TransferNext, AllowanceNext, Approve, BurnShares, BurnFrom, Transfer,
        TransferFrom, MoveShares, tokenUnchanged
  <2>6. ComplianceNext \/ AdvanceTime \/ UNCHANGED vars => requests' = requests
    BY DEF ComplianceNext, SetBlacklisted, SetTransferExempt, SetTransferRequiresKyc,
        KycChanges, complianceUnchanged, AdvanceTime, vars
  <2> QED BY <1>5, <2>1, <2>2, <2>3, <2>4, <2>5, <2>6 DEF Next
<1> HIDE DEF Old, New
<1>6. Old \/ New BY <1>0, <1>4, <1>5
<1> QED BY <1>6 DEF Old, New

\* A fair step leaves every locked value within the price.
LEMMA FairKeepsLocked ==
  ASSUME TypeOK, Natural, ShareConservation, EscrowMatchesQueue, SharesBacked, SharesBacked',
         LockedValueWithinPrice, [Next]_vars, Natural', Fair
  PROVE  LockedValueWithinPrice'
<1>1. /\ totalSupply \in Nat /\ totalDeposited \in Int
      /\ VirtualOffset \in Nat /\ VirtualOffset > 0
  BY SupplyBounds
<1>2. TypeOK' BY NextType
<1>3. totalSupply' \in Nat /\ totalDeposited' \in Int
  BY <1>2 DEF TypeOK, FundsOK, Natural
<1>4. Supply \in Int /\ Supply > 0 /\ Assets \in Int
  BY <1>1 DEF Supply, Assets
<1>6. /\ Supply' = totalSupply' + VirtualOffset
      /\ Assets' = totalDeposited' + VirtualOffset
  BY DEF Supply, Assets
<1>7. Supply' \in Int /\ Supply' > 0 /\ Assets' \in Int
  <2>1. /\ totalSupply' + VirtualOffset \in Int
        /\ totalSupply' + VirtualOffset > 0
        /\ totalDeposited' + VirtualOffset \in Int
    BY <1>1, <1>3, OffsetBothSides
  <2> QED BY <1>6, <2>1
<1>5. ASSUME NEW id \in DOMAIN requests', Pending(id)'
      PROVE  requests'[id].value * Supply' <= requests'[id].shares * Assets'
  <2>1. CASE /\ id \in DOMAIN requests /\ Pending(id)
             /\ requests'[id].shares = requests[id].shares
             /\ requests'[id].value = requests[id].value
    <3> DEFINE value == requests[id].value
               shares == requests[id].shares
    <3>1. value \in Nat /\ shares \in Nat /\ shares <= totalSupply
      BY <2>1, PendingWithinSupply
    <3>2. value * Supply <= shares * Assets
      BY <2>1 DEF Natural, LockedValueWithinPrice, Supply, Assets
    <3> HIDE DEF value, shares
    <3>3. CASE totalSupply > 0 /\ Assets' * Supply >= Assets * Supply'
      <4>1. value * Supply' <= shares * Assets' BY <1>4, <1>7, <3>1, <3>2, <3>3, ValueFollows
      <4> QED BY <2>1, <4>1 DEF value, shares
    <3>4. CASE totalSupply = 0
      <4>1. shares = 0 BY <3>1, <3>4
      <4>2. shares * Assets = 0 /\ shares * Assets' = 0 BY <1>4, <1>7, <4>1, ZeroTimes
      <4>3. value = 0
        <5> SUFFICES ASSUME value > 0 PROVE FALSE BY <3>1
        <5>1. value * Supply > 0 /\ value * Supply \in Int BY <1>4, <3>1
        <5> QED BY <3>2, <4>2, <5>1
      <4>4. value * Supply' = 0 BY <1>7, <4>3, ZeroTimes
      <4> QED BY <2>1, <4>2, <4>4 DEF value, shares
    <3> QED BY <3>3, <3>4 DEF Fair
  <2>2. CASE /\ UNCHANGED <<totalSupply, totalDeposited>>
             /\ requests'[id].value * Supply <= requests'[id].shares * Assets
    BY <2>2 DEF Supply, Assets
  <2> QED BY <1>5, <2>1, <2>2, PendingComesFrom
<1> QED BY <1>5 DEF LockedValueWithinPrice, Supply, Assets

-----------------------------------------------------------------------------
(* The naturals *)

\* No redemption moves the state, the epochs or the mark of a negative call.
LEMMA RedemptionStays ==
  ASSUME RedemptionNext
  PROVE  UNCHANGED <<vaultState, negativeCalls, epochVars>>
<1> DEFINE Stays == UNCHANGED <<vaultState, negativeCalls, epochVars>>
<1>1. ASSUME NEW caller, NEW receiver, NEW owner, NEW shares,
             RedeemAtMaturity(caller, shares, receiver, owner)
      PROVE  Stays
  BY <1>1 DEF RedeemAtMaturity, Exit, lifeVars
<1>2. ASSUME NEW user, NEW shares, RequestEarlyRedemption(user, shares) PROVE Stays
  BY <1>2 DEF RequestEarlyRedemption, lifeVars
<1>3. ASSUME NEW id, ProcessEarlyRedemption(id) PROVE Stays
  BY <1>3 DEF ProcessEarlyRedemption, lifeVars
<1>4. ASSUME NEW id, ReturnFromEscrow(id) PROVE Stays
  BY <1>4 DEF ReturnFromEscrow, lifeVars
<1> HIDE DEF Stays
<1>5. Stays
  BY <1>1, <1>2, <1>3, <1>4
  DEF RedemptionNext, CancelEarlyRedemption, RejectEarlyRedemption
<1> QED BY <1>5 DEF Stays

\* A negative call is never forgotten.
LEMMA NegativesStay == ASSUME [Next]_vars, negativeCalls PROVE negativeCalls'
<1>1. InvestNext => negativeCalls'
  <2>1. ASSUME NEW caller, NEW receiver, NEW assets, Deposit(caller, assets, receiver)
        PROVE negativeCalls'
    BY <2>1 DEF Deposit
  <2>2. ASSUME NEW caller, NEW receiver, NEW shares, Mint(caller, shares, receiver)
        PROVE negativeCalls'
    BY <2>2 DEF Mint, NoteSign
  <2>3. ASSUME NEW caller, NEW receiver, NEW owner, NEW assets, NEW shares, NEW yield,
               Exit(caller, receiver, owner, assets, shares, yield)
        PROVE negativeCalls'
    BY <2>3 DEF Exit
  <2> QED BY <2>1, <2>2, <2>3 DEF InvestNext, Withdraw, Redeem
<1>2. YieldNext => negativeCalls'
  BY DEF YieldNext, DistributeYield, ClaimYield, ClaimYieldForEpoch, ResolveYieldShortfall
<1>3. LifecycleNext \/ LimitsNext \/ TermsNext => negativeCalls'
  BY DEF LifecycleNext, LimitsNext, TermsNext, ActivateVault, CancelFunding, MatureVault,
      CloseVault, MoveTo, Refund, SetFundingTarget, SetMinDeposit, SetMaxDepositPerUser,
      SetDepositLimits, SetMaxInvestors, SetEarlyRedemptionFee, SetMaturityDate,
      SetYieldVestingPeriod, SetLockUpPeriod, Configure, otherVars
<1>4. RedemptionNext => negativeCalls' BY RedemptionStays
<1>5. FreezeNext \/ EmergencyNext => negativeCalls'
  BY DEF FreezeNext, EmergencyNext, Pause, Unpause, SetFreezeFlags, EmergencyWithdraw,
      EmergencyEnableProRata, EmergencyClaim, unstoppedVars
<1>6. TransferNext \/ AllowanceNext => negativeCalls'
  BY DEF TransferNext, AllowanceNext, Approve, BurnShares, BurnFrom, Transfer,
      TransferFrom, MoveShares, NoteSign
<1>7. ComplianceNext \/ AdvanceTime \/ UNCHANGED vars => negativeCalls'
  BY DEF ComplianceNext, SetBlacklisted, SetTransferExempt, SetTransferRequiresKyc,
      KycChanges, complianceUnchanged, AdvanceTime, vars
<1> QED BY <1>1, <1>2, <1>3, <1>4, <1>5, <1>6, <1>7 DEF Next

\* What a burn leaves is a natural.
LEMMA BurnLeavesNat ==
  ASSUME Natural, NEW user \in Users, NEW shares \in Int, Burn(user, shares)
  PROVE  balance' \in [Users -> Nat]
<1>1. balance[user] - shares \in Nat BY DEF Natural, Burn
<1> QED BY <1>1 DEF Natural, Burn

\* Deposits and mints add naturals, withdrawals and redemptions burn.
LEMMA InvestLeavesNat ==
  ASSUME TypeOK, Natural, ShareConservation, SharesBacked, InvestNext, ~negativeCalls'
  PROVE  balance' \in [Users -> Nat]
<1>1. totalSupply \in Nat BY SupplyBounds
<1>2. ASSUME NEW x \in Nat
      PROVE  /\ SharesFor(x) \in Nat /\ AssetsFor(x) \in Nat
             /\ PreviewWithdraw(x, totalSupply, TotalAssets) \in Nat
  <2>1. CASE totalSupply > 0 BY <2>1, QuotesFavourVault
  <2>2. CASE totalSupply = 0 BY <2>2, EmptyQuotes
  <2> QED BY <1>1, <2>1, <2>2
<1>3. ASSUME NEW receiver \in Users, NEW shares \in Nat,
             balance' = [balance EXCEPT ![receiver] = @ + shares]
      PROVE  balance' \in [Users -> Nat]
  <2>1. balance[receiver] + shares \in Nat BY DEF Natural
  <2> QED BY <1>3, <2>1 DEF Natural
<1>4. ASSUME NEW caller, NEW receiver \in Users, NEW assets \in AssetAmounts,
             Deposit(caller, assets, receiver)
      PROVE  balance' \in [Users -> Nat]
  <2>1. assets \in Nat BY <1>4, InvestedIsNat DEF Deposit
  <2> QED BY <1>2, <1>3, <1>4, <2>1 DEF Deposit, Invest
<1>5. ASSUME NEW caller, NEW receiver \in Users, NEW shares \in ShareAmounts,
             Mint(caller, shares, receiver)
      PROVE  balance' \in [Users -> Nat]
  <2>1. shares \in Nat BY <1>5, InputsAreInt, NotedIsNat DEF Mint
  <2> QED BY <1>3, <1>5, <2>1 DEF Mint, Invest
<1>6. ASSUME NEW caller, NEW receiver, NEW owner \in Users, NEW assets \in AssetAmounts,
             Withdraw(caller, assets, receiver, owner)
      PROVE  balance' \in [Users -> Nat]
  <2> DEFINE shares == PreviewWithdraw(assets, totalSupply, TotalAssets)
  <2>1. assets \in Nat BY <1>6, InputsAreInt DEF Withdraw
  <2>2. shares \in Int BY <1>2, <2>1
  <2>3. Burn(owner, shares) BY <1>6 DEF Withdraw, Exit
  <2> HIDE DEF shares
  <2> QED BY <2>2, <2>3, BurnLeavesNat
<1>7. ASSUME NEW caller, NEW receiver, NEW owner \in Users, NEW shares \in ShareAmounts,
             Redeem(caller, shares, receiver, owner)
      PROVE  balance' \in [Users -> Nat]
  BY <1>7, InputsAreInt, BurnLeavesNat DEF Redeem, Exit
<1> QED BY <1>4, <1>5, <1>6, <1>7 DEF InvestNext

\* Redemptions burn or move naturals, and lock natural values.
LEMMA RedemptionLeavesNat ==
  ASSUME TypeOK, Natural, ShareConservation, SharesBacked, RedemptionNext
  PROVE  /\ balance' \in [Users -> Nat]
         /\ \A id \in DOMAIN requests' : requests'[id].value \in Nat
<1>1. requests \in Seq(RequestRecords) /\ DOMAIN requests = 1..Len(requests)
      /\ Len(requests) \in Nat
  BY DEF TypeOK, RequestsOK
<1>2. requests' = requests => \A id \in DOMAIN requests' : requests'[id].value \in Nat
  BY DEF Natural
<1>3. ASSUME NEW r \in 1..Len(requests), NEW status,
             requests' = [requests EXCEPT ![r].status = status]
      PROVE  \A id \in DOMAIN requests' : requests'[id].value \in Nat
  <2>1. \A id \in DOMAIN requests : requests[id] \in RequestRecords BY <1>1
  <2>2. /\ DOMAIN requests' = DOMAIN requests
        /\ \A id \in DOMAIN requests : requests'[id].value = requests[id].value
    BY <1>1, <1>3, <2>1 DEF RequestRecords
  <2> QED BY <2>2 DEF Natural
<1>4. ASSUME NEW caller, NEW receiver, NEW owner \in Users, NEW shares \in ShareAmounts,
             RedeemAtMaturity(caller, shares, receiver, owner)
      PROVE  balance' \in [Users -> Nat] /\ requests' = requests
  BY <1>4, InputsAreInt, BurnLeavesNat DEF RedeemAtMaturity, Exit
<1>5. ASSUME NEW user \in Users, NEW shares \in ShareAmounts,
             RequestEarlyRedemption(user, shares)
      PROVE  /\ balance' \in [Users -> Nat]
             /\ \A id \in DOMAIN requests' : requests'[id].value \in Nat
  <2> DEFINE value == AssetsFor(shares)
             new == Len(requests) + 1
  <2>1. /\ shares \in Nat /\ shares > 0 /\ shares <= balance[user]
        /\ balance' = [balance EXCEPT ![user] = @ - shares]
        /\ requests' = Append(requests, [user |-> user, shares |-> shares,
                                         value |-> value, status |-> "Pending"])
    BY <1>5, InputsAreInt DEF RequestEarlyRedemption
  <2>2. balance[user] - shares \in Nat BY <2>1 DEF Natural
  <2>3. balance' \in [Users -> Nat] BY <2>1, <2>2 DEF Natural
  <2>4. value \in Nat
    <3>1. totalSupply > 0 BY <2>1, SupplyBounds DEF Natural
    <3> QED BY <2>1, <3>1, QuotesFavourVault
  <2> HIDE DEF value
  <2>5. /\ DOMAIN requests' = 1..new
        /\ \A q \in 1..Len(requests) : requests'[q] = requests[q]
        /\ requests'[new].value = value
    BY <1>1, <2>1
  <2>6. ASSUME NEW id \in DOMAIN requests' PROVE requests'[id].value \in Nat
    <3>1. id \in 1..Len(requests) \/ id = new BY <1>1, <2>5
    <3> QED BY <1>1, <2>4, <2>5, <3>1 DEF Natural
  <2> QED BY <2>3, <2>6
<1>6. ASSUME NEW id \in 1..Len(requests), ProcessEarlyRedemption(id)
      PROVE  /\ balance' \in [Users -> Nat]
             /\ \A q \in DOMAIN requests' : requests'[q].value \in Nat
  <2>1. balance' = balance /\ requests' = [requests EXCEPT ![id].status = "Approved"]
    BY <1>6 DEF ProcessEarlyRedemption
  <2> QED BY <1>3, <2>1 DEF Natural
<1>7. ASSUME NEW id \in 1..Len(requests), ReturnFromEscrow(id)
      PROVE  /\ balance' \in [Users -> Nat]
             /\ \A q \in DOMAIN requests' : requests'[q].value \in Nat
  <2> DEFINE user == requests[id].user
             shares == requests[id].shares
  <2>1. user \in Users /\ shares \in Nat BY RequestType
  <2>2. /\ balance' = [balance EXCEPT ![user] = @ + shares]
        /\ requests' = [requests EXCEPT ![id].status = "Rejected"]
    BY <1>7 DEF ReturnFromEscrow
  <2> HIDE DEF user, shares
  <2>3. balance[user] + shares \in Nat BY <2>1 DEF Natural
  <2> QED BY <1>3, <2>2, <2>3 DEF Natural
<1> QED
  BY <1>2, <1>4, <1>5, <1>6, <1>7
  DEF RedemptionNext, CancelEarlyRedemption, RejectEarlyRedemption

\* As long as no call names a negative number of shares, nobody holds one.
LEMMA NextKeepsNatural ==
  ASSUME TypeOK, Natural, ShareConservation, SharesBacked, [Next]_vars, ~negativeCalls'
  PROVE  Natural'
<1> DEFINE Values == \A id \in DOMAIN requests' : requests'[id].value \in Nat
           Holdings == balance' \in [Users -> Nat]
<1>0. /\ requests' = requests => Values
      /\ balance' = balance => Holdings
  BY DEF Natural
<1>1. Holdings /\ Values
  <2>1. CASE InvestNext
    <3>1. requests' = requests
      BY <2>1 DEF InvestNext, Deposit, Mint, Withdraw, Redeem, Invest, Exit
    <3> QED BY <1>0, <2>1, <3>1, InvestLeavesNat
  <2>2. CASE RedemptionNext
    BY <2>2, RedemptionLeavesNat
  <2>3. CASE YieldNext
    BY <1>0, <2>3
    DEF YieldNext, DistributeYield, ClaimYield, ClaimYieldForEpoch, ResolveYieldShortfall,
        shareVars
  <2>4. CASE LifecycleNext
    <3>1. ASSUME NEW user \in Users, Refund(user) PROVE Holdings /\ Values
      <4>1. balance[user] \in Int BY DEF Natural
      <4>2. Holdings BY <3>1, <4>1, BurnLeavesNat DEF Refund
      <4> QED BY <1>0, <3>1, <4>2 DEF Refund, otherVars
    <3>2. ASSUME NEW state, MoveTo(state) PROVE Holdings /\ Values
      BY <1>0, <3>2 DEF MoveTo, otherVars, shareVars
    <3> HIDE DEF Holdings, Values
    <3> QED
      BY <2>4, <3>1, <3>2
      DEF LifecycleNext, ActivateVault, CancelFunding, MatureVault, CloseVault
  <2>5. CASE LimitsNext \/ TermsNext
    <3>1. ASSUME NEW c, Configure(c) PROVE Holdings /\ Values
      BY <1>0, <3>1 DEF Configure, otherVars, shareVars
    <3> HIDE DEF Holdings, Values
    <3> QED
      BY <2>5, <3>1
      DEF LimitsNext, TermsNext, SetFundingTarget, SetMinDeposit, SetMaxDepositPerUser,
          SetDepositLimits, SetMaxInvestors, SetEarlyRedemptionFee, SetMaturityDate,
          SetYieldVestingPeriod, SetLockUpPeriod
  <2>6. CASE FreezeNext
    BY <1>0, <2>6 DEF FreezeNext, Pause, Unpause, SetFreezeFlags, unstoppedVars, shareVars
  <2>7. CASE EmergencyNext
    <3>1. ASSUME NEW user \in Users, EmergencyClaim(user) PROVE Holdings /\ Values
      <4>1. balance[user] \in Int BY DEF Natural
      <4>2. Holdings BY <3>1, <4>1, BurnLeavesNat DEF EmergencyClaim
      <4> QED BY <1>0, <3>1, <4>2 DEF EmergencyClaim
    <3>2. ASSUME NEW recipient, EmergencyWithdraw(recipient) PROVE Holdings /\ Values
      BY <1>0, <3>2 DEF EmergencyWithdraw, unstoppedVars, shareVars
    <3>3. ASSUME EmergencyEnableProRata PROVE Holdings /\ Values
      BY <1>0, <3>3 DEF EmergencyEnableProRata, shareVars
    <3> HIDE DEF Holdings, Values
    <3> QED BY <2>7, <3>1, <3>2, <3>3 DEF EmergencyNext
  <2>8. CASE TransferNext \/ AllowanceNext
    <3>1. requests' = requests
      BY <2>8
      DEF TransferNext, AllowanceNext, Approve, BurnShares, BurnFrom, Transfer,
          TransferFrom, MoveShares, tokenUnchanged
    <3>2. ASSUME NEW from \in Users, NEW to \in Users, NEW amount \in ShareAmounts,
                 MoveShares(from, to, amount)
          PROVE  Holdings
      <4>1. amount \in Nat BY <3>2, InputsAreInt, NotedIsNat DEF MoveShares
      <4> DEFINE left == [balance EXCEPT ![from] = @ - amount]
      <4>2. balance[from] - amount \in Nat BY <3>2, <4>1 DEF Natural, MoveShares
      <4>3. left \in [Users -> Nat] BY <4>2 DEF Natural
      <4>4. balance' = [left EXCEPT ![to] = @ + amount]
        BY <3>2 DEF MoveShares, BalancesAfterMove
      <4> HIDE DEF left
      <4>5. left[to] + amount \in Nat BY <4>1, <4>3
      <4> QED BY <4>3, <4>4, <4>5
    <3>3. ASSUME NEW from \in Users, NEW amount \in ShareAmounts, Burn(from, amount)
          PROVE  Holdings
      BY <3>3, InputsAreInt, BurnLeavesNat
    <3>4. ASSUME NEW from, NEW spender, NEW amount, NEW expires,
                 Approve(from, spender, amount, expires)
          PROVE  Holdings
      BY <1>0, <3>4 DEF Approve
    <3>5. Holdings
      <4> HIDE DEF Holdings, Values
      <4> QED
        BY <2>8, <3>2, <3>3, <3>4
        DEF TransferNext, AllowanceNext, Transfer, TransferFrom, BurnShares, BurnFrom
    <3> QED BY <1>0, <3>1, <3>5
  <2>9. CASE ComplianceNext \/ AdvanceTime \/ UNCHANGED vars
    <3>1. UNCHANGED <<shareVars, requests>>
      BY <2>9
      DEF ComplianceNext, SetBlacklisted, SetTransferExempt, SetTransferRequiresKyc,
          KycChanges, complianceUnchanged, AdvanceTime, vars
    <3> QED BY <1>0, <3>1 DEF shareVars
  <2> HIDE DEF Holdings, Values
  <2> QED BY <2>1, <2>2, <2>3, <2>4, <2>5, <2>6, <2>7, <2>8, <2>9 DEF Next
<1>2. totalSupply' \in Nat
  <2>1. TypeOK' BY NextType
  <2>2. \A u \in Users : balance'[u] \in Nat /\ escrow'[u] \in Nat
    BY <1>1, <2>1 DEF TypeOK, SharesOK
  <2>3. /\ Net(balance', Users) = Total(balance', Users)
        /\ Total(balance', Users) \in Nat /\ Total(escrow', Users) \in Nat
    BY <2>2, UsersAssumption, TotalIsNat, NetOfNats
  <2>4. totalSupply' = Net(balance', Users) + Total(escrow', Users)
    BY NextKeepsShares DEF ShareConservation
  <2> QED BY <2>3, <2>4
<1> QED BY <1>1, <1>2 DEF Natural

-----------------------------------------------------------------------------
(* The price invariant *)

\* The invariant of the price: none of its parts is inductive without the others.
PriceInv == /\ TypeOK
            /\ ShareConservation
            /\ EscrowMatchesQueue
            /\ ~negativeCalls => Natural
            /\ SharesBacked
            /\ LockedValueWithinPrice

\* Every call keeps the price invariant and, unless it or an earlier one names a
\* negative number of shares, is fair.
LEMMA NextKeepsPriceInv ==
  ASSUME PriceInv, [Next]_vars
  PROVE  PriceInv' /\ (~negativeCalls' => Fair)
<1> USE DEF PriceInv
<1>1. TypeOK' BY NextType
<1>2. ShareConservation' BY NextKeepsShares
<1>3. EscrowMatchesQueue' BY NextKeepsQueue
<1>4. CASE negativeCalls'
  <2>1. SharesBacked' BY <1>4 DEF SharesBacked
  <2>2. LockedValueWithinPrice' BY <1>4 DEF LockedValueWithinPrice
  <2> QED BY <1>1, <1>2, <1>3, <1>4, <2>1, <2>2
<1>5. CASE ~negativeCalls'
  <2>1. Natural BY <1>5, NegativesStay
  <2>2. Fair BY <1>5, <2>1, NextIsFair
  <2>3. Natural' BY <1>5, <2>1, NextKeepsNatural
  <2>4. SharesBacked' BY <1>1, <2>1, <2>2, <2>3, FairKeepsBacking
  <2>5. LockedValueWithinPrice' BY <2>1, <2>2, <2>3, <2>4, FairKeepsLocked
  <2> QED BY <1>1, <1>2, <1>3, <1>5, <2>2, <2>3, <2>4, <2>5
<1> QED BY <1>4, <1>5

\* The price invariant holds in every reachable state.
LEMMA PriceInvariant == Spec => []PriceInv /\ [][~negativeCalls' => Fair]_vars
<1>1. Init => PriceInv
  <2>1. ASSUME Init PROVE PriceInv
    <3>1. TypeOK BY <2>1, InitType
    <3>2. ShareConservation
      <4>1. \A u \in Users : balance[u] = 0 /\ escrow[u] = 0 BY <2>1 DEF Init
      <4>2. Net(balance, Users) = 0 /\ Total(escrow, Users) = 0
        BY <4>1, UsersAssumption, NetZero, TotalZero
      <4> QED BY <2>1, <4>2 DEF Init, ShareConservation
    <3>3. EscrowMatchesQueue
      <4>1. ASSUME NEW u \in Users PROVE PendingOf(u) = {} /\ escrow[u] = 0
        BY <2>1 DEF Init, PendingOf
      <4> QED BY <4>1, TotalZero DEF EscrowMatchesQueue
    <3>4. SharesBacked BY <2>1 DEF Init, SharesBacked, Backed
    <3>5. LockedValueWithinPrice BY <2>1 DEF Init, LockedValueWithinPrice
    <3>6. ~negativeCalls => Natural BY <2>1 DEF Init, Natural
    <3> QED BY <3>1, <3>2, <3>3, <3>4, <3>5, <3>6 DEF PriceInv
  <2> QED BY <2>1
<1>2. PriceInv /\ [Next]_vars => PriceInv' /\ (~negativeCalls' => Fair)
  BY NextKeepsPriceInv
<1> QED BY <1>1, <1>2, PTL DEF Spec

\* In every reachable state, until a call names a negative number of shares, for
\* any amounts and any order of calls, the total assets cover the supply one for
\* one, so that the divisors of the price never vanish and redeeming every share
\* never takes the accounts below zero.
THEOREM SharesAlwaysBacked == Spec => []SharesBacked
<1>1. PriceInv => SharesBacked BY DEF PriceInv
<1> QED BY <1>1, PriceInvariant, PTL

\* Until a call names a negative number of shares, a value locked when its
\* redemption was requested is never more than the shares in escrow are worth when
\* it is processed, whatever happened in between.
THEOREM LockedValueCovered == Spec => []LockedValueWithinPrice
<1>1. PriceInv => LockedValueWithinPrice BY DEF PriceInv
<1> QED BY <1>1, PriceInvariant, PTL

\* No call lowers the price of the shares outstanding, unless it or an earlier one
\* names a negative number of shares.
THEOREM NobodyDiluted == Spec => SharePriceNeverFalls
<1>1. (~negativeCalls' => Fair)
        => (~negativeCalls' /\ totalSupply > 0 =>
              (totalDeposited' + VirtualOffset) * (totalSupply + VirtualOffset)
                >= (totalDeposited + VirtualOffset) * (totalSupply' + VirtualOffset))
  BY DEF Fair, Supply, Assets
<1> QED BY <1>1, PriceInvariant, PTL DEF SharePriceNeverFalls

-----------------------------------------------------------------------------
(* A closed vault *)

\* A vault closes when no share is left, and none comes back until a call names a
\* negative number of shares.
ClosedIsEmpty == vaultState = "Closed" /\ ~negativeCalls => totalSupply <= 0

Still == UNCHANGED <<vaultState, shareVars>>

\* No call moves the accounts of a closed vault.
LEMMA ClosedAccountsStay ==
  ASSUME vaultState = "Closed", [Next]_vars
  PROVE  UNCHANGED fundVars
<1>1. CASE InvestNext
  BY <1>1 DEF InvestNext, Deposit, Mint, MayInvest, Withdraw, Redeem
<1>2. CASE YieldNext
  BY <1>2 DEF YieldNext, DistributeYield, ClaimYield, ClaimYieldForEpoch,
              ResolveYieldShortfall
<1>3. CASE LifecycleNext
  BY <1>3 DEF LifecycleNext, ActivateVault, CancelFunding, MatureVault, CloseVault, Refund
<1>4. CASE LimitsNext \/ TermsNext
  BY <1>4
  DEF LimitsNext, TermsNext, SetFundingTarget, SetMinDeposit, SetMaxDepositPerUser,
      SetDepositLimits, SetMaxInvestors, SetEarlyRedemptionFee, SetMaturityDate,
      SetYieldVestingPeriod, SetLockUpPeriod, Configure
<1>5. CASE RedemptionNext
  BY <1>5
  DEF RedemptionNext, RedeemAtMaturity, RequestEarlyRedemption, ProcessEarlyRedemption,
      CancelEarlyRedemption, RejectEarlyRedemption, ReturnFromEscrow
<1>6. CASE FreezeNext \/ EmergencyNext
  BY <1>6 DEF FreezeNext, EmergencyNext, Pause, Unpause, SetFreezeFlags, EmergencyWithdraw,
              EmergencyEnableProRata, EmergencyClaim, unstoppedVars
<1>7. CASE TransferNext \/ AllowanceNext
  BY <1>7 DEF TransferNext, AllowanceNext, Approve, BurnShares, BurnFrom, Transfer,
              TransferFrom, MoveShares, tokenUnchanged
<1>8. CASE ComplianceNext \/ AdvanceTime \/ UNCHANGED vars
  BY <1>8
  DEF ComplianceNext, SetBlacklisted, SetTransferExempt, SetTransferRequiresKyc,
      KycChanges, complianceUnchanged, AdvanceTime, vars
<1> QED BY <1>1, <1>2, <1>3, <1>4, <1>5, <1>6, <1>7, <1>8 DEF Next

\* In a closed vault nobody holds anything.
LEMMA NothingHeld ==
  ASSUME TypeOK, Natural, ShareConservation, ClosedIsEmpty, vaultState = "Closed"
  PROVE  /\ totalSupply = 0
         /\ \A u \in Users : balance[u] = 0 /\ escrow[u] = 0
<1>1. /\ IsFiniteSet(Users)
      /\ \A u \in Users : balance[u] \in Nat /\ escrow[u] \in Nat
      /\ Total(balance, Users) \in Nat /\ Total(escrow, Users) \in Nat
      /\ Net(balance, Users) = Total(balance, Users)
  BY HoldingsAreNat
<1>2. totalSupply = 0 /\ Total(balance, Users) = 0 /\ Total(escrow, Users) = 0
  BY <1>1 DEF ShareConservation, ClosedIsEmpty, Natural
<1>3. \A u \in Users : balance[u] <= Total(balance, Users) /\ escrow[u] <= Total(escrow, Users)
  BY <1>1, TotalBounds
<1> QED BY <1>1, <1>2, <1>3

\* No call that names no negative number of shares moves shares of a closed vault,
\* or reopens it.
LEMMA ClosedStaysStill ==
  ASSUME TypeOK, Natural, ShareConservation, ClosedIsEmpty, vaultState = "Closed",
         [Next]_vars, ~negativeCalls'
  PROVE  Still
<1> USE InputsAreInt
<1>1. /\ totalSupply = 0
      /\ \A u \in Users : balance[u] = 0 /\ escrow[u] = 0
      /\ balance \in [Users -> Nat] /\ escrow \in [Users -> Nat]
  BY NothingHeld DEF TypeOK, SharesOK, Natural
<1>2. ASSUME NEW user \in Users, NEW shares \in Nat, Burn(user, shares)
      PROVE  balance' = balance /\ totalSupply' = totalSupply
  <2>1. shares = 0 BY <1>1, <1>2 DEF Burn
  <2>2. balance' = [balance EXCEPT ![user] = @ - 0] /\ totalSupply' = totalSupply - 0
    BY <1>2, <2>1 DEF Burn
  <2> QED BY <1>1, <2>2
<1>3. CASE InvestNext
  BY <1>3 DEF InvestNext, Deposit, Mint, MayInvest, Withdraw, Redeem
<1>4. CASE YieldNext
  <2>1. ASSUME NEW amount, DistributeYield(amount) PROVE FALSE
    BY <2>1 DEF DistributeYield
  <2>2. ASSUME NEW user, ClaimYield(user) PROVE Still
    BY <2>2 DEF ClaimYield, Still, lifeVars
  <2>3. ASSUME NEW user, NEW epoch, ClaimYieldForEpoch(user, epoch) PROVE Still
    BY <2>3 DEF ClaimYieldForEpoch, Still, lifeVars
  <2>4. ASSUME NEW user, NEW amount, ResolveYieldShortfall(user, amount) PROVE Still
    BY <2>4 DEF ResolveYieldShortfall, Still, lifeVars
  <2> QED BY <1>4, <2>1, <2>2, <2>3, <2>4 DEF YieldNext
<1>5. CASE LifecycleNext
  BY <1>5 DEF LifecycleNext, ActivateVault, CancelFunding, MatureVault, CloseVault, Refund
<1>6. CASE LimitsNext \/ TermsNext
  <2>1. ASSUME NEW c, Configure(c) PROVE Still
    BY <2>1 DEF Configure, Still
  <2> QED
    BY <1>6, <2>1
    DEF LimitsNext, TermsNext, SetFundingTarget, SetMinDeposit, SetMaxDepositPerUser,
        SetDepositLimits, SetMaxInvestors, SetEarlyRedemptionFee, SetMaturityDate,
        SetYieldVestingPeriod, SetLockUpPeriod
<1>7. CASE RedemptionNext
  <2>1. ASSUME NEW id \in 1..Len(requests), ReturnFromEscrow(id) PROVE Still
    <3>1. requests[id].user \in Users /\ requests[id].shares \in Nat BY RequestType
    <3>2. requests[id].shares = 0 BY <1>1, <2>1, <3>1 DEF ReturnFromEscrow
    <3>3. /\ balance' = [balance EXCEPT ![requests[id].user] = @ + 0]
          /\ escrow' = [escrow EXCEPT ![requests[id].user] = @ - 0]
      BY <2>1, <3>2 DEF ReturnFromEscrow
    <3>4. balance' = balance /\ escrow' = escrow BY <1>1, <3>1, <3>3
    <3> QED BY <2>1, <3>4 DEF ReturnFromEscrow, Still, shareVars, lifeVars
  <2> QED
    BY <1>7, <2>1
    DEF RedemptionNext, RedeemAtMaturity, RequestEarlyRedemption, ProcessEarlyRedemption,
        CancelEarlyRedemption, RejectEarlyRedemption
<1>8. CASE FreezeNext \/ EmergencyNext
  <2>1. FreezeNext => Still
    BY DEF FreezeNext, Pause, Unpause, SetFreezeFlags, unstoppedVars, Still, lifeVars
  <2>2. ASSUME NEW recipient, EmergencyWithdraw(recipient) PROVE Still
    BY <2>2 DEF EmergencyWithdraw, unstoppedVars, Still, lifeVars
  <2>3. ~EmergencyEnableProRata BY <1>1 DEF EmergencyEnableProRata
  <2>4. \A user \in Users : ~EmergencyClaim(user) BY DEF EmergencyClaim
  <2> QED BY <1>8, <2>1, <2>2, <2>3, <2>4 DEF EmergencyNext
<1>9. CASE TransferNext \/ AllowanceNext
  <2>1. ASSUME NEW from \in Users, NEW to \in Users, NEW amount \in ShareAmounts,
               MoveShares(from, to, amount)
        PROVE  Still
    <3>0. amount \in Nat BY <2>1, NotedIsNat DEF MoveShares
    <3>1. amount = 0 BY <1>1, <2>1, <3>0 DEF MoveShares
    <3>2. balance' = [[balance EXCEPT ![from] = @ - 0] EXCEPT ![to] = @ + 0]
      BY <2>1, <3>1 DEF MoveShares, BalancesAfterMove
    <3>3. balance' = balance BY <1>1, <3>2
    <3> QED BY <2>1, <3>3 DEF MoveShares, tokenUnchanged, Still, shareVars, lifeVars
  <2>2. ASSUME NEW from \in Users, NEW amount \in ShareAmounts,
               Burn(from, amount), NoteSign(amount), UNCHANGED tokenUnchanged
        PROVE  Still
    <3>1. amount \in Nat BY <2>2, NotedIsNat
    <3> QED BY <1>2, <2>2, <3>1 DEF tokenUnchanged, Still, shareVars, lifeVars
  <2>3. ASSUME NEW from, NEW spender, NEW amount, NEW expires,
               Approve(from, spender, amount, expires)
        PROVE  Still
    BY <2>3 DEF Approve, tokenUnchanged, Still, shareVars, lifeVars
  <2> QED
    BY <1>9, <2>1, <2>2, <2>3
    DEF TransferNext, AllowanceNext, Transfer, TransferFrom, BurnShares, BurnFrom
<1>10. CASE ComplianceNext \/ AdvanceTime \/ UNCHANGED vars
  BY <1>10
  DEF ComplianceNext, SetBlacklisted, SetTransferExempt, SetTransferRequiresKyc,
      KycChanges, complianceUnchanged, AdvanceTime, vars, Still, lifeVars
<1> QED
  BY <1>3, <1>4, <1>5, <1>6, <1>7, <1>8, <1>9, <1>10 DEF Next

\* Only close_vault closes, and only with no share left.
LEMMA NextKeepsEmpty ==
  ASSUME PriceInv, ClosedIsEmpty, [Next]_vars
  PROVE  ClosedIsEmpty'
<1> SUFFICES ASSUME vaultState' = "Closed", ~negativeCalls' PROVE totalSupply' <= 0
  BY DEF ClosedIsEmpty
<1>1. CASE vaultState = "Closed"
  <2>0. ~negativeCalls /\ TypeOK /\ Natural /\ ShareConservation
    BY NegativesStay DEF PriceInv
  <2>1. Still BY <1>1, <2>0, ClosedStaysStill
  <2> QED BY <1>1, <2>0, <2>1 DEF Still, shareVars, ClosedIsEmpty
<1>2. CASE vaultState # "Closed"
  <2>1. InvestNext \/ YieldNext => vaultState' = vaultState
    <3>1. InvestNext => vaultState' = vaultState
      BY DEF InvestNext, Deposit, Mint, Withdraw, Redeem, Invest, Exit, lifeVars
    <3>2. YieldNext => vaultState' = vaultState
      BY DEF YieldNext, DistributeYield, ClaimYield, ClaimYieldForEpoch,
             ResolveYieldShortfall, lifeVars
    <3> QED BY <3>1, <3>2
  <2>2. LimitsNext \/ TermsNext => vaultState' = vaultState
    BY DEF LimitsNext, TermsNext, SetFundingTarget, SetMinDeposit, SetMaxDepositPerUser,
           SetDepositLimits, SetMaxInvestors, SetEarlyRedemptionFee, SetMaturityDate,
           SetYieldVestingPeriod, SetLockUpPeriod, Configure
  <2>3. RedemptionNext => vaultState' = vaultState BY RedemptionStays
  <2>4. FreezeNext \/ EmergencyNext => vaultState' = vaultState \/ vaultState' = "Emergency"
    BY DEF FreezeNext, EmergencyNext, Pause, Unpause, SetFreezeFlags, EmergencyWithdraw,
           EmergencyEnableProRata, EmergencyClaim, unstoppedVars, lifeVars
  <2>5. TransferNext \/ AllowanceNext => vaultState' = vaultState
    BY DEF TransferNext, AllowanceNext, Approve, BurnShares, BurnFrom, Transfer,
           TransferFrom, MoveShares, tokenUnchanged, lifeVars
  <2>6. ComplianceNext \/ AdvanceTime \/ UNCHANGED vars => vaultState' = vaultState
    BY DEF ComplianceNext, SetBlacklisted, SetTransferExempt, SetTransferRequiresKyc,
           KycChanges, complianceUnchanged, AdvanceTime, vars, lifeVars
  <2>7. CASE LifecycleNext
    <3>1. CASE CloseVault
      BY <3>1 DEF CloseVault, MoveTo, shareVars
    <3>2. LifecycleNext /\ ~CloseVault => vaultState' # "Closed"
      BY <1>2 DEF LifecycleNext, ActivateVault, CancelFunding, MatureVault, Refund, MoveTo,
                  lifeVars
    <3> QED BY <2>7, <3>1, <3>2
  <2> QED BY <1>2, <2>1, <2>2, <2>3, <2>4, <2>5, <2>6, <2>7 DEF Next
<1> QED BY <1>1, <1>2

\* Closed is terminal: for any history, no call moves an account of a closed vault;
\* and until one names a negative number of shares, none moves a share or reopens
\* it, not even the emergency calls that ask for no state.
THEOREM ClosedIsTerminal == Spec => ClosedIsFinal
<1>1. Init => ClosedIsEmpty BY DEF Init, ClosedIsEmpty
<1>2. PriceInv /\ ClosedIsEmpty /\ [Next]_vars => ClosedIsEmpty'
  BY NextKeepsEmpty
<1>3. ASSUME PriceInv, ClosedIsEmpty, [Next]_vars, vaultState = "Closed"
      PROVE  /\ UNCHANGED fundVars
             /\ ~negativeCalls' => UNCHANGED <<vaultState, shareVars>>
  <2>1. UNCHANGED fundVars BY <1>3, ClosedAccountsStay
  <2>2. ASSUME ~negativeCalls' PROVE Still
    <3>1. Natural BY <1>3, <2>2, NegativesStay DEF PriceInv
    <3> QED BY <1>3, <2>2, <3>1, ClosedStaysStill DEF PriceInv
  <2> QED BY <2>1, <2>2 DEF Still
<1>4. PriceInv /\ ClosedIsEmpty /\ [Next]_vars
        => (vaultState = "Closed" =>
              /\ UNCHANGED fundVars
              /\ ~negativeCalls' => UNCHANGED <<vaultState, shareVars>>)
  BY <1>3
<1> QED BY <1>1, <1>2, <1>4, PriceInvariant, PTL DEF Spec, ClosedIsFinal

-----------------------------------------------------------------------------
(* Assets *)

\* What a transfer of the asset token does to the vault's own balance.
LEMMA CashMoves ==
  ASSUME AssetOK, NEW other \in Accounts \ {Vault}, NEW amount \in Int
  PROVE  /\ TransferAsset(other, Vault, amount) => Cash' = Cash + amount
         /\ TransferAsset(Vault, other, amount) => Cash' = Cash - amount
<1>1. Vault \in Accounts BY DEF Accounts
<1>2. asset[Vault] \in Nat BY <1>1 DEF AssetOK
<1> QED BY <1>1, <1>2 DEF AssetOK, TransferAsset, Cash

\* Nobody but the vault is the vault.
LEMMA UsersAreOthers ==
  /\ Users \subseteq Accounts \ {Vault}
  /\ Operator \in Accounts \ {Vault}
  BY UsersAssumption DEF Accounts

\* The figures CashReconciles relates are numbers.
LEMMA FiguresAreInt ==
  ASSUME TypeOK
  PROVE  /\ Cash \in Nat /\ totalDeposited \in Int
         /\ yieldClaimsVolume \in Nat /\ outflow \in Nat
  BY InputsAreInt DEF TypeOK, AssetOK, FundsOK, ClaimsOK, OutflowOK, Cash

\* They stay as they are in the steps that move neither tokens nor accounts.
LEMMA UntouchedFigures ==
  ASSUME CashReconciles, UNCHANGED <<asset, totalDeposited, yieldClaimsVolume, outflow>>
  PROVE  CashReconciles'
  BY DEF CashReconciles, Cash

\* Every call that moves tokens moves the accounts with them.
LEMMA NextKeepsCash ==
  ASSUME TypeOK, CashReconciles, [Next]_vars
  PROVE  CashReconciles'
<1> USE UsersAreOthers, FiguresAreInt, InputsAreInt
<1>0. AssetOK BY DEF TypeOK
<1>1. CASE InvestNext
  <2>1. ASSUME NEW caller \in Users, NEW receiver, NEW assets \in Int, NEW shares,
               Invest(caller, receiver, assets, shares)
        PROVE  CashReconciles'
    <3>1. Cash' = Cash + assets BY <1>0, <2>1, CashMoves DEF Invest
    <3> QED BY <2>1, <3>1 DEF Invest, claimVars, CashReconciles
  <2>2. ASSUME NEW caller, NEW receiver \in Users, NEW owner, NEW assets \in Int,
               NEW shares, Exit(caller, receiver, owner, assets, shares, 0),
               UNCHANGED claimVars
        PROVE  CashReconciles'
    <3>1. Cash' = Cash - assets BY <1>0, <2>2, CashMoves DEF Exit
    <3> QED BY <2>2, <3>1 DEF Exit, claimVars, CashReconciles
  <2>3. ASSUME NEW x \in Int
        PROVE  /\ AssetsPriced => AssetsFor(x) \in Int
               /\ MintPriced => PreviewMint(x, totalSupply, TotalAssets) \in Int
    BY <2>3, QuotesAreInt
  <2> QED BY <1>1, <2>1, <2>2, <2>3 DEF InvestNext, Deposit, Mint, Withdraw, Redeem
<1>2. CASE YieldNext
  <2>1. ASSUME NEW amount \in YieldAmounts, DistributeYield(amount) PROVE CashReconciles'
    <3>1. Cash' = Cash + amount BY <1>0, <2>1, CashMoves DEF DistributeYield
    <3> QED BY <2>1, <3>1 DEF DistributeYield, claimVars, CashReconciles
  <2>2. ASSUME NEW user \in Users, NEW amount \in Nat, PayYield(user, amount),
               UNCHANGED <<totalDeposited, outflow>>
        PROVE  CashReconciles'
    <3> DEFINE paid == IF amount <= Cash THEN amount ELSE Cash
    <3>1. paid \in Nat /\ TransferAsset(Vault, user, paid)
          /\ yieldClaimsVolume' = yieldClaimsVolume + paid
      BY <2>2 DEF PayYield
    <3> HIDE DEF paid
    <3>2. Cash' = Cash - paid BY <1>0, <3>1, CashMoves
    <3> QED BY <2>2, <3>1, <3>2 DEF CashReconciles
  <2>3. ASSUME NEW user \in Users, ClaimYield(user) PROVE CashReconciles'
    <3>1. PendingYield(user) \in Nat BY <2>3, PendingYieldIsInt DEF ClaimYield
    <3> QED BY <2>2, <2>3, <3>1 DEF ClaimYield, fundVars
  <2>4. ASSUME NEW user \in Users, NEW epoch \in 1..CurrentEpoch,
               ClaimYieldForEpoch(user, epoch)
        PROVE CashReconciles'
    <3>1. PendingYieldForEpoch(user, epoch) \in Nat
      BY <2>4, PendingIsInt DEF ClaimYieldForEpoch
    <3> QED BY <2>2, <2>4, <3>1 DEF ClaimYieldForEpoch, fundVars
  <2>5. ASSUME NEW user \in Users, NEW amount \in YieldAmounts,
               ResolveYieldShortfall(user, amount)
        PROVE  CashReconciles'
    <3>1. Cash' = Cash - amount BY <1>0, <2>5, CashMoves DEF ResolveYieldShortfall
    <3> QED BY <2>5, <3>1 DEF ResolveYieldShortfall, fundVars, CashReconciles
  <2> QED BY <1>2, <2>1, <2>3, <2>4, <2>5 DEF YieldNext
<1>3. CASE RedemptionNext
  <2>1. ASSUME NEW caller, NEW receiver \in Users, NEW owner \in Users,
               NEW shares \in ShareAmounts, RedeemAtMaturity(caller, shares, receiver, owner)
        PROVE  CashReconciles'
    <3> DEFINE paid == IF PendingYield(owner) > 0 THEN PendingYield(owner) ELSE 0
               assets == AssetsFor(shares)
    <3>1. assets \in Int /\ paid \in Int
      BY <2>1, QuotesAreInt, PendingYieldIsInt DEF RedeemAtMaturity
    <3>2. /\ TransferAsset(Vault, receiver, assets + paid)
          /\ totalDeposited' = totalDeposited - assets
          /\ yieldClaimsVolume' = yieldClaimsVolume + paid
          /\ outflow' = outflow
      BY <1>0, <2>1 DEF RedeemAtMaturity, Exit
    <3> HIDE DEF paid, assets
    <3>3. assets + paid \in Int BY <3>1
    <3>4. Cash' = Cash - (assets + paid) BY <1>0, <3>2, <3>3, CashMoves
    <3> QED BY <3>1, <3>2, <3>4 DEF CashReconciles
  <2>2. ASSUME NEW user, NEW shares, RequestEarlyRedemption(user, shares)
        PROVE CashReconciles'
    BY <2>2, UntouchedFigures DEF RequestEarlyRedemption, fundVars, claimVars
  <2>3. ASSUME NEW id, ReturnFromEscrow(id) PROVE CashReconciles'
    BY <2>3, UntouchedFigures DEF ReturnFromEscrow, fundVars, claimVars
  <2>4. ASSUME NEW id \in 1..Len(requests), ProcessEarlyRedemption(id)
        PROVE CashReconciles'
    <3> DEFINE value == requests[id].value
               fee == EarlyRedemptionFee(value, config.feeBps)
               net == value - fee
    <3>1. value \in Int /\ requests[id].user \in Users BY RequestType
    <3>2. fee \in Int BY <3>1, FeeIsInt
    <3>3. net \in Int
      <4> HIDE DEF fee, value
      <4> QED BY <3>1, <3>2
    <3>4. /\ TransferAsset(Vault, requests[id].user, net)
          /\ totalDeposited' = totalDeposited - net
          /\ UNCHANGED <<yieldClaimsVolume, outflow>>
      BY <2>4 DEF ProcessEarlyRedemption, claimVars
    <3> HIDE DEF net
    <3>5. Cash' = Cash - net BY <1>0, <3>1, <3>3, <3>4, CashMoves
    <3> QED BY <3>3, <3>4, <3>5 DEF CashReconciles
  <2> QED
    BY <1>3, <2>1, <2>2, <2>3, <2>4
    DEF RedemptionNext, CancelEarlyRedemption, RejectEarlyRedemption
<1>4. CASE LifecycleNext
  <2>1. ASSUME NEW user \in Users, Refund(user) PROVE CashReconciles'
    <3>1. balance[user] \in Int BY DEF TypeOK, SharesOK
    <3> DEFINE amount == AssetsFor(balance[user])
    <3>2. amount \in Int BY <2>1, <3>1, QuotesAreInt DEF Refund
    <3>3. /\ TransferAsset(Vault, user, amount)
          /\ totalDeposited' = totalDeposited - amount
          /\ UNCHANGED <<yieldClaimsVolume, outflow>>
      BY <2>1 DEF Refund, otherVars, claimVars
    <3> HIDE DEF amount
    <3>4. Cash' = Cash - amount BY <1>0, <3>2, <3>3, CashMoves
    <3> QED BY <3>2, <3>3, <3>4 DEF CashReconciles
  <2>2. ASSUME NEW state, MoveTo(state) PROVE CashReconciles'
    BY <2>2, UntouchedFigures DEF MoveTo, otherVars, fundVars, claimVars
  <2> QED
    BY <1>4, <2>1, <2>2
    DEF LifecycleNext, ActivateVault, CancelFunding, MatureVault, CloseVault
<1>5. CASE LimitsNext \/ TermsNext
  <2>1. ASSUME NEW c, Configure(c) PROVE CashReconciles'
    BY <2>1, UntouchedFigures DEF Configure, otherVars, fundVars, claimVars
  <2> QED
    BY <1>5, <2>1
    DEF LimitsNext, TermsNext, SetFundingTarget, SetMinDeposit, SetMaxDepositPerUser,
        SetDepositLimits, SetMaxInvestors, SetEarlyRedemptionFee, SetMaturityDate,
        SetYieldVestingPeriod, SetLockUpPeriod
<1>6. CASE EmergencyNext
  <2>1. ASSUME NEW recipient \in Users \cup {Operator}, EmergencyWithdraw(recipient)
        PROVE CashReconciles'
    <3>1. Cash' = Cash - Cash BY <1>0, <2>1, CashMoves DEF EmergencyWithdraw
    <3> QED
      BY <2>1, <3>1 DEF EmergencyWithdraw, unstoppedVars, fundVars, claimVars, CashReconciles
  <2>2. ASSUME EmergencyEnableProRata PROVE CashReconciles'
    BY <2>2, UntouchedFigures DEF EmergencyEnableProRata, fundVars, claimVars
  <2>3. ASSUME NEW user \in Users, EmergencyClaim(user) PROVE CashReconciles'
    <3> DEFINE amount == MulDiv(emergency.balance, balance[user], emergency.supply)
    <3>1. balance[user] \in Nat BY <2>3 DEF TypeOK, SharesOK, EmergencyClaim
    <3>2. emergency.balance \in Nat /\ emergency.supply \in Nat \ {0}
      BY <2>3 DEF TypeOK, EmergencyOK, EmergencyClaim
    <3>3. amount \in Nat BY <3>1, <3>2, MulDivIsNat
    <3>4. /\ TransferAsset(Vault, user, amount)
          /\ outflow' = outflow + amount
          /\ UNCHANGED <<totalDeposited, yieldClaimsVolume>>
      BY <2>3 DEF EmergencyClaim, fundVars, claimVars
    <3> HIDE DEF amount
    <3>5. Cash' = Cash - amount BY <1>0, <3>3, <3>4, CashMoves
    <3> QED BY <3>3, <3>4, <3>5 DEF CashReconciles
  <2> QED BY <1>6, <2>1, <2>2, <2>3 DEF EmergencyNext
<1>7. CASE FreezeNext
  BY <1>7, UntouchedFigures
  DEF FreezeNext, Pause, Unpause, SetFreezeFlags, unstoppedVars, fundVars, claimVars
<1>8. CASE TransferNext \/ AllowanceNext
  <2>1. UNCHANGED tokenUnchanged
    BY <1>8
    DEF TransferNext, AllowanceNext, Approve, BurnShares, BurnFrom, Transfer,
        TransferFrom, MoveShares
  <2> QED BY <2>1, UntouchedFigures DEF tokenUnchanged, fundVars, claimVars
<1>9. CASE ComplianceNext \/ AdvanceTime \/ UNCHANGED vars
  <2>1. UNCHANGED <<asset, fundVars, claimVars, outflow>>
    BY <1>9
    DEF ComplianceNext, SetBlacklisted, SetTransferExempt, SetTransferRequiresKyc,
        KycChanges, complianceUnchanged, AdvanceTime, vars
  <2> QED BY <2>1, UntouchedFigures DEF fundVars, claimVars
<1> QED
  BY <1>1, <1>2, <1>3, <1>4, <1>5, <1>6, <1>7, <1>8, <1>9 DEF Next

\* In every reachable state the tokens in the vault are its total assets less the
\* yield claims it paid and less what left outside the accounts.
THEOREM CashAlwaysReconciles == Spec => []CashReconciles
<1>1. Init => CashReconciles
  BY UsersAreOthers DEF Init, CashReconciles, Cash, Accounts
<1>2. TypeOK /\ CashReconciles /\ [Next]_vars => CashReconciles'
  BY NextKeepsCash
<1> QED BY <1>1, <1>2, TypeInvariant, PTL DEF Spec

-----------------------------------------------------------------------------
(* Emergency claims *)

\* Burning `shares` and paying at most their part keeps the claims within the
\* part of the burned shares.
LEMMA ProRataStep ==
  ASSUME NEW paid \in Nat, NEW base \in Nat, NEW supply \in Nat, NEW left \in Int,
         NEW shares \in Nat, NEW amount \in Nat,
         paid * supply <= base * (supply - left),
         supply * amount <= base * shares
  PROVE  (paid + amount) * supply <= base * (supply - (left - shares))
<1>1. (paid + amount) * supply = paid * supply + supply * amount
  OBVIOUS
<1>2. base * (supply - (left - shares)) = base * (supply - left) + base * shares
  <2> DEFINE gone == supply - left
  <2>1. supply - (left - shares) = gone + shares /\ gone \in Int OBVIOUS
  <2> HIDE DEF gone
  <2>2. base * (gone + shares) = base * gone + base * shares BY <2>1
  <2> QED BY <2>1, <2>2 DEF gone
<1> DEFINE p == paid * supply
           q == supply * amount
           r == base * (supply - left)
           t == base * shares
<1>3. p \in Int /\ q \in Int /\ r \in Int /\ t \in Int OBVIOUS
<1>4. p + q <= r + t
  <2> HIDE DEF p, q, r, t
  <2>1. p <= r /\ q <= t BY DEF p, q, r, t
  <2> QED BY <1>3, <2>1
<1> QED BY <1>1, <1>2, <1>4

\* What a step that is no claim may do to the figures of an emergency.
LEMMA OtherStepsKeepProRata ==
  ASSUME TypeOK, EmergencyClaimsProRata, UNCHANGED emergencyVars,
         negativeCalls => negativeCalls',
         vaultState' = "Emergency" /\ ~negativeCalls' =>
           vaultState = "Emergency" /\ totalSupply' \in Int /\ totalSupply' <= totalSupply
  PROVE  EmergencyClaimsProRata'
<1> SUFFICES ASSUME vaultState' = "Emergency", ~negativeCalls'
             PROVE  emergencyPaid * emergency.supply
                      <= emergency.balance * (emergency.supply - totalSupply')
  BY DEF EmergencyClaimsProRata, emergencyVars
<1> DEFINE burned == totalSupply - totalSupply'
<1>1. /\ emergencyPaid \in Nat /\ emergency.balance \in Nat /\ emergency.supply \in Nat
      /\ totalSupply \in Int
  BY DEF TypeOK, EmergencyOK, SharesOK
<1>2. burned \in Nat /\ totalSupply' = totalSupply - burned
  BY <1>1
<1> HIDE DEF burned
<1>3. emergencyPaid * emergency.supply <= emergency.balance * (emergency.supply - totalSupply)
  BY DEF EmergencyClaimsProRata
<1>4. emergency.supply * 0 <= emergency.balance * burned
  BY <1>1, <1>2, ProductIsNat
<1>5. (emergencyPaid + 0) * emergency.supply
        <= emergency.balance * (emergency.supply - (totalSupply - burned))
  BY <1>1, <1>2, <1>3, <1>4, ProRataStep
<1> QED BY <1>1, <1>2, <1>5

\* Every call keeps the claims within the part of the burned shares.
LEMMA NextKeepsProRata ==
  ASSUME TypeOK, EmergencyClaimsProRata, [Next]_vars
  PROVE  EmergencyClaimsProRata'
<1> DEFINE Quiet == /\ UNCHANGED emergencyVars
                    /\ vaultState' = "Emergency" /\ ~negativeCalls' =>
                         /\ vaultState = "Emergency"
                         /\ totalSupply' \in Int /\ totalSupply' <= totalSupply
<1>0. Quiet => EmergencyClaimsProRata' BY NegativesStay, OtherStepsKeepProRata
<1>1. totalSupply \in Int BY DEF TypeOK, SharesOK
<1>2. CASE InvestNext
  <2>1. UNCHANGED <<emergencyVars, lifeVars>> /\ vaultState # "Emergency"
    BY <1>2
    DEF InvestNext, Deposit, Mint, Withdraw, Redeem, Invest, Exit, MayInvest
  <2> QED BY <1>0, <2>1 DEF lifeVars
<1>3. CASE YieldNext
  <2>1. UNCHANGED <<emergencyVars, lifeVars, shareVars>>
    BY <1>3
    DEF YieldNext, DistributeYield, ClaimYield, ClaimYieldForEpoch, ResolveYieldShortfall
  <2> QED BY <1>0, <1>1, <2>1 DEF lifeVars, shareVars
<1>4. CASE LifecycleNext
  <2>1. UNCHANGED emergencyVars /\ vaultState' # "Emergency"
    BY <1>4
    DEF LifecycleNext, ActivateVault, CancelFunding, MatureVault, CloseVault, MoveTo,
        Refund, otherVars, lifeVars
  <2> QED BY <1>0, <2>1
<1>5. CASE LimitsNext \/ TermsNext
  <2>1. UNCHANGED <<emergencyVars, vaultState, shareVars>>
    BY <1>5
    DEF LimitsNext, TermsNext, SetFundingTarget, SetMinDeposit, SetMaxDepositPerUser,
        SetDepositLimits, SetMaxInvestors, SetEarlyRedemptionFee, SetMaturityDate,
        SetYieldVestingPeriod, SetLockUpPeriod, Configure, otherVars
  <2> QED BY <1>0, <1>1, <2>1 DEF shareVars
<1>6. CASE RedemptionNext
  <2>1. ASSUME NEW caller, NEW receiver, NEW owner, NEW shares,
               RedeemAtMaturity(caller, shares, receiver, owner)
        PROVE  Quiet
    BY <2>1 DEF RedeemAtMaturity, Exit, lifeVars
  <2>2. ASSUME NEW user, NEW shares, RequestEarlyRedemption(user, shares) PROVE Quiet
    BY <2>2 DEF RequestEarlyRedemption, lifeVars
  <2>3. ASSUME NEW id, ProcessEarlyRedemption(id) PROVE Quiet
    BY <2>3 DEF ProcessEarlyRedemption, lifeVars
  <2>4. ASSUME NEW id, ReturnFromEscrow(id) PROVE Quiet
    BY <1>1, <2>4 DEF ReturnFromEscrow, lifeVars
  <2> HIDE DEF Quiet
  <2> QED
    BY <1>0, <1>6, <2>1, <2>2, <2>3, <2>4
    DEF RedemptionNext, CancelEarlyRedemption, RejectEarlyRedemption
<1>7. CASE FreezeNext
  <2>1. UNCHANGED <<emergencyVars, lifeVars, shareVars>>
    BY <1>7 DEF FreezeNext, Pause, Unpause, SetFreezeFlags, unstoppedVars
  <2> QED BY <1>0, <1>1, <2>1 DEF lifeVars, shareVars
<1>8. CASE EmergencyNext
  <2>1. ASSUME NEW recipient, EmergencyWithdraw(recipient) PROVE EmergencyClaimsProRata'
    <3>1. UNCHANGED <<emergencyVars, lifeVars, shareVars>>
      BY <2>1 DEF EmergencyWithdraw, unstoppedVars
    <3> QED BY <1>0, <1>1, <3>1 DEF lifeVars, shareVars
  <2>2. ASSUME EmergencyEnableProRata PROVE EmergencyClaimsProRata'
    <3>1. /\ emergencyPaid' = 0 /\ emergency'.supply = totalSupply
          /\ emergency'.balance = Cash /\ totalSupply' = totalSupply
      BY <2>2 DEF EmergencyEnableProRata, shareVars, TypeOK, EmergencyOK
    <3>2. Cash \in Nat BY FiguresAreInt
    <3>3. 0 * totalSupply <= Cash * (totalSupply - totalSupply)
      <4>1. totalSupply - totalSupply = 0 BY <1>1
      <4>2. Cash * 0 = 0 BY <3>2
      <4>3. 0 * totalSupply = 0 BY <1>1
      <4> QED BY <4>1, <4>2, <4>3
    <3> QED BY <3>1, <3>3 DEF EmergencyClaimsProRata
  <2>3. ASSUME NEW user \in Users, EmergencyClaim(user) PROVE EmergencyClaimsProRata'
    <3> DEFINE shares == balance[user]
               amount == MulDiv(emergency.balance, shares, emergency.supply)
    <3>1. /\ shares \in Nat /\ emergency.balance \in Nat
          /\ emergency.supply \in Nat \ {0} /\ emergencyPaid \in Nat
      BY <2>3 DEF TypeOK, EmergencyOK, SharesOK, EmergencyClaim
    <3>2. amount \in Nat /\ emergency.supply * amount <= emergency.balance * shares
      BY <3>1, MulDivIsNat
    <3>3. /\ emergencyPaid' = emergencyPaid + amount
          /\ emergency'.balance = emergency.balance
          /\ emergency'.supply = emergency.supply
          /\ totalSupply' = totalSupply - shares
          /\ vaultState = "Emergency" /\ negativeCalls' = negativeCalls
      BY <2>3 DEF EmergencyClaim, Burn, TypeOK, EmergencyOK
    <3> SUFFICES ASSUME ~negativeCalls PROVE EmergencyClaimsProRata'
      BY <3>3 DEF EmergencyClaimsProRata
    <3>4. emergencyPaid * emergency.supply
            <= emergency.balance * (emergency.supply - totalSupply)
      BY <3>3 DEF EmergencyClaimsProRata
    <3> HIDE DEF shares, amount
    <3>5. (emergencyPaid + amount) * emergency.supply
            <= emergency.balance * (emergency.supply - (totalSupply - shares))
      BY <1>1, <3>1, <3>2, <3>4, ProRataStep
    <3> QED BY <3>3, <3>5 DEF EmergencyClaimsProRata
  <2> QED BY <1>8, <2>1, <2>2, <2>3 DEF EmergencyNext
<1>9. CASE TransferNext \/ AllowanceNext
  <2>1. ASSUME NEW from \in Users, NEW amount \in ShareAmounts,
               Burn(from, amount), NoteSign(amount), ~negativeCalls'
        PROVE totalSupply' \in Int /\ totalSupply' <= totalSupply
    <3>1. amount \in Nat BY <2>1, InputsAreInt, NotedIsNat
    <3> QED BY <1>1, <2>1, <3>1 DEF Burn
  <2>2. /\ UNCHANGED tokenUnchanged
        /\ \/ totalSupply' = totalSupply
           \/ \E from \in Users, amount \in ShareAmounts :
                Burn(from, amount) /\ NoteSign(amount)
    BY <1>9
    DEF TransferNext, AllowanceNext, Approve, BurnShares, BurnFrom, Transfer,
        TransferFrom, MoveShares
  <2> QED BY <1>0, <1>1, <2>1, <2>2 DEF tokenUnchanged, lifeVars
<1>10. CASE ComplianceNext \/ AdvanceTime \/ UNCHANGED vars
  <2>1. UNCHANGED <<emergencyVars, vaultState, shareVars>>
    BY <1>10
    DEF ComplianceNext, SetBlacklisted, SetTransferExempt, SetTransferRequiresKyc,
        KycChanges, complianceUnchanged, AdvanceTime, vars, lifeVars
  <2> QED BY <1>0, <1>1, <2>1 DEF shareVars
<1> QED
  BY <1>2, <1>3, <1>4, <1>5, <1>6, <1>7, <1>8, <1>9, <1>10 DEF Next

\* Until a call names a negative number of shares, pro-rata claims never pay more
\* than the frozen balance holds for the shares burned since it was frozen,
\* whatever is burned, transferred or resolved between two claims.
THEOREM EmergencyClaimsBounded == Spec => []EmergencyClaimsProRata
<1>1. Init => EmergencyClaimsProRata
  BY DEF Init, EmergencyClaimsProRata
<1>2. TypeOK /\ EmergencyClaimsProRata /\ [Next]_vars => EmergencyClaimsProRata'
  BY NextKeepsProRata
<1> QED BY <1>1, <1>2, TypeInvariant, PTL DEF Spec

-----------------------------------------------------------------------------
(* Refunds *)

\* No yield is paid before a vault is active: a cancelled vault never was.
NoYieldYet == vaultState \in {"Funding", "Cancelled"} => yieldClaimsVolume = 0

\* Yield is only paid by an active or matured vault, and no call takes a vault
\* back to its funding, or cancels one that has left it.
LEMMA NextKeepsNoYield ==
  ASSUME TypeOK, NoYieldYet, [Next]_vars
  PROVE  NoYieldYet'
<1>0. UNCHANGED vaultState /\ UNCHANGED yieldClaimsVolume => NoYieldYet'
  BY DEF NoYieldYet
<1>1. CASE InvestNext
  <2>1. UNCHANGED <<lifeVars, claimVars>>
    BY <1>1 DEF InvestNext, Deposit, Mint, Withdraw, Redeem, Invest, Exit
  <2> QED BY <1>0, <2>1 DEF lifeVars, claimVars
<1>2. CASE YieldNext
  <2>1. vaultState \in {"Active", "Matured"} \/ UNCHANGED yieldClaimsVolume
    BY <1>2 DEF YieldNext, DistributeYield, ClaimYield, ClaimYieldForEpoch, MayClaim,
                ResolveYieldShortfall
  <2>2. UNCHANGED vaultState
    BY <1>2 DEF YieldNext, DistributeYield, ClaimYield, ClaimYieldForEpoch,
                ResolveYieldShortfall, lifeVars
  <2> QED BY <2>1, <2>2 DEF NoYieldYet
<1>3. CASE LifecycleNext
  <2>1. UNCHANGED yieldClaimsVolume
    BY <1>3 DEF LifecycleNext, ActivateVault, CancelFunding, MatureVault, CloseVault,
                MoveTo, Refund, otherVars, claimVars
  <2>2. vaultState' \in {"Funding", "Cancelled"} => vaultState \in {"Funding", "Cancelled"}
    BY <1>3 DEF LifecycleNext, ActivateVault, CancelFunding, MatureVault, CloseVault,
                MoveTo, Refund, lifeVars
  <2> QED BY <2>1, <2>2 DEF NoYieldYet
<1>4. CASE LimitsNext \/ TermsNext
  <2>1. ASSUME NEW c, Configure(c) PROVE NoYieldYet'
    BY <1>0, <2>1 DEF Configure, otherVars, claimVars
  <2> QED
    BY <1>4, <2>1
    DEF LimitsNext, TermsNext, SetFundingTarget, SetMinDeposit, SetMaxDepositPerUser,
        SetDepositLimits, SetMaxInvestors, SetEarlyRedemptionFee, SetMaturityDate,
        SetYieldVestingPeriod, SetLockUpPeriod
<1>5. CASE RedemptionNext
  <2>1. ASSUME NEW caller, NEW receiver, NEW owner, NEW shares,
               RedeemAtMaturity(caller, shares, receiver, owner)
        PROVE  NoYieldYet'
    <3>1. vaultState = "Matured" /\ UNCHANGED vaultState
      BY <2>1 DEF RedeemAtMaturity, Exit, lifeVars
    <3> QED BY <3>1 DEF NoYieldYet
  <2>2. ASSUME NEW user, NEW shares, RequestEarlyRedemption(user, shares)
        PROVE  NoYieldYet'
    BY <1>0, <2>2 DEF RequestEarlyRedemption, claimVars, lifeVars
  <2>3. ASSUME NEW id, ProcessEarlyRedemption(id) PROVE NoYieldYet'
    BY <1>0, <2>3 DEF ProcessEarlyRedemption, claimVars, lifeVars
  <2>4. ASSUME NEW id, ReturnFromEscrow(id) PROVE NoYieldYet'
    BY <1>0, <2>4 DEF ReturnFromEscrow, claimVars, lifeVars
  <2> QED
    BY <1>5, <2>1, <2>2, <2>3, <2>4
    DEF RedemptionNext, CancelEarlyRedemption, RejectEarlyRedemption
<1>6. CASE FreezeNext \/ EmergencyNext
  <2>1. UNCHANGED yieldClaimsVolume /\ (UNCHANGED vaultState \/ vaultState' = "Emergency")
    BY <1>6 DEF FreezeNext, EmergencyNext, Pause, Unpause, SetFreezeFlags,
                EmergencyWithdraw, EmergencyEnableProRata, EmergencyClaim, unstoppedVars,
                lifeVars, claimVars
  <2> QED BY <2>1 DEF NoYieldYet
<1>7. CASE TransferNext \/ AllowanceNext
  <2>1. UNCHANGED tokenUnchanged
    BY <1>7
    DEF TransferNext, AllowanceNext, Approve, BurnShares, BurnFrom, Transfer,
        TransferFrom, MoveShares
  <2> QED BY <1>0, <2>1 DEF tokenUnchanged, lifeVars, claimVars
<1>8. CASE ComplianceNext \/ AdvanceTime \/ UNCHANGED vars
  <2>1. UNCHANGED <<vaultState, claimVars>>
    BY <1>8
    DEF ComplianceNext, SetBlacklisted, SetTransferExempt, SetTransferRequiresKyc,
        KycChanges, complianceUnchanged, AdvanceTime, vars, lifeVars
  <2> QED BY <1>0, <2>1 DEF claimVars
<1> QED BY <1>1, <1>2, <1>3, <1>4, <1>5, <1>6, <1>7, <1>8 DEF Next

\* What the price promises for all the shares together is at most the accounts.
LEMMA AllSharesPayable ==
  ASSUME NEW ta \in Nat, NEW supply \in Nat, NEW v \in Nat, v > 0, supply <= ta,
         NEW held \in Nat, held <= supply, NEW sum \in Nat,
         sum * (supply + v) <= held * (ta + v)
  PROVE  sum <= ta
<1> SUFFICES ASSUME sum >= ta + 1 PROVE FALSE OBVIOUS
<1> DEFINE s == supply + v
           a == ta + v
<1>1. s \in Nat /\ s > 0 /\ a \in Nat OBVIOUS
<1>2. supply * a <= ta * s
  <2>1. supply * a = supply * ta + supply * v OBVIOUS
  <2>2. ta * s = ta * supply + ta * v OBVIOUS
  <2>3. supply * v <= ta * v OBVIOUS
  <2>4. supply * ta = ta * supply OBVIOUS
  <2>5. supply * ta \in Nat /\ supply * v \in Nat /\ ta * v \in Nat BY ProductIsNat
  <2> HIDE DEF s, a
  <2> QED BY <2>1, <2>2, <2>3, <2>4, <2>5
<1> HIDE DEF s, a
<1>3. held * a <= supply * a BY <1>1
<1>4. (ta + 1) * s <= sum * s BY <1>1
<1>5. (ta + 1) * s = ta * s + s BY <1>1
<1>6. ta * s \in Nat /\ sum * s \in Nat /\ held * a \in Nat /\ supply * a \in Nat
  BY <1>1, ProductIsNat
<1>7. sum * s <= held * a BY DEF s, a
<1> QED BY <1>1, <1>2, <1>3, <1>4, <1>5, <1>6, <1>7

\* The refunds of all the holders together are at most the total assets.
LEMMA RefundsWithinAssets ==
  ASSUME PriceInv, ~negativeCalls
  PROVE  Total([u \in Users |-> AssetsFor(balance[u])], Users) <= totalDeposited
<1> USE DEF PriceInv
<1> DEFINE refund == [u \in Users |-> AssetsFor(balance[u])]
<1>1. /\ totalSupply \in Nat /\ totalDeposited \in Nat /\ totalSupply <= totalDeposited
      /\ VirtualOffset \in Nat /\ VirtualOffset > 0
  BY SupplyBounds DEF Natural, SharesBacked, Backed
<1>2. /\ IsFiniteSet(Users)
      /\ \A u \in Users : balance[u] \in Nat /\ escrow[u] \in Nat
      /\ Total(balance, Users) \in Nat /\ Total(escrow, Users) \in Nat
      /\ Net(balance, Users) = Total(balance, Users)
  BY HoldingsAreNat
<1>3. Total(balance, Users) <= totalSupply BY <1>1, <1>2 DEF ShareConservation
<1>4. CASE totalSupply = 0
  <2>1. \A u \in Users : refund[u] = balance[u] BY <1>4, EmptyQuotes
  <2> HIDE DEF refund
  <2>2. Total(refund, Users) = Total(balance, Users) BY <2>1, TotalSame
  <2> QED BY <1>1, <1>2, <1>3, <2>2 DEF refund
<1>5. CASE totalSupply > 0
  <2>1. Supply \in Nat \ {0} /\ Assets \in Nat \ {0}
    BY <1>1 DEF Supply, Assets
  <2>2. ASSUME NEW u \in Users
        PROVE refund[u] \in Nat /\ refund[u] * Supply <= balance[u] * Assets
    BY <1>2, <1>5, QuotesFavourVault
  <2> HIDE DEF refund
  <2>3. Total(refund, Users) \in Nat BY <1>2, <2>2, TotalIsNat
  <2>4. Total(refund, Users) * Supply <= Total(balance, Users) * Assets
    BY <1>2, <2>1, <2>2, TotalOfParts
  <2>5. Total(refund, Users) <= totalDeposited
    BY <1>1, <1>2, <1>3, <2>3, <2>4, AllSharesPayable DEF Supply, Assets
  <2> QED BY <2>5 DEF refund
<1> QED BY <1>1, <1>4, <1>5

\* A cancelled vault from which nothing left outside the accounts, and where no
\* call named a negative number of shares, can refund all its holders at the price
\* it quotes, for any number of depositors and amounts.
THEOREM EveryoneRefunded == Spec => []RefundsCovered
<1>1. Init => NoYieldYet BY DEF Init, NoYieldYet
<1>2. TypeOK /\ NoYieldYet /\ [Next]_vars => NoYieldYet'
  BY NextKeepsNoYield
<1>3. PriceInv /\ CashReconciles /\ NoYieldYet => RefundsCovered
  <2> SUFFICES ASSUME PriceInv, CashReconciles, NoYieldYet,
                      vaultState = "Cancelled", outflow = 0, ~negativeCalls
               PROVE  Total([u \in Users |-> AssetsFor(balance[u])], Users) <= Cash
    BY DEF RefundsCovered
  <2>1. Cash = totalDeposited
    BY SupplyBounds DEF CashReconciles, NoYieldYet, PriceInv
  <2> QED BY <2>1, RefundsWithinAssets
<1> QED
  BY <1>1, <1>2, <1>3, TypeInvariant, PriceInvariant, CashAlwaysReconciles, PTL DEF Spec
=============================================================================
