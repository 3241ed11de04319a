--------------------------- MODULE SingleRwaVault ----------------------------
(***************************************************************************)
(* One single_rwa_vault contract: its operations composed into a           *)
(* specification, and the properties that make it correct.                 *)
(***************************************************************************)
EXTENDS VaultLifecycle, VaultRedemption, VaultEmergency, VaultToken

NoEpochs == [e \in Epochs |-> 0]

\* __constructor, at a ledger whose timestamp is past 0, with every user known
\* to the KYC verifier.
Init ==
  /\ now = 1
  /\ vaultState = "Funding"
  /\ config = InitConfig
  /\ paused = FALSE
  /\ freezeFlags = {}
  /\ blacklisted = {}
  /\ kycApproved = Users
  /\ transferExempt = {}
  /\ balance = [u \in Users |-> 0]
  /\ escrow = [u \in Users |-> 0]
  /\ totalSupply = 0
  /\ allowance = [u \in Users |-> [s \in Users |-> [amount |-> 0, expires |-> 0]]]
  /\ totalDeposited = 0
  /\ userDeposited = [u \in Users |-> 0]
  /\ depositTimestamp = [u \in Users |-> 0]
  /\ investorCount = 0
  /\ asset = [a \in Accounts |-> IF a = Vault THEN 0 ELSE InitFunds[a]]
  /\ epochs = <<>>
  /\ holdersAt = <<>>
  /\ sharesAtEpoch = [u \in Users |-> <<>>]
  /\ lastInteraction = [u \in Users |-> 0]
  /\ lastClaimed = [u \in Users |-> 0]
  /\ hasClaimed = [u \in Users |-> {}]
  /\ epochYieldClaimed = [u \in Users |-> NoEpochs]
  /\ totalYieldClaimed = [u \in Users |-> 0]
  /\ yieldShortfall = [u \in Users |-> 0]
  /\ yieldClaimsVolume = 0
  /\ credited = [u \in Users |-> NoEpochs]
  /\ requests = <<>>
  /\ emergency = [balance |-> 0, supply |-> 0, claimed |-> {}]
  /\ emergencyPaid = 0
  /\ outflow = 0
  /\ negativeCalls = FALSE

\* External: ledgers close.
AdvanceTime ==
  /\ now < MaxTime
  /\ now' = now + 1
  /\ UNCHANGED <<lifeVars, stopVars, complianceVars, shareVars, allowance, fundVars,
                 investorVars, asset, snapshotVars, epochVars, claimVars, requests,
                 emergencyVars, outflow, negativeCalls>>

Next ==
  \/ InvestNext
  \/ YieldNext
  \/ LifecycleNext
  \/ LimitsNext
  \/ TermsNext
  \/ RedemptionNext
  \/ FreezeNext
  \/ EmergencyNext
  \/ TransferNext
  \/ AllowanceNext
  \/ ComplianceNext
  \/ AdvanceTime

Spec == Init /\ [][Next]_vars

-----------------------------------------------------------------------------
EpochRecords == [yield : Nat, totalShares : Int, timestamp : Nat, totalAssets : Int]
RequestRecords == [user : Users, shares : Nat, value : Int,
                   status : {"Pending", "Approved", "Rejected"}]

ClockOK == now \in Nat
LifeOK == vaultState \in VaultStates /\ config \in Configs
StopOK == paused \in BOOLEAN /\ freezeFlags \subseteq Freezable
ComplianceOK == /\ blacklisted \subseteq Users
                /\ kycApproved \subseteq Users
                /\ transferExempt \subseteq Users
SharesOK == /\ balance \in [Users -> Int]
            /\ escrow \in [Users -> Nat]
            /\ totalSupply \in Int
AllowanceOK == allowance \in [Users -> [Users -> [amount : Int, expires : Nat]]]
FundsOK == totalDeposited \in Int /\ userDeposited \in [Users -> Nat]
InvestorsOK == depositTimestamp \in [Users -> Nat] /\ investorCount \in Nat
AssetOK == asset \in [Accounts -> Nat]
EpochsOK == /\ epochs \in Seq(EpochRecords)
            /\ holdersAt \in Seq([Users -> Int])
            /\ Len(holdersAt) = Len(epochs)
            /\ Len(epochs) <= MaxEpochs
SnapshotsOK == /\ lastInteraction \in [Users -> 0..Len(epochs)]
               /\ sharesAtEpoch = [u \in Users |-> sharesAtEpoch[u]]
               /\ \A u \in Users : sharesAtEpoch[u] \in [1..lastInteraction[u] -> Int]
ClaimsOK == /\ lastClaimed \in [Users -> 0..Len(epochs)]
            /\ hasClaimed \in [Users -> SUBSET (1..Len(epochs))]
            /\ epochYieldClaimed \in [Users -> [Epochs -> Nat]]
            /\ credited \in [Users -> [Epochs -> Int]]
            /\ totalYieldClaimed \in [Users -> Nat]
            /\ yieldShortfall \in [Users -> Nat]
            /\ yieldClaimsVolume \in Nat
RequestsOK == requests \in Seq(RequestRecords)
EmergencyOK == /\ emergency \in [balance : Nat, supply : Nat, claimed : SUBSET Users]
               /\ vaultState = "Emergency" => emergency.supply > 0
               /\ emergencyPaid \in Nat
OutflowOK == outflow \in Nat /\ negativeCalls \in BOOLEAN

\* The type of every variable, whatever amounts the calls name: shares, and what
\* is worked out from them, are signed; escrow, recorded deposits, shortfalls,
\* claims paid and tokens are not; and the epochs a user has a snapshot for are
\* exactly those up to the last interaction.
TypeOK ==
  /\ ClockOK /\ LifeOK /\ StopOK /\ ComplianceOK /\ SharesOK /\ AllowanceOK
  /\ FundsOK /\ InvestorsOK /\ AssetOK /\ EpochsOK /\ SnapshotsOK /\ ClaimsOK
  /\ RequestsOK /\ EmergencyOK /\ OutflowOK

-----------------------------------------------------------------------------
(* Shares *)

\* Every share in the supply is in exactly one balance or in escrow: mints,
\* burns, transfers, escrow moves, approvals and emergency claims together
\* never create, lose or double a share, of whatever sign their amounts are.
ShareConservation == totalSupply = Net(balance, Users) + Total(escrow, Users)

PendingOf(user) == {id \in DOMAIN requests : requests[id].user = user /\ Pending(id)}

\* The escrow of a user is what the user's pending requests hold, so that
\* process, cancel and reject always find the shares they need ("Should not
\* happen" in the code) and no share stays in escrow without a request.
EscrowMatchesQueue ==
  \A u \in Users :
    escrow[u] = Total([id \in DOMAIN requests |-> requests[id].shares], PendingOf(u))

-----------------------------------------------------------------------------
(* Price, as long as no call has moved, burned or minted a negative number of  *)
(* shares                                                                      *)

Backed == 0 <= totalSupply /\ totalSupply <= totalDeposited

\* The supply never outgrows the total assets, so a share is always worth at
\* least one unit, redeeming every share never takes the total assets below
\* zero, and the divisors of the price never vanish.
SharesBacked == ~negativeCalls => Backed

\* While shares are outstanding no operation lowers the price of a share: every
\* rounding is in the vault's favour, fees and burns stay with the holders.
SharePriceNeverFalls ==
  [][~negativeCalls' /\ totalSupply > 0 =>
       (totalDeposited' + VirtualOffset) * (totalSupply + VirtualOffset)
         >= (totalDeposited + VirtualOffset) * (totalSupply' + VirtualOffset)]_vars

\* The value locked in a pending early redemption is at most what its shares
\* are worth now, so that processing it late takes nothing from other holders.
LockedValueWithinPrice ==
  ~negativeCalls => \A id \in DOMAIN requests : Pending(id) =>
    requests[id].value * (totalSupply + VirtualOffset)
      <= requests[id].shares * (totalDeposited + VirtualOffset)

-----------------------------------------------------------------------------
(* Yield *)

\* Whatever was deposited, moved, burned, escrowed or redeemed since, the
\* shares an epoch's yield is computed from are those the user held when the
\* epoch was distributed.
SnapshotIntegrity ==
  \A u \in Users : \A e \in 1..CurrentEpoch : SharesForEpoch(u, e) = holdersAt[e][u]

\* The entitlements to an epoch never add up to more than its yield, as long as
\* no call has named a negative number of shares: the parts of negative holdings
\* are rounded up, so the others could come to more.
YieldNotOverAllocated ==
  ~negativeCalls => \A e \in 1..CurrentEpoch :
    Total([u \in Users |-> EpochEntitlement(u, e)], Users) <= epochs[e].yield

\* No user is ever credited, over all the ways of claiming, with more than the
\* user's part of an epoch.
CreditWithinEntitlement ==
  \A u \in Users : \A e \in 1..CurrentEpoch : credited[u][e] <= EpochEntitlement(u, e)

\* An epoch marked as claimed, or passed by the claim cursor, has been credited
\* in full: no claim path drops yield the user still had coming.
ClaimedMeansCredited ==
  \A u \in Users : \A e \in 1..CurrentEpoch :
    e \in hasClaimed[u] \/ e <= lastClaimed[u] => credited[u][e] >= EpochEntitlement(u, e)

\* Once an epoch is marked as claimed for a user, nothing credits it again.
ClaimedIsFinal ==
  [][\A u \in Users : \A e \in hasClaimed[u] :
       e \in hasClaimed'[u] /\ credited'[u][e] = credited[u][e]]_vars

\* The vault as a ledger of yield.  What a user may get of an epoch is worked out
\* from snapshots, or from the balance where there is none, whenever it is asked
\* for; the ledger settles it at the distribution.
Ledger == INSTANCE YieldLedger WITH
            Amounts <- YieldAmounts,
            count <- CurrentEpoch,
            yield <- [e \in 1..CurrentEpoch |-> epochs[e].yield],
            owed <- [e \in 1..CurrentEpoch |-> [u \in Users |-> EpochEntitlement(u, e)]],
            paid <- credited,
            settled <- hasClaimed
\* Every call is a step of the ledger or none: no deposit, transfer, burn, escrow
\* or redemption moves what is owed of past epochs, no way of claiming pays more
\* than that or anything of a settled epoch, and a call pays one user only.  The
\* ledger knows no negative parts: it binds until a call names a negative number
\* of shares.
LedgerSpec ==
  Ledger!Init /\ [][~negativeCalls' => Ledger!Next \/ UNCHANGED Ledger!vars]_vars

-----------------------------------------------------------------------------
(* Assets *)

\* The tokens the vault holds are its total assets less the yield claims it
\* has paid and less what left outside its accounts (emergency payouts and
\* resolved shortfalls): every other path moves tokens and accounts together.
CashReconciles == Cash = totalDeposited - yieldClaimsVolume - outflow

\* As long as nothing left outside the accounts and no call named a negative
\* number of shares, a cancelled vault holds enough to refund every holder at
\* the price it quotes, in any order.
RefundsCovered ==
  vaultState = "Cancelled" /\ outflow = 0 /\ ~negativeCalls =>
    Total([u \in Users |-> AssetsFor(balance[u])], Users) <= Cash

\* The pro-rata claims paid so far are at most the part of the frozen balance
\* that belongs to the shares burned since, so they never exceed that balance, as
\* long as no call named a negative number of shares.
EmergencyClaimsProRata ==
  vaultState = "Emergency" /\ ~negativeCalls =>
    emergencyPaid * emergency.supply
      <= emergency.balance * (emergency.supply - totalSupply)

-----------------------------------------------------------------------------
(* Lifecycle *)

\* "Closed is a terminal state" (close_vault): no call moves the accounts of a
\* closed vault; and as long as none has named a negative number of shares, no
\* share moves either, and not even emergency_enable_pro_rata, which asks for no
\* state, takes the vault elsewhere.
ClosedIsFinal ==
  [][vaultState = "Closed" =>
       /\ UNCHANGED fundVars
       /\ ~negativeCalls' => UNCHANGED <<vaultState, shareVars>>]_vars

-----------------------------------------------------------------------------
(* What comments in the code say and the code does not do *)

\* The fuzz tests: "Balances never go negative, never exceed total supply"; the
\* transfers they make name positive amounts.
BalancesWithinSupply == \A u \in Users : 0 <= balance[u] /\ balance[u] <= totalSupply

\* The fuzz tests: "assets >= supply (share price >= 1)"; math.rs: one check
\* "keeps amount validation consistent across deposit, mint, withdraw, redeem,
\* transfer, burn", which nothing calls.
AssetsCoverSupply == Backed

\* close_vault: "Closed is a terminal state; no further operations are possible".
ClosedStaysClosed ==
  [][vaultState = "Closed" => UNCHANGED <<vaultState, shareVars, fundVars>>]_vars

\* vault_asset_balance: the token balance and total_assets() "should match
\* during normal operation".
CashMatchesTotalAssets == ~paused /\ outflow = 0 => Cash = TotalAssets

\* investor_count: "the current count of unique investors (users with non-zero
\* balance)"; shares in escrow are counted as held.
InvestorCountExact == investorCount = Cardinality({u \in Users : ~HoldsNothing(u)})

\* set_lock_up_period: "Only applies to future deposits": a change of the
\* period never locks shares that were free.
LockUpNotRetroactive ==
  [][config'.lockUpPeriod # config.lockUpPeriod =>
       \A u \in Users : LockUpElapsed(u) => LockUpElapsed(u)']_vars

\* paused: "all state-changing operations except for `unpause` and
\* `emergency_withdraw` are blocked"; here, the share balances of a vault that
\* is not in Emergency stay as they are while it is paused.
PausedSharesStill ==
  [][paused /\ vaultState # "Emergency" => UNCHANGED shareVars]_vars
=============================================================================
