----------------------------- MODULE VaultYield ------------------------------
(***************************************************************************)
(* Yield epochs: distribution by an operator, claims by the holders, and   *)
(* the shortfall recorded when the vault cannot pay a claim in full.       *)
(***************************************************************************)
EXTENDS VaultBase

DistributeYield(amount) ==
  /\ NotFrozen("Yield")
  /\ vaultState = "Active"
  /\ amount > 0
  /\ totalSupply # 0
  /\ CurrentEpoch < MaxEpochs
  /\ epochs' = Append(epochs, [yield |-> amount, totalShares |-> totalSupply,
                               timestamp |-> now,
                               totalAssets |-> totalDeposited + amount])
  /\ holdersAt' = Append(holdersAt, balance)
  /\ totalDeposited' = totalDeposited + amount
  /\ TransferAsset(Operator, Vault, amount)
  /\ UNCHANGED <<now, negativeCalls, lifeVars, stopVars, complianceVars, shareVars, allowance,
                 userDeposited, investorVars, snapshotVars, claimVars, requests,
                 emergencyVars, outflow>>

-----------------------------------------------------------------------------
(* What a user may claim *)

\* Mutant: divided by the supply of now instead of the epoch's.
EntitlementAtCurrentSupply(user, epoch) ==
  IF totalSupply <= 0 THEN 0
  ELSE MulDiv(epochs[epoch].yield, SharesForEpoch(user, epoch), totalSupply)

\* The user's part of an epoch, by the shares held when it was distributed.
EpochEntitlement(user, epoch) ==
  LET shares == SharesForEpoch(user, epoch)
      info == epochs[epoch]
  IN  IF info.totalShares = 0 \/ shares = 0 THEN 0
      ELSE MulDiv(info.yield, shares, info.totalShares)

\* Mutant: what is already claimed is not asked for.
PendingThoughClaimed(user, epoch) == EpochEntitlement(user, epoch)

\* Mutant: what earlier claims of a vesting epoch took is not subtracted.
PendingWithoutTaken(user, epoch) ==
  LET since == epochs[epoch].timestamp
      full == EpochEntitlement(user, epoch)
  IN  IF epoch \in hasClaimed[user] \/ now <= since THEN 0
      ELSE IF config.vestingPeriod = 0 THEN full
      ELSE VestedAmount(full, now - since, config.vestingPeriod)

\* pending_yield_for_epoch, for an epoch that exists.  Without vesting the
\* whole entitlement is pending; with it, the vested part less what earlier
\* claims of this epoch took.
PendingYieldForEpoch(user, epoch) ==
  LET full == EpochEntitlement(user, epoch)
      since == epochs[epoch].timestamp
      vested == IF now <= since THEN 0
                ELSE VestedAmount(full, now - since, config.vestingPeriod)
      taken == epochYieldClaimed[user][epoch]
  IN  IF epoch \in hasClaimed[user] THEN 0
      ELSE IF config.vestingPeriod = 0 \/ since = 0 THEN full
      ELSE IF vested <= taken THEN 0 ELSE vested - taken

UnclaimedEpochs(user) == ((lastClaimed[user] + 1)..CurrentEpoch) \ hasClaimed[user]

PendingYield(user) ==
  Net([e \in UnclaimedEpochs(user) |-> PendingYieldForEpoch(user, e)], UnclaimedEpochs(user))

\* A claim credits the user with what is pending for the epochs it covers.
Credit(user, covered) ==
  credited' = [credited EXCEPT ![user] = [e \in Epochs |->
                 @[e] + (IF e \in covered THEN PendingYieldForEpoch(user, e) ELSE 0)]]

-----------------------------------------------------------------------------
(* Claims *)

MayClaim(user) ==
  /\ NotFrozen("Yield")
  /\ vaultState \in {"Active", "Matured"}
  /\ NotBlacklisted({user})

\* Mutant: the whole claim is booked as paid.
BookWholeClaim(user, amount) ==
  LET paid == IF amount <= Cash THEN amount ELSE Cash IN
  /\ totalYieldClaimed' = [totalYieldClaimed EXCEPT ![user] = @ + amount]
  /\ yieldClaimsVolume' = yieldClaimsVolume + amount
  /\ yieldShortfall' = [yieldShortfall EXCEPT ![user] = @ + (amount - paid)]
  /\ TransferAsset(Vault, user, paid)

\* Pay what the vault holds of `amount` and record the rest as a shortfall.
PayYield(user, amount) ==
  LET paid == IF amount <= Cash THEN amount ELSE Cash IN
  /\ totalYieldClaimed' = [totalYieldClaimed EXCEPT ![user] = @ + paid]
  /\ yieldClaimsVolume' = yieldClaimsVolume + paid
  /\ yieldShortfall' = [yieldShortfall EXCEPT ![user] = @ + (amount - paid)]
  /\ TransferAsset(Vault, user, paid)

ClaimYield(user) ==
  /\ MayClaim(user)
  /\ PendingYield(user) > 0
  /\ hasClaimed' = [hasClaimed EXCEPT ![user] = @ \cup (lastClaimed[user] + 1)..CurrentEpoch]
  /\ lastClaimed' = [lastClaimed EXCEPT ![user] = CurrentEpoch]
  /\ PayYield(user, PendingYield(user))
  /\ Credit(user, UnclaimedEpochs(user))
  /\ UNCHANGED <<now, negativeCalls, lifeVars, stopVars, complianceVars, shareVars, allowance,
                 fundVars, investorVars, snapshotVars, epochVars, epochYieldClaimed,
                 requests, emergencyVars, outflow>>

\* Mutant: the cursor jumps to the newest claimed epoch.
CursorAtNewestClaim(user, claimed) == Max(claimed)

\* The cursor walks over the epochs that follow it and are claimed.
AdvancedCursor(user, claimed) ==
  CHOOSE c \in lastClaimed[user]..CurrentEpoch :
    /\ (lastClaimed[user] + 1)..c \subseteq claimed
    /\ c = CurrentEpoch \/ c + 1 \notin claimed

ClaimYieldForEpoch(user, epoch) ==
  LET amount == PendingYieldForEpoch(user, epoch)
      total == epochYieldClaimed[user][epoch] + amount
      done == total >= EpochEntitlement(user, epoch)
      claimed == hasClaimed[user] \cup {epoch}
  IN
  /\ MayClaim(user)
  /\ amount > 0
  /\ epochYieldClaimed' = [epochYieldClaimed EXCEPT ![user][epoch] = total]
  /\ IF done
     THEN /\ hasClaimed' = [hasClaimed EXCEPT ![user] = claimed]
          /\ lastClaimed' = [lastClaimed EXCEPT ![user] = AdvancedCursor(user, claimed)]
     ELSE UNCHANGED <<hasClaimed, lastClaimed>>
  /\ PayYield(user, amount)
  /\ Credit(user, {epoch})
  /\ UNCHANGED <<now, negativeCalls, lifeVars, stopVars, complianceVars, shareVars, allowance,
                 fundVars, investorVars, snapshotVars, epochVars, requests,
                 emergencyVars, outflow>>

\* resolve_yield_shortfall looks at neither the vault state nor a freeze.
ResolveYieldShortfall(user, amount) ==
  /\ amount > 0
  /\ amount <= yieldShortfall[user]
  /\ TransferAsset(Vault, user, amount)
  /\ yieldShortfall' = [yieldShortfall EXCEPT ![user] = @ - amount]
  /\ outflow' = outflow + amount
  /\ UNCHANGED <<now, negativeCalls, lifeVars, stopVars, complianceVars, shareVars, allowance,
                 fundVars, investorVars, snapshotVars, epochVars, lastClaimed,
                 hasClaimed, epochYieldClaimed, totalYieldClaimed,
                 yieldClaimsVolume, credited, requests, emergencyVars>>

YieldNext ==
  \/ \E amount \in YieldAmounts : DistributeYield(amount)
  \/ \E user \in Users : \/ ClaimYield(user)
                         \/ \E epoch \in 1..CurrentEpoch : ClaimYieldForEpoch(user, epoch)
                         \/ \E amount \in YieldAmounts : ResolveYieldShortfall(user, amount)
=============================================================================
