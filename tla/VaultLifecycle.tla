--------------------------- MODULE VaultLifecycle ----------------------------
(***************************************************************************)
(* The lifecycle of a vault, refunds of a cancelled round, and the         *)
(* settings an operator or the admin may change.  Callers hold the role    *)
(* the code asks for: without it every one of these calls panics.          *)
(***************************************************************************)
EXTENDS VaultBase

otherVars == <<now, negativeCalls, stopVars, complianceVars, allowance, investorVars, epochVars,
               claimVars, requests, emergencyVars, outflow>>

MoveTo(state) ==
  /\ vaultState' = state
  /\ UNCHANGED <<otherVars, config, shareVars, fundVars, asset, snapshotVars>>

ActivateVault ==
  /\ vaultState = "Funding"
  /\ config.fundingDeadline > 0 => now <= config.fundingDeadline
  /\ IsFundingTargetMet
  /\ MoveTo("Active")

CancelFunding ==
  /\ vaultState = "Funding"
  /\ config.fundingDeadline > 0
  /\ now > config.fundingDeadline
  /\ ~IsFundingTargetMet
  /\ MoveTo("Cancelled")

MatureVault ==
  /\ vaultState = "Active"
  /\ now >= config.maturityDate
  /\ MoveTo("Matured")

\* Mutant: shares may be outstanding.
CloseAnyVault == vaultState = "Matured" /\ MoveTo("Closed")

CloseVault ==
  /\ vaultState = "Matured"
  /\ totalSupply <= 0
  /\ MoveTo("Closed")

\* refund: all the shares of the caller at the current price.
Refund(user) ==
  LET shares == balance[user]
      amount == AssetsFor(shares)
  IN
  /\ NotFrozen("WithdrawRedeem")
  /\ vaultState = "Cancelled"
  /\ shares > 0
  /\ AssetsPriced
  /\ NotDust(shares, amount)
  /\ userDeposited' = [userDeposited EXCEPT ![user] = 0]
  /\ Burn(user, shares)
  /\ totalDeposited' = totalDeposited - amount
  /\ TransferAsset(Vault, user, amount)
  /\ UNCHANGED <<otherVars, lifeVars, escrow>>

LifecycleNext ==
  \/ ActivateVault
  \/ CancelFunding
  \/ MatureVault
  \/ CloseVault
  \/ \E user \in Users : Refund(user)

-----------------------------------------------------------------------------
(* Settings *)

Configure(newConfig) ==
  /\ config' = newConfig
  /\ UNCHANGED <<otherVars, vaultState, shareVars, fundVars, asset, snapshotVars>>

SetFundingTarget(target) == Configure([config EXCEPT !.fundingTarget = target])

SetMaturityDate(date) ==
  /\ vaultState # "Closed"
  /\ Configure([config EXCEPT !.maturityDate = date])

\* set_deposit_limits, and set_min_deposit and set_max_deposit_per_user, which
\* keep the other limit as it is.
SetDepositLimits(min, max) ==
  /\ min >= 0 /\ max >= 0
  /\ min > 0 /\ max > 0 => min <= max
  /\ vaultState \in {"Funding", "Active"}
  /\ Configure([config EXCEPT !.minDeposit = min, !.maxDepositPerUser = max])

SetMinDeposit(min) == SetDepositLimits(min, config.maxDepositPerUser)
SetMaxDepositPerUser(max) == SetDepositLimits(config.minDeposit, max)

SetMaxInvestors(max) == Configure([config EXCEPT !.maxInvestors = max])

SetEarlyRedemptionFee(bps) ==
  /\ vaultState # "Closed"
  /\ bps <= 1000
  /\ Configure([config EXCEPT !.feeBps = bps])

SetYieldVestingPeriod(period) ==
  /\ vaultState # "Closed"
  /\ Configure([config EXCEPT !.vestingPeriod = period])

SetLockUpPeriod(period) == Configure([config EXCEPT !.lockUpPeriod = period])

LimitsNext ==
  \/ \E amount \in AssetAmounts : \/ SetFundingTarget(amount)
                             \/ SetMinDeposit(amount)
                             \/ SetMaxDepositPerUser(amount)
                             \/ \E other \in AssetAmounts : SetDepositLimits(amount, other)
  \/ \E max \in 0..Cardinality(Users) : SetMaxInvestors(max)
  \/ \E bps \in FeeChoices : SetEarlyRedemptionFee(bps)

TermsNext ==
  \/ \E date \in 0..MaxTime : SetMaturityDate(date)
  \/ \E period \in Periods : \/ SetYieldVestingPeriod(period)
                             \/ SetLockUpPeriod(period)
=============================================================================
