----------------------------- MODULE VaultInvest -----------------------------
(***************************************************************************)
(* Deposit, mint, withdraw and redeem: assets against shares at the        *)
(* current price.                                                          *)
(***************************************************************************)
EXTENDS VaultBase

\* What deposit and mint do once the price is known: the deposit limits, the
\* investor cap, the snapshot of the receiver, the accounts, then the pull of
\* the assets from the caller.  The minimum is never negative.
Invest(caller, receiver, assets, shares) ==
  LET newInvestor == HoldsNothing(receiver) IN
  /\ assets >= config.minDeposit
  /\ config.maxDepositPerUser > 0 =>
       userDeposited[receiver] + assets <= config.maxDepositPerUser
  /\ vaultState = "Funding" /\ config.fundingTarget > 0 =>
       TotalAssets + assets <= config.fundingTarget
  /\ newInvestor /\ config.maxInvestors > 0 => investorCount < config.maxInvestors
  /\ investorCount' = investorCount + (IF newInvestor THEN 1 ELSE 0)
  /\ UpdateSnapshots({receiver})
  /\ userDeposited' = [userDeposited EXCEPT ![receiver] = @ + assets]
  /\ totalDeposited' = totalDeposited + assets
  /\ balance' = [balance EXCEPT ![receiver] = @ + shares]
  /\ totalSupply' = totalSupply + shares
  /\ depositTimestamp' = [depositTimestamp EXCEPT ![receiver] = now]
  /\ TransferAsset(caller, Vault, assets)
  /\ UNCHANGED <<now, lifeVars, stopVars, complianceVars, escrow, allowance,
                 epochVars, claimVars, requests, emergencyVars, outflow>>

MayInvest(caller, receiver) ==
  /\ NotFrozen("DepositMint")
  /\ NotBlacklisted({caller, receiver})
  /\ KycVerified(caller)
  /\ vaultState \in {"Funding", "Active"}

Deposit(caller, assets, receiver) ==
  /\ MayInvest(caller, receiver)
  /\ SharesPriced
  /\ NotDust(assets, SharesFor(assets))
  /\ Invest(caller, receiver, assets, SharesFor(assets))
  /\ UNCHANGED negativeCalls

Mint(caller, shares, receiver) ==
  /\ MayInvest(caller, receiver)
  /\ MintPriced
  /\ NoteSign(shares)
  /\ Invest(caller, receiver, PreviewMint(shares, totalSupply, TotalAssets), shares)

\* What withdraw, redeem and redeem_at_maturity do with the owner's shares:
\* burn them, take `assets` out of the accounts and pay `assets + yield` to the
\* receiver, who must find that much in the vault.
Exit(caller, receiver, owner, assets, shares, yield) ==
  LET exiting == balance[owner] = shares /\ escrow[owner] = 0 IN
  /\ ChargeCaller(owner, caller, shares)
  /\ Burn(owner, shares)
  /\ totalDeposited' = totalDeposited - assets
  /\ LowerUserDeposited(owner, assets)
  /\ investorCount' = IF exiting /\ investorCount > 0 THEN investorCount - 1
                      ELSE investorCount
  /\ TransferAsset(Vault, receiver, assets + yield)
  /\ UNCHANGED <<now, lifeVars, stopVars, complianceVars, escrow, depositTimestamp,
                 epochVars, requests, emergencyVars, outflow, negativeCalls>>

MayExit(caller, receiver, owner) ==
  /\ NotFrozen("WithdrawRedeem")
  /\ NotBlacklisted({caller, owner, receiver})

Withdraw(caller, assets, receiver, owner) ==
  /\ MayExit(caller, receiver, owner)
  /\ vaultState \in {"Active", "Matured"}
  /\ assets > 0
  /\ LockUpElapsed(owner)
  /\ SharesPriced
  /\ Exit(caller, receiver, owner, assets,
          PreviewWithdraw(assets, totalSupply, TotalAssets), 0)
  /\ UNCHANGED claimVars

Redeem(caller, shares, receiver, owner) ==
  /\ MayExit(caller, receiver, owner)
  /\ vaultState \in {"Active", "Matured"}
  /\ shares > 0
  /\ LockUpElapsed(owner)
  /\ AssetsPriced
  /\ NotDust(shares, AssetsFor(shares))
  /\ Exit(caller, receiver, owner, AssetsFor(shares), shares, 0)
  /\ UNCHANGED claimVars

InvestNext ==
  \E caller, receiver \in Users :
    \/ \E assets \in AssetAmounts : Deposit(caller, assets, receiver)
    \/ \E shares \in ShareAmounts : Mint(caller, shares, receiver)
    \/ \E owner \in Users, assets \in AssetAmounts :
         Withdraw(caller, assets, receiver, owner)
    \/ \E owner \in Users, shares \in ShareAmounts :
         Redeem(caller, shares, receiver, owner)
=============================================================================
