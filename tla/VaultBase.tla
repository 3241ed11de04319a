------------------------------ MODULE VaultBase ------------------------------
(***************************************************************************)
(* State shared by the operations of one single_rwa_vault contract, and    *)
(* the storage, guard and bookkeeping helpers they are built from.         *)
(*                                                                         *)
(* A Soroban call is one ledger transaction: it runs to its end or panics  *)
(* and leaves no trace, and the reentrancy lock is taken and released      *)
(* inside it.  An action is therefore one whole successful call; a call    *)
(* that panics is a guard that is false.                                   *)
(***************************************************************************)
EXTENDS ShareMath, Totals, Sequences, FiniteSetsExt

CONSTANTS
  Users,            \* investors, the addresses that hold shares
  Vault,            \* the contract's own address at the asset token
  Operator,         \* the address the operators pay yield from
  InitConfig,       \* the configuration given to the constructor
  InitFunds,        \* asset tokens every account owns at the start
  AssetAmounts,     \* amounts of assets a call may name
  ShareAmounts,     \* amounts of shares a call may name
  YieldAmounts,     \* amounts of yield a call may name
  Periods,          \* lock-up and vesting periods an operator may set
  FeeChoices,       \* early redemption fees an operator may set, in bps
  MaxTime,          \* bound: the ledger clock stops here
  MaxEpochs,        \* bound: yield distributions
  MaxRequests       \* bound: early redemption requests

Accounts == Users \cup {Vault, Operator}
VaultStates == {"Funding", "Active", "Matured", "Closed", "Cancelled", "Emergency"}
Freezable == {"DepositMint", "WithdrawRedeem", "Yield"}
Epochs == 1..MaxEpochs

\* Settings the operators may change after construction.
Configs == [fundingTarget : Int, fundingDeadline : Nat, maturityDate : Nat,
            minDeposit : Nat, maxDepositPerUser : Nat, maxInvestors : Nat,
            feeBps : 0..1000, vestingPeriod : Nat, lockUpPeriod : Nat,
            transferRequiresKyc : BOOLEAN]

ASSUME UsersAssumption == /\ IsFiniteSet(Users)
                          /\ Vault \notin Users
                          /\ Operator \notin Users
                          /\ Vault # Operator
\* Amounts are any i128: what refuses a negative one is a guard, where there is
\* one.
ASSUME InputAssumption == /\ AssetAmounts \subseteq Int
                          /\ ShareAmounts \subseteq Int
                          /\ YieldAmounts \subseteq Int
                          /\ Periods \subseteq Nat
                          /\ FeeChoices \subseteq Nat
ASSUME BoundAssumption == MaxTime \in Nat /\ MaxEpochs \in Nat /\ MaxRequests \in Nat
ASSUME InitAssumption == /\ InitConfig \in Configs
                         /\ InitFunds \in [Users \cup {Operator} -> Nat]

VARIABLES
  now,                \* ledger timestamp, which also counts ledgers
  vaultState, config, paused, freezeFlags,
  blacklisted, kycApproved, transferExempt,
  balance, escrow, totalSupply, allowance,
  totalDeposited, userDeposited, depositTimestamp, investorCount,
  asset,              \* external: the token balance of every account
  epochs,             \* what each yield distribution stored
  sharesAtEpoch,      \* per user, the epochs with a snapshot and its value
  lastInteraction, lastClaimed, hasClaimed, epochYieldClaimed,
  totalYieldClaimed, yieldShortfall, yieldClaimsVolume,
  requests,           \* early redemption requests, by id
  emergency,          \* figures frozen when pro-rata claims were enabled
  holdersAt,          \* history: balances at each distribution
  credited,           \* history: yield credited to a user for an epoch
  outflow,            \* history: assets paid outside the vault's own accounts
  emergencyPaid,      \* history: pro-rata claims paid since they were enabled
  negativeCalls       \* history: a call has moved, burned or minted a negative
                      \* number of shares

lifeVars == <<vaultState, config>>
stopVars == <<paused, freezeFlags>>
complianceVars == <<blacklisted, kycApproved, transferExempt>>
shareVars == <<balance, escrow, totalSupply>>
fundVars == <<totalDeposited, userDeposited>>
investorVars == <<depositTimestamp, investorCount>>
snapshotVars == <<sharesAtEpoch, lastInteraction>>
epochVars == <<epochs, holdersAt>>
claimVars == <<lastClaimed, hasClaimed, epochYieldClaimed, totalYieldClaimed,
               yieldShortfall, yieldClaimsVolume, credited>>
emergencyVars == <<emergency, emergencyPaid>>
vars == <<now, lifeVars, stopVars, complianceVars, shareVars, allowance, fundVars,
          investorVars, asset, snapshotVars, epochVars, claimVars, requests,
          emergencyVars, outflow, negativeCalls>>

-----------------------------------------------------------------------------
(* Guards *)

CurrentEpoch == Len(epochs)
NotFrozen(operation) == operation \notin freezeFlags
NotBlacklisted(parties) == parties \cap blacklisted = {}
KycVerified(user) == user \in kycApproved

\* require_lock_up_elapsed: no period, or no recorded deposit, locks nothing.
LockUpElapsed(user) ==
  \/ config.lockUpPeriod = 0
  \/ depositTimestamp[user] = 0
  \/ now >= depositTimestamp[user] + config.lockUpPeriod

\* require_transfer_parties_allowed: the blacklist always binds, the KYC gate
\* on the recipient is lifted when either side is exempt.
TransferPartiesAllowed(from, to) ==
  /\ NotBlacklisted({from, to})
  /\ \/ {from, to} \cap transferExempt # {}
     \/ config.transferRequiresKyc => KycVerified(to)

IsFundingTargetMet == totalDeposited >= config.fundingTarget

-----------------------------------------------------------------------------
(* Prices at the current supply and total assets *)

TotalAssets == totalDeposited
SharesFor(assets) == ConvertToSharesFloor(assets, totalSupply, TotalAssets)
\* Mutant: redemptions rounded up.
AssetsRoundedUp(shares) == PreviewMint(shares, totalSupply, TotalAssets)
AssetsFor(shares) == ConvertToAssetsFloor(shares, totalSupply, TotalAssets)

\* The conversions of deposit and withdraw, of mint, and of redeem divide by
\* these figures, unless they quote one for one.
SharesPriced == totalSupply # 0 /\ TotalAssets # 0 => Divides(TotalAssets + VirtualOffset)
MintPriced == totalSupply # 0 /\ TotalAssets # 0 => Divides(totalSupply + VirtualOffset)
AssetsPriced == totalSupply # 0 => Divides(totalSupply + VirtualOffset)

-----------------------------------------------------------------------------
(* Asset token (external) *)

\* token::Client::transfer, which refuses a negative amount and fails on an
\* insufficient balance.
TransferAsset(from, to, amount) ==
  /\ 0 <= amount /\ amount <= asset[from]
  /\ asset' = [asset EXCEPT ![from] = @ - amount, ![to] = @ + amount]

\* asset_balance_of_vault
Cash == asset[Vault]

-----------------------------------------------------------------------------
(* Epoch snapshots *)

\* Mutant: snapshots already taken are taken again.
SnapshotTakenAgain(user) ==
  [e \in DOMAIN sharesAtEpoch[user] \cup (lastInteraction[user] + 1)..CurrentEpoch |->
     balance[user]]

\* update_user_snapshot: every epoch since the last interaction that has no
\* snapshot yet records the balance the user holds now.
SnapshotOf(user) ==
  LET have == DOMAIN sharesAtEpoch[user]
  IN  [e \in have \cup (lastInteraction[user] + 1)..CurrentEpoch |->
         IF e \in have THEN sharesAtEpoch[user][e] ELSE balance[user]]

UpdateSnapshots(parties) ==
  /\ sharesAtEpoch' = [u \in Users |-> IF u \in parties THEN SnapshotOf(u)
                                       ELSE sharesAtEpoch[u]]
  /\ lastInteraction' = [u \in Users |-> IF u \in parties THEN CurrentEpoch
                                         ELSE lastInteraction[u]]

\* _get_user_shares_for_epoch
SharesForEpoch(user, epoch) ==
  IF epoch \in DOMAIN sharesAtEpoch[user] THEN sharesAtEpoch[user][epoch]
  ELSE balance[user]

-----------------------------------------------------------------------------
(* Share token storage *)

\* get_share_allowance: an expired allowance counts as none.
AllowanceOf(owner, spender) ==
  IF now > allowance[owner][spender].expires THEN 0
  ELSE allowance[owner][spender].amount

SpendAllowance(owner, spender, amount) ==
  /\ amount <= AllowanceOf(owner, spender)
  /\ allowance' = [allowance EXCEPT ![owner][spender].amount =
                     AllowanceOf(owner, spender) - amount]

\* withdraw, redeem and redeem_at_maturity charge a caller who is not the owner.
ChargeCaller(owner, caller, shares) ==
  IF caller = owner THEN UNCHANGED allowance
  ELSE SpendAllowance(owner, caller, shares)

\* Mutant: a burn of more than the balance burns the balance.
BurnAtMostBalance(user, shares) ==
  /\ UpdateSnapshots({user})
  /\ balance' = [balance EXCEPT ![user] = IF shares <= @ THEN @ - shares ELSE 0]
  /\ totalSupply' = totalSupply - shares

\* Transfers, burns and mints take an i128 and never look at its sign: a negative
\* amount passes every comparison with a balance or an allowance.
NoteSign(amount) == negativeCalls' = (negativeCalls \/ amount < 0)

\* _burn
Burn(user, shares) ==
  /\ UpdateSnapshots({user})
  /\ shares <= balance[user]
  /\ balance' = [balance EXCEPT ![user] = @ - shares]
  /\ totalSupply' = totalSupply - shares

\* Mutant: the floor at zero is lost.
LowerBelowZero(user, assets) ==
  userDeposited' = [userDeposited EXCEPT ![user] = @ - assets]

\* put_user_deposited(.., (user_dep - assets).max(0))
LowerUserDeposited(user, assets) ==
  userDeposited' = [userDeposited EXCEPT ![user] = IF assets <= @ THEN @ - assets ELSE 0]

HoldsNothing(user) == balance[user] = 0 /\ escrow[user] = 0
=============================================================================
