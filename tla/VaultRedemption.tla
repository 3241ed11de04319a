--------------------------- MODULE VaultRedemption ---------------------------
(***************************************************************************)
(* Redemption at maturity, which claims the pending yield on the way, and  *)
(* the queue of early redemption requests whose shares wait in escrow.     *)
(***************************************************************************)
EXTENDS VaultInvest, VaultYield

\* The lock-up does not bind here.  When there is yield to pay, it is paid and
\* every epoch so far is marked claimed; the claim cursor stays where it was.
RedeemAtMaturity(caller, shares, receiver, owner) ==
  LET pending == PendingYield(owner)
      paid == IF pending > 0 THEN pending ELSE 0
  IN
  /\ MayExit(caller, receiver, owner)
  /\ vaultState = "Matured"
  /\ shares > 0
  /\ AssetsPriced
  /\ NotDust(shares, AssetsFor(shares))
  /\ hasClaimed' = [hasClaimed EXCEPT ![owner] = IF pending > 0 THEN @ \cup 1..CurrentEpoch
                                                 ELSE @]
  /\ totalYieldClaimed' = [totalYieldClaimed EXCEPT ![owner] = @ + paid]
  /\ yieldClaimsVolume' = yieldClaimsVolume + paid
  /\ Credit(owner, IF pending > 0 THEN UnclaimedEpochs(owner) ELSE {})
  /\ Exit(caller, receiver, owner, AssetsFor(shares), shares, paid)
  /\ UNCHANGED <<lastClaimed, epochYieldClaimed, yieldShortfall>>

-----------------------------------------------------------------------------
(* Early redemption queue *)

Pending(id) == requests[id].status = "Pending"

\* The value of the shares is fixed now; they move from balance to escrow.
RequestEarlyRedemption(user, shares) ==
  /\ NotFrozen("WithdrawRedeem")
  /\ vaultState = "Active"
  /\ NotBlacklisted({user})
  /\ shares > 0
  /\ LockUpElapsed(user)
  /\ shares <= balance[user]
  /\ AssetsPriced
  /\ NotDust(shares, AssetsFor(shares))
  /\ Len(requests) < MaxRequests
  /\ UpdateSnapshots({user})
  /\ balance' = [balance EXCEPT ![user] = @ - shares]
  /\ escrow' = [escrow EXCEPT ![user] = @ + shares]
  /\ requests' = Append(requests, [user |-> user, shares |-> shares,
                                   value |-> AssetsFor(shares), status |-> "Pending"])
  /\ UNCHANGED <<now, negativeCalls, lifeVars, stopVars, complianceVars, totalSupply, allowance,
                 fundVars, investorVars, asset, epochVars, claimVars,
                 emergencyVars, outflow>>

\* The locked value less the fee, whatever the price has done since.  The
\* investor count is left as it is even when this was the last of the shares.
ProcessEarlyRedemption(id) ==
  LET req == requests[id]
      net == req.value - EarlyRedemptionFee(req.value, config.feeBps)
  IN
  /\ vaultState = "Active"
  /\ Pending(id)
  /\ req.shares <= escrow[req.user]
  /\ requests' = [requests EXCEPT ![id].status = "Approved"]
  /\ escrow' = [escrow EXCEPT ![req.user] = @ - req.shares]
  /\ totalSupply' = totalSupply - req.shares
  /\ totalDeposited' = totalDeposited - net
  /\ LowerUserDeposited(req.user, net)
  /\ TransferAsset(Vault, req.user, net)
  /\ UNCHANGED <<now, negativeCalls, lifeVars, stopVars, complianceVars, balance, allowance,
                 investorVars, snapshotVars, epochVars, claimVars, emergencyVars,
                 outflow>>

\* Mutant: the request stays pending.
ReturnKeepingRequest(id) ==
  LET req == requests[id] IN
  /\ Pending(id)
  /\ req.shares <= escrow[req.user]
  /\ UpdateSnapshots({req.user})
  /\ escrow' = [escrow EXCEPT ![req.user] = @ - req.shares]
  /\ balance' = [balance EXCEPT ![req.user] = @ + req.shares]
  /\ UNCHANGED <<now, negativeCalls, lifeVars, stopVars, complianceVars, totalSupply, allowance,
                 fundVars, investorVars, asset, epochVars, claimVars, requests,
                 emergencyVars, outflow>>

\* Shares go back from escrow to the balance, in any state of the vault.
ReturnFromEscrow(id) ==
  LET req == requests[id] IN
  /\ Pending(id)
  /\ req.shares <= escrow[req.user]
  /\ requests' = [requests EXCEPT ![id].status = "Rejected"]
  /\ UpdateSnapshots({req.user})
  /\ escrow' = [escrow EXCEPT ![req.user] = @ - req.shares]
  /\ balance' = [balance EXCEPT ![req.user] = @ + req.shares]
  /\ UNCHANGED <<now, negativeCalls, lifeVars, stopVars, complianceVars, totalSupply, allowance,
                 fundVars, investorVars, asset, epochVars, claimVars,
                 emergencyVars, outflow>>

CancelEarlyRedemption(caller, id) ==
  /\ requests[id].user = caller
  /\ ReturnFromEscrow(id)

RejectEarlyRedemption(id) == ReturnFromEscrow(id)

RedemptionNext ==
  \/ \E caller, receiver, owner \in Users, shares \in ShareAmounts :
       RedeemAtMaturity(caller, shares, receiver, owner)
  \/ \E user \in Users, shares \in ShareAmounts : RequestEarlyRedemption(user, shares)
  \/ \E id \in 1..Len(requests) : \/ ProcessEarlyRedemption(id)
                                  \/ RejectEarlyRedemption(id)
                                  \/ \E caller \in Users : CancelEarlyRedemption(caller, id)
=============================================================================
