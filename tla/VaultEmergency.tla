--------------------------- MODULE VaultEmergency ----------------------------
(***************************************************************************)
(* Pause and freeze, the single-key emergency withdrawal, and pro-rata     *)
(* claims of what is left in the vault.  The multi-signature path is not   *)
(* configured in this model.                                               *)
(***************************************************************************)
EXTENDS VaultBase

unstoppedVars == <<now, negativeCalls, lifeVars, complianceVars, shareVars, allowance, fundVars,
                   investorVars, snapshotVars, epochVars, claimVars, requests,
                   emergencyVars>>

Stop(isPaused, flags) ==
  /\ paused' = isPaused
  /\ freezeFlags' = flags

Pause == Stop(TRUE, Freezable) /\ UNCHANGED <<unstoppedVars, asset, outflow>>
Unpause == Stop(FALSE, {}) /\ UNCHANGED <<unstoppedVars, asset, outflow>>
SetFreezeFlags(flags) == Stop(paused, flags) /\ UNCHANGED <<unstoppedVars, asset, outflow>>

\* Everything the vault holds goes to the recipient; only in a paused vault.
EmergencyWithdraw(recipient) ==
  /\ paused
  /\ Stop(TRUE, Freezable)
  /\ TransferAsset(Vault, recipient, Cash)
  /\ outflow' = outflow + Cash
  /\ UNCHANGED unstoppedVars

\* From any state, and again from Emergency: the balance and the supply of this
\* moment become the base of the claims.  Who has claimed is not forgotten.
EmergencyEnableProRata ==
  /\ totalSupply > 0
  /\ vaultState' = "Emergency"
  /\ emergency' = [emergency EXCEPT !.balance = Cash, !.supply = totalSupply]
  /\ paused' = TRUE
  /\ emergencyPaid' = 0
  /\ UNCHANGED <<now, negativeCalls, config, freezeFlags, complianceVars, shareVars, allowance,
                 fundVars, investorVars, asset, snapshotVars, epochVars, claimVars,
                 requests, outflow>>

\* Mutant: the part is taken of the supply of now, not of the frozen one.
ClaimOfCurrentSupply(user) ==
  LET shares == balance[user]
      amount == MulDiv(emergency.balance, shares, totalSupply)
  IN
  /\ vaultState = "Emergency"
  /\ user \notin emergency.claimed
  /\ shares > 0 /\ totalSupply > 0
  /\ emergency' = [emergency EXCEPT !.claimed = @ \cup {user}]
  /\ Burn(user, shares)
  /\ TransferAsset(Vault, user, amount)
  /\ outflow' = outflow + amount
  /\ emergencyPaid' = emergencyPaid + amount
  /\ UNCHANGED <<now, negativeCalls, lifeVars, stopVars, complianceVars, escrow, allowance,
                 fundVars, investorVars, epochVars, claimVars, requests>>

\* One claim per user, for the shares of the balance (escrow is left out).
EmergencyClaim(user) ==
  LET shares == balance[user]
      amount == MulDiv(emergency.balance, shares, emergency.supply)
  IN
  /\ vaultState = "Emergency"
  /\ user \notin emergency.claimed
  /\ shares > 0
  /\ emergency' = [emergency EXCEPT !.claimed = @ \cup {user}]
  /\ Burn(user, shares)
  /\ TransferAsset(Vault, user, amount)
  /\ outflow' = outflow + amount
  /\ emergencyPaid' = emergencyPaid + amount
  /\ UNCHANGED <<now, negativeCalls, lifeVars, stopVars, complianceVars, escrow, allowance,
                 fundVars, investorVars, epochVars, claimVars, requests>>

FreezeNext ==
  \/ Pause
  \/ Unpause
  \/ \E flags \in SUBSET Freezable : SetFreezeFlags(flags)

EmergencyNext ==
  \/ \E recipient \in Users \cup {Operator} : EmergencyWithdraw(recipient)
  \/ EmergencyEnableProRata
  \/ \E user \in Users : EmergencyClaim(user)
=============================================================================
