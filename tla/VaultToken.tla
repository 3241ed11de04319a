----------------------------- MODULE VaultToken ------------------------------
(***************************************************************************)
(* The shares as a SEP-41 token, and the compliance lists its transfers    *)
(* consult.                                                                *)
(***************************************************************************)
EXTENDS VaultBase

tokenUnchanged == <<now, lifeVars, stopVars, complianceVars, escrow, fundVars,
                    investorVars, asset, epochVars, claimVars, requests,
                    emergencyVars, outflow>>

Approve(from, spender, amount, expires) ==
  /\ amount > 0 => now <= expires
  /\ allowance' = [allowance EXCEPT ![from][spender] =
                     [amount |-> amount, expires |-> expires]]
  /\ UNCHANGED <<tokenUnchanged, balance, totalSupply, snapshotVars, negativeCalls>>

\* A transfer to oneself changes no balance.
BalancesAfterMove(from, to, amount) ==
  [[balance EXCEPT ![from] = @ - amount] EXCEPT ![to] = @ + amount]

\* Both parties are snapshotted before the shares move.  A negative amount moves
\* shares of `to`, who need not hold them, to `from`.
MoveShares(from, to, amount) ==
  /\ LockUpElapsed(from)
  /\ TransferPartiesAllowed(from, to)
  /\ UpdateSnapshots({from, to})
  /\ amount <= balance[from]
  /\ balance' = BalancesAfterMove(from, to, amount)
  /\ NoteSign(amount)
  /\ UNCHANGED <<tokenUnchanged, totalSupply>>

Transfer(from, to, amount) ==
  /\ MoveShares(from, to, amount)
  /\ UNCHANGED allowance

TransferFrom(spender, from, to, amount) ==
  /\ NotBlacklisted({spender})
  /\ SpendAllowance(from, spender, amount)
  /\ MoveShares(from, to, amount)

\* burn and burn_from look at no state, freeze, lock-up or blacklist, and leave
\* the total assets as they are; a negative amount adds shares.
BurnShares(from, amount) ==
  /\ Burn(from, amount)
  /\ NoteSign(amount)
  /\ UNCHANGED <<tokenUnchanged, allowance>>

BurnFrom(spender, from, amount) ==
  /\ SpendAllowance(from, spender, amount)
  /\ Burn(from, amount)
  /\ NoteSign(amount)
  /\ UNCHANGED tokenUnchanged

TransferNext ==
  \E from \in Users, amount \in ShareAmounts :
    \/ BurnShares(from, amount)
    \/ \E to \in Users : Transfer(from, to, amount)

AllowanceNext ==
  \E from, spender \in Users, amount \in ShareAmounts :
    \/ \E expires \in 0..MaxTime : Approve(from, spender, amount, expires)
    \/ \E to \in Users : TransferFrom(spender, from, to, amount)
    \/ BurnFrom(spender, from, amount)

-----------------------------------------------------------------------------
(* Compliance *)

complianceUnchanged == <<now, negativeCalls, vaultState, stopVars, shareVars, allowance, fundVars,
                         investorVars, asset, snapshotVars, epochVars, claimVars,
                         requests, emergencyVars, outflow>>

SetBlacklisted(user, status) ==
  /\ blacklisted' = IF status THEN blacklisted \cup {user} ELSE blacklisted \ {user}
  /\ UNCHANGED <<complianceUnchanged, config, kycApproved, transferExempt>>

SetTransferExempt(user, exempt) ==
  /\ transferExempt' = IF exempt THEN transferExempt \cup {user} ELSE transferExempt \ {user}
  /\ UNCHANGED <<complianceUnchanged, config, kycApproved, blacklisted>>

SetTransferRequiresKyc(enabled) ==
  /\ config' = [config EXCEPT !.transferRequiresKyc = enabled]
  /\ UNCHANGED <<complianceUnchanged, complianceVars>>

\* External: the zkMe verifier approves or revokes a user at any time, and the
\* operators may point the vault at another verifier or cooperator.
KycChanges(approved) ==
  /\ kycApproved' = approved
  /\ UNCHANGED <<complianceUnchanged, config, blacklisted, transferExempt>>

ComplianceNext ==
  \/ \E user \in Users, on \in BOOLEAN : \/ SetBlacklisted(user, on)
                                         \/ SetTransferExempt(user, on)
  \/ \E on \in BOOLEAN : SetTransferRequiresKyc(on)
  \/ \E approved \in SUBSET Users : KycChanges(approved)
=============================================================================
