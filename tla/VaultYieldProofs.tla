-------------------------- MODULE VaultYieldProofs ---------------------------
(***************************************************************************)
(* Yield: past epochs stay attributed to the shares held at the time and a *)
(* claimed epoch is never credited again, whatever the calls name; the     *)
(* entitlements to an epoch never exceed its yield, and nobody is credited *)
(* more than an entitlement, until a call names a negative number of       *)
(* shares.                                                                 *)
(***************************************************************************)
EXTENDS VaultPriceProofs

-----------------------------------------------------------------------------
(* Epoch snapshots *)

\* The shares attributed to past epochs do not move in a step that snapshots
\* every party whose balance it changes.
LEMMA SnapshotKeepsShares ==
  ASSUME TypeOK, NEW parties \in SUBSET Users, UpdateSnapshots(parties),
         \A u \in Users \ parties : balance'[u] = balance[u],
         UNCHANGED epochVars,
         NEW user \in Users, NEW epoch \in 1..CurrentEpoch
  PROVE  SharesForEpoch(user, epoch)' = SharesForEpoch(user, epoch)
<1>1. /\ CurrentEpoch \in Nat
      /\ lastInteraction[user] \in 0..CurrentEpoch
      /\ DOMAIN sharesAtEpoch[user] = 1..lastInteraction[user]
  BY DEF TypeOK, SnapshotsOK, EpochsOK, CurrentEpoch
<1>2. CASE user \in parties
  <2>1. sharesAtEpoch'[user] = SnapshotOf(user)
    BY <1>2 DEF UpdateSnapshots
  <2>2. epoch \in DOMAIN SnapshotOf(user)
    BY <1>1 DEF SnapshotOf
  <2>3. SnapshotOf(user)[epoch] = SharesForEpoch(user, epoch)
    BY <2>2 DEF SnapshotOf, SharesForEpoch
  <2> QED BY <2>1, <2>2, <2>3 DEF SharesForEpoch
<1>3. CASE user \notin parties
  BY <1>3 DEF UpdateSnapshots, SharesForEpoch
<1> QED BY <1>2, <1>3

\* So a step that adds no epoch and snapshots whoever it moves shares of keeps
\* the attribution right.
LEMMA SnapshotKeepsIntegrity ==
  ASSUME TypeOK, SnapshotIntegrity, UNCHANGED epochVars,
         \/ UNCHANGED <<balance, snapshotVars>>
         \/ \E parties \in SUBSET Users :
              /\ UpdateSnapshots(parties)
              /\ \A u \in Users \ parties : balance'[u] = balance[u]
  PROVE  SnapshotIntegrity'
<1>1. CurrentEpoch' = CurrentEpoch /\ holdersAt' = holdersAt
  BY DEF epochVars, CurrentEpoch
<1>2. ASSUME NEW u \in Users, NEW e \in 1..CurrentEpoch
      PROVE SharesForEpoch(u, e)' = SharesForEpoch(u, e)
  <2>1. CASE UNCHANGED <<balance, snapshotVars>>
    BY <2>1 DEF SharesForEpoch, snapshotVars
  <2>2. CASE \E parties \in SUBSET Users :
               /\ UpdateSnapshots(parties)
               /\ \A v \in Users \ parties : balance'[v] = balance[v]
    BY <2>2, SnapshotKeepsShares
  <2> QED BY <2>1, <2>2
<1> QED BY <1>1, <1>2 DEF SnapshotIntegrity

\* The new epoch has no snapshot, so it is attributed to the balances at its
\* distribution.
LEMMA DistributionKeepsIntegrity ==
  ASSUME TypeOK, SnapshotIntegrity, NEW amount, DistributeYield(amount)
  PROVE  SnapshotIntegrity'
<1>1. PICK record : epochs' = Append(epochs, record)
  BY DEF DistributeYield
<1>2. /\ holdersAt' = Append(holdersAt, balance)
      /\ UNCHANGED <<balance, sharesAtEpoch>>
  BY DEF DistributeYield, shareVars, snapshotVars
<1>3. /\ CurrentEpoch \in Nat /\ CurrentEpoch' = CurrentEpoch + 1
      /\ Len(holdersAt) = CurrentEpoch
      /\ holdersAt \in Seq([Users -> Int])
  BY <1>1 DEF TypeOK, EpochsOK, CurrentEpoch
<1>4. ASSUME NEW u \in Users, NEW e \in 1..CurrentEpoch'
      PROVE SharesForEpoch(u, e)' = holdersAt'[e][u]
  <2>1. SharesForEpoch(u, e)' = SharesForEpoch(u, e)
    BY <1>2 DEF SharesForEpoch
  <2>2. CASE e \in 1..CurrentEpoch
    <3>1. holdersAt'[e] = holdersAt[e] BY <1>2, <1>3, <2>2
    <3> QED BY <2>1, <2>2, <3>1 DEF SnapshotIntegrity
  <2>3. CASE e = CurrentEpoch + 1
    <3>1. holdersAt'[e] = balance BY <1>2, <1>3, <2>3
    <3>2. /\ lastInteraction[u] \in 0..CurrentEpoch
          /\ DOMAIN sharesAtEpoch[u] = 1..lastInteraction[u]
      BY DEF TypeOK, SnapshotsOK, CurrentEpoch
    <3>3. e \notin DOMAIN sharesAtEpoch[u] BY <1>3, <2>3, <3>2
    <3> QED BY <2>1, <3>1, <3>3 DEF SharesForEpoch
  <2> QED BY <1>3, <2>2, <2>3
<1> QED BY <1>4 DEF SnapshotIntegrity

\* Burns snapshot their user.
LEMMA BurnSnapshots ==
  ASSUME TypeOK, NEW user \in Users, NEW shares, Burn(user, shares)
  PROVE  \E parties \in SUBSET Users :
           /\ UpdateSnapshots(parties)
           /\ \A u \in Users \ parties : balance'[u] = balance[u]
<1>1. /\ UpdateSnapshots({user})
      /\ balance' = [balance EXCEPT ![user] = @ - shares]
  BY DEF Burn
<1>2. \A u \in Users \ {user} : balance'[u] = balance[u]
  BY <1>1 DEF TypeOK, SharesOK
<1> QED BY <1>1, <1>2

\* Every call keeps past epochs attributed to the shares held at the time.
LEMMA NextKeepsIntegrity ==
  ASSUME TypeOK, SnapshotIntegrity, [Next]_vars
  PROVE  SnapshotIntegrity'
<1> DEFINE Recorded == \E parties \in SUBSET Users :
                         /\ UpdateSnapshots(parties)
                         /\ \A u \in Users \ parties : balance'[u] = balance[u]
           Kept == UNCHANGED epochVars /\ (UNCHANGED <<balance, snapshotVars>> \/ Recorded)
<1>0. Kept => SnapshotIntegrity' BY SnapshotKeepsIntegrity
<1>1. ASSUME NEW user \in Users, NEW shares, Burn(user, shares) PROVE Recorded
  BY <1>1, BurnSnapshots
<1>2. CASE InvestNext
  <2>1. ASSUME NEW caller, NEW receiver \in Users, NEW assets, NEW shares,
               Invest(caller, receiver, assets, shares)
        PROVE  Kept
    BY <2>1 DEF Invest, TypeOK, SharesOK
  <2>2. ASSUME NEW caller, NEW receiver, NEW owner \in Users, NEW assets, NEW shares,
               NEW yield, Exit(caller, receiver, owner, assets, shares, yield)
        PROVE  Kept
    BY <1>1, <2>2 DEF Exit
  <2> HIDE DEF Kept
  <2> QED BY <1>0, <1>2, <2>1, <2>2 DEF InvestNext, Deposit, Mint, Withdraw, Redeem
<1>3. CASE YieldNext
  <2>1. ASSUME NEW user \in Users, ClaimYield(user) PROVE Kept
    BY <2>1 DEF ClaimYield, shareVars
  <2>2. ASSUME NEW user \in Users, NEW epoch, ClaimYieldForEpoch(user, epoch) PROVE Kept
    BY <2>2 DEF ClaimYieldForEpoch, shareVars
  <2>3. ASSUME NEW user \in Users, NEW amount, ResolveYieldShortfall(user, amount) PROVE Kept
    BY <2>3 DEF ResolveYieldShortfall, shareVars
  <2> HIDE DEF Kept
  <2> QED
    BY <1>0, <1>3, <2>1, <2>2, <2>3, DistributionKeepsIntegrity DEF YieldNext
<1>4. CASE LifecycleNext
  <2>1. ASSUME NEW user \in Users, Refund(user) PROVE Kept
    BY <1>1, <2>1 DEF Refund, otherVars
  <2>2. ASSUME NEW state, MoveTo(state) PROVE Kept
    BY <2>2 DEF MoveTo, otherVars, shareVars
  <2> HIDE DEF Kept
  <2> QED
    BY <1>0, <1>4, <2>1, <2>2
    DEF LifecycleNext, ActivateVault, CancelFunding, MatureVault, CloseVault
<1>5. CASE LimitsNext \/ TermsNext
  <2>1. ASSUME NEW c, Configure(c) PROVE Kept
    BY <2>1 DEF Configure, otherVars, shareVars
  <2> HIDE DEF Kept
  <2> QED
    BY <1>0, <1>5, <2>1
    DEF LimitsNext, TermsNext, SetFundingTarget, SetMinDeposit, SetMaxDepositPerUser,
        SetDepositLimits, SetMaxInvestors, SetEarlyRedemptionFee, SetMaturityDate,
        SetYieldVestingPeriod, SetLockUpPeriod
<1>6. CASE RedemptionNext
  <2>1. ASSUME NEW caller, NEW receiver, NEW owner \in Users, NEW shares,
               RedeemAtMaturity(caller, shares, receiver, owner)
        PROVE  Kept
    BY <1>1, <2>1 DEF RedeemAtMaturity, Exit
  <2>2. ASSUME NEW user \in Users, NEW shares, RequestEarlyRedemption(user, shares) PROVE Kept
    BY <2>2 DEF RequestEarlyRedemption, TypeOK, SharesOK
  <2>3. ASSUME NEW id \in 1..Len(requests), ProcessEarlyRedemption(id) PROVE Kept
    BY <2>3 DEF ProcessEarlyRedemption
  <2>4. ASSUME NEW id \in 1..Len(requests), ReturnFromEscrow(id) PROVE Kept
    BY <2>4, RequestType DEF ReturnFromEscrow, TypeOK, SharesOK
  <2> HIDE DEF Kept
  <2> QED
    BY <1>0, <1>6, <2>1, <2>2, <2>3, <2>4
    DEF RedemptionNext, CancelEarlyRedemption, RejectEarlyRedemption
<1>7. CASE FreezeNext
  BY <1>0, <1>7 DEF FreezeNext, Pause, Unpause, SetFreezeFlags, unstoppedVars, shareVars
<1>8. CASE EmergencyNext
  <2>1. ASSUME NEW user \in Users, EmergencyClaim(user) PROVE Kept
    BY <1>1, <2>1 DEF EmergencyClaim
  <2>2. ASSUME NEW recipient, EmergencyWithdraw(recipient) PROVE Kept
    BY <2>2 DEF EmergencyWithdraw, unstoppedVars, shareVars
  <2>3. EmergencyEnableProRata => Kept
    BY DEF EmergencyEnableProRata, shareVars
  <2> HIDE DEF Kept
  <2> QED BY <1>0, <1>8, <2>1, <2>2, <2>3 DEF EmergencyNext
<1>9. ASSUME NEW from \in Users, NEW to \in Users, NEW amount, MoveShares(from, to, amount)
      PROVE Kept
  <2>1. /\ UpdateSnapshots({from, to})
        /\ balance' = [[balance EXCEPT ![from] = @ - amount] EXCEPT ![to] = @ + amount]
        /\ UNCHANGED epochVars
    BY <1>9 DEF MoveShares, BalancesAfterMove, tokenUnchanged
  <2>2. \A u \in Users \ {from, to} : balance'[u] = balance[u]
    BY <2>1 DEF TypeOK, SharesOK
  <2> QED BY <2>1, <2>2
<1>10. CASE TransferNext \/ AllowanceNext
  <2>1. ASSUME NEW from, NEW spender, NEW amount, NEW expires,
               Approve(from, spender, amount, expires)
        PROVE  Kept
    BY <2>1 DEF Approve, tokenUnchanged
  <2>2. ASSUME NEW from \in Users, NEW amount, BurnShares(from, amount) PROVE Kept
    BY <1>1, <2>2 DEF BurnShares, tokenUnchanged
  <2>3. ASSUME NEW spender, NEW from \in Users, NEW amount, BurnFrom(spender, from, amount)
        PROVE Kept
    BY <1>1, <2>3 DEF BurnFrom, tokenUnchanged
  <2> HIDE DEF Kept
  <2> QED
    BY <1>0, <1>9, <1>10, <2>1, <2>2, <2>3
    DEF TransferNext, AllowanceNext, Transfer, TransferFrom
<1>11. CASE ComplianceNext \/ AdvanceTime \/ UNCHANGED vars
  <2>1. Kept
    BY <1>11
    DEF ComplianceNext, SetBlacklisted, SetTransferExempt, SetTransferRequiresKyc,
        KycChanges, complianceUnchanged, AdvanceTime, vars, shareVars
  <2> HIDE DEF Kept
  <2> QED BY <1>0, <2>1
<1> HIDE DEF Kept
<1> QED
  BY <1>2, <1>3, <1>4, <1>5, <1>6, <1>7, <1>8, <1>10, <1>11 DEF Next

\* For any number of users, epochs and amounts: whatever a holder did since, the
\* yield of an epoch is computed from the shares held when it was distributed.
THEOREM SnapshotsFaithful == Spec => []SnapshotIntegrity
<1>1. Init => SnapshotIntegrity
  BY DEF Init, SnapshotIntegrity, CurrentEpoch
<1>2. TypeOK /\ SnapshotIntegrity /\ [Next]_vars => SnapshotIntegrity'
  BY NextKeepsIntegrity
<1> QED BY <1>1, <1>2, TypeInvariant, PTL DEF Spec

-----------------------------------------------------------------------------
(* Claims *)

\* Crediting leaves alone what is marked as claimed: nothing is pending for it.
LEMMA CreditSkipsClaimed ==
  ASSUME TypeOK, NEW user \in Users, NEW covered, Credit(user, covered),
         NEW u \in Users, NEW e \in hasClaimed[u]
  PROVE  credited'[u][e] = credited[u][e]
<1>1. e \in Epochs /\ credited \in [Users -> [Epochs -> Int]]
  <2>1. Len(epochs) \in Nat /\ Len(epochs) <= MaxEpochs BY DEF TypeOK, EpochsOK
  <2>2. e \in 1..Len(epochs) BY DEF TypeOK, ClaimsOK
  <2>3. e \in Epochs BY <2>1, <2>2, BoundAssumption DEF Epochs
  <2> QED BY <2>3 DEF TypeOK, ClaimsOK
<1>2. CASE u # user
  BY <1>1, <1>2 DEF Credit
<1>3. CASE u = user
  <2>1. PendingYieldForEpoch(user, e) = 0
    BY <1>3 DEF PendingYieldForEpoch
  <2>2. credited'[user] =
          [x \in Epochs |-> credited[user][x]
             + (IF x \in covered THEN PendingYieldForEpoch(user, x) ELSE 0)]
    BY <1>1 DEF Credit
  <2>3. credited[user][e] \in Int BY <1>1
  <2> QED BY <1>1, <1>3, <2>1, <2>2, <2>3
<1> QED BY <1>2, <1>3

ClaimedStay == \A u \in Users : \A e \in hasClaimed[u] :
                 e \in hasClaimed'[u] /\ credited'[u][e] = credited[u][e]

\* A step that touches no claim record keeps them.
LEMMA UntouchedClaims == UNCHANGED claimVars => ClaimedStay
  BY DEF claimVars, ClaimedStay

\* No call credits a claimed epoch or forgets that it was claimed.
LEMMA NextKeepsClaimed ==
  ASSUME TypeOK, [Next]_vars
  PROVE  ClaimedStay
<1>1. hasClaimed \in [Users -> SUBSET (1..Len(epochs))]
  BY DEF TypeOK, ClaimsOK
<1>2. CASE InvestNext
  <2>1. UNCHANGED claimVars
    BY <1>2 DEF InvestNext, Deposit, Mint, Withdraw, Redeem, Invest
  <2> QED BY <2>1, UntouchedClaims
<1>3. CASE YieldNext
  <2>1. ASSUME NEW user \in Users, ClaimYield(user) PROVE ClaimedStay
    <3>1. \A u \in Users : hasClaimed[u] \subseteq hasClaimed'[u]
      BY <1>1, <2>1 DEF ClaimYield
    <3>2. Credit(user, UnclaimedEpochs(user)) BY <2>1 DEF ClaimYield
    <3> QED BY <3>1, <3>2, CreditSkipsClaimed DEF ClaimedStay
  <2>2. ASSUME NEW user \in Users, NEW epoch \in 1..CurrentEpoch,
               ClaimYieldForEpoch(user, epoch)
        PROVE ClaimedStay
    <3>1. \/ hasClaimed' = [hasClaimed EXCEPT ![user] = hasClaimed[user] \cup {epoch}]
          \/ hasClaimed' = hasClaimed
      BY <2>2 DEF ClaimYieldForEpoch
    <3>2. \A u \in Users : hasClaimed[u] \subseteq hasClaimed'[u]
      BY <1>1, <3>1
    <3>3. Credit(user, {epoch}) BY <2>2 DEF ClaimYieldForEpoch
    <3> QED BY <3>2, <3>3, CreditSkipsClaimed DEF ClaimedStay
  <2>3. ASSUME NEW user, NEW amount, ResolveYieldShortfall(user, amount) PROVE ClaimedStay
    BY <2>3 DEF ResolveYieldShortfall, ClaimedStay
  <2>4. ASSUME NEW amount, DistributeYield(amount) PROVE ClaimedStay
    BY <2>4, UntouchedClaims DEF DistributeYield
  <2> QED BY <1>3, <2>1, <2>2, <2>3, <2>4 DEF YieldNext
<1>4. CASE RedemptionNext
  <2>1. ASSUME NEW caller, NEW receiver, NEW owner \in Users, NEW shares,
               RedeemAtMaturity(caller, shares, receiver, owner)
        PROVE  ClaimedStay
    <3>1. \/ hasClaimed' = [hasClaimed EXCEPT ![owner] = @ \cup 1..CurrentEpoch]
          \/ hasClaimed' = [hasClaimed EXCEPT ![owner] = @]
      BY <2>1 DEF RedeemAtMaturity
    <3>2. \A u \in Users : hasClaimed[u] \subseteq hasClaimed'[u]
      BY <1>1, <3>1
    <3>3. \E covered : Credit(owner, covered) BY <2>1 DEF RedeemAtMaturity
    <3> QED BY <3>2, <3>3, CreditSkipsClaimed DEF ClaimedStay
  <2>2. ASSUME NEW user, NEW shares, RequestEarlyRedemption(user, shares) PROVE ClaimedStay
    BY <2>2, UntouchedClaims DEF RequestEarlyRedemption
  <2>3. ASSUME NEW id, ProcessEarlyRedemption(id) \/ ReturnFromEscrow(id) PROVE ClaimedStay
    BY <2>3, UntouchedClaims DEF ProcessEarlyRedemption, ReturnFromEscrow
  <2> QED
    BY <1>4, <2>1, <2>2, <2>3
    DEF RedemptionNext, CancelEarlyRedemption, RejectEarlyRedemption
<1>5. CASE LifecycleNext \/ LimitsNext \/ TermsNext
  <2>1. UNCHANGED claimVars
    BY <1>5
    DEF LifecycleNext, LimitsNext, TermsNext, ActivateVault, CancelFunding, MatureVault,
        CloseVault, MoveTo, Refund, SetFundingTarget, SetMinDeposit, SetMaxDepositPerUser,
        SetDepositLimits, SetMaxInvestors, SetEarlyRedemptionFee, SetMaturityDate,
        SetYieldVestingPeriod, SetLockUpPeriod, Configure, otherVars
  <2> QED BY <2>1, UntouchedClaims
<1>6. CASE FreezeNext \/ EmergencyNext
  <2>1. UNCHANGED claimVars
    BY <1>6
    DEF FreezeNext, EmergencyNext, Pause, Unpause, SetFreezeFlags, EmergencyWithdraw,
        EmergencyEnableProRata, EmergencyClaim, unstoppedVars
  <2> QED BY <2>1, UntouchedClaims
<1>7. CASE TransferNext \/ AllowanceNext
  <2>1. UNCHANGED claimVars
    BY <1>7
    DEF TransferNext, AllowanceNext, Approve, BurnShares, BurnFrom, Transfer,
        TransferFrom, MoveShares, tokenUnchanged
  <2> QED BY <2>1, UntouchedClaims
<1>8. CASE ComplianceNext \/ AdvanceTime \/ UNCHANGED vars
  <2>1. UNCHANGED claimVars
    BY <1>8
    DEF ComplianceNext, SetBlacklisted, SetTransferExempt, SetTransferRequiresKyc,
        KycChanges, complianceUnchanged, AdvanceTime, vars
  <2> QED BY <2>1, UntouchedClaims
<1> QED BY <1>2, <1>3, <1>4, <1>5, <1>6, <1>7, <1>8 DEF Next

\* Once an epoch is marked as claimed for a user, no path (claim_yield, one epoch
\* at a time, redeem_at_maturity) credits it again or takes the mark away.
THEOREM ClaimedNeverCreditedAgain == Spec => ClaimedIsFinal
<1>1. TypeOK /\ [Next]_vars =>
        [\A u \in Users : \A e \in hasClaimed[u] :
           e \in hasClaimed'[u] /\ credited'[u][e] = credited[u][e]]_vars
  BY NextKeepsClaimed DEF ClaimedStay
<1> QED BY <1>1, TypeInvariant, PTL DEF Spec, ClaimedIsFinal

-----------------------------------------------------------------------------
(* Entitlements *)

\* Nobody held a negative number of shares at a distribution, and all of them
\* together were within the supply it divides by.
HoldersWithinEpoch ==
  \A e \in 1..CurrentEpoch : /\ holdersAt[e] \in [Users -> Nat]
                             /\ Total(holdersAt[e], Users) <= epochs[e].totalShares

\* Only a distribution adds an epoch, at a moment the shares are conserved.
LEMMA NextKeepsHolders ==
  ASSUME TypeOK, Natural, ShareConservation, HoldersWithinEpoch, [Next]_vars
  PROVE  HoldersWithinEpoch'
<1>0. UNCHANGED epochVars => HoldersWithinEpoch'
  BY DEF HoldersWithinEpoch, epochVars, CurrentEpoch
<1>1. CASE YieldNext
  <2>1. ASSUME NEW amount \in YieldAmounts, DistributeYield(amount)
        PROVE  HoldersWithinEpoch'
    <3>1. PICK record : /\ epochs' = Append(epochs, record)
                        /\ record.totalShares = totalSupply
      <4> DEFINE r == [yield |-> amount, totalShares |-> totalSupply,
                       timestamp |-> now, totalAssets |-> totalDeposited + amount]
      <4>1. epochs' = Append(epochs, r) BY <2>1 DEF DistributeYield
      <4>2. r.totalShares = totalSupply OBVIOUS
      <4> HIDE DEF r
      <4> QED BY <4>1, <4>2
    <3>2. holdersAt' = Append(holdersAt, balance) BY <2>1 DEF DistributeYield
    <3>3. /\ CurrentEpoch \in Nat /\ CurrentEpoch' = CurrentEpoch + 1
          /\ Len(holdersAt) = CurrentEpoch /\ Len(epochs) = CurrentEpoch
          /\ holdersAt \in Seq([Users -> Int]) /\ epochs \in Seq(EpochRecords)
      BY <3>1 DEF TypeOK, EpochsOK, CurrentEpoch
    <3>4. balance \in [Users -> Nat] /\ Total(balance, Users) <= totalSupply
      BY HoldingsAreNat DEF ShareConservation, Natural
    <3>5. ASSUME NEW e \in 1..(CurrentEpoch + 1)
          PROVE  /\ holdersAt'[e] \in [Users -> Nat]
                 /\ Total(holdersAt'[e], Users) <= epochs'[e].totalShares
      <4>1. CASE e \in 1..CurrentEpoch
        <5>1. holdersAt'[e] = holdersAt[e] /\ epochs'[e] = epochs[e]
          BY <3>1, <3>2, <3>3, <4>1
        <5> QED BY <4>1, <5>1 DEF HoldersWithinEpoch
      <4>2. CASE e = CurrentEpoch + 1
        <5>1. holdersAt'[e] = balance /\ epochs'[e] = record
          BY <3>1, <3>2, <3>3, <4>2
        <5> QED BY <3>1, <3>4, <5>1
      <4> QED BY <3>3, <4>1, <4>2
    <3> QED BY <3>3, <3>5 DEF HoldersWithinEpoch
  <2>2. ASSUME NEW user, ClaimYield(user) PROVE UNCHANGED epochVars
    BY <2>2 DEF ClaimYield
  <2>3. ASSUME NEW user, NEW epoch, ClaimYieldForEpoch(user, epoch) PROVE UNCHANGED epochVars
    BY <2>3 DEF ClaimYieldForEpoch
  <2>4. ASSUME NEW user, NEW amount, ResolveYieldShortfall(user, amount)
        PROVE UNCHANGED epochVars
    BY <2>4 DEF ResolveYieldShortfall
  <2> QED BY <1>0, <1>1, <2>1, <2>2, <2>3, <2>4 DEF YieldNext
<1>2. CASE InvestNext \/ RedemptionNext
  <2>1. InvestNext => UNCHANGED epochVars
    BY DEF InvestNext, Deposit, Mint, Withdraw, Redeem, Invest, Exit
  <2>2. RedemptionNext => UNCHANGED epochVars BY RedemptionStays
  <2> QED BY <1>0, <1>2, <2>1, <2>2
<1>3. CASE LifecycleNext \/ LimitsNext \/ TermsNext
  <2>1. UNCHANGED epochVars
    BY <1>3
    DEF LifecycleNext, LimitsNext, TermsNext, ActivateVault, CancelFunding, MatureVault,
        CloseVault, MoveTo, Refund, SetFundingTarget, SetMinDeposit, SetMaxDepositPerUser,
        SetDepositLimits, SetMaxInvestors, SetEarlyRedemptionFee, SetMaturityDate,
        SetYieldVestingPeriod, SetLockUpPeriod, Configure, otherVars
  <2> QED BY <1>0, <2>1
<1>4. CASE FreezeNext \/ EmergencyNext
  <2>1. UNCHANGED epochVars
    BY <1>4
    DEF FreezeNext, EmergencyNext, Pause, Unpause, SetFreezeFlags, EmergencyWithdraw,
        EmergencyEnableProRata, EmergencyClaim, unstoppedVars
  <2> QED BY <1>0, <2>1
<1>5. CASE TransferNext \/ AllowanceNext
  <2>1. UNCHANGED tokenUnchanged
    BY <1>5
    DEF TransferNext, AllowanceNext, Approve, BurnShares, BurnFrom, Transfer,
        TransferFrom, MoveShares
  <2> QED BY <1>0, <2>1 DEF tokenUnchanged
<1>6. CASE ComplianceNext \/ AdvanceTime \/ UNCHANGED vars
  <2>1. UNCHANGED epochVars
    BY <1>6
    DEF ComplianceNext, SetBlacklisted, SetTransferExempt, SetTransferRequiresKyc,
        KycChanges, complianceUnchanged, AdvanceTime, vars
  <2> QED BY <1>0, <2>1
<1> QED BY <1>1, <1>2, <1>3, <1>4, <1>5, <1>6 DEF Next

\* What an epoch divides, and what it divides by, is natural too.
LEMMA EpochIsNatural ==
  ASSUME TypeOK, SnapshotIntegrity, HoldersWithinEpoch, NEW e \in 1..CurrentEpoch
  PROVE  /\ epochs[e].yield \in Nat /\ epochs[e].totalShares \in Nat
         /\ holdersAt[e] \in [Users -> Nat]
         /\ Total(holdersAt[e], Users) \in Nat
         /\ Total(holdersAt[e], Users) <= epochs[e].totalShares
         /\ \A u \in Users : /\ SharesForEpoch(u, e) = holdersAt[e][u]
                             /\ EpochEntitlement(u, e) \in Nat
<1> DEFINE yield == epochs[e].yield
           shares == epochs[e].totalShares
           held == holdersAt[e]
<1>1. yield \in Nat /\ shares \in Int
  <2>1. epochs \in Seq(EpochRecords) /\ e \in 1..Len(epochs)
    BY DEF TypeOK, EpochsOK, CurrentEpoch
  <2>2. epochs[e] \in EpochRecords BY <2>1
  <2> QED BY <2>2 DEF EpochRecords
<1>2. held \in [Users -> Nat] /\ Total(held, Users) <= shares
  BY DEF HoldersWithinEpoch
<1>3. Total(held, Users) \in Nat
  <2> HIDE DEF held
  <2> QED BY <1>2, UsersAssumption, TotalIsNat
<1>4. shares \in Nat BY <1>1, <1>2, <1>3
<1>5. ASSUME NEW u \in Users
      PROVE  SharesForEpoch(u, e) = held[u] /\ EpochEntitlement(u, e) \in Nat
  <2>1. SharesForEpoch(u, e) = held[u] BY DEF SnapshotIntegrity
  <2>2. held[u] \in Nat BY <1>2
  <2>3. EpochEntitlement(u, e) = IF shares = 0 \/ held[u] = 0 THEN 0
                                 ELSE MulDiv(yield, held[u], shares)
    BY <2>1 DEF EpochEntitlement
  <2> HIDE DEF yield, shares, held
  <2>4. shares # 0 => MulDiv(yield, held[u], shares) \in Nat
    BY <1>1, <1>4, <2>2, MulDivIsNat
  <2> QED BY <2>1, <2>3, <2>4
<1> QED BY <1>1, <1>2, <1>3, <1>4, <1>5

\* The parts of an epoch, each rounded down, add up to at most its yield.
LEMMA PartsWithinYield ==
  ASSUME TypeOK, SnapshotIntegrity, HoldersWithinEpoch, NEW e \in 1..CurrentEpoch
  PROVE  Total([u \in Users |-> EpochEntitlement(u, e)], Users) <= epochs[e].yield
<1> DEFINE part == [u \in Users |-> EpochEntitlement(u, e)]
           yield == epochs[e].yield
           shares == epochs[e].totalShares
           held == holdersAt[e]
<1>1. yield \in Nat /\ shares \in Nat BY EpochIsNatural
<1>2. held \in [Users -> Nat] BY EpochIsNatural
<1>3. \A u \in Users : SharesForEpoch(u, e) = held[u] BY EpochIsNatural
<1>4. IsFiniteSet(Users) BY UsersAssumption
<1>5. Total(held, Users) \in Nat /\ Total(held, Users) <= shares BY EpochIsNatural
<1>6. CASE shares = 0
  <2>1. \A u \in Users : part[u] = 0 BY <1>6 DEF EpochEntitlement
  <2> HIDE DEF part
  <2>2. Total(part, Users) = 0 BY <2>1, TotalZero
  <2> QED BY <1>1, <2>2 DEF part
<1>7. CASE shares # 0
  <2>1. ASSUME NEW u \in Users
        PROVE part[u] \in Nat /\ held[u] \in Nat /\ part[u] * shares <= held[u] * yield
    <3>1. held[u] \in Nat BY <1>2
    <3> DEFINE quotient == MulDiv(yield, held[u], shares)
    <3>2. quotient \in Nat /\ shares * quotient <= yield * held[u]
      <4> HIDE DEF yield, held, shares
      <4> QED BY <1>1, <1>7, <3>1, MulDivIsNat
    <3>3. part[u] = IF held[u] = 0 THEN 0 ELSE quotient
      BY <1>3, <1>7 DEF EpochEntitlement
    <3> HIDE DEF part, yield, held, shares, quotient
    <3>4. CASE held[u] = 0
      BY <1>1, <3>1, <3>3, <3>4
    <3>5. CASE held[u] # 0
      <4>1. part[u] = quotient BY <3>3, <3>5
      <4>2. shares * quotient = quotient * shares /\ yield * held[u] = held[u] * yield
        BY <1>1, <3>1, <3>2
      <4> QED BY <3>1, <3>2, <4>1, <4>2
    <3> QED BY <3>4, <3>5
  <2> HIDE DEF part, yield, held, shares
  <2>2. Total(part, Users) \in Nat BY <1>4, <2>1, TotalIsNat
  <2>3. Total(part, Users) * shares <= Total(held, Users) * yield
    BY <1>1, <1>4, <2>1, TotalOfParts
  <2> DEFINE sum == Total(part, Users)
             all == Total(held, Users)
  <2>4. sum \in Nat /\ all \in Nat /\ all <= shares /\ sum * shares <= all * yield
    BY <1>5, <2>2, <2>3
  <2> HIDE DEF sum, all
  <2>5. ASSUME sum >= yield + 1 PROVE FALSE
    <3>1. (yield + 1) * shares <= sum * shares BY <1>1, <2>4, <2>5
    <3>2. (yield + 1) * shares = yield * shares + shares BY <1>1
    <3>3. all * yield <= yield * shares BY <1>1, <2>4
    <3>4. yield * shares \in Nat /\ sum * shares \in Nat /\ all * yield \in Nat
      BY <1>1, <2>4, ProductIsNat
    <3>5. shares > 0 BY <1>1, <1>7
    <3> QED BY <1>1, <2>4, <3>1, <3>2, <3>3, <3>4, <3>5
  <2>6. sum <= yield BY <1>1, <2>4, <2>5
  <2> QED BY <2>6 DEF sum, part, yield
<1> QED BY <1>6, <1>7

\* Past epochs stay natural until a call names a negative number of shares.
LEMMA HoldersAreNatural == Spec => [](~negativeCalls => HoldersWithinEpoch)
<1>1. Init => HoldersWithinEpoch
  BY DEF Init, HoldersWithinEpoch, CurrentEpoch
<1>2. PriceInv /\ (~negativeCalls => HoldersWithinEpoch) /\ [Next]_vars
        => (~negativeCalls' => HoldersWithinEpoch')
  <2> SUFFICES ASSUME PriceInv, ~negativeCalls => HoldersWithinEpoch, [Next]_vars,
                      ~negativeCalls'
               PROVE  HoldersWithinEpoch'
    OBVIOUS
  <2>1. ~negativeCalls BY NegativesStay
  <2> QED BY <2>1, NextKeepsHolders DEF PriceInv
<1> QED BY <1>1, <1>2, PriceInvariant, PTL DEF Spec

\* Until a call names a negative number of shares, and however shares moved since,
\* the parts of an epoch that its holders can claim never add up to more than the
\* yield that was distributed.
THEOREM YieldNeverOverAllocated == Spec => []YieldNotOverAllocated
<1>1. TypeOK /\ SnapshotIntegrity /\ (~negativeCalls => HoldersWithinEpoch)
        => YieldNotOverAllocated
  BY PartsWithinYield DEF YieldNotOverAllocated
<1> QED BY <1>1, TypeInvariant, SnapshotsFaithful, HoldersAreNatural, PTL

-----------------------------------------------------------------------------
(* Credits *)

\* Vesting may be introduced, and its period changed, but not taken away again.
VestingStays == config.vestingPeriod > 0 => config'.vestingPeriod > 0

\* An epoch exists since a time that is not zero, which pending_yield_for_epoch
\* takes for "no timestamp".
EpochsDated == now >= 1 /\ \A e \in 1..CurrentEpoch : epochs[e].timestamp >= 1
\* The cursor has passed claimed epochs only.
CursorBehind == \A u \in Users : 1..lastClaimed[u] \subseteq hasClaimed[u]
\* What is credited of an epoch that is not claimed yet came from claims of this
\* one epoch, while yield vests.
OpenTraced ==
  \A u \in Users : \A e \in Epochs \ hasClaimed[u] :
    /\ credited[u][e] = epochYieldClaimed[u][e]
    /\ config.vestingPeriod = 0 \/ e > CurrentEpoch => credited[u][e] = 0
ClaimsTraced == EpochsDated /\ CursorBehind /\ OpenTraced

\* What is credited is natural, and within the entitlement.
CreditsBounded == credited \in [Users -> [Epochs -> Nat]] /\ CreditWithinEntitlement

\* The vested part of an amount is at most the amount.
LEMMA VestedBounds ==
  ASSUME NEW amount \in Nat, NEW elapsed \in Nat, NEW period \in Nat \ {0}
  PROVE  VestedAmount(amount, elapsed, period) \in 0..amount
<1> DEFINE ratio == (elapsed * VestingPrecision) \div period
           fraction == IF elapsed >= period THEN VestingPrecision ELSE ratio
<1>1. ASSUME elapsed < period PROVE ratio \in Nat /\ ratio <= VestingPrecision
  <2>1. MulDiv(VestingPrecision, elapsed, period) \in Nat
        /\ MulDiv(VestingPrecision, elapsed, period) <= VestingPrecision
    BY <1>1, PrecisionAssumption, FractionBounds
  <2>2. /\ VestingPrecision * elapsed = elapsed * VestingPrecision
        /\ VestingPrecision * elapsed \in Nat
    BY PrecisionAssumption, ProductIsNat
  <2>3. MulDiv(VestingPrecision, elapsed, period) = ratio
    BY <2>2, QuotientOfNats DEF MulDiv
  <2> QED BY <2>1, <2>3
<1>2. fraction \in Nat /\ fraction <= VestingPrecision
  <2> HIDE DEF ratio
  <2> QED BY <1>1, PrecisionAssumption
<1> HIDE DEF fraction
<1>3. MulDiv(amount, fraction, VestingPrecision) \in Nat
      /\ MulDiv(amount, fraction, VestingPrecision) <= amount
  BY <1>2, PrecisionAssumption, FractionBounds
<1>4. VestedAmount(amount, elapsed, period) = MulDiv(amount, fraction, VestingPrecision)
  BY DEF VestedAmount, MulDiv, fraction, ratio
<1> QED BY <1>3, <1>4

\* The part of an epoch stays what it is: its shares and its record do.
LEMMA EntitlementStays ==
  ASSUME TypeOK, SnapshotIntegrity, SnapshotIntegrity', NEW u \in Users,
         NEW e \in 1..CurrentEpoch, e \in 1..CurrentEpoch',
         epochs'[e] = epochs[e], holdersAt'[e] = holdersAt[e]
  PROVE  EpochEntitlement(u, e)' = EpochEntitlement(u, e)
<1>1. SharesForEpoch(u, e)' = SharesForEpoch(u, e) BY DEF SnapshotIntegrity
<1> QED BY <1>1 DEF EpochEntitlement

\* Nothing is pending of a claimed epoch, and the entitlement of one that is not
\* claimed, where nothing vests.
LEMMA PendingParts ==
  ASSUME TypeOK, NEW u \in Users, NEW e \in 1..CurrentEpoch
  PROVE  /\ e \in Epochs /\ credited[u][e] \in Int /\ PendingYieldForEpoch(u, e) \in Int
         /\ epochYieldClaimed[u][e] \in Nat /\ EpochEntitlement(u, e) \in Int
         /\ e \in hasClaimed[u] => PendingYieldForEpoch(u, e) = 0
         /\ e \notin hasClaimed[u] /\ config.vestingPeriod = 0 =>
              PendingYieldForEpoch(u, e) = EpochEntitlement(u, e)
<1>1. /\ e \in Epochs /\ PendingYieldForEpoch(u, e) \in Int
      /\ EpochEntitlement(u, e) \in Int
  BY EntitlementIsInt, PendingIsInt
<1>2. credited[u][e] \in Int /\ epochYieldClaimed[u][e] \in Nat
  BY <1>1 DEF TypeOK, ClaimsOK
<1>3. /\ e \in hasClaimed[u] => PendingYieldForEpoch(u, e) = 0
      /\ e \notin hasClaimed[u] /\ config.vestingPeriod = 0 =>
           PendingYieldForEpoch(u, e) = EpochEntitlement(u, e)
  BY DEF PendingYieldForEpoch
<1> QED BY <1>1, <1>2, <1>3

\* What is pending and what was credited before are within the entitlement.
LEMMA PendingBounds ==
  ASSUME TypeOK, SnapshotIntegrity, HoldersWithinEpoch, ClaimsTraced, CreditsBounded,
         NEW u \in Users, NEW e \in 1..CurrentEpoch
  PROVE  /\ e \in Epochs /\ credited[u][e] \in Nat /\ PendingYieldForEpoch(u, e) \in Nat
         /\ EpochEntitlement(u, e) \in Nat
         /\ credited[u][e] + PendingYieldForEpoch(u, e) <= EpochEntitlement(u, e)
<1> DEFINE full == EpochEntitlement(u, e)
           since == epochs[e].timestamp
           taken == epochYieldClaimed[u][e]
           vested == IF now <= since THEN 0
                     ELSE VestedAmount(full, now - since, config.vestingPeriod)
           pending == PendingYieldForEpoch(u, e)
<1>1. e \in Epochs /\ full \in Nat /\ taken \in Nat
  BY PendingParts, EpochIsNatural
<1>2. since \in Nat BY EntitlementIsInt DEF EpochRecords
<1>3. config.vestingPeriod \in Nat /\ now \in Nat
  BY DEF TypeOK, LifeOK, Configs, ClockOK
<1>4. credited[u][e] \in Nat /\ credited[u][e] <= full
  BY <1>1 DEF CreditsBounded, CreditWithinEntitlement
<1>5. since # 0 BY DEF ClaimsTraced, EpochsDated
<1>6. pending = IF e \in hasClaimed[u] THEN 0
                ELSE IF config.vestingPeriod = 0 \/ since = 0 THEN full
                ELSE IF vested <= taken THEN 0 ELSE vested - taken
  BY DEF PendingYieldForEpoch
<1>7. e \notin hasClaimed[u] =>
        credited[u][e] = taken /\ (config.vestingPeriod = 0 => credited[u][e] = 0)
  BY <1>1 DEF ClaimsTraced, OpenTraced
<1>8. config.vestingPeriod # 0 => vested \in 0..full
  <2>1. CASE now <= since BY <1>1, <2>1
  <2>2. ASSUME ~(now <= since), config.vestingPeriod # 0 PROVE vested \in 0..full
    <3>1. now - since \in Nat BY <1>2, <1>3, <2>2
    <3>2. VestedAmount(full, now - since, config.vestingPeriod) \in 0..full
      BY <1>1, <1>3, <2>2, <3>1, VestedBounds
    <3> QED BY <2>2, <3>2
  <2> QED BY <2>1, <2>2
<1> HIDE DEF full, since, taken, vested, pending
<1>9. pending \in Nat /\ credited[u][e] + pending <= full
  <2>1. CASE e \in hasClaimed[u] BY <1>1, <1>4, <1>6, <2>1
  <2>2. CASE e \notin hasClaimed[u] /\ config.vestingPeriod = 0
    BY <1>1, <1>5, <1>6, <1>7, <2>2
  <2>3. CASE e \notin hasClaimed[u] /\ config.vestingPeriod # 0
    <3>1. vested \in Nat /\ vested <= full BY <1>1, <1>8, <2>3
    <3>2. pending = IF vested <= taken THEN 0 ELSE vested - taken BY <1>5, <1>6, <2>3
    <3> QED BY <1>1, <1>4, <1>7, <2>3, <3>1, <3>2
  <2> QED BY <2>1, <2>2, <2>3
<1> QED BY <1>1, <1>4, <1>9 DEF full, pending

\* A step that claims nothing.
LEMMA NothingClaimed ==
  ASSUME TypeOK, ClaimsTraced, VestingStays, config' \in Configs,
         UNCHANGED <<lastClaimed, hasClaimed, epochYieldClaimed, credited>>,
         UNCHANGED epochVars, now' = now \/ now' = now + 1
  PROVE  ClaimsTraced'
<1>1. epochs' = epochs /\ CurrentEpoch' = CurrentEpoch
  BY DEF epochVars, CurrentEpoch
<1>2. EpochsDated'
  <2>1. now' >= 1 BY DEF ClaimsTraced, EpochsDated, TypeOK, ClockOK
  <2> QED BY <1>1, <2>1 DEF ClaimsTraced, EpochsDated
<1>3. CursorBehind' BY DEF ClaimsTraced, CursorBehind
<1>4. OpenTraced'
  <2>1. config'.vestingPeriod = 0 => config.vestingPeriod = 0
    BY DEF VestingStays, TypeOK, LifeOK, Configs
  <2> QED BY <1>1, <2>1 DEF ClaimsTraced, OpenTraced
<1> QED BY <1>2, <1>3, <1>4 DEF ClaimsTraced

\* The entitlements after a step are naturals too.
EntitlementsAreNat == \A u \in Users, e \in 1..CurrentEpoch : EpochEntitlement(u, e) \in Nat
LEMMA EntitlementsStayNat ==
  TypeOK' /\ SnapshotIntegrity' /\ HoldersWithinEpoch' => EntitlementsAreNat'
<1>1. TypeOK /\ SnapshotIntegrity /\ HoldersWithinEpoch => EntitlementsAreNat
  BY EpochIsNatural DEF EntitlementsAreNat
<1> QED BY <1>1, PTL

\* A new epoch has not been credited to anybody.
LEMMA NewEpochUncredited ==
  ASSUME TypeOK, SnapshotIntegrity, SnapshotIntegrity', ClaimsTraced,
         NEW amount, DistributeYield(amount)
  PROVE  /\ ClaimsTraced'
         /\ CreditsBounded /\ EntitlementsAreNat' => CreditsBounded'
<1>1. PICK record : epochs' = Append(epochs, record) /\ record.timestamp = now
  <2> DEFINE r == [yield |-> amount, totalShares |-> totalSupply,
                   timestamp |-> now, totalAssets |-> totalDeposited + amount]
  <2>1. epochs' = Append(epochs, r) BY DEF DistributeYield
  <2>2. r.timestamp = now OBVIOUS
  <2> HIDE DEF r
  <2> QED BY <2>1, <2>2
<1>2. /\ holdersAt' = Append(holdersAt, balance) /\ now' = now /\ config' = config
      /\ UNCHANGED <<lastClaimed, hasClaimed, epochYieldClaimed, credited>>
  BY DEF DistributeYield, lifeVars, claimVars
<1>3. /\ CurrentEpoch \in Nat /\ CurrentEpoch' = CurrentEpoch + 1
      /\ Len(holdersAt) = CurrentEpoch /\ CurrentEpoch + 1 <= MaxEpochs
      /\ holdersAt \in Seq([Users -> Int]) /\ epochs \in Seq(EpochRecords)
  <2>1. CurrentEpoch < MaxEpochs BY DEF DistributeYield
  <2> QED BY <1>1, <2>1, BoundAssumption DEF TypeOK, EpochsOK, CurrentEpoch
<1>4. \A e \in 1..CurrentEpoch : epochs'[e] = epochs[e] /\ holdersAt'[e] = holdersAt[e]
  BY <1>1, <1>2, <1>3 DEF CurrentEpoch
<1>5. epochs'[CurrentEpoch + 1] = record BY <1>1, <1>3 DEF CurrentEpoch
<1>6. EpochsDated'
  <2>1. now' >= 1 /\ record.timestamp >= 1 BY <1>1, <1>2 DEF ClaimsTraced, EpochsDated
  <2>2. ASSUME NEW e \in 1..(CurrentEpoch + 1) PROVE epochs'[e].timestamp >= 1
    <3>1. CASE e \in 1..CurrentEpoch BY <1>4, <3>1 DEF ClaimsTraced, EpochsDated
    <3>2. CASE e = CurrentEpoch + 1 BY <1>5, <2>1, <3>2
    <3> QED BY <1>3, <3>1, <3>2
  <2> QED BY <1>3, <2>1, <2>2 DEF EpochsDated
<1>7. CursorBehind' BY <1>2 DEF ClaimsTraced, CursorBehind
<1>8. OpenTraced' BY <1>2, <1>3 DEF ClaimsTraced, OpenTraced, Epochs
<1>9. ASSUME CreditsBounded, EntitlementsAreNat' PROVE CreditWithinEntitlement'
  <2> SUFFICES ASSUME NEW u \in Users, NEW e \in 1..CurrentEpoch'
               PROVE  credited'[u][e] <= EpochEntitlement(u, e)'
    BY DEF CreditWithinEntitlement
  <2>1. CASE e \in 1..CurrentEpoch
    <3>1. EpochEntitlement(u, e)' = EpochEntitlement(u, e) BY <1>4, <2>1, EntitlementStays
    <3> QED BY <1>2, <1>9, <2>1, <3>1 DEF CreditsBounded, CreditWithinEntitlement
  <2>2. CASE e = CurrentEpoch + 1
    <3>1. EpochEntitlement(u, e)' \in Nat BY <1>9 DEF EntitlementsAreNat
    <3>2. e \in Epochs /\ e \notin hasClaimed[u]
      BY <1>3, <2>2, BoundAssumption DEF TypeOK, ClaimsOK, Epochs, CurrentEpoch
    <3>3. credited[u][e] = 0 BY <1>3, <2>2, <3>2 DEF ClaimsTraced, OpenTraced
    <3> QED BY <1>2, <3>1, <3>3
  <2> QED BY <1>3, <2>1, <2>2
<1>10. CreditsBounded /\ EntitlementsAreNat' => CreditsBounded'
  BY <1>2, <1>9 DEF CreditsBounded
<1> QED BY <1>6, <1>7, <1>8, <1>10 DEF ClaimsTraced

\* A credit adds what is pending of the epochs it covers.
LEMMA CreditAdds ==
  ASSUME TypeOK, NEW user \in Users, NEW covered, Credit(user, covered),
         NEW u \in Users, NEW e \in Epochs
  PROVE  credited'[u][e] = IF u = user /\ e \in covered
                           THEN credited[u][e] + PendingYieldForEpoch(u, e)
                           ELSE credited[u][e]
<1>1. credited \in [Users -> [Epochs -> Int]] BY DEF TypeOK, ClaimsOK
<1>2. credited' = [credited EXCEPT ![user] = [x \in Epochs |->
                     credited[user][x]
                       + (IF x \in covered THEN PendingYieldForEpoch(user, x) ELSE 0)]]
  BY <1>1 DEF Credit
<1>3. CASE u # user BY <1>1, <1>2, <1>3
<1>4. CASE u = user
  <2>1. credited'[u][e] = credited[u][e]
          + (IF e \in covered THEN PendingYieldForEpoch(u, e) ELSE 0)
    BY <1>1, <1>2, <1>4
  <2>2. credited[u][e] \in Int BY <1>1
  <2>3. CASE e \in covered BY <1>4, <2>1, <2>3
  <2>4. CASE e \notin covered BY <2>1, <2>2, <2>4
  <2> QED BY <2>3, <2>4
<1> QED BY <1>3, <1>4

\* A step that credits a user what is pending, and marks what it credits in full.
LEMMA SomeClaimed ==
  ASSUME TypeOK, ClaimsTraced,
         NEW user \in Users, NEW covered \in SUBSET (1..CurrentEpoch), Credit(user, covered),
         UNCHANGED <<now, config, epochVars>>,
         \A u \in Users \ {user} : /\ lastClaimed'[u] = lastClaimed[u]
                                   /\ hasClaimed'[u] = hasClaimed[u]
                                   /\ epochYieldClaimed'[u] = epochYieldClaimed[u],
         hasClaimed[user] \subseteq hasClaimed'[user],
         1..lastClaimed'[user] \subseteq hasClaimed'[user],
         \A e \in Epochs \ hasClaimed'[user] :
           /\ e \notin covered => epochYieldClaimed'[user][e] = epochYieldClaimed[user][e]
           /\ e \in covered => /\ epochYieldClaimed'[user][e]
                                    = epochYieldClaimed[user][e] + PendingYieldForEpoch(user, e)
                               /\ config.vestingPeriod = 0 => PendingYieldForEpoch(user, e) = 0
  PROVE  ClaimsTraced'
<1>1. /\ epochs' = epochs /\ CurrentEpoch' = CurrentEpoch
      /\ now' = now /\ config' = config /\ CurrentEpoch \in Nat
  BY DEF epochVars, CurrentEpoch, TypeOK, EpochsOK
<1>2. ASSUME NEW u \in Users, NEW e \in Epochs
      PROVE  credited'[u][e] = IF u = user /\ e \in covered
                               THEN credited[u][e] + PendingYieldForEpoch(u, e)
                               ELSE credited[u][e]
  BY CreditAdds
<1>3. EpochsDated' BY <1>1 DEF ClaimsTraced, EpochsDated
<1>4. CursorBehind' BY DEF ClaimsTraced, CursorBehind
<1>5. OpenTraced'
  <2> SUFFICES ASSUME NEW u \in Users, NEW e \in Epochs \ hasClaimed'[u]
               PROVE  /\ credited'[u][e] = epochYieldClaimed'[u][e]
                      /\ config.vestingPeriod = 0 \/ e > CurrentEpoch => credited'[u][e] = 0
    BY <1>1 DEF OpenTraced
  <2>1. e \notin hasClaimed[u] BY DEF TypeOK, ClaimsOK
  <2>2. /\ credited[u][e] = epochYieldClaimed[u][e] /\ credited[u][e] \in Int
        /\ config.vestingPeriod = 0 \/ e > CurrentEpoch => credited[u][e] = 0
    BY <2>1 DEF ClaimsTraced, OpenTraced, TypeOK, ClaimsOK
  <2>3. CASE u = user /\ e \in covered
    <3>1. e \in 1..CurrentEpoch BY <2>3
    <3> QED BY <1>1, <1>2, <2>2, <2>3, <3>1
  <2>4. CASE ~(u = user /\ e \in covered)
    <3>1. epochYieldClaimed'[u][e] = epochYieldClaimed[u][e] BY <2>4
    <3> QED BY <1>2, <2>2, <2>4, <3>1
  <2> QED BY <2>3, <2>4
<1> QED BY <1>3, <1>4, <1>5 DEF ClaimsTraced

\* A credit of what is pending stays natural, and within the entitlements.
LEMMA CreditKeepsBounds ==
  ASSUME TypeOK, SnapshotIntegrity, SnapshotIntegrity', HoldersWithinEpoch, ClaimsTraced,
         CreditsBounded, UNCHANGED epochVars,
         NEW user \in Users, NEW covered \in SUBSET (1..CurrentEpoch), Credit(user, covered)
  PROVE  CreditsBounded'
<1>1. epochs' = epochs /\ holdersAt' = holdersAt /\ CurrentEpoch' = CurrentEpoch
  BY DEF epochVars, CurrentEpoch
<1>2. credited \in [Users -> [Epochs -> Nat]] BY DEF CreditsBounded
<1>3. ASSUME NEW u \in Users, NEW e \in 1..CurrentEpoch
      PROVE  credited'[u][e] \in Nat /\ credited'[u][e] <= EpochEntitlement(u, e)'
  <2>1. /\ e \in Epochs /\ credited[u][e] \in Nat /\ PendingYieldForEpoch(u, e) \in Nat
        /\ EpochEntitlement(u, e) \in Nat
        /\ credited[u][e] + PendingYieldForEpoch(u, e) <= EpochEntitlement(u, e)
    BY PendingBounds
  <2>2. credited'[u][e] = IF u = user /\ e \in covered
                          THEN credited[u][e] + PendingYieldForEpoch(u, e)
                          ELSE credited[u][e]
    BY <2>1, CreditAdds
  <2>3. EpochEntitlement(u, e)' = EpochEntitlement(u, e) BY <1>1, EntitlementStays
  <2> QED BY <2>1, <2>2, <2>3
<1>4. ASSUME NEW u \in Users, NEW e \in Epochs PROVE credited'[u][e] \in Nat
  <2>1. CASE u = user /\ e \in covered
    <3>1. e \in 1..CurrentEpoch BY <2>1
    <3> QED BY <1>3, <3>1
  <2>2. CASE ~(u = user /\ e \in covered)
    <3>1. credited'[u][e] = credited[u][e] BY <2>2, CreditAdds
    <3> QED BY <1>2, <3>1
  <2> QED BY <2>1, <2>2
<1>5. credited' \in [Users -> [Epochs -> Int]] BY CreditType
<1>6. credited' \in [Users -> [Epochs -> Nat]] BY <1>4, <1>5
<1>7. CreditWithinEntitlement' BY <1>1, <1>3 DEF CreditWithinEntitlement
<1> QED BY <1>6, <1>7 DEF CreditsBounded

\* The cursor passes no epoch that is not claimed.
LEMMA CursorPassesClaimed ==
  ASSUME TypeOK, CursorBehind, NEW user \in Users, NEW claimed \in SUBSET (1..CurrentEpoch),
         hasClaimed[user] \subseteq claimed
  PROVE  1..AdvancedCursor(user, claimed) \subseteq claimed
<1> DEFINE cursor == AdvancedCursor(user, claimed)
<1>1. CurrentEpoch \in Nat /\ lastClaimed[user] \in 0..CurrentEpoch BY UnclaimedExist
<1>2. cursor \in 0..CurrentEpoch /\ (lastClaimed[user] + 1)..cursor \subseteq claimed
  BY CursorType
<1>3. 1..lastClaimed[user] \subseteq claimed BY DEF CursorBehind
<1> HIDE DEF cursor
<1>4. ASSUME NEW e \in 1..cursor PROVE e \in claimed
  <2>1. e \in 1..lastClaimed[user] \/ e \in (lastClaimed[user] + 1)..cursor
    BY <1>1, <1>2
  <2> QED BY <1>2, <1>3, <2>1
<1> QED BY <1>4 DEF cursor

\* claim_yield credits what is pending of the epochs it marks.
LEMMA ClaimYieldTraced ==
  ASSUME TypeOK, ClaimsTraced, NEW user \in Users, ClaimYield(user)
  PROVE  ClaimsTraced'
<1>1. /\ Credit(user, UnclaimedEpochs(user))
      /\ UNCHANGED <<now, config, epochVars>> /\ epochYieldClaimed' = epochYieldClaimed
      /\ hasClaimed' = [hasClaimed EXCEPT
                          ![user] = @ \cup (lastClaimed[user] + 1)..CurrentEpoch]
      /\ lastClaimed' = [lastClaimed EXCEPT ![user] = CurrentEpoch]
  BY DEF ClaimYield, lifeVars
<1>2. /\ CurrentEpoch \in Nat /\ lastClaimed[user] \in 0..CurrentEpoch
      /\ UnclaimedEpochs(user) \in SUBSET (1..CurrentEpoch)
  BY UnclaimedExist
<1>3. \A u \in Users \ {user} : /\ lastClaimed'[u] = lastClaimed[u]
                                /\ hasClaimed'[u] = hasClaimed[u]
                                /\ epochYieldClaimed'[u] = epochYieldClaimed[u]
  BY <1>1 DEF TypeOK, ClaimsOK
<1>4. /\ hasClaimed'[user] = hasClaimed[user] \cup (lastClaimed[user] + 1)..CurrentEpoch
      /\ lastClaimed'[user] = CurrentEpoch
  BY <1>1 DEF TypeOK, ClaimsOK
<1>5. 1..lastClaimed[user] \subseteq hasClaimed[user] BY DEF ClaimsTraced, CursorBehind
<1>6. 1..CurrentEpoch \subseteq hasClaimed'[user] BY <1>2, <1>4, <1>5
<1>7. \A e \in Epochs \ hasClaimed'[user] : e \notin UnclaimedEpochs(user)
  BY <1>2, <1>6
<1>8. ASSUME NEW e \in Epochs \ hasClaimed'[user]
      PROVE  /\ e \notin UnclaimedEpochs(user) =>
                  epochYieldClaimed'[user][e] = epochYieldClaimed[user][e]
             /\ e \in UnclaimedEpochs(user) =>
                  /\ epochYieldClaimed'[user][e]
                       = epochYieldClaimed[user][e] + PendingYieldForEpoch(user, e)
                  /\ config.vestingPeriod = 0 => PendingYieldForEpoch(user, e) = 0
  BY <1>1, <1>7
<1> DEFINE covered == UnclaimedEpochs(user)
<1> HIDE DEF covered
<1>9. /\ hasClaimed[user] \subseteq hasClaimed'[user]
      /\ 1..lastClaimed'[user] \subseteq hasClaimed'[user]
  BY <1>4, <1>6
<1> QED BY <1>1, <1>2, <1>3, <1>8, <1>9, SomeClaimed

\* claim_yield_for_epoch marks the epoch when it credits the rest of it, which
\* without vesting it does at once.
LEMMA ClaimYieldForEpochTraced ==
  ASSUME TypeOK, ClaimsTraced,
         NEW user \in Users, NEW epoch \in 1..CurrentEpoch, ClaimYieldForEpoch(user, epoch)
  PROVE  ClaimsTraced'
<1> DEFINE pending == PendingYieldForEpoch(user, epoch)
           total == epochYieldClaimed[user][epoch] + pending
           full == EpochEntitlement(user, epoch)
           claimed == hasClaimed[user] \cup {epoch}
<1>1. /\ Credit(user, {epoch})
      /\ UNCHANGED <<now, config, epochVars>>
      /\ epochYieldClaimed' = [epochYieldClaimed EXCEPT ![user][epoch] = total]
      /\ IF total >= full
         THEN /\ hasClaimed' = [hasClaimed EXCEPT ![user] = claimed]
              /\ lastClaimed' = [lastClaimed EXCEPT ![user] = AdvancedCursor(user, claimed)]
         ELSE UNCHANGED <<hasClaimed, lastClaimed>>
      /\ pending > 0
  BY DEF ClaimYieldForEpoch, lifeVars
<1>2. /\ epoch \in Epochs /\ pending \in Int /\ full \in Int
      /\ epochYieldClaimed[user][epoch] \in Nat
      /\ epoch \in hasClaimed[user] => pending = 0
      /\ epoch \notin hasClaimed[user] /\ config.vestingPeriod = 0 => pending = full
  BY PendingParts
<1>3. \A u \in Users \ {user} : /\ lastClaimed'[u] = lastClaimed[u]
                                /\ hasClaimed'[u] = hasClaimed[u]
                                /\ epochYieldClaimed'[u] = epochYieldClaimed[u]
  <2> HIDE DEF total, claimed, full
  <2> QED BY <1>1 DEF TypeOK, ClaimsOK
<1>4. total \in Int /\ total >= pending BY <1>2
<1>5. claimed \in SUBSET (1..CurrentEpoch)
  BY DEF TypeOK, ClaimsOK, CurrentEpoch
<1>6. total >= full => /\ hasClaimed'[user] = claimed
                       /\ lastClaimed'[user] = AdvancedCursor(user, claimed)
  <2> HIDE DEF total, claimed, full
  <2> QED BY <1>1 DEF TypeOK, ClaimsOK
<1>7. ~(total >= full) => /\ hasClaimed'[user] = hasClaimed[user]
                          /\ lastClaimed'[user] = lastClaimed[user]
  BY <1>1
<1>8. hasClaimed[user] \subseteq hasClaimed'[user] BY <1>6, <1>7
<1>9. 1..lastClaimed'[user] \subseteq hasClaimed'[user]
  <2>1. hasClaimed[user] \subseteq claimed OBVIOUS
  <2>2. 1..AdvancedCursor(user, claimed) \subseteq claimed
    BY <1>5, <2>1, CursorPassesClaimed DEF ClaimsTraced
  <2>3. 1..lastClaimed[user] \subseteq hasClaimed[user] BY DEF ClaimsTraced, CursorBehind
  <2> HIDE DEF claimed, total, full
  <2> QED BY <1>6, <1>7, <2>2, <2>3
<1>10. epochYieldClaimed'[user][epoch] = total
  <2> HIDE DEF total
  <2> QED BY <1>1, <1>2 DEF TypeOK, ClaimsOK
<1>11. ASSUME NEW e \in Epochs, e # epoch
       PROVE  epochYieldClaimed'[user][e] = epochYieldClaimed[user][e]
  <2> HIDE DEF total
  <2> QED BY <1>1, <1>11 DEF TypeOK, ClaimsOK
<1>12. epoch \notin hasClaimed'[user] => config.vestingPeriod # 0
  <2>1. total >= full \/ pending # full BY <1>2, <1>4
  <2>2. total >= full => epoch \in hasClaimed'[user] BY <1>6
  <2> QED BY <1>2, <1>8, <2>1, <2>2
<1>13. ASSUME NEW e \in Epochs \ hasClaimed'[user]
       PROVE  /\ e \notin {epoch} =>
                   epochYieldClaimed'[user][e] = epochYieldClaimed[user][e]
              /\ e \in {epoch} =>
                   /\ epochYieldClaimed'[user][e]
                        = epochYieldClaimed[user][e] + PendingYieldForEpoch(user, e)
                   /\ config.vestingPeriod = 0 => PendingYieldForEpoch(user, e) = 0
  BY <1>10, <1>11, <1>12
<1>14. {epoch} \in SUBSET (1..CurrentEpoch) OBVIOUS
<1> QED BY <1>1, <1>3, <1>8, <1>9, <1>13, <1>14, SomeClaimed

\* redeem_at_maturity claims what is pending, if anything is.
LEMMA RedemptionTraced ==
  ASSUME TypeOK, ClaimsTraced, NEW caller, NEW shares, NEW receiver, NEW owner \in Users,
         RedeemAtMaturity(caller, shares, receiver, owner)
  PROVE  ClaimsTraced'
<1> DEFINE pending == PendingYield(owner)
           covered == IF pending > 0 THEN UnclaimedEpochs(owner) ELSE {}
<1>1. /\ Credit(owner, covered)
      /\ UNCHANGED <<now, config, epochVars>>
      /\ hasClaimed' = [hasClaimed EXCEPT ![owner] = IF pending > 0 THEN @ \cup 1..CurrentEpoch
                                                     ELSE @]
      /\ UNCHANGED <<lastClaimed, epochYieldClaimed>>
  BY DEF RedeemAtMaturity, Exit, lifeVars
<1>2. covered \in SUBSET (1..CurrentEpoch)
  <2> HIDE DEF pending
  <2> QED BY UnclaimedExist
<1>3. \A u \in Users \ {owner} : /\ lastClaimed'[u] = lastClaimed[u]
                                 /\ hasClaimed'[u] = hasClaimed[u]
                                 /\ epochYieldClaimed'[u] = epochYieldClaimed[u]
  <2> HIDE DEF pending
  <2> QED BY <1>1 DEF TypeOK, ClaimsOK
<1>4. hasClaimed'[owner] = IF pending > 0 THEN hasClaimed[owner] \cup 1..CurrentEpoch
                           ELSE hasClaimed[owner]
  <2> HIDE DEF pending
  <2> QED BY <1>1 DEF TypeOK, ClaimsOK
<1>5. hasClaimed[owner] \subseteq hasClaimed'[owner] BY <1>4
<1>6. 1..lastClaimed'[owner] \subseteq hasClaimed'[owner]
  BY <1>1, <1>5 DEF ClaimsTraced, CursorBehind
<1> HIDE DEF pending
<1>7. covered \subseteq hasClaimed'[owner] BY <1>2, <1>4
<1>8. ASSUME NEW e \in Epochs \ hasClaimed'[owner]
      PROVE  /\ e \notin covered =>
                  epochYieldClaimed'[owner][e] = epochYieldClaimed[owner][e]
             /\ e \in covered =>
                  /\ epochYieldClaimed'[owner][e]
                       = epochYieldClaimed[owner][e] + PendingYieldForEpoch(owner, e)
                  /\ config.vestingPeriod = 0 => PendingYieldForEpoch(owner, e) = 0
  <2> HIDE DEF covered
  <2> QED BY <1>1, <1>7
<1> HIDE DEF covered
<1> QED BY <1>1, <1>2, <1>3, <1>5, <1>6, <1>8, SomeClaimed

\* A step that neither claims nor distributes.
Unclaiming == /\ UNCHANGED <<lastClaimed, hasClaimed, epochYieldClaimed, credited>>
              /\ UNCHANGED epochVars
              /\ now' = now \/ now' = now + 1
\* A step that claims for a user, in one of the three ways.
Claiming(user) ==
  \/ ClaimYield(user)
  \/ \E epoch \in 1..CurrentEpoch : ClaimYieldForEpoch(user, epoch)
  \/ \E caller, receiver \in Users, shares \in ShareAmounts :
       RedeemAtMaturity(caller, shares, receiver, user)

\* Every call claims, distributes or leaves the claims alone.
LEMMA NextByClaims ==
  ASSUME [Next]_vars
  PROVE  \/ Unclaiming
         \/ \E amount \in YieldAmounts : DistributeYield(amount)
         \/ \E user \in Users : Claiming(user)
<1>1. CASE YieldNext
  <2>1. ASSUME NEW user, NEW amount, ResolveYieldShortfall(user, amount) PROVE Unclaiming
    BY <2>1 DEF ResolveYieldShortfall, Unclaiming
  <2> QED BY <1>1, <2>1 DEF YieldNext, Claiming
<1>2. CASE RedemptionNext
  <2>1. ASSUME NEW user, NEW shares, RequestEarlyRedemption(user, shares) PROVE Unclaiming
    BY <2>1 DEF RequestEarlyRedemption, claimVars, Unclaiming
  <2>2. ASSUME NEW id, ProcessEarlyRedemption(id) \/ ReturnFromEscrow(id) PROVE Unclaiming
    BY <2>2 DEF ProcessEarlyRedemption, ReturnFromEscrow, claimVars, Unclaiming
  <2> QED
    BY <1>2, <2>1, <2>2
    DEF RedemptionNext, CancelEarlyRedemption, RejectEarlyRedemption, Claiming
<1>3. CASE InvestNext
  BY <1>3 DEF InvestNext, Deposit, Mint, Withdraw, Redeem, Invest, Exit, claimVars, Unclaiming
<1>4. CASE LifecycleNext \/ LimitsNext \/ TermsNext
  <2>1. UNCHANGED <<epochVars, claimVars, now>>
    BY <1>4
    DEF LifecycleNext, LimitsNext, TermsNext, ActivateVault, CancelFunding, MatureVault,
        CloseVault, MoveTo, Refund, SetFundingTarget, SetMinDeposit, SetMaxDepositPerUser,
        SetDepositLimits, SetMaxInvestors, SetEarlyRedemptionFee, SetMaturityDate,
        SetYieldVestingPeriod, SetLockUpPeriod, Configure, otherVars
  <2> QED BY <2>1 DEF claimVars, Unclaiming
<1>5. CASE FreezeNext \/ EmergencyNext
  BY <1>5
  DEF FreezeNext, EmergencyNext, Pause, Unpause, SetFreezeFlags, EmergencyWithdraw,
      EmergencyEnableProRata, EmergencyClaim, unstoppedVars, claimVars, Unclaiming
<1>6. CASE TransferNext \/ AllowanceNext
  <2>1. UNCHANGED tokenUnchanged
    BY <1>6
    DEF TransferNext, AllowanceNext, Approve, BurnShares, BurnFrom, Transfer,
        TransferFrom, MoveShares
  <2> QED BY <2>1 DEF tokenUnchanged, claimVars, Unclaiming
<1>7. CASE ComplianceNext \/ AdvanceTime \/ UNCHANGED vars
  BY <1>7
  DEF ComplianceNext, SetBlacklisted, SetTransferExempt, SetTransferRequiresKyc,
      KycChanges, complianceUnchanged, AdvanceTime, vars, claimVars, Unclaiming
<1> QED BY <1>1, <1>2, <1>3, <1>4, <1>5, <1>6, <1>7 DEF Next

\* Every call keeps the claims traced, as long as vesting stays.
LEMMA NextKeepsTraced ==
  ASSUME TypeOK, TypeOK', SnapshotIntegrity, SnapshotIntegrity', ClaimsTraced,
         VestingStays, [Next]_vars
  PROVE  ClaimsTraced'
<1>1. ASSUME Unclaiming PROVE ClaimsTraced'
  <2>1. config' \in Configs BY DEF TypeOK, LifeOK
  <2> QED BY <1>1, <2>1, NothingClaimed DEF Unclaiming
<1>2. ASSUME NEW user \in Users, Claiming(user) PROVE ClaimsTraced'
  BY <1>2, ClaimYieldTraced, ClaimYieldForEpochTraced, RedemptionTraced DEF Claiming
<1> QED BY <1>1, <1>2, NextByClaims, NewEpochUncredited

\* No epoch exists at first, and nothing is claimed.
LEMMA InitCredits == Init => ClaimsTraced /\ CreditsBounded
<1> SUFFICES ASSUME Init PROVE ClaimsTraced /\ CreditsBounded OBVIOUS
<1>1. CurrentEpoch = 0 BY DEF Init, CurrentEpoch
<1>2. EpochsDated /\ CreditWithinEntitlement
  BY <1>1 DEF Init, EpochsDated, CreditWithinEntitlement
<1>3. CursorBehind BY DEF Init, CursorBehind
<1>4. OpenTraced BY DEF Init, OpenTraced, NoEpochs
<1>5. credited \in [Users -> [Epochs -> Nat]] BY DEF Init, NoEpochs
<1> QED BY <1>2, <1>3, <1>4, <1>5 DEF ClaimsTraced, CreditsBounded

\* So the claims are traced in every behaviour in which vesting stays.
LEMMA ClaimsAreTraced == Spec /\ [][VestingStays]_vars => []ClaimsTraced
<1>1. Init => ClaimsTraced BY InitCredits
<1>2. TypeOK /\ TypeOK' /\ SnapshotIntegrity /\ SnapshotIntegrity' /\ ClaimsTraced
      /\ [VestingStays]_vars /\ [Next]_vars => ClaimsTraced'
  <2>1. [VestingStays]_vars => VestingStays BY DEF VestingStays, vars, lifeVars
  <2> QED BY <2>1, NextKeepsTraced
<1> QED BY <1>1, <1>2, TypeInvariant, SnapshotsFaithful, PTL DEF Spec

\* A claim marks, of the epochs that are not marked yet, those it covers.
LEMMA ClaimMarksCovered ==
  ASSUME TypeOK, ClaimsTraced, NEW user \in Users, Claiming(user)
  PROVE  /\ UNCHANGED epochVars
         /\ \E covered \in SUBSET (1..CurrentEpoch) :
              /\ Credit(user, covered)
              /\ \A u \in Users : \A e \in hasClaimed'[u] \ hasClaimed[u] :
                   u = user /\ e \in covered
<1> DEFINE rest == UnclaimedEpochs(user)
           Marks(covered) == \A u \in Users : \A e \in hasClaimed'[u] \ hasClaimed[u] :
                               u = user /\ e \in covered
<1>1. rest \in SUBSET (1..CurrentEpoch) BY UnclaimedExist
<1>2. ASSUME ClaimYield(user)
      PROVE  UNCHANGED epochVars /\ Credit(user, rest) /\ Marks(rest)
  <2>1. UNCHANGED epochVars /\ Credit(user, rest) BY <1>2 DEF ClaimYield
  <2>2. Marks(rest) BY <1>2 DEF ClaimYield, TypeOK, ClaimsOK, UnclaimedEpochs
  <2> QED BY <2>1, <2>2
<1>3. ASSUME NEW epoch \in 1..CurrentEpoch, ClaimYieldForEpoch(user, epoch)
      PROVE  UNCHANGED epochVars /\ Credit(user, {epoch}) /\ Marks({epoch})
  <2>1. UNCHANGED epochVars /\ Credit(user, {epoch}) BY <1>3 DEF ClaimYieldForEpoch
  <2>2. \/ hasClaimed' = [hasClaimed EXCEPT ![user] = hasClaimed[user] \cup {epoch}]
        \/ hasClaimed' = hasClaimed
    BY <1>3 DEF ClaimYieldForEpoch
  <2>3. Marks({epoch}) BY <2>2 DEF TypeOK, ClaimsOK
  <2> QED BY <2>1, <2>3
<1>4. ASSUME NEW caller, NEW receiver, NEW shares,
             RedeemAtMaturity(caller, shares, receiver, user)
      PROVE  /\ UNCHANGED epochVars
             /\ \/ Credit(user, rest) /\ Marks(rest)
                \/ Credit(user, {}) /\ Marks({})
  <2>1. UNCHANGED epochVars BY <1>4 DEF RedeemAtMaturity, Exit
  <2>2. \/ /\ hasClaimed' = [hasClaimed EXCEPT ![user] = @ \cup 1..CurrentEpoch]
           /\ Credit(user, rest)
        \/ /\ hasClaimed' = [hasClaimed EXCEPT ![user] = @]
           /\ Credit(user, {})
    BY <1>4 DEF RedeemAtMaturity
  <2>3. 1..lastClaimed[user] \subseteq hasClaimed[user] BY DEF ClaimsTraced, CursorBehind
  <2>4. CurrentEpoch \in Nat /\ lastClaimed[user] \in 0..CurrentEpoch BY UnclaimedExist
  <2>5. (1..CurrentEpoch) \ hasClaimed[user] \subseteq rest
    BY <2>3, <2>4 DEF UnclaimedEpochs
  <2> HIDE DEF rest
  <2>6. hasClaimed' = [hasClaimed EXCEPT ![user] = @ \cup 1..CurrentEpoch] => Marks(rest)
    BY <2>5 DEF TypeOK, ClaimsOK
  <2>7. hasClaimed' = [hasClaimed EXCEPT ![user] = @] => Marks({})
    BY DEF TypeOK, ClaimsOK
  <2> HIDE DEF Marks
  <2> QED BY <2>1, <2>2, <2>6, <2>7
<1>5. ASSUME NEW epoch \in 1..CurrentEpoch PROVE {epoch} \in SUBSET (1..CurrentEpoch)
  OBVIOUS
<1> HIDE DEF rest, Marks
<1> DEFINE Goal == /\ UNCHANGED epochVars
                   /\ \E covered \in SUBSET (1..CurrentEpoch) :
                        Credit(user, covered) /\ Marks(covered)
<1>6. ClaimYield(user) => Goal BY <1>1, <1>2
<1>7. (\E epoch \in 1..CurrentEpoch : ClaimYieldForEpoch(user, epoch)) => Goal
  BY <1>3, <1>5
<1>8. (\E caller, receiver \in Users, shares \in ShareAmounts :
         RedeemAtMaturity(caller, shares, receiver, user)) => Goal
  BY <1>1, <1>4
<1>9. Goal
  <2> HIDE DEF Goal
  <2> QED BY <1>6, <1>7, <1>8 DEF Claiming
<1> QED BY <1>9 DEF Marks

\* Every call credits naturals, within the entitlements.
LEMMA NextKeepsBounds ==
  ASSUME TypeOK, SnapshotIntegrity, SnapshotIntegrity', HoldersWithinEpoch,
         EntitlementsAreNat', ClaimsTraced, CreditsBounded, [Next]_vars
  PROVE  CreditsBounded'
<1>1. ASSUME Unclaiming PROVE CreditsBounded'
  <2>1. /\ epochs' = epochs /\ holdersAt' = holdersAt /\ credited' = credited
        /\ CurrentEpoch' = CurrentEpoch
    BY <1>1 DEF Unclaiming, epochVars, CurrentEpoch
  <2>2. \A u \in Users, e \in 1..CurrentEpoch : EpochEntitlement(u, e)' = EpochEntitlement(u, e)
    BY <2>1, EntitlementStays
  <2> QED BY <2>1, <2>2 DEF CreditsBounded, CreditWithinEntitlement
<1>2. ASSUME NEW user \in Users, Claiming(user) PROVE CreditsBounded'
  BY <1>2, ClaimMarksCovered, CreditKeepsBounds
<1>3. ASSUME NEW amount, DistributeYield(amount) PROVE CreditsBounded'
  BY <1>3, NewEpochUncredited
<1> QED BY <1>1, <1>2, <1>3, NextByClaims

\* So nobody is credited more than the entitlement until a call names a negative
\* number of shares.
LEMMA CreditsAreBounded ==
  Spec /\ [][VestingStays]_vars => [](~negativeCalls => CreditsBounded)
<1>1. Init => CreditsBounded BY InitCredits
<1>2. TypeOK /\ TypeOK' /\ SnapshotIntegrity /\ SnapshotIntegrity' /\ ClaimsTraced
      /\ (~negativeCalls => HoldersWithinEpoch) /\ (~negativeCalls' => HoldersWithinEpoch')
      /\ (~negativeCalls => CreditsBounded) /\ [Next]_vars
        => (~negativeCalls' => CreditsBounded')
  <2> SUFFICES ASSUME TypeOK, TypeOK', SnapshotIntegrity, SnapshotIntegrity', ClaimsTraced,
                      ~negativeCalls => HoldersWithinEpoch, HoldersWithinEpoch',
                      ~negativeCalls => CreditsBounded, [Next]_vars, ~negativeCalls'
               PROVE  CreditsBounded'
    OBVIOUS
  <2>1. ~negativeCalls BY NegativesStay
  <2>2. EntitlementsAreNat' BY EntitlementsStayNat
  <2> QED BY <2>1, <2>2, NextKeepsBounds
<1> QED
  BY <1>1, <1>2, TypeInvariant, SnapshotsFaithful, HoldersAreNatural, ClaimsAreTraced, PTL
  DEF Spec

\* Whichever way users claim (everything, epoch by epoch, while redeeming at
\* maturity) and however the vesting period changes, nobody is credited more of an
\* epoch than the entitlement, provided vesting is never switched off again
\* (pending_yield_for_epoch then offers the whole of an epoch whose vested part was
\* already claimed) and no call names a negative number of shares.
THEOREM CreditsStayWithin ==
  Spec /\ [][VestingStays]_vars => [](~negativeCalls => CreditWithinEntitlement)
<1>1. CreditsBounded => CreditWithinEntitlement BY DEF CreditsBounded
<1> QED BY <1>1, CreditsAreBounded, PTL

\* What is marked as claimed has been credited in full.
ClaimedInFull == \A u \in Users : \A e \in hasClaimed[u] : credited[u][e] >= EpochEntitlement(u, e)

\* A step that marks nothing new.
LEMMA NothingMarked ==
  ASSUME TypeOK, SnapshotIntegrity, SnapshotIntegrity', ClaimedInFull,
         UNCHANGED <<hasClaimed, credited>>,
         \A e \in 1..CurrentEpoch : /\ e \in 1..CurrentEpoch'
                                    /\ epochs'[e] = epochs[e] /\ holdersAt'[e] = holdersAt[e]
  PROVE  ClaimedInFull'
<1> SUFFICES ASSUME NEW u \in Users, NEW e \in hasClaimed[u]
             PROVE  credited[u][e] >= EpochEntitlement(u, e)'
  BY DEF ClaimedInFull
<1>1. e \in 1..CurrentEpoch BY DEF TypeOK, ClaimsOK, CurrentEpoch
<1>2. EpochEntitlement(u, e)' = EpochEntitlement(u, e) BY <1>1, EntitlementStays
<1> QED BY <1>2 DEF ClaimedInFull

\* Without vesting, a claim credits the whole of what it marks.
LEMMA MarkedInFull ==
  ASSUME TypeOK, SnapshotIntegrity, SnapshotIntegrity', ClaimsTraced, ClaimedInFull,
         config.vestingPeriod = 0, UNCHANGED epochVars,
         NEW user \in Users, NEW covered \in SUBSET (1..CurrentEpoch), Credit(user, covered),
         \A u \in Users : \A e \in hasClaimed'[u] \ hasClaimed[u] : u = user /\ e \in covered
  PROVE  ClaimedInFull'
<1> SUFFICES ASSUME NEW u \in Users, NEW e \in hasClaimed'[u]
             PROVE  credited'[u][e] >= EpochEntitlement(u, e)'
  BY DEF ClaimedInFull
<1>1. e \in 1..CurrentEpoch BY DEF TypeOK, ClaimsOK, CurrentEpoch
<1>2. EpochEntitlement(u, e)' = EpochEntitlement(u, e)
  BY <1>1, EntitlementStays DEF epochVars, CurrentEpoch
<1>3. /\ e \in Epochs /\ credited[u][e] \in Int /\ PendingYieldForEpoch(u, e) \in Int
      /\ EpochEntitlement(u, e) \in Int
      /\ e \in hasClaimed[u] => PendingYieldForEpoch(u, e) = 0
      /\ e \notin hasClaimed[u] => /\ PendingYieldForEpoch(u, e) = EpochEntitlement(u, e)
                                  /\ credited[u][e] = 0
  BY <1>1, PendingParts DEF ClaimsTraced, OpenTraced
<1>4. credited'[u][e] = IF u = user /\ e \in covered
                        THEN credited[u][e] + PendingYieldForEpoch(u, e)
                        ELSE credited[u][e]
  BY <1>3, CreditAdds
<1>5. CASE e \in hasClaimed[u]
  <2>1. credited[u][e] >= EpochEntitlement(u, e) BY <1>5 DEF ClaimedInFull
  <2> QED BY <1>2, <1>3, <1>4, <2>1
<1>6. CASE e \notin hasClaimed[u]
  <2>1. u = user /\ e \in covered BY <1>6
  <2> QED BY <1>2, <1>3, <1>4, <1>6, <2>1
<1> QED BY <1>5, <1>6

\* Every call marks as claimed only what is credited in full, without vesting.
LEMMA NextKeepsInFull ==
  ASSUME TypeOK, SnapshotIntegrity, SnapshotIntegrity', ClaimsTraced, ClaimedInFull,
         config.vestingPeriod = 0, [Next]_vars
  PROVE  ClaimedInFull'
<1>1. ASSUME Unclaiming PROVE ClaimedInFull'
  BY <1>1, NothingMarked DEF Unclaiming, epochVars, CurrentEpoch
<1>2. ASSUME NEW amount, DistributeYield(amount) PROVE ClaimedInFull'
  <2>1. PICK record : epochs' = Append(epochs, record) BY <1>2 DEF DistributeYield
  <2>2. holdersAt' = Append(holdersAt, balance) /\ UNCHANGED <<hasClaimed, credited>>
    BY <1>2 DEF DistributeYield, claimVars
  <2>3. \A e \in 1..CurrentEpoch : /\ e \in 1..CurrentEpoch'
                                   /\ epochs'[e] = epochs[e] /\ holdersAt'[e] = holdersAt[e]
    BY <2>1, <2>2 DEF TypeOK, EpochsOK, CurrentEpoch
  <2> QED BY <2>2, <2>3, NothingMarked
<1>3. ASSUME NEW user \in Users, Claiming(user) PROVE ClaimedInFull'
  BY <1>3, ClaimMarksCovered, MarkedInFull
<1> QED BY <1>1, <1>2, <1>3, NextByClaims

\* While yield does not vest, an epoch that is marked as claimed or that the claim
\* cursor has passed has been credited in full: the three ways of claiming drop
\* nothing of each other's.  Vesting breaks this (ClaimedMeansCredited fails).
THEOREM UnvestedClaimsAreFull == Spec /\ [](config.vestingPeriod = 0) => []ClaimedMeansCredited
<1> DEFINE Unvested == config.vestingPeriod = 0
<1>1. Init => ClaimsTraced /\ ClaimedInFull
  <2>1. Init => ClaimedInFull BY DEF Init, ClaimedInFull
  <2> QED BY <2>1, InitCredits
<1>2. TypeOK /\ TypeOK' /\ SnapshotIntegrity /\ SnapshotIntegrity' /\ ClaimsTraced
      /\ ClaimedInFull /\ Unvested /\ [Next]_vars => ClaimsTraced' /\ ClaimedInFull'
  <2> SUFFICES ASSUME TypeOK, TypeOK', SnapshotIntegrity, SnapshotIntegrity', ClaimsTraced,
                      ClaimedInFull, Unvested, [Next]_vars
               PROVE  ClaimsTraced' /\ ClaimedInFull'
    OBVIOUS
  <2>1. VestingStays BY DEF VestingStays
  <2> QED BY <2>1, NextKeepsTraced, NextKeepsInFull
<1>3. TypeOK /\ ClaimsTraced /\ ClaimedInFull => ClaimedMeansCredited
  <2> SUFFICES ASSUME TypeOK, ClaimsTraced, ClaimedInFull, NEW u \in Users,
                      NEW e \in 1..CurrentEpoch, e \in hasClaimed[u] \/ e <= lastClaimed[u]
               PROVE  credited[u][e] >= EpochEntitlement(u, e)
    BY DEF ClaimedMeansCredited
  <2>1. 1..lastClaimed[u] \subseteq hasClaimed[u] BY DEF ClaimsTraced, CursorBehind
  <2>2. CurrentEpoch \in Nat /\ lastClaimed[u] \in Nat BY UnclaimedExist
  <2>3. e \in hasClaimed[u] BY <2>1, <2>2
  <2> QED BY <2>3 DEF ClaimedInFull
<1> QED BY <1>1, <1>2, <1>3, TypeInvariant, SnapshotsFaithful, PTL DEF Spec

-----------------------------------------------------------------------------
(* The ledger of yield *)

\* The ledger adds up as the vault does.
LEMMA LedgerTotal == ASSUME NEW f, NEW S PROVE Ledger!Total(f, S) = Total(f, S)
BY DEF Ledger!Total, Total, Ledger!Cardinality, Cardinality

\* A distribution settles what is owed of the new epoch, and of no other.
LEMMA DistributionBooked ==
  ASSUME TypeOK, SnapshotIntegrity, SnapshotIntegrity', EntitlementsAreNat',
         YieldNotOverAllocated', ~negativeCalls', NEW amount \in YieldAmounts, DistributeYield(amount)
  PROVE  Ledger!Distribute
<1>0. PICK e0 \in Nat : e0 = CurrentEpoch + 1 BY DEF TypeOK, EpochsOK, CurrentEpoch
<1> DEFINE part == [u \in Users |-> EpochEntitlement(u, e0)']
<1>1. PICK record : epochs' = Append(epochs, record) /\ record.yield = amount
  <2> DEFINE r == [yield |-> amount, totalShares |-> totalSupply,
                   timestamp |-> now, totalAssets |-> totalDeposited + amount]
  <2>1. epochs' = Append(epochs, r) BY DEF DistributeYield
  <2>2. r.yield = amount OBVIOUS
  <2> HIDE DEF r
  <2> QED BY <2>1, <2>2
<1>2. holdersAt' = Append(holdersAt, balance) /\ UNCHANGED <<credited, hasClaimed>>
  BY DEF DistributeYield, claimVars
<1>3. /\ CurrentEpoch \in Nat /\ CurrentEpoch' = CurrentEpoch + 1
      /\ e0 = CurrentEpoch + 1 /\ e0 \in 1..CurrentEpoch'
      /\ Len(holdersAt) = CurrentEpoch
      /\ holdersAt \in Seq([Users -> Int]) /\ epochs \in Seq(EpochRecords)
  BY <1>0, <1>1 DEF TypeOK, EpochsOK, CurrentEpoch
<1>4. \A e \in 1..CurrentEpoch : epochs'[e] = epochs[e] /\ holdersAt'[e] = holdersAt[e]
  BY <1>1, <1>2, <1>3 DEF CurrentEpoch
<1>5. epochs'[e0].yield = amount BY <1>1, <1>3 DEF CurrentEpoch
<1>6. \A e \in 1..CurrentEpoch : e \in 1..CurrentEpoch' BY <1>3
<1>7. ASSUME NEW u \in Users, NEW e \in 1..CurrentEpoch
      PROVE  EpochEntitlement(u, e)' = EpochEntitlement(u, e)
  BY <1>4, <1>6, EntitlementStays
<1>8. \A u \in Users : part[u] \in Nat
  BY <1>3 DEF EntitlementsAreNat
<1>9. Total(part, Users) <= amount
  BY <1>3, <1>5 DEF YieldNotOverAllocated
<1>10. amount \in Nat BY InputsAreInt DEF DistributeYield
<1>11. part \in [Users -> 0..amount]
  <2>1. ASSUME NEW u \in Users PROVE part[u] \in 0..amount
    <3> HIDE DEF part
    <3>1. part[u] <= Total(part, Users) /\ Total(part, Users) \in Nat
      BY <1>8, TotalBounds, TotalIsNat, UsersAssumption
    <3> QED BY <1>8, <1>9, <1>10, <3>1
  <2> QED BY <2>1
<1>12. [e \in 1..CurrentEpoch |-> epochs[e].yield]'
         = [e \in 1..e0 |-> IF e <= CurrentEpoch
                            THEN [x \in 1..CurrentEpoch |-> epochs[x].yield][e] ELSE amount]
  <2>1. \A e \in 1..e0 : epochs'[e].yield
           = IF e <= CurrentEpoch
             THEN [x \in 1..CurrentEpoch |-> epochs[x].yield][e] ELSE amount
    BY <1>3, <1>4, <1>5
  <2> QED BY <1>3, <2>1
<1>13. [e \in 1..CurrentEpoch |-> [u \in Users |-> EpochEntitlement(u, e)]]'
         = [e \in 1..e0 |-> IF e <= CurrentEpoch
                            THEN [x \in 1..CurrentEpoch |->
                                    [u \in Users |-> EpochEntitlement(u, x)]][e] ELSE part]
  <2>1. ASSUME NEW e \in 1..e0
        PROVE  [u \in Users |-> EpochEntitlement(u, e)']
                 = IF e <= CurrentEpoch THEN [u \in Users |-> EpochEntitlement(u, e)] ELSE part
    <3>1. CASE e \in 1..CurrentEpoch BY <1>3, <1>7, <3>1
    <3>2. CASE e = e0 BY <1>3, <3>2
    <3> QED BY <1>3, <3>1, <3>2
  <2>2. ASSUME NEW e \in 1..e0, e <= CurrentEpoch
        PROVE  [x \in 1..CurrentEpoch |-> [u \in Users |-> EpochEntitlement(u, x)]][e]
                 = [u \in Users |-> EpochEntitlement(u, e)]
    BY <1>3, <2>2
  <2> QED BY <1>3, <2>1, <2>2
<1>14. Ledger!Total(part, Users) <= amount BY <1>9, LedgerTotal
<1> HIDE DEF part
<1> QED BY <1>2, <1>3, <1>11, <1>12, <1>13, <1>14 DEF Ledger!Distribute

\* The ledger's figures of past epochs stay in a step that adds no epoch.
LEMMA LedgerStays ==
  ASSUME TypeOK, SnapshotIntegrity, SnapshotIntegrity', UNCHANGED epochVars
  PROVE  /\ UNCHANGED CurrentEpoch
         /\ UNCHANGED [e \in 1..CurrentEpoch |-> epochs[e].yield]
         /\ UNCHANGED [e \in 1..CurrentEpoch |-> [u \in Users |-> EpochEntitlement(u, e)]]
<1>1. epochs' = epochs /\ holdersAt' = holdersAt /\ CurrentEpoch' = CurrentEpoch
  BY DEF epochVars, CurrentEpoch
<1>2. \A u \in Users, e \in 1..CurrentEpoch : EpochEntitlement(u, e)' = EpochEntitlement(u, e)
  BY <1>1, EntitlementStays
<1>3. ASSUME NEW e \in 1..CurrentEpoch
      PROVE  [u \in Users |-> EpochEntitlement(u, e)'] = [u \in Users |-> EpochEntitlement(u, e)]
  BY <1>2
<1> QED BY <1>1, <1>3

\* A claim, in any of the three ways, is a payment to its user.
LEMMA ClaimBooked ==
  ASSUME TypeOK, TypeOK', SnapshotIntegrity, SnapshotIntegrity', HoldersWithinEpoch,
         ClaimsTraced, CreditsBounded, CreditsBounded', [Next]_vars,
         NEW user \in Users, Claiming(user)
  PROVE  Ledger!Pay(user)
<1>1. PICK covered \in SUBSET (1..CurrentEpoch) :
        /\ Credit(user, covered)
        /\ \A u \in Users : \A e \in hasClaimed'[u] \ hasClaimed[u] : u = user /\ e \in covered
  BY ClaimMarksCovered
<1>2. UNCHANGED epochVars BY ClaimMarksCovered
<1>3. ClaimedStay BY NextKeepsClaimed
<1>4. credited' \in Ledger!Payments(user)
  <2>1. credited' \in [Users -> [Epochs -> Nat]] BY DEF CreditsBounded
  <2>2. ASSUME NEW u \in Users, NEW e \in Epochs, credited'[u][e] # credited[u][e]
        PROVE  /\ u = user /\ e \in (1..CurrentEpoch) \ hasClaimed[u]
               /\ credited[u][e] < credited'[u][e]
               /\ credited'[u][e] <= [x \in 1..CurrentEpoch |->
                                        [v \in Users |-> EpochEntitlement(v, x)]][e][u]
    <3>1. credited'[u][e] = IF u = user /\ e \in covered
                            THEN credited[u][e] + PendingYieldForEpoch(u, e)
                            ELSE credited[u][e]
      BY <1>1, CreditAdds
    <3>2. u = user /\ e \in covered /\ e \in 1..CurrentEpoch
          /\ credited'[u][e] = credited[u][e] + PendingYieldForEpoch(u, e)
      BY <2>2, <3>1
    <3>3. /\ credited[u][e] \in Nat /\ PendingYieldForEpoch(u, e) \in Nat
          /\ EpochEntitlement(u, e) \in Nat
          /\ credited[u][e] + PendingYieldForEpoch(u, e) <= EpochEntitlement(u, e)
          /\ e \in hasClaimed[u] => PendingYieldForEpoch(u, e) = 0
      BY <3>2, PendingBounds, PendingParts
    <3>4. credited[u][e] < credited'[u][e] /\ e \notin hasClaimed[u] BY <2>2, <3>2, <3>3
    <3> QED BY <3>2, <3>3, <3>4
  <2> QED BY <2>1, <2>2 DEF Ledger!Payments
<1>5. \E some \in SUBSET (1..CurrentEpoch) :
        hasClaimed' = [hasClaimed EXCEPT ![user] = hasClaimed[user] \cup some]
  <2>1. /\ hasClaimed \in [Users -> SUBSET (1..CurrentEpoch)]
        /\ hasClaimed' \in [Users -> SUBSET (1..CurrentEpoch)]
    BY <1>2 DEF TypeOK, ClaimsOK, CurrentEpoch, epochVars
  <2>2. \A u \in Users : hasClaimed[u] \subseteq hasClaimed'[u] BY <1>3 DEF ClaimedStay
  <2>3. \A u \in Users \ {user} : hasClaimed'[u] = hasClaimed[u] BY <1>1, <2>2
  <2>4. hasClaimed'[user] \in SUBSET (1..CurrentEpoch)
        /\ hasClaimed'[user] = hasClaimed[user] \cup hasClaimed'[user]
    BY <2>1, <2>2
  <2>5. hasClaimed' = [hasClaimed EXCEPT ![user] = hasClaimed[user] \cup hasClaimed'[user]]
    BY <2>1, <2>3, <2>4
  <2> QED BY <2>4, <2>5
<1> QED BY <1>2, <1>4, <1>5, LedgerStays DEF Ledger!Pay

\* The vault is a ledger that settles what it owes of an epoch at its distribution,
\* though it works out every entitlement when it is asked for, and pays nobody
\* more, however shares move and yield is claimed, as long as vesting stays and
\* until a call names a negative number of shares.
THEOREM VaultKeepsLedger == Spec /\ [][VestingStays]_vars => LedgerSpec
<1>1. Init => Ledger!Init
  <2> SUFFICES ASSUME Init PROVE Ledger!Init OBVIOUS
  <2>1. CurrentEpoch = 0 BY DEF Init, CurrentEpoch
  <2>2. credited = [u \in Users |-> [e \in Epochs |-> 0]] /\ hasClaimed = [u \in Users |-> {}]
    BY DEF Init, NoEpochs
  <2> QED BY <2>1, <2>2 DEF Ledger!Init
<1> DEFINE Bounded == ~negativeCalls => HoldersWithinEpoch /\ CreditsBounded
           Kept == ~negativeCalls' => Ledger!Next \/ UNCHANGED Ledger!vars
<1>2. TypeOK /\ TypeOK' /\ SnapshotIntegrity /\ SnapshotIntegrity' /\ ClaimsTraced
      /\ Bounded /\ Bounded' /\ YieldNotOverAllocated' /\ [Next]_vars => Kept
  <2> SUFFICES ASSUME TypeOK, TypeOK', SnapshotIntegrity, SnapshotIntegrity', ClaimsTraced,
                      Bounded, HoldersWithinEpoch', CreditsBounded',
                      YieldNotOverAllocated', [Next]_vars, ~negativeCalls'
               PROVE  Ledger!Next \/ UNCHANGED Ledger!vars
    OBVIOUS
  <2>0. HoldersWithinEpoch /\ CreditsBounded BY NegativesStay
  <2>1. ASSUME Unclaiming PROVE UNCHANGED Ledger!vars
    BY <2>1, LedgerStays DEF Unclaiming, Ledger!vars
  <2>2. ASSUME NEW amount \in YieldAmounts, DistributeYield(amount) PROVE Ledger!Next
    BY <2>2, DistributionBooked, EntitlementsStayNat DEF Ledger!Next
  <2>3. ASSUME NEW user \in Users, Claiming(user) PROVE Ledger!Next
    BY <2>0, <2>3, ClaimBooked DEF Ledger!Next
  <2> QED BY <2>1, <2>2, <2>3, NextByClaims
<1>3. Spec /\ [][VestingStays]_vars => []ClaimsTraced BY ClaimsAreTraced
<1>4. Spec /\ [][VestingStays]_vars => []Bounded
  BY HoldersAreNatural, CreditsAreBounded, PTL
<1>5. ASSUME [Kept]_vars
      PROVE  [~negativeCalls' => Ledger!Next \/ UNCHANGED Ledger!vars]_vars
  BY <1>5
<1> HIDE DEF Bounded
<1> QED
  BY <1>1, <1>2, <1>3, <1>4, TypeInvariant, SnapshotsFaithful, YieldNeverOverAllocated, PTL
  DEF Spec, LedgerSpec

\* All that was ever credited of an epoch, to all users together, is within the
\* yield that was distributed, until a call names a negative number of shares.
THEOREM EpochsStaySolvent ==
  Spec /\ [][VestingStays]_vars => [](~negativeCalls => Ledger!Solvent)
<1>1. TypeOK /\ SnapshotIntegrity /\ HoldersWithinEpoch /\ CreditsBounded => Ledger!Solvent
  <2> SUFFICES ASSUME TypeOK, SnapshotIntegrity, HoldersWithinEpoch, CreditsBounded,
                      NEW e \in 1..CurrentEpoch
               PROVE  Total([u \in Users |-> credited[u][e]], Users) <= epochs[e].yield
    BY LedgerTotal DEF Ledger!Solvent
  <2> DEFINE got == [u \in Users |-> credited[u][e]]
             full == [u \in Users |-> EpochEntitlement(u, e)]
             same == [u \in Users |-> u]
  <2>1. \A u \in Users : got[u] \in Nat /\ full[u] \in Nat /\ got[u] <= full[u]
    <3>1. \A u \in Users : e \in Epochs BY EntitlementIsInt
    <3> QED BY <3>1, EpochIsNatural DEF CreditsBounded, CreditWithinEntitlement
  <2>2. Total(full, Users) <= epochs[e].yield BY PartsWithinYield
  <2>3. epochs[e].yield \in Nat BY EpochIsNatural
  <2>4. \A u \in Users : same[u] \in Users /\ got[u] <= full[same[u]] BY <2>1
  <2>5. \A u, v \in Users : same[u] = same[v] => u = v OBVIOUS
  <2> HIDE DEF got, full, same
  <2>6. Total(got, Users) <= Total(full, Users)
    BY <2>1, <2>4, <2>5, TotalInjected, UsersAssumption
  <2>7. Total(got, Users) \in Nat /\ Total(full, Users) \in Nat
    BY <2>1, TotalIsNat, UsersAssumption
  <2> QED BY <2>2, <2>3, <2>6, <2>7 DEF got
<1>2. Spec /\ [][VestingStays]_vars => [](~negativeCalls => CreditsBounded)
  BY CreditsAreBounded
<1> QED BY <1>1, <1>2, TypeInvariant, SnapshotsFaithful, HoldersAreNatural, PTL
=============================================================================
