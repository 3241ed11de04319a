------------------------------- MODULE MCVault -------------------------------
(***************************************************************************)
(* Small instances of SingleRwaVault.  A behaviour plays one scene: the    *)
(* operations one question is about, with the bounds that question needs.  *)
(* The scene "full" has every operation.                                   *)
(***************************************************************************)
EXTENDS SingleRwaVault, TLC

CONSTANTS u1, u2, UserFunds, OperatorFunds,
          ShareSizes,       \* numbers of shares a call may name
          NegativeSizes,    \* and those it may name with a minus sign
          FundingTarget, FundingDeadline, MaturityDate, FeeBps, VestingPeriod,
          LockUpPeriod, Scenes

MCUsers == {u1, u2}
MCShareAmounts == ShareSizes \cup {-n : n \in NegativeSizes}
MCFunds == [a \in MCUsers \cup {Operator} |-> IF a = Operator THEN OperatorFunds
                                              ELSE UserFunds]
MCConfig == [fundingTarget |-> FundingTarget, fundingDeadline |-> FundingDeadline,
             maturityDate |-> MaturityDate, minDeposit |-> 0,
             maxDepositPerUser |-> 0, maxInvestors |-> 0, feeBps |-> FeeBps,
             vestingPeriod |-> VestingPeriod, lockUpPeriod |-> LockUpPeriod,
             transferRequiresKyc |-> TRUE]
Symmetry == Permutations(MCUsers)

\* Bounds of the scenes: calls of a behaviour, the last ledger, and the amounts
\* of assets, shares and yield that move.
Bound ==
  [yield     |-> [calls |-> 8,  until |-> 1, assets |-> {2},  shares |-> {1}, yields |-> {1, 3}],
   vesting   |-> [calls |-> 11, until |-> 4, assets |-> {2},  shares |-> {1}, yields |-> {5}],
   reset     |-> [calls |-> 12, until |-> 4, assets |-> {2},  shares |-> {1}, yields |-> {5}],
   emergency |-> [calls |-> 8,  until |-> 1, assets |-> {2},  shares |-> {1}, yields |-> {1, 3}],
   full      |-> [calls |-> 4,  until |-> 1, assets |-> {2},  shares |-> {1}, yields |-> {3}],
   price     |-> [calls |-> 7,  until |-> 1, assets |-> {10}, shares |-> {4, 7}, yields |-> {15}],
   funding   |-> [calls |-> 7,  until |-> 3, assets |-> {0, 10}, shares |-> {4}, yields |-> {3}],
   signed    |-> [calls |-> 7,  until |-> 1, assets |-> AssetAmounts \ {0}, shares |-> ShareAmounts,
                  yields |-> {3}]]

VARIABLES calls, scene
mcVars == <<vars, calls, scene>>
MCInit == Init /\ calls = 0 /\ scene \in Scenes

Assets == Bound[scene].assets
Shares == Bound[scene].shares
\* Only the scene "reset" sets a vesting period back to zero, and only in "full"
\* and "signed" do calls name negative numbers of shares.
InScene ==
  /\ calls' = calls + 1 /\ UNCHANGED scene
  /\ now' <= Bound[scene].until
  /\ negativeCalls' => scene \in {"full", "signed"}
  /\ \A e \in DOMAIN epochs' : epochs'[e].yield \in Bound[scene].yields
  /\ scene # "reset" /\ config.vestingPeriod > 0 => config'.vestingPeriod > 0
  /\ config' # config => {config'.fundingTarget, config'.minDeposit, config'.maxDepositPerUser}
                           \subseteq Assets \cup {0, FundingTarget}
  /\ scene = "full" =>
       /\ config'.maturityDate <= Bound[scene].until
       /\ \A owner, spender \in Users : allowance'[owner][spender].expires <= Bound[scene].until

\* Yield epochs and claims; every user acts for itself.
YieldSteps ==
  \/ \E u \in Users :
       \/ \E assets \in Assets : Deposit(u, assets, u)
       \/ \E shares \in Shares : \/ Redeem(u, shares, u, u)
                                 \/ RedeemAtMaturity(u, shares, u, u)
                                 \/ RequestEarlyRedemption(u, shares)
       \/ \E id \in 1..Len(requests) : CancelEarlyRedemption(u, id)
  \/ \E id \in 1..Len(requests) : ProcessEarlyRedemption(id)
  \/ YieldNext
  \/ ActivateVault
  \/ MatureVault
  \/ TransferNext

\* Claims while yield vests and the operators change the vesting period.
VestingSteps ==
  \/ \E u \in Users, assets \in Assets : Deposit(u, assets, u)
  \/ \E u \in Users, shares \in Shares : RedeemAtMaturity(u, shares, u, u)
  \/ YieldNext
  \/ ActivateVault
  \/ MatureVault
  \/ \E period \in Periods : SetYieldVestingPeriod(period)
  \/ AdvanceTime

\* Prices: everything that moves the supply or the total assets of a live vault.
PriceSteps ==
  \/ \E u \in Users :
       \/ \E assets \in Assets : Deposit(u, assets, u) \/ Withdraw(u, assets, u, u)
       \/ \E shares \in Shares : \/ Mint(u, shares, u)
                                 \/ Redeem(u, shares, u, u)
                                 \/ BurnShares(u, shares)
                                 \/ RequestEarlyRedemption(u, shares)
  \/ \E id \in 1..Len(requests) : ProcessEarlyRedemption(id) \/ RejectEarlyRedemption(id)
  \/ \E amount \in YieldAmounts : DistributeYield(amount)
  \/ \E bps \in FeeChoices : SetEarlyRedemptionFee(bps)
  \/ ActivateVault

\* The lifecycle: funding, cancellation and refunds, maturity and closing; a
\* user deposits once.
FundingSteps ==
  \/ \E u \in Users, assets \in Assets : Deposit(u, assets, u) /\ asset[u] = InitFunds[u]
  \/ \E u \in Users, shares \in Shares : RedeemAtMaturity(u, shares, u, u)
  \/ LifecycleNext
  \/ TransferNext
  \/ LimitsNext
  \/ \E date \in 0..MaxTime : SetMaturityDate(date)
  \/ \E amount \in YieldAmounts : DistributeYield(amount)
  \/ EmergencyEnableProRata
  \/ AdvanceTime

\* Emergencies: pausing, draining and pro-rata claims beside what stays open.
EmergencySteps ==
  \/ \E u \in Users :
       \/ \E assets \in Assets : Deposit(u, assets, u)
       \/ \E shares \in Shares : \/ Redeem(u, shares, u, u)
                                 \/ RequestEarlyRedemption(u, shares)
       \/ \E id \in 1..Len(requests) : CancelEarlyRedemption(u, id)
  \/ \E id \in 1..Len(requests) : ProcessEarlyRedemption(id)
  \/ YieldNext
  \/ ActivateVault
  \/ TransferNext
  \/ Pause
  \/ Unpause
  \/ EmergencyNext

\* Negative numbers of shares burned, transferred and minted, before, between and
\* after what reads the balances and the supply.
SignedSteps ==
  \/ \E u \in Users :
       \/ \E assets \in Assets : Deposit(u, assets, u)
       \/ \E shares \in Shares : \/ Mint(u, shares, u)
                                 \/ Redeem(u, shares, u, u)
                                 \/ RedeemAtMaturity(u, shares, u, u)
                                 \/ RequestEarlyRedemption(u, shares)
  \/ \E id \in 1..Len(requests) : ProcessEarlyRedemption(id) \/ RejectEarlyRedemption(id)
  \/ YieldNext
  \/ ActivateVault
  \/ MatureVault
  \/ CloseVault
  \/ TransferNext
  \/ EmergencyEnableProRata
  \/ \E u \in Users : EmergencyClaim(u)

SceneSteps ==
  \/ scene = "yield" /\ YieldSteps
  \/ scene \in {"vesting", "reset"} /\ VestingSteps
  \/ scene = "emergency" /\ EmergencySteps
  \/ scene = "full" /\ Next
  \/ scene = "price" /\ PriceSteps
  \/ scene = "funding" /\ FundingSteps
  \/ scene = "signed" /\ SignedSteps
SpecMC == MCInit /\ [][calls < Bound[scene].calls /\ SceneSteps /\ InScene]_mcVars

\* Without a vesting period, an epoch marked as claimed, or passed by the claim
\* cursor, has been credited in full (ClaimedMeansCredited).
UnvestedClaimsComplete == scene \in {"yield", "signed"} => ClaimedMeansCredited
=============================================================================
