------------------------------ MODULE ShareMath ------------------------------
(***************************************************************************)
(* The integer arithmetic of the vault's share price (math.rs and the      *)
(* ERC-4626 conversion helpers of lib.rs).  Every operator takes the two   *)
(* figures the code reads from storage, the share supply and the total     *)
(* assets, as parameters.  Amounts and figures are signed, as the i128 of  *)
(* the code are; its range, and that of the I256 intermediates, is taken   *)
(* not to bind.                                                            *)
(***************************************************************************)
EXTENDS Integers

CONSTANTS VirtualOffset,      \* VIRTUAL_OFFSET, 10^6 in the code
          VestingPrecision    \* the fixed-point scale of vesting, 10^9

ASSUME OffsetAssumption == VirtualOffset \in Nat \ {0}
ASSUME PrecisionAssumption == VestingPrecision \in Nat \ {0}

Magnitude(n) == IF n < 0 THEN -n ELSE n

\* The division of i128 and I256, which rounds towards zero.
Quotient(n, c) ==
  LET q == Magnitude(n) \div Magnitude(c)
  IN  IF (n < 0) = (c < 0) THEN q ELSE -q

\* math::mul_div: a product, then a division; of naturals it rounds down.
MulDiv(a, b, c) == Quotient(a * b, c)

\* math::mul_div_ceil: the same quotient, of naturals rounded up.
MulDivCeil(a, b, c) == Quotient(a * b + c - 1, c)

\* Both panic on a zero divisor: a call that divides by c can only succeed
\* when this holds.
Divides(c) == c # 0

-----------------------------------------------------------------------------
\* The prices quoted for `supply` shares outstanding against `ta` assets.  An
\* empty vault quotes one share per unit of asset.

\* Mutant: the supply and the total assets change places.
SharesAtInversePrice(assets, supply, ta) ==
  IF supply = 0 \/ ta = 0 THEN assets
  ELSE MulDiv(assets, ta + VirtualOffset, supply + VirtualOffset)

ConvertToSharesFloor(assets, supply, ta) ==
  IF supply = 0 \/ ta = 0 THEN assets
  ELSE MulDiv(assets, supply + VirtualOffset, ta + VirtualOffset)

ConvertToAssetsFloor(shares, supply, ta) ==
  IF supply = 0 THEN shares
  ELSE MulDiv(shares, ta + VirtualOffset, supply + VirtualOffset)

PreviewMint(shares, supply, ta) ==
  IF supply = 0 \/ ta = 0 THEN shares
  ELSE MulDivCeil(shares, ta + VirtualOffset, supply + VirtualOffset)

\* Mutant: rounded in favour of the caller.
WithdrawRoundedDown(assets, supply, ta) ==
  IF supply = 0 \/ ta = 0 THEN assets
  ELSE MulDiv(assets, supply + VirtualOffset, ta + VirtualOffset)

PreviewWithdraw(assets, supply, ta) ==
  IF supply = 0 \/ ta = 0 THEN assets
  ELSE MulDivCeil(assets, supply + VirtualOffset, ta + VirtualOffset)

\* preview_deposit and preview_redeem are the floor conversions with a dust
\* guard: a positive amount that rounds to nothing is refused.
NotDust(given, obtained) == ~(given > 0 /\ obtained = 0)

\* A fee of `bps` basis points on `assets`.
EarlyRedemptionFee(assets, bps) == MulDiv(assets, bps, 10000)

\* The part of `amount` vested after `elapsed` of `period` seconds: a fraction
\* in fixed point, rounded down, then applied to the amount and rounded down.
VestedAmount(amount, elapsed, period) ==
  LET fraction == IF elapsed >= period THEN VestingPrecision
                  ELSE (elapsed * VestingPrecision) \div period
  IN  Quotient(amount * fraction, VestingPrecision)
=============================================================================
