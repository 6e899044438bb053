------------------------------ MODULE FeeRules ------------------------------
(***************************************************************************)
(* The arithmetic of the platform fee (core/fees.py, split_fee).  Time is  *)
(* in seconds.  A rate is in thousandths: every rate the code defines is a *)
(* whole number of them.  The doubles next to 0.035, 0.025, 0.020 and      *)
(* 0.010 lie a little above these, by less than half a unit in the last    *)
(* place of any product, so int(amount * rate) is the integer division     *)
(* below for every amount under 10^14.                                     *)
(***************************************************************************)
EXTENDS Integers

SECONDS_PER_DAY == 86400

\* FEE_TIERS: the first tier whose threshold the age has not reached applies.
LaunchEnd == 14 * SECONDS_PER_DAY
GrowthEnd == 60 * SECONDS_PER_DAY

LaunchRate == 35
GrowthRate == 25
PermanentRate == 20

\* A clock set back behind created_at counts as age zero.
AgeAt(createdAt, time) == IF time < createdAt THEN 0 ELSE time - createdAt

\* Mutant: the tiers are tried in the wrong order.
TierRateSwapped(age) ==
    IF age < GrowthEnd THEN GrowthRate ELSE IF age < GrowthEnd + LaunchEnd THEN LaunchRate
    ELSE PermanentRate

\* The loop over FEE_TIERS in fee_percent_for.
TierRate(age) ==
    IF age < LaunchEnd THEN LaunchRate
    ELSE IF age < GrowthEnd THEN GrowthRate
    ELSE PermanentRate

\* Mutant: remaining days rounded down.
WholeDaysFloor(seconds) == seconds \div SECONDS_PER_DAY

\* int(days + 0.999): rounds up, except that less than 86.4 seconds over a
\* whole day are dropped.
WholeDays(seconds) == (10 * seconds + 863136) \div 864000

\* Mutant: rounded to the nearest unit.
PlatformFeeRounded(amount, rate) == (amount * rate + 500) \div 1000

\* create_invoice and split_fee: int() drops the fraction.
PlatformFee(amount, rate) == (amount * rate) \div 1000

UserPart(amount, rate) == amount - PlatformFee(amount, rate)

=============================================================================
