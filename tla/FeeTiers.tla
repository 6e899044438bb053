------------------------------ MODULE FeeTiers ------------------------------
(***************************************************************************)
(* The fee rate of one creator as the account ages, an operator overrides  *)
(* it and the clock moves, with the countdown the dashboard shows.         *)
(***************************************************************************)
EXTENDS FeeRules

CONSTANTS ClockSteps,       \* seconds the clock may advance, or be set back, at once
          Overrides,        \* rates an operator may set for one user
          Amounts,          \* amounts donated
          MaxClock,         \* bound on the clock
          CreatedAt,        \* when the account was created
          None              \* no override; no next tier

ASSUME ClockAssumption == ClockSteps \subseteq Nat /\ MaxClock \in Nat /\ CreatedAt \in Nat
ASSUME AmountsAssumption == Amounts \subseteq Nat
\* Overrides are rates whose double makes the truncation exact, as the two that
\* fees.py names do (0.010 and 0.000).  Others, like 0.58, may charge one unit
\* less when the fee is a whole number.
ASSUME OverridesAssumption == Overrides \subseteq 0 .. 999 /\ None \notin Int

\* fee_percent_for: an override wins over the tiers, at any age.
RateAt(createdAt, fixedRate, time) ==
    IF fixedRate # None THEN fixedRate ELSE TierRate(AgeAt(createdAt, time))

\* days_until_next_tier
DaysUntilNextTier(createdAt, fixedRate, time) ==
    LET age == AgeAt(createdAt, time)
    IN  IF fixedRate # None \/ age >= GrowthEnd THEN None
        ELSE WholeDays((IF age < LaunchEnd THEN LaunchEnd ELSE GrowthEnd) - age)

-----------------------------------------------------------------------------
VARIABLES now,              \* the system clock
          override          \* users.fee_override

vars == <<now, override>>

Init == now = CreatedAt /\ override = None

Tick(step) ==
    /\ now + step <= MaxClock
    /\ now' = now + step
    /\ UNCHANGED override

\* The clock is corrected backwards.
SetBack(step) ==
    /\ now >= step
    /\ now' = now - step
    /\ UNCHANGED override

\* Mutant: a rate of 1.0, the whole donation, passes the range check.
SetFeeOverrideUnchecked(o) == override' \in {o, 1000} /\ UNCHANGED now

\* db.set_fee_override: it accepts a rate in [0, 1), or NULL.
SetFeeOverride(o) == override' = o /\ UNCHANGED now

Next ==
    \/ \E step \in ClockSteps : Tick(step) \/ SetBack(step)
    \/ \E o \in Overrides \union {None} : SetFeeOverride(o)

Spec == Init /\ [][Next]_vars

Rate == RateAt(CreatedAt, override, now)

TypeOK == now \in Nat /\ override \in Overrides \union {None}

\* "Loyalty is Royalty - the fee drops the longer a user stays" (fees.py:3):
\* while the operator leaves the override alone, passing time never raises the
\* rate.
RateNeverRises == [][override' = override /\ now' >= now => Rate' <= Rate]_vars

\* The dashboard's countdown agrees with the rate it counts down to.  "Drops in
\* n d" is true up to 86 seconds: the rate is lower that much after n days, and
\* had not changed n - 1 days and 86 seconds from now.  No countdown means the
\* rate stays for good.
CountdownAgrees ==
    LET n == DaysUntilNextTier(CreatedAt, override, now)
        RateIn(seconds) == RateAt(CreatedAt, override, now + seconds)
        atOrAfterCreation == now >= CreatedAt
    IN  IF n = None
        THEN RateIn(GrowthEnd) = Rate
        ELSE atOrAfterCreation =>
                /\ RateIn(n * SECONDS_PER_DAY + 86) < Rate
                /\ n > 0 => RateIn((n - 1) * SECONDS_PER_DAY + 86) = Rate

\* "Rounding favors the user so a user never loses a satoshi to truncation"
\* (bitcoin.py:45-46): the fee is the largest whole amount within the rate, so
\* it never exceeds the rate, and the user keeps something of every donation.
RoundingFavorsUser ==
    \A amount \in Amounts :
        LET fee == PlatformFee(amount, Rate)
        IN  /\ fee >= 0
            /\ 1000 * fee <= amount * Rate
            /\ 1000 * (fee + 1) > amount * Rate
            /\ amount > 0 => UserPart(amount, Rate) > 0

=============================================================================
