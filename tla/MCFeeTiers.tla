----------------------------- MODULE MCFeeTiers -----------------------------
(***************************************************************************)
(* An account followed past its last tier, with clock steps that land one  *)
(* second before, on and after each threshold and each rounding boundary.  *)
(***************************************************************************)
EXTENDS FeeTiers

\* One second, the 86 and 87 seconds around the rounding, a day, and 14 days.
MCClockSteps == {1, 86, SECONDS_PER_DAY, LaunchEnd}

MCCreatedAt == SECONDS_PER_DAY

\* Donations from nothing to amounts where every rate leaves a fraction.
MCAmounts == 0 .. 210

\* The clock stays within a band where the boundaries are: near a whole number
\* of days after the creation.
NearBoundary ==
    LET rest == (now - CreatedAt) % SECONDS_PER_DAY
    IN  rest <= 88 \/ rest >= SECONDS_PER_DAY - 174

=============================================================================
