-------------------------- MODULE FeeTiers_proofs --------------------------
(***************************************************************************)
(* Theorems of FeeTiers, for every clock, override and amount.             *)
(***************************************************************************)
EXTENDS FeeTiers, TLAPS

\* The clock is a natural number and the override one an operator may set.
THEOREM TypeCorrect == Spec => []TypeOK
<1> USE ClockAssumption, OverridesAssumption
<1>1. Init => TypeOK
  BY DEF Init, TypeOK
<1>2. TypeOK /\ [Next]_vars => TypeOK'
  BY DEF TypeOK, Next, Tick, SetBack, SetFeeOverride, vars
<1> QED
  BY <1>1, <1>2, PTL DEF Spec

\* The rate is a number of thousandths below one.
LEMMA RateType == TypeOK => Rate \in 0 .. 999
BY OverridesAssumption DEF TypeOK, Rate, RateAt, TierRate, LaunchRate, GrowthRate, PermanentRate

\* An older account pays no higher tier rate.
LEMMA TierRateFalls ==
    ASSUME NEW a \in Nat, NEW b \in Nat, a <= b
    PROVE  TierRate(b) <= TierRate(a)
BY DEF TierRate, LaunchEnd, GrowthEnd, SECONDS_PER_DAY, LaunchRate, GrowthRate, PermanentRate

\* An account does not grow younger while the clock moves forward.
LEMMA AgeGrows ==
    ASSUME NEW t1 \in Nat, NEW t2 \in Nat, t1 <= t2
    PROVE  /\ AgeAt(CreatedAt, t1) \in Nat
           /\ AgeAt(CreatedAt, t2) \in Nat
           /\ AgeAt(CreatedAt, t1) <= AgeAt(CreatedAt, t2)
BY ClockAssumption DEF AgeAt

\* "The fee drops the longer a user stays": no step forward in time raises the
\* rate, while the override is left alone.
THEOREM LoyaltyIsRoyalty == Spec => RateNeverRises
<1>1. ASSUME TypeOK, TypeOK', override' = override, now' >= now
      PROVE  Rate' <= Rate
  <2> DEFINE a == AgeAt(CreatedAt, now)
             b == AgeAt(CreatedAt, now')
  <2>0. now \in Nat /\ now' \in Nat /\ now <= now' /\ CreatedAt \in Nat
    BY <1>1, ClockAssumption DEF TypeOK
  <2>1. a \in Nat /\ b \in Nat /\ a <= b
    BY <2>0, AgeGrows
  <2>2. TierRate(b) <= TierRate(a)
    BY <2>1, TierRateFalls
  <2>3. CASE override = None
    BY <1>1, <2>2, <2>3 DEF Rate, RateAt
  <2>4. CASE override # None
    <3>1. override \in 0 .. 999
      BY <1>1, <2>4, OverridesAssumption DEF TypeOK
    <3> QED
      BY <1>1, <2>4, <3>1 DEF Rate, RateAt
  <2> QED
    BY <2>3, <2>4
<1>2. TypeOK /\ TypeOK' /\ [Next]_vars
        => [override' = override /\ now' >= now => Rate' <= Rate]_vars
  BY <1>1
<1> QED
  BY <1>2, TypeCorrect, PTL DEF Spec, RateNeverRises

\* "Rounding favors the user": the fee is the largest whole amount within the
\* rate, and less than the donation.
THEOREM UserFavored == Spec => []RoundingFavorsUser
<1>1. TypeOK => RoundingFavorsUser
  <2> SUFFICES ASSUME TypeOK, NEW amount \in Amounts
               PROVE  LET fee == PlatformFee(amount, Rate)
                      IN  /\ fee >= 0
                          /\ 1000 * fee <= amount * Rate
                          /\ 1000 * (fee + 1) > amount * Rate
                          /\ amount > 0 => UserPart(amount, Rate) > 0
    BY DEF RoundingFavorsUser
  <2> DEFINE product == amount * Rate
             fee == product \div 1000
  <2>1. amount \in Nat /\ Rate \in 0 .. 999
    BY AmountsAssumption, RateType
  <2>2. product \in Nat /\ product <= 999 * amount
    BY <2>1
  <2> HIDE DEF product
  <2>3. fee \in Nat /\ 1000 * fee <= product /\ 1000 * (fee + 1) > product
    BY <2>2
  <2>4. amount > 0 => amount - fee > 0
    BY <2>1, <2>2, <2>3
  <2> QED
    BY <2>3, <2>4 DEF PlatformFee, UserPart, product
<1> QED
  BY <1>1, TypeCorrect, PTL

\* The countdown announces the next drop of the rate to within 86 seconds.
THEOREM CountdownExact == Spec => []CountdownAgrees
<1>1. TypeOK => CountdownAgrees
  <2> SUFFICES ASSUME TypeOK PROVE CountdownAgrees
    OBVIOUS
  <2> DEFINE n == DaysUntilNextTier(CreatedAt, override, now)
             age == AgeAt(CreatedAt, now)
  <2>1. age \in Nat /\ now \in Nat /\ CreatedAt \in Nat
    BY ClockAssumption DEF AgeAt, TypeOK
  <2>2. CASE override # None \/ age >= GrowthEnd
    <3>1. n = None
      BY <2>2 DEF DaysUntilNextTier
    <3>2. RateAt(CreatedAt, override, now + GrowthEnd) = Rate
      BY <2>1, <2>2 DEF Rate, RateAt, TierRate, AgeAt, LaunchEnd, GrowthEnd, SECONDS_PER_DAY
    <3> QED
      BY <3>1, <3>2 DEF CountdownAgrees
  <2>3. CASE override = None /\ age < GrowthEnd
    <3> DEFINE end == IF age < LaunchEnd THEN LaunchEnd ELSE GrowthEnd
    <3>1. n = WholeDays(end - age)
      BY <2>1, <2>3 DEF DaysUntilNextTier, GrowthEnd, SECONDS_PER_DAY
    <3>2. end \in Nat /\ end - age \in Nat /\ end > age
      BY <2>1, <2>3 DEF LaunchEnd, GrowthEnd, SECONDS_PER_DAY
    <3>3. /\ n \in Nat
          /\ end - age <= n * 86400 + 86
          /\ end - age > (n - 1) * 86400 + 86
      BY <3>1, <3>2 DEF WholeDays
    <3>4. n # None
      BY <3>3, OverridesAssumption
    <3>5. ASSUME now >= CreatedAt
          PROVE  /\ RateAt(CreatedAt, override, now + (n * SECONDS_PER_DAY + 86)) < Rate
                 /\ n > 0 => RateAt(CreatedAt, override, now + ((n - 1) * SECONDS_PER_DAY + 86)) = Rate
      <4>1. age = now - CreatedAt
        BY <2>1, <3>5 DEF AgeAt
      <4> HIDE DEF n
      <4>2. AgeAt(CreatedAt, now + (n * SECONDS_PER_DAY + 86)) = age + n * 86400 + 86
        BY <2>1, <3>3, <3>5, <4>1 DEF AgeAt, SECONDS_PER_DAY
      <4>3. n > 0 => AgeAt(CreatedAt, now + ((n - 1) * SECONDS_PER_DAY + 86))
                      = age + (n - 1) * 86400 + 86
        BY <2>1, <3>3, <3>5, <4>1 DEF AgeAt, SECONDS_PER_DAY
      <4>4. TierRate(age + n * 86400 + 86) < TierRate(age)
        BY <2>1, <2>3, <3>2, <3>3 DEF TierRate, LaunchEnd, GrowthEnd, SECONDS_PER_DAY,
           LaunchRate, GrowthRate, PermanentRate
      <4>5. n > 0 => TierRate(age + (n - 1) * 86400 + 86) = TierRate(age)
        BY <2>1, <2>3, <3>2, <3>3 DEF TierRate, LaunchEnd, GrowthEnd, SECONDS_PER_DAY,
           LaunchRate, GrowthRate, PermanentRate
      <4> QED
        BY <2>3, <4>2, <4>3, <4>4, <4>5 DEF Rate, RateAt
    <3> QED
      BY <3>4, <3>5 DEF CountdownAgrees
  <2> QED
    BY <2>1, <2>2, <2>3 DEF GrowthEnd, SECONDS_PER_DAY
<1> QED
  BY <1>1, TypeCorrect, PTL

=============================================================================
