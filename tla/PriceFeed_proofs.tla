-------------------------- MODULE PriceFeed_proofs --------------------------
(***************************************************************************)
(* Theorems about PriceFeed, for every time to live, stale limit, duration *)
(* of a request and correction of the clock.                               *)
(*                                                                         *)
(* The argument is about two clocks.  AgeBy relates the age of an entry by *)
(* the system clock to its true age; it survives a correction because back *)
(* and forward take up what the clock moves by.  The two comparisons of    *)
(* usd, made on a reading from before the request, then bound true ages.   *)
(***************************************************************************)
EXTENDS PriceFeed, TLAPS

USE TimesAssumption

\* What a step leaves alone keeps its dates: only corrections count, and they
\* only loosen the bounds.
LEMMA AgeByMonotone ==
    ASSUME NEW now \in Int, NEW at \in Nat, NEW entry \in Entry,
           back \in Nat, forward \in Nat, back' \in Nat, forward' \in Nat,
           back <= back', forward <= forward',
           AgeBy(now, at, entry)
    PROVE  /\ at - entry.quotedAt <= now - entry.timestamp + back'
           /\ now - entry.timestamp <= at - entry.quotedAt + MaxFetch + forward'
BY SMT DEF AgeBy, Entry

\* A feed starts with an empty cache.
LEMMA InitIInv == Init => IInv
BY NoneAssumption, SMT DEF Init, IInv, TypeOK, EntriesDated, CallDated, ShownDated,
    NoStalePrice

\* usd from the cache shows the price of the entry.
LEMMA UsdCachedIInv == ASSUME IInv, NEW c \in Coins, UsdCached(c) PROVE IInv'
<1> USE DEF IInv
<1>1. /\ cache[c] \in Entry /\ real - cache[c].quotedAt < MaxStale + MaxFetch + back
      /\ cache[c].quotedAt <= real
    BY SMT DEF UsdCached, YoungerThan, EntriesDated, AgeBy, TypeOK, Entry, Clock
<1>2. TypeOK'
    BY <1>1, SMT DEF UsdCached, Return, TypeOK, timeVars, Entry, Answer
<1>3. EntriesDated'
    BY SMT DEF UsdCached, EntriesDated, AgeBy, Clock, timeVars
<1>4. CallDated'
    BY SMT DEF UsdCached, CallDated
<1>5. ShownDated' /\ NoStalePrice'
    BY <1>1, SMT DEF UsdCached, Return, ShownDated, NoStalePrice, TypeOK, timeVars, Entry, Answer
<1> QED BY <1>2, <1>3, <1>4, <1>5

\* usd up to the request reads the clock and the entry at the same moment.
LEMMA UsdFetchIInv == ASSUME IInv, NEW c \in Coins, UsdFetch(c) PROVE IInv'
<1> USE DEF IInv
<1>1. TypeOK'
    BY SMT DEF UsdFetch, TypeOK, timeVars, Call, Clock
<1>2. CallDated'
    BY SMT DEF UsdFetch, CallDated, EntriesDated, ShownDated, AgeBy, TypeOK, timeVars, Clock,
        Entry, Answer
<1>3. EntriesDated' /\ ShownDated' /\ NoStalePrice'
    BY SMT DEF UsdFetch, EntriesDated, ShownDated, NoStalePrice, AgeBy, Clock, timeVars
<1> QED BY <1>1, <1>2, <1>3

\* A price quoted during the request is no older than the request, and newer
\* than everything shown before it.
LEMMA FetchSucceedsIInv ==
    ASSUME IInv, NEW q \in 0 .. real, FetchSucceeds(q) PROVE IInv'
<1> USE DEF IInv
<1>1. /\ call \in Call /\ call.coin \in Coins /\ call.now \in Int /\ call.begun \in Nat
      /\ real \in Nat /\ q \in Nat /\ q <= real /\ call.begun <= q
    BY SMT DEF FetchSucceeds, TypeOK, Call
<1>2. TypeOK'
    BY <1>1, SMT DEF FetchSucceeds, Return, TypeOK, timeVars, Entry, Answer
<1>3. EntriesDated'
    BY <1>1, SMT DEF FetchSucceeds, EntriesDated, CallDated, AgeBy, TypeOK, Clock, timeVars, Entry
<1>4. CallDated'
    BY SMT DEF FetchSucceeds, CallDated
<1>5. ASSUME NEW c \in Coins, shown'[c] # None
      PROVE  /\ shown'[c].quotedAt <= real'
             /\ cache'[c] # None => shown'[c].quotedAt <= cache'[c].quotedAt
             /\ shown'[c].at - shown'[c].quotedAt < MaxStale + MaxFetch + back'
  <2>1. CASE c = call.coin
    <3>1. /\ shown'[c] = [quotedAt |-> q, at |-> real]
          /\ cache'[c] = [quotedAt |-> q, timestamp |-> call.now]
          /\ real' = real /\ back' = back /\ back \in Nat
        BY <1>1, <2>1, SMT DEF FetchSucceeds, Return, TypeOK, timeVars
    <3>2. real - q <= MaxFetch
        BY <1>1, SMT DEF FetchSucceeds, CallDated
    <3> QED BY <1>1, <3>1, <3>2, SMT
  <2>2. CASE c # call.coin
    <3>1. /\ shown'[c] = shown[c] /\ cache'[c] = cache[c]
          /\ real' = real /\ back' = back
        BY <1>1, <2>2, SMT DEF FetchSucceeds, Return, TypeOK, timeVars
    <3> QED BY <1>5, <3>1, SMT DEF ShownDated, NoStalePrice
  <2> QED BY <2>1, <2>2
<1>6. ShownDated' /\ NoStalePrice'
    BY <1>5 DEF ShownDated, NoStalePrice
<1> QED BY <1>2, <1>3, <1>4, <1>6

\* After a failed request the entry is younger than the stale limit at the
\* beginning of the request, hence by its end no older than both together.
LEMMA FetchFailsIInv == ASSUME IInv, FetchFails PROVE IInv'
<1> USE DEF IInv
<1>1. call \in Call /\ call.coin \in Coins /\ call.now \in Int /\ call.begun \in Nat
    BY SMT DEF FetchFails, TypeOK, Call
<1>2. EntriesDated' /\ CallDated'
    BY SMT DEF FetchFails, EntriesDated, CallDated, AgeBy, Clock, timeVars
<1>3. CASE YoungerThan(call.coin, call.now, MaxStale)
  <2>1. /\ cache[call.coin] \in Entry /\ cache[call.coin].quotedAt <= real
        /\ real - cache[call.coin].quotedAt < MaxStale + MaxFetch + back
    BY <1>1, <1>3, SMT DEF FetchFails, YoungerThan, CallDated, EntriesDated, AgeBy, TypeOK, Entry
  <2>2. TypeOK'
    BY <1>1, <1>3, <2>1, SMT DEF FetchFails, Return, TypeOK, timeVars, Entry, Answer
  <2>3. ShownDated' /\ NoStalePrice'
    BY <1>1, <1>3, <2>1, SMT DEF FetchFails, Return, ShownDated, NoStalePrice, TypeOK, timeVars,
        Entry, Answer
  <2> QED BY <1>2, <2>2, <2>3
<1>4. CASE ~YoungerThan(call.coin, call.now, MaxStale)
    BY <1>1, <1>2, <1>4, SMT DEF FetchFails, TypeOK, timeVars, ShownDated, NoStalePrice
<1> QED BY <1>3, <1>4

LEMMA ClearCacheIInv == ASSUME IInv, ClearCache PROVE IInv'
BY SMT DEF IInv, ClearCache, TypeOK, EntriesDated, CallDated, ShownDated, NoStalePrice, timeVars

\* Both clocks move together, and no further than a request may last.
LEMMA TickIInv == ASSUME IInv, Tick PROVE IInv'
<1> USE DEF IInv
<1>1. TypeOK'
    BY SMT DEF Tick, TypeOK
<1>2. EntriesDated'
    BY SMT DEF Tick, EntriesDated, AgeBy, TypeOK, Clock, Entry
<1>3. CallDated'
    BY SMT DEF Tick, CallDated, AgeBy, TypeOK, Clock, Call
<1>4. ShownDated' /\ NoStalePrice'
    BY SMT DEF Tick, ShownDated, NoStalePrice, TypeOK, Answer
<1> QED BY <1>1, <1>2, <1>3, <1>4

\* back and forward take up what the system clock moves by.
LEMMA SetClockIInv == ASSUME IInv, NEW o \in Offsets, SetClock(o) PROVE IInv'
<1> USE DEF IInv
<1>1. /\ back' \in Nat /\ back <= back' /\ forward' \in Nat /\ forward <= forward'
      /\ offset' \in Int /\ real' = real
      /\ offset - offset' <= back' - back /\ offset' - offset <= forward' - forward
    BY SMT DEF SetClock, TypeOK
<1>2. TypeOK'
    BY <1>1, SMT DEF SetClock, TypeOK
<1>3. EntriesDated'
    BY <1>1, SMT DEF SetClock, EntriesDated, AgeBy, TypeOK, Clock, Entry
<1>4. CallDated'
    BY <1>1, SMT DEF SetClock, CallDated, AgeBy, TypeOK, Clock, Call, Entry
<1>5. ShownDated' /\ NoStalePrice'
    BY <1>1, SMT DEF SetClock, ShownDated, NoStalePrice, TypeOK, Answer
<1> QED BY <1>2, <1>3, <1>4, <1>5

LEMMA NextIInv == IInv /\ [Next]_vars => IInv'
<1> SUFFICES ASSUME IInv, [Next]_vars PROVE IInv'
    OBVIOUS
<1>1. CASE \E c \in Coins : UsdCached(c) \/ UsdFetch(c)
    BY <1>1, UsdCachedIInv, UsdFetchIInv
<1>2. CASE \E q \in 0 .. real : FetchSucceeds(q)
    BY <1>2, FetchSucceedsIInv
<1>3. CASE FetchFails
    BY <1>3, FetchFailsIInv
<1>4. CASE ClearCache
    BY <1>4, ClearCacheIInv
<1>5. CASE Tick
    BY <1>5, TickIInv
<1>6. CASE \E o \in Offsets : SetClock(o)
    BY <1>6, SetClockIInv
<1>7. CASE UNCHANGED vars
    BY <1>7, SMT DEF vars, timeVars, IInv, TypeOK, EntriesDated, CallDated, ShownDated,
        NoStalePrice, AgeBy, Clock
<1> QED BY <1>1, <1>2, <1>3, <1>4, <1>5, <1>6, <1>7 DEF Next

\* The dates an entry, a call and an answer carry agree with true time.
THEOREM InductiveInvariant == Spec => []IInv
BY InitIInv, NextIInv, PTL DEF Spec

\* Every variable stays in its type: an entry always has a price.
THEOREM TypeCorrect == Spec => []TypeOK
<1>1. IInv => TypeOK
    BY DEF IInv
<1> QED BY <1>1, InductiveInvariant, PTL

\* No price is returned that is older than the stale limit (price.py:77), by
\* more than one request and what the clock was set back.
THEOREM StalenessBounded == Spec => []NoStalePrice
<1>1. IInv => NoStalePrice
    BY DEF IInv
<1> QED BY <1>1, InductiveInvariant, PTL

\* Nobody is shown an older price after a newer one.
THEOREM NeverBackwards == Spec => PricesMoveForward
<1> DEFINE A == \A c \in Coins :
        shown[c] # None => shown'[c] # None /\ shown[c].quotedAt <= shown'[c].quotedAt
<1>1. ASSUME IInv, [Next]_vars PROVE [A]_vars
  <2> USE <1>1 DEF IInv
  <2>1. ASSUME NEW c \in Coins, UsdCached(c) PROVE A
    BY <2>1, NoneAssumption, SMT DEF UsdCached, YoungerThan, Return, ShownDated, TypeOK, Entry,
        Answer
  <2>2. ASSUME NEW q \in 0 .. real, FetchSucceeds(q) PROVE A
    BY <2>2, NoneAssumption, SMT DEF FetchSucceeds, Return, CallDated, TypeOK, Call, Answer
  <2>3. ASSUME FetchFails PROVE A
    BY <2>3, NoneAssumption, SMT DEF FetchFails, YoungerThan, Return, ShownDated, TypeOK, Call,
        Entry, Answer
  <2>4. ASSUME UNCHANGED shown PROVE A
    BY <2>4, SMT DEF TypeOK, Answer
  <2> QED BY <2>1, <2>2, <2>3, <2>4 DEF Next, UsdFetch, ClearCache, Tick, SetClock, vars
<1> QED BY <1>1, InductiveInvariant, PTL DEF Spec, PricesMoveForward

\* A call raises only when no acceptable entry exists (price.py:21).
THEOREM RefusalJustified == Spec => RefusesOnlyWhenStale
<1> DEFINE A == \A c \in Coins :
        refused'[c] # refused[c] /\ cache[c] # None =>
            real - cache[c].quotedAt + MaxFetch + forward >= MaxStale
<1>1. ASSUME IInv, [Next]_vars PROVE [A]_vars
  <2> USE <1>1 DEF IInv
  <2>1. ASSUME FetchFails PROVE A
    <3>1. SUFFICES ASSUME NEW c \in Coins, refused'[c] # refused[c], cache[c] # None
                   PROVE real - cache[c].quotedAt + MaxFetch + forward >= MaxStale
        OBVIOUS
    <3>2. c = call.coin /\ call # None /\ ~YoungerThan(c, call.now, MaxStale)
        BY <2>1, <3>1, SMT DEF FetchFails, TypeOK, Call
    <3> QED BY <3>1, <3>2, SMT DEF YoungerThan, CallDated, AgeBy, TypeOK, Call, Entry
  <2>2. ASSUME UNCHANGED refused PROVE A
    BY <2>2
  <2> QED BY <2>1, <2>2 DEF Next, UsdCached, UsdFetch, FetchSucceeds, ClearCache, Tick, SetClock,
        vars
<1> QED BY <1>1, InductiveInvariant, PTL DEF Spec, RefusesOnlyWhenStale

=============================================================================
