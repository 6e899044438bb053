----------------------------- MODULE PriceFeed -----------------------------
(***************************************************************************)
(* The price feed that /api/price shares between all requests.  A call     *)
(* blocks the event loop until it answers, so one call runs at a time; but *)
(* time passes while it waits for Kraken, and time.time() is the system    *)
(* clock, which may be corrected in either direction.                      *)
(*                                                                         *)
(* A price is the moment it was quoted at: what a reader of the page cares *)
(* about is how old it is.                                                 *)
(***************************************************************************)
EXTENDS Integers

CONSTANTS Coins,            \* keys of _PAIR_MAP
          Ttl,              \* cache_ttl
          MaxStale,         \* max_stale
          MaxFetch,         \* bound: how long the request to Kraken may take
          Offsets,          \* how far the system clock may be off
          MaxTime,          \* bound on time
          MaxCorrection,    \* bound: total by which the clock is corrected
          None              \* no entry, no call, no answer

ASSUME TimesAssumption ==
    /\ Ttl \in Nat /\ MaxStale \in Nat \ {0} /\ Ttl <= MaxStale
    /\ MaxFetch \in Nat /\ MaxTime \in Nat /\ MaxCorrection \in Nat
    /\ Offsets \subseteq Int

Entry == [quotedAt : Nat, timestamp : Int]
Call == [coin : Coins, now : Int, begun : Nat]
Answer == [quotedAt : Nat, at : Nat]

ASSUME NoneAssumption == None \notin Entry \union Call \union Answer \union Nat

VARIABLES
    real,           \* true time
    offset,         \* system clock minus true time
    back, forward,  \* history: totals by which the clock was set back and on
    cache,          \* PriceFeed._cache
    call,           \* the call that waits for Kraken, and its locals
    shown,          \* history: coin -> the price last returned for it, and when
    refused         \* history: coin -> when a call for it last raised

timeVars == <<real, offset, back, forward>>
vars == <<real, offset, back, forward, cache, call, shown, refused>>

Clock == real + offset

Init ==
    /\ real = 0
    /\ offset = 0
    /\ back = 0
    /\ forward = 0
    /\ cache = [c \in Coins |-> None]
    /\ call = None
    /\ shown = [c \in Coins |-> None]
    /\ refused = [c \in Coins |-> None]

-----------------------------------------------------------------------------
\* An entry no older than the limit, by the clock reading the call took first.
YoungerThan(c, now, limit) == cache[c] # None /\ now - cache[c].timestamp < limit

Return(c, quotedAt) == shown' = [shown EXCEPT ![c] = [quotedAt |-> quotedAt, at |-> real]]

\* usd with a fresh entry: no request is made.
UsdCached(c) ==
    /\ call = None
    /\ YoungerThan(c, Clock, Ttl)
    /\ Return(c, cache[c].quotedAt)
    /\ UNCHANGED <<timeVars, cache, call, refused>>

\* usd up to the request, which it makes when there is no fresh entry.
UsdFetch(c) ==
    /\ call = None
    /\ ~YoungerThan(c, Clock, Ttl)
    /\ call' = [coin |-> c, now |-> Clock, begun |-> real]
    /\ UNCHANGED <<timeVars, cache, shown, refused>>

\* Mutant: the entry is stamped when the answer arrives.
FetchSucceedsStampedLate(q) ==
    /\ call # None
    /\ q >= call.begun
    /\ cache' = [cache EXCEPT ![call.coin] = [quotedAt |-> q, timestamp |-> Clock]]
    /\ Return(call.coin, q)
    /\ call' = None
    /\ UNCHANGED <<timeVars, refused>>

\* Mutant: an entry is made once and not replaced.
FetchSucceedsKeepsEntry(q) ==
    /\ call # None
    /\ q >= call.begun
    /\ cache' = [cache EXCEPT ![call.coin] =
                     IF @ = None THEN [quotedAt |-> q, timestamp |-> call.now] ELSE @]
    /\ Return(call.coin, q)
    /\ call' = None
    /\ UNCHANGED <<timeVars, refused>>

\* Kraken quoted a price at some moment q of the request; the entry carries the
\* clock reading from before it.
FetchSucceeds(q) ==
    /\ call # None
    /\ q >= call.begun
    /\ cache' = [cache EXCEPT ![call.coin] = [quotedAt |-> q, timestamp |-> call.now]]
    /\ Return(call.coin, q)
    /\ call' = None
    /\ UNCHANGED <<timeVars, refused>>

\* Mutant: an outage is judged by the cache's time to live.
FetchFailsByTtl ==
    /\ call # None
    /\ IF YoungerThan(call.coin, call.now, Ttl)
       THEN Return(call.coin, cache[call.coin].quotedAt) /\ UNCHANGED refused
       ELSE refused' = [refused EXCEPT ![call.coin] = real] /\ UNCHANGED shown
    /\ call' = None
    /\ UNCHANGED <<timeVars, cache>>

\* Mutant: an outage keeps the old price alive by renewing its timestamp.
FetchFailsRenewing ==
    /\ call # None
    /\ IF YoungerThan(call.coin, call.now, MaxStale)
       THEN /\ Return(call.coin, cache[call.coin].quotedAt)
            /\ cache' = [cache EXCEPT ![call.coin].timestamp = call.now]
            /\ UNCHANGED refused
       ELSE /\ refused' = [refused EXCEPT ![call.coin] = real]
            /\ UNCHANGED <<shown, cache>>
    /\ call' = None
    /\ UNCHANGED timeVars

\* Mutant: the failure is cached like a price.
FetchFailsCached ==
    /\ call # None
    /\ cache' = [cache EXCEPT ![call.coin] = [quotedAt |-> None, timestamp |-> call.now]]
    /\ refused' = [refused EXCEPT ![call.coin] = real]
    /\ call' = None
    /\ UNCHANGED <<timeVars, shown>>

\* A timeout, an error status or a malformed answer: the old price serves a
\* little longer, by the clock reading from before the request, else usd raises.
FetchFails ==
    /\ call # None
    /\ IF YoungerThan(call.coin, call.now, MaxStale)
       THEN Return(call.coin, cache[call.coin].quotedAt) /\ UNCHANGED refused
       ELSE refused' = [refused EXCEPT ![call.coin] = real] /\ UNCHANGED shown
    /\ call' = None
    /\ UNCHANGED <<timeVars, cache>>

\* clear_cache
ClearCache ==
    /\ call = None
    /\ cache' = [c \in Coins |-> None]
    /\ UNCHANGED <<timeVars, call, shown, refused>>

\* Time passes; a request has ended after MaxFetch.
Tick ==
    /\ real < MaxTime
    /\ call # None => real < call.begun + MaxFetch
    /\ real' = real + 1
    /\ UNCHANGED <<offset, back, forward, cache, call, shown, refused>>

\* The system clock is corrected.
SetClock(o) ==
    /\ offset' = o
    /\ back' = IF o < offset THEN back + (offset - o) ELSE back
    /\ forward' = IF o > offset THEN forward + (o - offset) ELSE forward
    /\ back' + forward' <= MaxCorrection
    /\ UNCHANGED <<real, cache, call, shown, refused>>

Next ==
    \/ \E c \in Coins : UsdCached(c) \/ UsdFetch(c)
    \/ \E q \in 0 .. real : FetchSucceeds(q)
    \/ FetchFails
    \/ ClearCache
    \/ Tick
    \/ \E o \in Offsets : SetClock(o)

Spec == Init /\ [][Next]_vars

-----------------------------------------------------------------------------
\* Every variable stays in its type: in particular an entry always has a price.
TypeOK ==
    /\ real \in Nat /\ offset \in Int /\ back \in Nat /\ forward \in Nat
    /\ cache \in [Coins -> Entry \union {None}]
    /\ call \in Call \union {None}
    /\ shown \in [Coins -> Answer \union {None}]
    /\ refused \in [Coins -> Nat \union {None}]

\* price.py:12 MAX_STALE_SECONDS: however many requests fail, and whatever time
\* they take, a price is less old when it is returned than the stale limit, one
\* request and what the clock was set back together.
NoStalePrice ==
    \A c \in Coins : shown[c] # None =>
        shown[c].at - shown[c].quotedAt < MaxStale + MaxFetch + back

\* Nobody is shown an older price after a newer one, through failures, a cleared
\* cache and corrections of the clock.
PricesMoveForward ==
    [][\A c \in Coins :
          shown[c] # None => shown'[c] # None /\ shown[c].quotedAt <= shown'[c].quotedAt]_vars

\* price.py:21 "Raised when a price cannot be fetched and no acceptable cache
\* exists": a call raises only when the coin has no entry, or one whose price is
\* at least as old as the stale limit, up to one request and what the clock was
\* set forward.
RefusesOnlyWhenStale ==
    [][\A c \in Coins :
          refused'[c] # refused[c] /\ cache[c] # None =>
              real - cache[c].quotedAt + MaxFetch + forward >= MaxStale]_vars

-----------------------------------------------------------------------------
(* The inductive invariant: what the timestamps say of true ages.            *)

\* The age of a price by the given clock reading is its true age at the given
\* moment, up to the request that fetched it and the corrections of the clock.
AgeBy(now, at, entry) ==
    /\ at - entry.quotedAt <= now - entry.timestamp + back
    /\ now - entry.timestamp <= at - entry.quotedAt + MaxFetch + forward

EntriesDated ==
    \A c \in Coins : cache[c] # None =>
        /\ cache[c].quotedAt <= real
        /\ AgeBy(Clock, real, cache[c])

CallDated ==
    call # None =>
        /\ call.begun <= real /\ real <= call.begun + MaxFetch
        /\ real - call.begun <= Clock - call.now + back
        /\ Clock - call.now <= real - call.begun + forward
        /\ cache[call.coin] # None => AgeBy(call.now, call.begun, cache[call.coin])
        /\ shown[call.coin] # None => shown[call.coin].quotedAt <= call.begun

ShownDated ==
    \A c \in Coins : shown[c] # None =>
        /\ shown[c].quotedAt <= real
        /\ cache[c] # None => shown[c].quotedAt <= cache[c].quotedAt

IInv == TypeOK /\ EntriesDated /\ CallDated /\ ShownDated /\ NoStalePrice

=============================================================================
