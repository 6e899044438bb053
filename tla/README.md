# SatsFlow in TLA+

SatsFlow is a self-hosted page on which creators receive Bitcoin and Monero
donations.  It never holds money: donors pay a creator's own address, SatsFlow
watches the chain, keeps a balance of the platform fees each creator owes, and
records when a creator settles them.  This directory models that program,
checks the models with TLC and proves theorems about them with TLAPS.  Paths
below are relative to `src/src/satsflow/`.

## 1. Inventory

| Component | State | Operations | Interacts with |
|---|---|---|---|
| Payment watcher, `core/payment_watcher.py` | one lazily built backend object per coin | `check` | invoice page polls it; reads and writes donations and users; asks a backend |
| Fee ledger, `storage/db.py` 250-311, 506-550 | `donations` rows, `users.fee_balance_sats`, `fee_settlements` | `create_donation`, `confirm_donation`, `increment_fee_balance`, `reset_fee_balance`, `record_settlement` | every one is a statement and a commit of its own |
| Settlement, `web/routes/dashboard.py` 143-212 | none between requests; the amount on a page the user has open | `settle_page`, `settle_confirm` | fee ledger, the user's wallet |
| Invoice flow, `web/routes/donate.py`, `static/js/invoice.js` | none between requests | `create_invoice`, `show_invoice`, `invoice_status` | backends, fee tiers, price feed, watcher |
| Bitcoin backends, `core/bitcoin*` | next derivation index, addresses handed out (memory only) | `get_new_address`, `check_payment` | mempool.space over HTTP; `node.py` is a stub that raises |
| Monero backends, `core/monero*` | addresses handed out (memory only) | `get_new_address`, `check_payment` | wallet RPC; `local_node.py` is a stub; `mock.py` serves the tests |
| Fee tiers, `core/fees.py`, `db.set_fee_override` | `users.created_at`, `users.fee_override`, the clock | `fee_percent_for`, `days_until_next_tier`, `tier_name` | invoice flow, dashboard |
| Price feed, `core/price.py`, `web/routes/price.py` | cached price and its time per coin | `usd`, `clear_cache` | Kraken over HTTP; `/api/price` shares one feed, `create_invoice` builds a fresh one |
| Accounts and sessions, `web/routes/auth.py`, `db.py` 183-246, 388-428 | `users`, `sessions` | signup, login, logout, `get_session_user`, `purge_expired_sessions` (never called) | every page of a user |
| Settings, `web/routes/settings.py` | `users` columns | `update_profile`, `change_password` | invoice flow reads `btc_xpub` |
| Live wall and totals, `web/routes/live.py`, `creator.py`, `me.py`, `explore.py` | `donations.pinned`, `read_at` | pin, read, listings with a limit | fee ledger's rows |
| Schema, migration and start, `db.py` 25-168, `storage/seed.py`, `web/app.py` | the tables and their columns | `Database.__init__`, `_migrate`, `seed_demo`, `create_app` | everything |
| Addresses, `core/bip32.py`, `core/bech32.py` | none | xpub derivation, segwit encoding | Bitcoin backend |
| Vault and passwords, `security/` | the key while unlocked | encrypt, decrypt, lock; hash, verify | passwords: auth; the vault has no caller |
| Claims, `db.py` 349-384 | `claims` | `create_claim` and its reads | no caller outside the tests |
| Pages, QR codes, configuration, entry point | none | rendering, environment variables | |

### What is hard here

*Interleaving.*  Handlers are `async def` without an `await`, and network calls
are blocking: one event loop runs one request at a time, so within a process a
handler is atomic.  Interleavings happen between *connections to the database
file*: another process, or the background scheduler `payment_watcher.py:3-4`
foresees (a thread needs a `Database` of its own, since `sqlite3` refuses a
connection from another thread).

*Failure.*  A handler commits after every statement.  A crash, or an exception
of SQLite, between two commits leaves the first in place, whatever the number of
processes.  Network calls raise or time out (8 s for chains, 5 s for prices).

*Ordering.*  Donors pay in parts, overpay, replace transactions; creators move
coins away; settlement quotes, payments and posted txids come in any order, and
every call may be repeated.

*Time and numbers.*  Tier thresholds, a countdown rounded by `+ 0.999`, a clock
set back, truncated fees.

### What makes each component correct

* **Fee ledger and watcher.** A confirmed donation's fee reaches the balance,
  once; nobody owes more than they earned; between requests no fee is lost.
* **Settlement.** A balance goes down only by what has just been recorded as
  settled; what is recorded is what was paid.
* **Invoice flow and backends.** Confirmed only when what came to the address is
  what is asked, and paid by the donation's own donor; a paid invoice is confirmed
  in the end, for both coins, while somebody looks at it; amounts of one unit only
  in the balance.
* **Fee tiers.** The rate never rises with time; the countdown agrees with it;
  the fee never exceeds the rate.
* **Price feed.** No price older than the stale limit is returned, up to one
  request and a corrected clock; prices never go back; a call raises only when
  no acceptable entry exists.
* **Sessions.** A logged-out or refused session serves nobody again; a browser
  that holds its cookie is signed in, unless the server's clock ran ahead.
* **Start.** Who serves has the full schema; a start fails only in the company of
  another; the demo user has its donations unless their process died; what is
  committed makes sense at any moment.
* **Shared file.** An acknowledged signup is in the file; nobody waits forever;
  only an error leaves a lock behind.
* **Live wall.** Pinned first, newest first, cut at the limit and nowhere else;
  a donation is read once; whoever presses the buttons.
* **Addresses.** The encoder keeps every bit, is that of BIP173, and its checksum
  finds every wrong or swapped character.

`PROJECT.json` lists the hazards one by one, at their lines.

## 2. Modules

| Module | Models | Role |
|---|---|---|
| `FeeAccounts` | what the bookkeeping promises, one atomic step per request | abstract specification |
| `FeeLedger` | the same at the grain of committed statements; workers, dead requests, settlement pages | implements `FeeAccounts` |
| `PaymentStatus` | classification of a received amount; final statuses | operators |
| `FeeRules` | rates, ages, countdown rounding, fee truncation | operators |
| `FeeTiers` | one account's rate over a moving clock and overrides | extends `FeeRules` |
| `Invoices` | the application handler by handler, with the chains and the wallets around it | composes `FeeRules`, `PaymentStatus`; implements `FeeAccounts` |
| `PriceFeed` | one shared feed over true time and a system clock | |
| `Processes` | server processes on one database file, statement by statement: schema script, migration, seed, signups | |
| `Sessions` | accounts, sessions and cookies under a corrected clock | component |
| `Site` | the live wall of one creator, and the buttons that any signed-in user presses | composes `Sessions` with the wall |
| `Bech32` | the encoder of Bitcoin addresses | operators; `Invoices` asks it for addresses |
| `MCFeeLedger`, `MCFeeTiers`, `MCInvoices`, `MCPriceFeed`, `MCProcesses`, `MCSite` | instances for TLC, and the checks of the encoder | model checking |
| `FeeLedger_proofs`, `FeeTiers_proofs`, `Invoices_proofs`, `PriceFeed_proofs`, `Processes_proofs`, `ProcessRows_proofs`, `Site_proofs` | theorems | proofs |
| `FiniteLemmas` | sums over finite sets, places in an order, counted steps | lemmas for the proofs |

`FeeLedger` and `Invoices` look at the same code at two grains.  `FeeLedger` cuts
a request at every commit and knows nothing of chains; `Invoices` takes a handler
whole (what one event loop does when nothing fails) and adds keys, addresses and
money.  Both are shown to implement `FeeAccounts`.

### FeeLedger

A *worker* is an event loop with one connection.  `frame[w]` is what its running
request remembers: the statement it executes next and its locals (donation,
user, amount, and the payment behind a posted txid).

| Code | Action |
|---|---|
| `create_donation` (INSERT fixes `platform_fee_sats`) | `CreateInvoice` |
| `PaymentWatcher.check` 67-103: read, early return when confirmed | `CheckBegin` |
| the backend's answer, 105-112 | `BackendFinal`, `BackendNotFinal` (also errors) |
| `confirm_donation`, then the test of line 116 | `ConfirmDonation` |
| `increment_fee_balance` (adds in SQL) | `IncrementFeeBalance` |
| `settle_page` with a positive balance | `SettlePage` |
| the user's transaction | `UserPays` (external) |
| `settle_confirm` to its first write | `SettleBegin` |
| `record_settlement`, `reset_fee_balance` | `RecordSettlement`, `ResetFeeBalance` |
| crash, or SQLite error, between two commits | `Abort` (external) |

The test of line 116 has two halves.  The first reads the snapshot that line 74
has found unconfirmed, so it is always true, and only the fee decides; that is
what `ConfirmDonation` says.  `earned` and `credits` are history variables:
`EarnedIsSum` shows that `earned` is the sum of the confirmed rows' fees.

An amount of a settlement is what `current_user` read: `SettleBegin` copies the
balance into the frame.  A posted text counts as the txid of the last payment
that was not posted yet, or of no payment; the program cannot tell.

### Invoices

A backend object is its next index and the addresses it has handed out.
`create_invoice` builds a new one per invoice (`InvoiceBackend`); the watcher has
its own, with which it only ever checks (`WatcherBackend`).  An address is
(kind, key, index).  The chain holds per address what is in the mempool, what is
mined and what was spent again.  `Check` is `PaymentWatcher.check` when it
writes: in every other case it changes nothing.  `StatusSeen` follows its order:
placeholder, refusal by the backend, classification.  (Donations without an
address, which `check` refuses first, are the demo's and are no invoices.)

Nothing on the server asks for a status.  `polling` holds the donations whose
invoice page is open: `OpenPage` and `ClosePage` are whoever has the link, `Poll`
is one turn of the timer of `invoice.js:55-66`, which is where `Check` happens.
A final answer stops the timer unless it is lost.

`Pay`, `PayOtherwise`, `Mine`, `Drop` and `Spend` are the environment.
`update_profile` takes any valid key (`settings.py:59-62`), and a new backend
always derives index 0 (`public_api.py:48`), so the address shown may be the first
of a wallet in use.  `Init` therefore lets coins be there from the start, and
`PayOtherwise` lets more come from elsewhere at any time; `check` cannot tell them
from the donor's.  `sentFor` and `fromOthers` record who sent what.  So an invoice
can be confirmed although its donor sent nothing in two ways: another invoice
shows the same address (`invoices_reuse` exhibits it), or the wallet held or got
coins of its own.  The second is why `ConfirmedWasPaid` counts what came to the
address from everybody.

Every Bitcoin status has `txid = None` (`public_api.py:106,123`), so
`confirm_donation` never writes a txid of its own; the column is not modelled.

### FeeRules and FeeTiers

A rate is in thousandths: all rates the code defines are whole thousandths.  The
doubles next to 0.035, 0.025, 0.020 and 0.010 are not below them and differ by
less than half a unit in the last place of a product, so `int(amount * rate)` is
`amount * rate \div 1000` for every amount under 10^14 (a million bitcoin, a
hundred XMR in piconero).  `Overrides` stands for rates with this property, as the
two that `fees.py` names have; an operator's other rates (0.58, say) may charge
one unit less when the fee is a whole number, which favours the user.
`int(days + 0.999)` on ages in seconds is
`(10 * seconds + 863136) \div 864000`.

### PriceFeed

A price is the moment it was quoted at, since its age is what matters.  `usd` is
cut at the request to Kraken: `UsdCached` returns without one, `UsdFetch` reads
the clock and waits, `FetchSucceeds` and `FetchFails` end the call.  One call
runs at a time (the request blocks the event loop); only time passes while it
waits (`Tick`), and the system clock may be corrected (`SetClock`).  True time
and the totals `back` and `forward` exist only to state the properties.  `shown`
and `refused` record what a caller got.  A request lasts at most `MaxFetch`,
which is an assumption about the network: `timeout=5.0` limits each read, not
the whole answer.  `create_invoice` uses a feed of its own that starts empty and
is dropped, so it either fetches or shows nothing.

### Processes

A *process* is one server with its one connection.  `todo[p]` is what it has
still to execute: the start is the schema script, `_migrate`, a commit and the
look for the demo user; a request is a page (one SELECT) or a signup.  The list
changes where the code decides: `TableInfo` puts the missing columns of a group
ahead, `CheckSeed` the seed or nothing.

| Code | Action |
|---|---|
| start of a server: `create_app`, `Database.__init__`, `seed_demo` | `Start`, then its list |
| `executescript(SCHEMA)`, `CREATE ... IF NOT EXISTS` | `PassOver`, `Define` |
| `PRAGMA table_info` and the tests of `_migrate` | `TableInfo` |
| `ALTER TABLE ADD COLUMN`; "duplicate column name" | `Define`; `DefineFails` |
| `seed_demo`'s guard | `CheckSeed` |
| INSERT; `IntegrityError` | `Write`; `WriteDuplicate` |
| `commit()` | `Publish`, `AwaitReaders` |
| "database is locked" after the busy timeout | `Locked` |
| the redirect with the cookie | `Answer` |
| death | `Crash` (external) |

SQLite is external and modelled as the code uses it: the rollback journal (the
code sets no other mode), `sqlite3.connect` with its default timeout, and the
`BEGIN` that Python's `sqlite3` executes before an INSERT and before nothing
else.  A write takes RESERVED, a commit or schema change with readers waits in
PENDING, which keeps new readers out; a commit that times out keeps its rows and
its lock, which the model follows to the next commit of that connection.  A
reader keeps SHARED only inside an open transaction: the code fetches every
result to its end.  `create_user` turns an `IntegrityError` into `DuplicateError`
and rolls nothing back, so a failed signup leaves the write lock with its
process (`failed`).  Two processes may so refuse each other every write until
one of them is restarted; each request still ends (`EveryProgramEnds`).
`FeeLedger` knows a dead request, but not a commit that times out and is
published by a later one; that is the subject here.

`OldSchemas` are the files a first start may find: none, or one of the first
release without the columns that `_migrate` adds.  Crashes of the model add
every file a migration was interrupted on.

### Sessions and Site

A handler is atomic (one process); its answer may be lost, which leaves the
cookie jar as it was.  An answer that is not lost arrives within the second of the
commit; later ones are not modelled.  `time` is true time, by which a browser
drops a cookie when the last second of its `max_age` is over; the server's clock is `time + offset`, by which
`create_session` stamps and `get_session_user` judges a row.  `LookUp` is
`current_user`: it deletes the row of a session it finds expired.  `Visit` is any
page that asks who is there.  Tokens are never issued twice (`new_token` draws
256 bits).  `issued`, `loggedOut`, `refused` and `rushed` are history.

`Site` adds donations that simply appear, stamped with the server's clock, and
the three queries of `live.py`.  The buttons are `PinDonation` and
`MarkDonationRead`.  `live.py:124` heads them "Owner-only actions", but
`_require_owner` compares the session's user only with the slug in the URL, and
neither handler compares the donation's creator with it: whoever is signed in
presses them for any donation, under the slug that is theirs.  The model does what
the code does, and `WallOrder` and `ReadOnce` hold whoever presses; that only the
owner presses is no property of this code, and none is stated.

### Bech32

A number is the set of the places of its ones, which is what the code's shifts,
masks and exclusive or work on; a string is the sequence of its characters.
`Registers` is `chk` after each turn of `_polymod`'s loop, `Regrouped` the locals
of `_convertbits` after each value, masked accumulator included; both are
recursive functions on 0 .. n.  `Programs` are the hashes an address may stand
for: byte sequences of the 2 to 40 bytes that `encode_segwit` accepts.  What the
encoder owes is `RegroupsExactly`, `NamesOne` and `DetectsSlips`; `Invoices` owes
it as soon as an invoice shows a derived address (`AddressesEncode`,
`SlipsDetected`).  That `Valid` means what BIP173 means, and not
only that the encoder agrees with itself, is an assumption of `MCInvoices` which
TLC evaluates: the address of `tests/test_bip32.py:74` is valid and holds its
program, and the generator has the hexadecimal values of the code.

## 3. Runs

| Run | Asks | Answer |
|---|---|---|
| `ledger_server` | one worker, no dead request, 2 users, 3 donations, fees {0,2,3}, 2 settlements | `FeesAccounted`, `EarnedIsSum`, `EventuallyCredited`, `ImplementsFeeAccounts` hold |
| `ledger_aborts` | one worker, 2 dead requests, 2 users, 3 donations, both symmetric | `TypeOK`, `CreditedOnce`, `OwedAtMostEarned`, `NothingForgiven`, `IInv` hold |
| `ledger_two_workers` | two workers on one file | **violated** `CreditedOnce`: both credit |
| `ledger_lost_credit` | one dead request | **violated** `ConfirmedIsCredited`: confirmed, and never credited |
| `ledger_stale_quote` | one worker, a donation between quote and post | **violated** `RecordsWhatWasPaid` |
| `fee_tiers` | one account over 64 days of clock, set back and overridden | `TypeOK`, `RateNeverRises`, `CountdownAgrees`, `RoundingFavorsUser` hold |
| `invoices` | 1 creator, 2 invoices over both coins, 2 payments, a wallet that may hold coins before; pages that open and close; the address encoder | `TypeOK`, `ConfirmedWasPaid`, `IInv`, `SatsOnly`, `AddressesEncode`, `SlipsDetected`, `EventuallyConfirmed`, `ImplementsFeeAccounts` hold |
| `price_feed` | one coin, all times to 9, limits 2 and 5, requests up to 1, clock off by up to 2 either way | `TypeOK`, `NoStalePrice`, `IInv`, `PricesMoveForward`, `RefusesOnlyWhenStale` hold |
| `shared_file` | two processes on one file, new or of the first release; two slugs, one of them the demo's; deaths at any statement | `TypeOK`, `ServesFullSchema`, `RowsInOrder`, `DemoComplete`, `FailsOnlyInCompany`, `AcknowledgedIsDurable`, `IdleIsUnlocked`, `EveryProgramEnds` hold |
| `site` | two users, two browsers, a clock ahead by 0 or 2; two sessions and a donation, or one session and three donations on a wall of two rows | `TypeOK`, `SessionsIInv`, `SessionEnds`, `SessionLasts`, `WallOrder`, `ReadOnce` hold |
| `invoices_reuse` | two invoices of a creator with an xpub | **violated** `ConfirmedByOwnPayment`: same address |
| `invoices_monero` | a paid Monero invoice | **violated** `EventuallyConfirmedMonero`: the watcher's backend refuses the address |

Five runs end in a violation: the code does something else than its comments
say.  The `findings` of `PROJECT.json` quote both.

**Bounds.**  `MaxSettlements` and `MaxAborts` are 2: one to reach the state, one
to meet its consequence.  Three donations in `ledger_server` let one be created,
one be in flight and one be credited while a settlement runs; fees 0, 2 and 3
contain the fee that skips the credit and two sums that cannot be confused.
`MaxPayments` is 2: a payment in two parts, an overpayment, a replacement and
two payments for a shared address all fit, and so does a payment beside one from
elsewhere.  Amounts 0 and 200 with payments of 100 and 200, and 100 from elsewhere,
give underpaid, exact, overpaid and the free invoice.  One creator is enough to
share a key among two invoices (254816 states; with two, 2 million): that a fee
goes to the right one of several creators is checked on two users in
`ledger_server` and proved for any in `Invoices_proofs`.  In `fee_tiers` the clock
moves by 1 s, 86 s, a day or 14 days, and the constraint `NearBoundary` keeps it
within minutes of a whole number of days, where every threshold and every
rounding boundary lies; amounts run from 0 to 210, past the first amount at
which each rate takes a unit.  In `price_feed`, 60 s, 300 s and 5 s become 2, 5 and 1: the
order is kept, and time runs long enough for an entry to be fetched, expire,
serve through a failure and become too old.  Coins do not interact in the code
and one is enough.  `shared_file` has no bound but its constants: two processes
meet in every lock, the demo user races with a visitor of the same slug, and no
counter grows.  In `site` a lifetime of one tick, a clock two ticks ahead and two
ticks of time let a session be refused before, at and after the end of its
cookie and the clock return afterwards.  Every behaviour keeps one of the two
`MCBounds`.  In `TwoSessions` two tokens follow or overlap each other, and a fan
may press the button of the one donation under a slug of their own; in
`ThreeOnAWall` the creator presses twice among three donations, so that the wall
has two rows to order and cuts the third, a window of one tick lets rows fall out,
and the filter by amount leaves some out (amounts 1 and 2).  The theorems are for
any bounds.  The encoder runs on the 16 programs of two bytes from {0, 1, 128, 255}, on one
each of three, four and six bytes (every number of bits left over occurs) and on
the program of the tests, with every wrong and every swapped character of each.
The proofs remove the bounds where they exist.

**Deadlock.**  The ledger and the invoices really may stop: all ids used, all
bounds reached.  So may the site, at the end of its time.  Their
configurations say so.  `fee_tiers`, `price_feed` and `shared_file` never stop.

**Fairness.**  `FeeLedger!FairSpec`: a started request goes on, because the code
between two statements cannot block and network calls carry timeouts.
`Invoices!FairSpec`: an open invoice page polls, at once and every five seconds,
until it sees a final status (`invoice.js:65-66`), and some poll reaches the API; a
block takes a payment that stays in the mempool.  The fairness of `Poll` is strong
because a page may be closed and opened again for ever, and each visit begins with
a poll.  Nobody has to open a page or to leave it open: `EventuallyConfirmed` is
about an invoice whose page is open again and again (`invoice.html:74` tells the
donor to "Bookmark it or leave it open"), and whoever pays and closes it for good is
not confirmed.  `Processes!Spec`: a process with statements
left executes the next one, because the busy timeout bounds how long SQLite keeps
it waiting; a start and a visitor's request are not forced.  No fairness is assumed of users, of
settlements, of dead requests or of replacements.

## 4. Proofs

`FeeLedger_proofs`, for any users, donations, fees (naturals) and bounds:

* `TypeCorrect` and `EarnedIsTheSum` (`EarnedIsSum`), for any set of workers;
* for one worker (`ASSUME NEW s, Workers = {s}`, the application as it ships):
  `InductiveInvariant`, `CreditOnce`, `NeverOvercharged`, `FeesConserved`,
  `NoForgiveness`, and, without dead requests, `Refinement` to `FeeAccounts`.

The properties are not inductive alone.  `CreditedOnce` needs that a request
about to credit has a donation that is confirmed and not credited
(`SnapshotsFresh`), which needs that no other request can change either;
`OwedAtMostEarned` needs the credit still to come counted in (`BooksBalance`);
`FeesAccounted` needs the amount recorded and not yet reset, and that it still
equals the balance.  `IInv` is the conjunction of these with the types.
Two workers break `SnapshotsFresh`, which is what `ledger_two_workers` exhibits.
`EarnedIsSum` is inductive beside the types and the fact that finitely many rows
are confirmed; confirming a row adds one summand, confirming it again none.

`FeeTiers_proofs`, for every clock, creation time, override and amount:
`TypeCorrect`, `LoyaltyIsRoyalty` (`RateNeverRises`), `UserFavored`
(`RoundingFavorsUser`), `CountdownExact` (`CountdownAgrees`).

`Invoices_proofs`, for any creators, keys, donations, amounts and payments:
`TypeCorrect`, `InductiveInvariant` (`IInv`), `PaidBeforeConfirmed`
(`ConfirmedWasPaid`), `OnlySats` (`SatsOnly`), `Refinement` to `FeeAccounts`.
The invariant is `ChainBacked`: an address no invoice shows holds no more than what
came from elsewhere, and one that a single invoice shows no more than that and
what its donor sent.  Nothing is assumed of what a wallet held before.  `SatsOnly`
rests on `FinalIsBitcoin`: the watcher's Monero object knows no address, so only
a Bitcoin row is ever seen as final.

The same module proves what is owed of the encoder, for any programs:
`AddressesKeepKeys` (`AddressesEncode`) and `SlipsAreFound` (`SlipsDetected`).

* Regrouping (`Regroups`): after i values, `ret` and the low places of the
  accumulator together hold the bits so far, in their order; the accumulator's
  mask is wide enough for what is left over and one value more.  At the end, the
  padding holds the last bits and zeros (`ByFives`); on the way back fewer than
  five bits are left over, all of them such zeros (`BackByEights`).  With that,
  and 32 characters that differ, an address tells its program.
* Checksum: a step tells apart two registers after the same value
  (`StepKeepsApart`; the low places of the five generator numbers are
  independent, `TapsDiffer`), two values after the same register
  (`StepTellsApart`), and the order of two values (`StepsTellOrder`).  A
  difference made once therefore lasts to the end (`DifferToTheEnd`), whatever
  the program.  That the checksum itself is accepted (`ChecksumHolds`): its
  groups come in at places that no tap looks at before the last of them is in
  (`StepPasses`), so six steps put the whole register together.

`PriceFeed_proofs`, for any coins, limits, request durations and corrections of
the clock: `TypeCorrect`, `StalenessBounded` (`NoStalePrice`), `NeverBackwards`
(`PricesMoveForward`), `RefusalJustified` (`RefusesOnlyWhenStale`).  None is
inductive alone: the invariant (`AgeBy`, in `EntriesDated` and `CallDated`) says
how far the age by the system clock can be from the true age, and a correction
of the clock moves both sides of it; `CallDated` also says that what is shown is
no newer than the request that runs, which is why its answer is not older.

`Processes_proofs`, for any number of processes, any slugs and any old file:
`FullSchemaServed` (`ServesFullSchema`).  The invariant, `SchemaPromised`, is
that whatever of the schema a starting process still misses is promised by a
statement ahead of it: created, added, or read about in a column list that will
put it ahead.  A statement leaves the list only when its objects are there,
whoever created them, and the list that `CheckSeed` may replace promises
nothing any more.

The same module proves `ProcessesTyped` (`TypeOK`) and
`IdleConnectionsUnlocked` (`IdleIsUnlocked`).  What is left of a process's list
says where it stands in one of a few straight programs (`Placed`: a signup, the
seed, a migration, a page, nothing), and the place says whether a transaction
is open and which lock it may hold (`LocksHeld`: at most one writer, and a lock
only in a transaction).

`ProcessRows_proofs` builds on this, to the properties of the rows:

* `CommittedInOrder` (`RowsInOrder`) and `SignupsDurable`
  (`AcknowledgedIsDurable`).  A row of an account waits in a transaction only
  while the file lacks it (`AccountsHeld`: there is one writer, and UNIQUE is
  checked under its lock); each place of a signup knows which of its two rows
  are in the file, in the transaction or still to be inserted, and only one
  process owes the session of a slug (`SessionsHeld`).
* `DemoCompleted` (`DemoComplete`).  A seed past its first insert is the only
  one and knows which demo rows are there; when there is none the rows are all
  there, or none is, or a process stands between the commits, or one was killed
  there (`SeedersHeld`, `DemoHeld`).
* `StartsFailInCompany` (`FailsOnlyInCompany`).  What is left of a start is
  ordered: what a statement needs is in the schema or promised by an earlier
  statement; and, alone, the columns it adds are new and come first, the demo
  user is absent at the seed's first insert, and nobody else holds a lock
  (`StartsHeld`).

`Placed`, `LocksHeld` and the four `...Held` were checked by TLC on the instance
of `shared_file` (40602 states) before they were proved.

`Site_proofs`, for any users, browsers, tokens, lifetimes, donations, limits and
corrections of the clock: `TypeCorrect`, `SessionsInvariant` (`SessionsIInv`),
`LoggedOutForGood` (`SessionEnds`), `SignedInToTheEnd` (`SessionLasts`),
`ReadIsOnce` (`ReadOnce`), `WallInOrder` (`WallOrder`).  `SessionsIInv` ties three
dates of a token together: that of its issue, by both clocks, that of its row
and that of its cookie; and says that a token without a row was logged out or
refused, and refused late unless the clock ran ahead (`RefusedLate`,
`RushKnown`).  That the wall does no more to sessions than a visit
(`WallVisits`) carries the results from `Sessions` to `Site`.

For the wall, `RowsInTime` (checked by TLC on the instance of `site` first) says
that ids and times run the same way until the clock is set back; so the order
of the query is that of pins and ids, it is strict and total, and
`FiniteLemmas` gives every row a place of its own.

`FiniteLemmas` states induction on finite sets with a set for the property,
because the provers cannot instantiate the library's operator parameter; from it
follow that a sum exists, is unique and does not depend on the order of its
summands (`TotalRemove`, `SumOfMore`), and that in a strict total order of n
elements each of n places is taken (`AheadCounts`, `PlacesTaken`).  Likewise
`CountingUp` is induction on 0 .. n, and `HistoryExists` says that a sequence of
steps can be taken, which is what a recursive function on 0 .. n computes.

*Only model-checked*: `EventuallyCredited`, `EventuallyConfirmed` and
`EveryProgramEnds` (liveness is out of the prover's reach).

*Assumed*: `Fees`, `Amounts`, `Payments` and `Others` are naturals, the last two
positive; coins from elsewhere come to the first address of a key only (placeholders
are no addresses, and a wallet's subaddresses are new for every invoice); the
bounds are naturals, the stale limit is positive; overrides are rates in [0, 1); an old file holds no
index or column without its table; `None` is no row; programs have 2 to 40
bytes.

## 5. Plan

Done: the ledger, the invoices, the fee tiers, the price feed, the shared file,
the sessions, the wall and the encoder; theorems for every safety property of
the passing runs.  What is left are the parts of section 6 that a caller would
make matter, when there is one: claims, `bump_btc_index`,
`purge_expired_sessions`.

## 6. Not modelled

Elliptic-curve arithmetic, hashes, Argon2 and AES are library calls whose
correctness TLC cannot reach; the vault has no caller.  Claims, `bump_btc_index`
and `purge_expired_sessions` have no caller in the application.  `change_password`
replaces a hash that the models abstract from and touches no session.  The sums
that the dashboard, the creator page, `/me` and `/explore` show are reads over
a limited list and decide nothing.
Templates, CSS, QR codes, CSV and the configuration keep no state.  Who is logged
in is not part of the ledger models: a page of a user is called by that user.
The parsing of amounts and `usd_at_receipt` decide nothing later.  The stubs
`node.py` and `local_node.py` raise on every call.  Rows are never deleted by
the application, so `ON DELETE CASCADE` never fires.
