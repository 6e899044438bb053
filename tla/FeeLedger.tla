----------------------------- MODULE FeeLedger -----------------------------
(***************************************************************************)
(* The platform-fee bookkeeping at the grain of committed SQL statements.  *)
(*                                                                         *)
(* A worker is one event loop with one Database connection: the uvicorn    *)
(* process, another one started beside it, or the background scheduler     *)
(* payment_watcher.py:3-4 foresees.  The handlers contain no await, so a   *)
(* worker runs one request at a time and its frame is all the request      *)
(* remembers between two commits.  Workers meet only in the SQLite file,   *)
(* where every execute-and-commit is one atomic step.                      *)
(*                                                                         *)
(* With Workers a singleton this is the application as it ships.           *)
(***************************************************************************)
EXTENDS Integers, Functions

CONSTANTS Workers,          \* event loops sharing the database file
          Users,            \* creators
          Donations,        \* ids the donations table may hand out
          Fees,             \* platform_fee_sats a new donation may carry
          None,             \* SQL NULL, and a row that does not exist
          MaxAborts,        \* bound: requests that die half way
          MaxSettlements    \* bound: posts to /dashboard/settle/confirm

ASSUME FeesAssumption == Fees \subseteq Nat
ASSUME BoundsAssumption == MaxAborts \in Nat /\ MaxSettlements \in Nat

Row == [user : Users, fee : Fees, confirmed : BOOLEAN]

ASSUME NoneAssumption == None \notin Row /\ None \notin Donations /\ None \notin Users

VARIABLES
    donations,      \* the donations table
    balance,        \* users.fee_balance_sats
    settled,        \* per user, the total of fee_settlements.amount_sats
    frame,          \* worker -> the request it is running, and its locals
    quoted,         \* user -> amount on the settle page still open, or 0
    paid,           \* user -> amount paid on chain whose txid is not posted yet
    settlePosts,    \* number of posts to settle/confirm so far
    aborts,         \* number of requests that died so far
    earned,         \* history: user -> total fee of the donations confirmed
    credits         \* history: donation -> number of times its fee was credited

dbVars == <<donations, balance, settled>>
userVars == <<quoted, paid>>
boundVars == <<settlePosts, aborts>>
historyVars == <<earned, credits>>
vars == <<donations, balance, settled, frame, quoted, paid, settlePosts, aborts,
          earned, credits>>

\* Where a request stands: the statement it executes next.
Points == {"idle", "query", "confirm", "credit", "record", "reset"}

Frame == [at : Points, donation : Donations \union {None}, user : Users \union {None},
          amount : Nat, payment : Nat]

Request(at, donation, user, amount, payment) ==
    [at |-> at, donation |-> donation, user |-> user, amount |-> amount, payment |-> payment]

Idle == Request("idle", None, None, 0, 0)

Return(w) == frame' = [frame EXCEPT ![w] = Idle]

GoTo(w, request) == frame' = [frame EXCEPT ![w] = request]

-----------------------------------------------------------------------------
Init ==
    /\ donations = [d \in Donations |-> None]
    /\ balance = [u \in Users |-> 0]
    /\ settled = [u \in Users |-> 0]
    /\ frame = [w \in Workers |-> Idle]
    /\ quoted = [u \in Users |-> 0]
    /\ paid = [u \in Users |-> 0]
    /\ settlePosts = 0
    /\ aborts = 0
    /\ earned = [u \in Users |-> 0]
    /\ credits = [d \in Donations |-> 0]

\* create_invoice: the only write is the INSERT, which fixes the fee.
CreateInvoice(w, d, u, f) ==
    /\ frame[w] = Idle
    /\ donations[d] = None
    /\ donations' = [donations EXCEPT ![d] = [user |-> u, fee |-> f, confirmed |-> FALSE]]
    /\ UNCHANGED <<balance, settled, frame, userVars, boundVars, historyVars>>

\* Mutant: the early return is missing.
CheckBeginAlways(w, d) ==
    /\ frame[w] = Idle
    /\ donations[d] # None
    /\ GoTo(w, Request("query", d, None, 0, 0))
    /\ UNCHANGED <<dbVars, userVars, boundVars, historyVars>>

\* PaymentWatcher.check up to the network call: get_donation, and the early
\* return for a donation whose confirmed_at is set.
CheckBegin(w, d) ==
    /\ frame[w] = Idle
    /\ donations[d] # None
    /\ ~donations[d].confirmed
    /\ GoTo(w, Request("query", d, None, 0, 0))
    /\ UNCHANGED <<dbVars, userVars, boundVars, historyVars>>

\* The backend reports a final status.
BackendFinal(w) ==
    /\ frame[w].at = "query"
    /\ GoTo(w, Request("confirm", frame[w].donation, None, 0, 0))
    /\ UNCHANGED <<dbVars, userVars, boundVars, historyVars>>

\* The backend reports pending, underpaid or not_found, or raises: the
\* request answers without touching the database.
BackendNotFinal(w) ==
    /\ frame[w].at = "query"
    /\ Return(w)
    /\ UNCHANGED <<dbVars, userVars, boundVars, historyVars>>

\* Mutant: the UPDATE is never committed.
ConfirmDonationUncommitted(w) ==
    LET d == frame[w].donation
        row == donations[d]
    IN  /\ frame[w].at = "confirm"
        /\ earned' = [earned EXCEPT ![row.user] = @ + row.fee]
        /\ GoTo(w, Request("credit", d, row.user, row.fee, 0))
        /\ UNCHANGED <<donations, balance, settled, userVars, boundVars, credits>>

\* Mutant: the credit is forgotten.
ConfirmDonationOnly(w) ==
    LET d == frame[w].donation
        row == donations[d]
    IN  /\ frame[w].at = "confirm"
        /\ donations' = [donations EXCEPT ![d].confirmed = TRUE]
        /\ earned' = [earned EXCEPT ![row.user] = @ + row.fee]
        /\ Return(w)
        /\ UNCHANGED <<balance, settled, userVars, boundVars, credits>>

\* db.confirm_donation (UPDATE, commit, re-read), then the test of
\* payment_watcher.py:116.  Its first half reads the snapshot CheckBegin took,
\* which was unconfirmed, so only the fee decides.
ConfirmDonation(w) ==
    LET d == frame[w].donation
        row == donations[d]
    IN  /\ frame[w].at = "confirm"
        /\ donations' = [donations EXCEPT ![d].confirmed = TRUE]
        /\ earned' = [earned EXCEPT ![row.user] = IF row.confirmed THEN @ ELSE @ + row.fee]
        /\ IF row.fee > 0
           THEN GoTo(w, Request("credit", d, row.user, row.fee, 0))
           ELSE Return(w)
        /\ UNCHANGED <<balance, settled, userVars, boundVars, credits>>

\* Mutant: the balance is overwritten instead of added to.
IncrementFeeBalanceOverwrite(w) ==
    /\ frame[w].at = "credit"
    /\ balance' = [balance EXCEPT ![frame[w].user] = frame[w].amount]
    /\ credits' = [credits EXCEPT ![frame[w].donation] = @ + 1]
    /\ Return(w)
    /\ UNCHANGED <<donations, settled, userVars, boundVars, earned>>

\* db.increment_fee_balance: one UPDATE that adds in the database.
IncrementFeeBalance(w) ==
    /\ frame[w].at = "credit"
    /\ balance' = [balance EXCEPT ![frame[w].user] = @ + frame[w].amount]
    /\ credits' = [credits EXCEPT ![frame[w].donation] = @ + 1]
    /\ Return(w)
    /\ UNCHANGED <<donations, settled, userVars, boundVars, earned>>

\* settle_page: it redirects when nothing is owed, else shows the balance.
SettlePage(w, u) ==
    /\ frame[w] = Idle
    /\ balance[u] > 0
    /\ quoted' = [quoted EXCEPT ![u] = balance[u]]
    /\ UNCHANGED <<dbVars, frame, paid, boundVars, historyVars>>

\* The user pays the amount on the page from their own wallet.
UserPays(u) ==
    /\ quoted[u] > 0
    /\ paid[u] = 0
    /\ paid' = [paid EXCEPT ![u] = quoted[u]]
    /\ quoted' = [quoted EXCEPT ![u] = 0]
    /\ UNCHANGED <<dbVars, frame, boundVars, historyVars>>

\* Mutant: settle the amount the page showed.
SettleBeginQuoted(w, u) ==
    /\ frame[w] = Idle
    /\ settlePosts < MaxSettlements
    /\ GoTo(w, Request("record", None, u, quoted[u], paid[u]))
    /\ paid' = [paid EXCEPT ![u] = 0]
    /\ settlePosts' = settlePosts + 1
    /\ UNCHANGED <<dbVars, quoted, aborts, historyVars>>

\* settle_confirm until its first write: current_user reads the users row, and
\* the balance in it is what the request will record.  Any text of 10 to 128
\* characters passes for a txid, so the post needs neither a payment nor a
\* balance; payment remembers what the posted txid paid, if anything.
SettleBegin(w, u) ==
    /\ frame[w] = Idle
    /\ settlePosts < MaxSettlements
    /\ GoTo(w, Request("record", None, u, balance[u], paid[u]))
    /\ paid' = [paid EXCEPT ![u] = 0]
    /\ settlePosts' = settlePosts + 1
    /\ UNCHANGED <<dbVars, quoted, aborts, historyVars>>

\* db.record_settlement: INSERT and commit.
RecordSettlement(w) ==
    /\ frame[w].at = "record"
    /\ settled' = [settled EXCEPT ![frame[w].user] = @ + frame[w].amount]
    /\ GoTo(w, Request("reset", None, frame[w].user, frame[w].amount, frame[w].payment))
    /\ UNCHANGED <<donations, balance, userVars, boundVars, historyVars>>

\* Mutant: subtract what the txid paid instead of resetting.
ResetFeeBalanceBySubtracting(w) ==
    /\ frame[w].at = "reset"
    /\ balance' = [balance EXCEPT ![frame[w].user] = @ - frame[w].payment]
    /\ Return(w)
    /\ UNCHANGED <<donations, settled, userVars, boundVars, historyVars>>

\* Mutant: the reset is lost.
ResetFeeBalanceNot(w) ==
    /\ frame[w].at = "reset"
    /\ Return(w)
    /\ UNCHANGED <<dbVars, userVars, boundVars, historyVars>>

\* db.reset_fee_balance: it writes 0, whatever the balance has become.
ResetFeeBalance(w) ==
    /\ frame[w].at = "reset"
    /\ balance' = [balance EXCEPT ![frame[w].user] = 0]
    /\ Return(w)
    /\ UNCHANGED <<donations, settled, userVars, boundVars, historyVars>>

\* The process dies between two commits, or SQLite raises (locked, disk full)
\* and the handler ends in a 500: what is committed stays, the frame is lost.
Abort(w) ==
    /\ frame[w].at # "idle"
    /\ aborts < MaxAborts
    /\ aborts' = aborts + 1
    /\ Return(w)
    /\ UNCHANGED <<dbVars, userVars, settlePosts, historyVars>>

\* The statements of a request that has started.
Continue(w) ==
    \/ BackendFinal(w)
    \/ BackendNotFinal(w)
    \/ ConfirmDonation(w)
    \/ IncrementFeeBalance(w)
    \/ RecordSettlement(w)
    \/ ResetFeeBalance(w)

Next ==
    \/ \E w \in Workers, d \in Donations, u \in Users, f \in Fees : CreateInvoice(w, d, u, f)
    \/ \E w \in Workers, d \in Donations : CheckBegin(w, d)
    \/ \E w \in Workers, u \in Users : SettlePage(w, u)
    \/ \E u \in Users : UserPays(u)
    \/ \E w \in Workers, u \in Users : SettleBegin(w, u)
    \/ \E w \in Workers : Continue(w)
    \/ \E w \in Workers : Abort(w)

Spec == Init /\ [][Next]_vars

\* A started request runs to its end: the code between two statements cannot
\* block, and the network calls carry a timeout (REQUEST_TIMEOUT).
FairSpec == Spec /\ \A w \in Workers : WF_vars(Continue(w))

-----------------------------------------------------------------------------
(* What a request still has to do, as amounts of user u. *)

\* A fee confirmed and not yet in the balance.
Pending(w, u) ==
    IF frame[w].at = "credit" /\ frame[w].user = u THEN frame[w].amount ELSE 0

\* An amount recorded as settled and not yet out of the balance.
Recorded(w, u) ==
    IF frame[w].at = "reset" /\ frame[w].user = u THEN frame[w].amount ELSE 0

AllIdle == \A w \in Workers : frame[w] = Idle

\* Every variable holds what its column or local can hold; a fee balance and a
\* settlement are never negative.
TypeOK ==
    /\ donations \in [Donations -> Row \union {None}]
    /\ balance \in [Users -> Nat]
    /\ settled \in [Users -> Nat]
    /\ frame \in [Workers -> Frame]
    /\ quoted \in [Users -> Nat]
    /\ paid \in [Users -> Nat]
    /\ settlePosts \in Nat
    /\ aborts \in Nat
    /\ earned \in [Users -> Nat]
    /\ credits \in [Donations -> Nat]

\* payment_watcher.py:114 "Only credit the fee balance once": however often an
\* invoice is polled, and wherever requests die, its fee reaches the balance
\* at most once.
CreditedOnce == \A d \in Donations : credits[d] <= 1

\* settle.html:70 "Your balance accumulates from confirmed donations only": no
\* order of checks, settlements and dead requests asks a user for more than
\* the fees of the donations confirmed for them.
OwedAtMostEarned == \A u \in Users : balance[u] <= earned[u]

\* Between requests no fee is lost and none is invented: what a user owes plus
\* what they settled is exactly what their confirmed donations earned, as long
\* as no request died half way.
FeesAccounted ==
    aborts = 0 /\ AllIdle => \A u \in Users : balance[u] + settled[u] = earned[u]

\* A balance goes down only in a request that has just recorded, as settled,
\* exactly the amount that disappears: a reset forgives nothing else.
NothingForgiven ==
    [][\A u \in Users : balance'[u] < balance[u] =>
           \E w \in Workers : Recorded(w, u) = balance[u] - balance'[u]]_vars

\* payment_watcher.py:10-11 "On final status ... writes txid + confirmed_at to
\* the database. Idempotent - safe to call repeatedly": when no request is
\* running, a confirmed donation has had its fee credited, or a later call
\* could still do it.  No later call can: confirmed_at makes check return.
ConfirmedIsCredited ==
    AllIdle => \A d \in Donations :
        donations[d] # None /\ donations[d].confirmed /\ donations[d].fee > 0
            => credits[d] >= 1

\* dashboard.py:189 "User pastes the txid they used to pay. We record and
\* reset.": a settlement posted with the txid of a payment records no more
\* than that payment was.
RecordsWhatWasPaid ==
    \A w \in Workers : frame[w].at = "reset" /\ frame[w].payment > 0
        => frame[w].amount <= frame[w].payment

\* The fees of the confirmed rows of a creator.
ConfirmedOf(u) ==
    {d \in Donations : donations[d] # None /\ donations[d].user = u /\ donations[d].confirmed}

ConfirmedFees(u) == [d \in ConfirmedOf(u) |-> donations[d].fee]

\* What was earned is what the table says: statement by statement, however often
\* a donation is confirmed, the history variable earned is the sum of the fees of
\* the confirmed rows (donate.py:99, payment_watcher.py:113).  The run has one
\* worker; the theorem EarnedIsTheSum is for any number.
EarnedIsSum == \A u \in Users : earned[u] = SumFunction(ConfirmedFees(u))

\* A confirmed donation with a fee is credited in the end, when no request dies.
EventuallyCredited ==
    \A d \in Donations :
        (donations[d] # None /\ donations[d].confirmed /\ donations[d].fee > 0)
            ~> (credits[d] = 1)

-----------------------------------------------------------------------------
(* The inductive invariant.  The first part holds for any set of workers.   *)

\* A request names a row that exists, and a creator once it has read one.
RequestsRefer ==
    \A w \in Workers :
        /\ frame[w].at \in {"query", "confirm", "credit"} =>
              frame[w].donation \in Donations /\ donations[frame[w].donation] # None
        /\ frame[w].at \in {"credit", "record", "reset"} => frame[w].user \in Users
        /\ frame[w].at = "idle" => frame[w] = Idle

\* What a lone worker remembers still agrees with the database.
SnapshotsFresh ==
    \A w \in Workers :
        LET row == donations[frame[w].donation]
        IN  /\ frame[w].at \in {"query", "confirm"} => ~row.confirmed
            /\ frame[w].at = "credit" =>
                  /\ row.confirmed
                  /\ credits[frame[w].donation] = 0
            /\ frame[w].at \in {"record", "reset"} =>
                  frame[w].amount = balance[frame[w].user]

\* A fee is credited after the donation is confirmed, and once.
CreditsFollowConfirms ==
    \A d \in Donations :
        /\ credits[d] <= 1
        /\ donations[d] = None => credits[d] = 0
        /\ donations[d] # None /\ ~donations[d].confirmed => credits[d] = 0

\* The balance and the credit still to come stay within what was earned; when
\* no request died, every earned fee is in exactly one place.
BooksBalance ==
    \A w \in Workers, u \in Users :
        /\ balance[u] + Pending(w, u) <= earned[u]
        /\ aborts = 0 =>
              balance[u] + Pending(w, u) + settled[u] = earned[u] + Recorded(w, u)

\* What one worker keeps true at every commit: the frames agree with the
\* database, credits follow confirmations, and the books balance.
IInv ==
    /\ TypeOK
    /\ RequestsRefer
    /\ SnapshotsFresh
    /\ CreditsFollowConfirms
    /\ BooksBalance

-----------------------------------------------------------------------------
(* The one worker implements FeeAccounts: a donation's fee is owed from the  *)
(* moment it is confirmed, and an amount is settled from the moment it is    *)
(* recorded.                                                                 *)

Server == CHOOSE w \in Workers : TRUE

Owed == [u \in Users |-> balance[u] + Pending(Server, u) - Recorded(Server, u)]

Accounts == INSTANCE FeeAccounts WITH owed <- Owed

\* Every behaviour of one worker whose requests do not die is, request by
\* request, one of the atomic bookkeeping FeeAccounts describes.
ImplementsFeeAccounts == Accounts!Spec

=============================================================================
