------------------------------ MODULE Invoices ------------------------------
(***************************************************************************)
(* Donations from the invoice to the settled fee, one request at a time,   *)
(* as the single event loop of the application runs them: none of the      *)
(* handlers contains an await, so each is one step.  The chains, the       *)
(* donors' wallets and the creators' wallets are the environment.          *)
(*                                                                         *)
(* Nothing on the server asks for a status: an invoice is checked when a   *)
(* page of it is open, and only then.  And nothing makes an address the    *)
(* application's own: a creator may set the key of a wallet in use, whose  *)
(* first address holds coins already and gets more from elsewhere.         *)
(*                                                                         *)
(* A backend object is only what its memory tells apart: the next          *)
(* derivation index and the addresses it has handed out.  create_invoice   *)
(* builds a new one for every invoice; the watcher keeps one per coin.     *)
(***************************************************************************)
EXTENDS FeeRules, PaymentStatus, Bech32, Functions

CONSTANTS Users,            \* creators
          Xpubs,            \* extended public keys a creator may set
          Donations,        \* ids the donations table may hand out
          Amounts,          \* amounts an invoice may ask for
          Payments,         \* amounts a wallet may send
          Others,           \* amounts that others may send to the first address of a key
          FeeRate,          \* thousandths fee_percent_for yields
          MaxPayments,      \* bound: transactions to invoice addresses
          None              \* SQL NULL, and a row that does not exist

ASSUME AmountsAssumption ==
    /\ Amounts \subseteq Nat
    /\ Payments \subseteq Nat \ {0}
    /\ Others \subseteq Nat \ {0}
    /\ MaxPayments \in Nat
ASSUME FeeRateAssumption == FeeRate \in 0 .. 999

Coins == {"BTC", "XMR"}

(***************************************************************************)
(* An address names the key it comes from and its index there.  The dev    *)
(* placeholder and the wallet's subaddresses are new for every invoice:    *)
(* the one hashes a random label, the others are numbered by the wallet.   *)
(***************************************************************************)
XpubAddress(x, index) == <<"xpub", x, index>>
DevAddress(d) == <<"bc1qdev", d, 0>>
Subaddress(d) == <<"xmr", d, 0>>

FirstAddresses == {XpubAddress(x, 0) : x \in Xpubs}

Addresses == FirstAddresses
             \union {DevAddress(d) : d \in Donations}
             \union {Subaddress(d) : d \in Donations}

\* A Bitcoin or Monero object just constructed.
FreshBackend == [next |-> 0, handedOut |-> {}]

\* Bitcoin(xpub=user.btc_xpub) and Monero() in create_invoice.
InvoiceBackend == FreshBackend

\* Mutant: invoices and the watcher share one Monero object.
SharedBackend == [next |-> 0, handedOut |-> Addresses]

\* _backend_for builds the watcher's own objects; it only ever calls check on
\* them, so they hand out no address.
WatcherBackend == FreshBackend

\* Mutant: the external chain is numbered from one.
NewAddressFromOne(coin, xpub, d) ==
    IF coin = "XMR" THEN Subaddress(d)
    ELSE IF xpub # None THEN XpubAddress(xpub, InvoiceBackend.next + 1)
    ELSE DevAddress(d)

\* new_address of the backend the coin selects.
NewAddress(coin, xpub, d) ==
    IF coin = "XMR" THEN Subaddress(d)
    ELSE IF xpub # None THEN XpubAddress(xpub, InvoiceBackend.next)
    ELSE DevAddress(d)

Row == [user : Users, coin : Coins, amount : Amounts, address : Addresses, fee : Nat,
        confirmed : BOOLEAN]

ASSUME NoneAssumption ==
    None \notin Row /\ None \notin [user : Users, fee : Nat, confirmed : BOOLEAN]

VARIABLES
    xpubOf,         \* users.btc_xpub
    donations,      \* the donations table
    balance,        \* users.fee_balance_sats
    settled,        \* per user, the total of fee_settlements.amount_sats
    polling,        \* the donations whose invoice page is open and polls
    chain,          \* address -> coins in the mempool, mined, and spent again
    payments,       \* number of payments sent
    sentFor,        \* history: donation -> everything its donor ever sent
    fromOthers      \* history: address -> everything that came from elsewhere

tables == <<xpubOf, donations, balance, settled>>
chainVars == <<chain, payments, sentFor, fromOthers>>

vars == <<xpubOf, donations, balance, settled, polling, chain, payments, sentFor, fromOthers>>

Init ==
    /\ xpubOf = [u \in Users |-> None]
    /\ donations = [d \in Donations |-> None]
    /\ balance = [u \in Users |-> 0]
    /\ settled = [u \in Users |-> 0]
    /\ polling = {}
    /\ fromOthers \in [Addresses -> Others \union {0}]
    /\ \A a \in Addresses \ FirstAddresses : fromOthers[a] = 0
    /\ chain = [a \in Addresses |-> [mempool |-> 0, mined |-> fromOthers[a], spent |-> 0]]
    /\ payments = 0
    /\ sentFor = [d \in Donations |-> 0]

Created(d) == donations[d] # None

Confirmed(d) == Created(d) /\ donations[d].confirmed

-----------------------------------------------------------------------------
(* What a check sees. *)

\* funded - spent, both over the chain and the mempool.
Received(a) == chain[a].mempool + chain[a].mined - chain[a].spent

\* _estimate_confirmations: 1 as soon as any transaction of the address is mined.
Confirmations(a) == IF chain[a].mined > 0 THEN 1 ELSE 0

\* Mutant: two confirmations are asked of an estimate that never exceeds one.
MinConfirmationsTwo == 2

\* invoice_status calls check with its default.
MinConfirmations == 1

\* Mutant: an underpaid address stops the polling too.
FinalIfPaidAnything(status) == status \in {"underpaid", "overpaid", "confirmed"}

Final(status) == IsFinal(status)

\* A Monero backend raises on an address that it did not hand out itself.
Refuses(row) == row.coin = "XMR" /\ row.address \notin WatcherBackend.handedOut

\* The outcome of check between the row it read and the test for finality: the
\* placeholder is never looked up, an exception is an error status, everything
\* else is classified.  Every invoice has an address; the demo's donations have
\* none, and are no invoices.
StatusSeen(row) ==
    IF row.address[1] = "bc1qdev" THEN "not_found"
    ELSE IF Refuses(row) THEN "error"
    ELSE Classify(Received(row.address), row.amount, Confirmations(row.address),
                  MinConfirmations)

-----------------------------------------------------------------------------
(* The application. *)

\* update_profile stores a valid xpub, or clears it.
SetXpub(u, x) ==
    /\ xpubOf' = [xpubOf EXCEPT ![u] = x]
    /\ UNCHANGED <<donations, balance, settled, polling, chainVars>>

\* create_invoice, for a known creator, a supported coin and a parsed amount.
CreateInvoice(d, u, coin, amount) ==
    /\ ~Created(d)
    /\ donations' = [donations EXCEPT ![d] =
           [user |-> u, coin |-> coin, amount |-> amount,
            address |-> NewAddress(coin, xpubOf[u], d),
            fee |-> PlatformFee(amount, FeeRate), confirmed |-> FALSE]]
    /\ UNCHANGED <<xpubOf, balance, settled, polling, chainVars>>

\* PaymentWatcher.check when it writes: an unconfirmed donation whose status is
\* final is confirmed, and its fee credited.  In every other case (confirmed
\* already, not final, backend error) it changes nothing.
Check(d) ==
    LET row == donations[d]
    IN  /\ Created(d)
        /\ ~row.confirmed
        /\ Final(StatusSeen(row))
        /\ donations' = [donations EXCEPT ![d].confirmed = TRUE]
        /\ balance' = [balance EXCEPT ![row.user] = @ + row.fee]
        /\ UNCHANGED <<xpubOf, settled, chainVars>>

\* Mutant: the settlement is recorded and the balance kept.
SettleRecordOnly(u) ==
    /\ balance[u] > 0
    /\ settled' = [settled EXCEPT ![u] = @ + balance[u]]
    /\ UNCHANGED <<xpubOf, donations, balance, polling, chainVars>>

\* settle_confirm: record_settlement, then reset_fee_balance.  With nothing
\* owed it records 0 and changes no total.
Settle(u) ==
    /\ balance[u] > 0
    /\ settled' = [settled EXCEPT ![u] = @ + balance[u]]
    /\ balance' = [balance EXCEPT ![u] = 0]
    /\ UNCHANGED <<xpubOf, donations, polling, chainVars>>

-----------------------------------------------------------------------------
(* The invoice page. *)

\* Whoever has the link opens it: the donor after create_invoice, or again later.
OpenPage(d) ==
    /\ Created(d)
    /\ polling' = polling \union {d}
    /\ UNCHANGED <<tables, chainVars>>

\* The tab is closed, and its timer is gone.
ClosePage(d) ==
    /\ polling' = polling \ {d}
    /\ UNCHANGED <<tables, chainVars>>

\* The page asks for the status, at once and every five seconds.  A final
\* answer, unless it is lost, stops the timer; any other changes nothing.
Poll(d) ==
    /\ d \in polling
    /\ \/ Check(d)
       \/ Confirmed(d) /\ UNCHANGED <<tables, chainVars>>
    /\ polling' \in {polling, polling \ {d}}

-----------------------------------------------------------------------------
(* The chains and the wallets. *)

\* A donor sends n to the address on the invoice page; a placeholder is no
\* address a wallet accepts.
Pay(d, n) ==
    /\ Created(d)
    /\ donations[d].address[1] # "bc1qdev"
    /\ payments < MaxPayments
    /\ chain' = [chain EXCEPT ![donations[d].address].mempool = @ + n]
    /\ sentFor' = [sentFor EXCEPT ![d] = @ + n]
    /\ payments' = payments + 1
    /\ UNCHANGED <<tables, polling, fromOthers>>

\* Anybody else sends n to an address of the creator's wallet: it was theirs
\* before it was an invoice's, and a check cannot tell who paid.
PayOtherwise(a, n) ==
    /\ payments < MaxPayments
    /\ chain' = [chain EXCEPT ![a].mempool = @ + n]
    /\ fromOthers' = [fromOthers EXCEPT ![a] = @ + n]
    /\ payments' = payments + 1
    /\ UNCHANGED <<tables, polling, sentFor>>

\* A block takes what the mempool holds for an address.
Mine(a) ==
    /\ chain[a].mempool > 0
    /\ chain' = [chain EXCEPT ![a].mined = @ + chain[a].mempool, ![a].mempool = 0]
    /\ UNCHANGED <<tables, polling, payments, sentFor, fromOthers>>

\* What the mempool holds is replaced or dropped and never mined.
Drop(a) ==
    /\ chain[a].mempool > 0
    /\ chain' = [chain EXCEPT ![a].mempool = 0]
    /\ UNCHANGED <<tables, polling, payments, sentFor, fromOthers>>

\* The creator's wallet spends what is mined.
Spend(a) ==
    /\ chain[a].mined > chain[a].spent
    /\ chain' = [chain EXCEPT ![a].spent = chain[a].mined]
    /\ UNCHANGED <<tables, polling, payments, sentFor, fromOthers>>

Next ==
    \/ \E u \in Users, x \in Xpubs \union {None} : SetXpub(u, x)
    \/ \E d \in Donations, u \in Users, coin \in Coins, amount \in Amounts :
           CreateInvoice(d, u, coin, amount)
    \/ \E d \in Donations : OpenPage(d) \/ ClosePage(d) \/ Poll(d)
    \/ \E u \in Users : Settle(u)
    \/ \E d \in Donations, n \in Payments : Pay(d, n)
    \/ \E a \in FirstAddresses, n \in Others : PayOtherwise(a, n)
    \/ \E a \in Addresses : Mine(a) \/ Drop(a) \/ Spend(a)

Spec == Init /\ [][Next]_vars

\* An open page polls, be it open for good or opened again and again, as its
\* first request is sent at once (invoice.js:65-66); nobody has to open one, and
\* where none is open nothing polls.  Fairness is strong for the pages that come
\* and go: payments are bounded, so what a check sees comes to rest.  A block
\* takes a waiting payment unless it was dropped before.
FairSpec ==
    /\ Spec
    /\ \A d \in Donations : SF_vars(Poll(d))
    /\ \A a \in Addresses : WF_vars(Mine(a))

-----------------------------------------------------------------------------
\* Every table and every total stays in its type; in particular no address
\* gives back more than it received.
TypeOK ==
    /\ xpubOf \in [Users -> Xpubs \union {None}]
    /\ donations \in [Donations -> Row \union {None}]
    /\ balance \in [Users -> Nat]
    /\ settled \in [Users -> Nat]
    /\ polling \subseteq Donations
    /\ chain \in [Addresses -> [mempool : Nat, mined : Nat, spent : Nat]]
    /\ \A a \in Addresses : Received(a) \in Nat
    /\ payments \in Nat
    /\ sentFor \in [Donations -> Nat]
    /\ fromOthers \in [Addresses -> Nat]

\* No other invoice shows the same address.
Exclusive(d) ==
    \A e \in Donations \ {d} : Created(e) => donations[e].address # donations[d].address

\* An invoice no other shares its address with is confirmed only when what its
\* donor sent, in however many payments, and what came to the creator's address
\* from elsewhere, before or since, is something and no less than it asks: where
\* nothing came from elsewhere, its own donor paid it.
ConfirmedWasPaid ==
    \A d \in Donations :
        Confirmed(d) /\ Exclusive(d) =>
            LET came == sentFor[d] + fromOthers[donations[d].address]
            IN  came > 0 /\ came >= donations[d].amount

\* The fees of the confirmed Bitcoin rows of a creator.
BitcoinConfirmedOf(u) ==
    {d \in Donations : Confirmed(d) /\ donations[d].user = u /\ donations[d].coin = "BTC"}

BitcoinFees(u) == [d \in BitcoinConfirmedOf(u) |-> donations[d].fee]

\* Fee balances and settlements are in sats.  A Monero row keeps its fee in
\* piconero in the same column (donate.py:99, payment_watcher.py:117): none of
\* it ever reaches a balance, and every fee of a confirmed Bitcoin donation
\* does, exactly once.
SatsOnly == \A u \in Users : balance[u] + settled[u] = SumFunction(BitcoinFees(u))

\* An invoice asks for a payment to an address derived from an xpub.
AsksForBech32 ==
    \E d \in Donations :
        Created(d) /\ \E x \in Xpubs : donations[d].address = XpubAddress(x, 0)

\* An invoice that asks for a payment to a derived address names the key it was
\* derived from and no other, whatever the hashes of the keys are: regrouping
\* the bytes loses and moves no bit (bech32.py:28), and no two programs have
\* the same characters.
AddressesEncode == AsksForBech32 => RegroupsExactly /\ NamesOne

\* A donor who copies such an address with one character wrong, or two
\* neighbours swapped, has no address any more and so cannot pay a stranger
\* (bech32.py:22).
SlipsDetected == AsksForBech32 => DetectsSlips

(* The inductive invariant behind ConfirmedWasPaid.                         *)

\* What an address holds came from the donors who were shown it or from
\* elsewhere.
ChainBacked ==
    /\ \A a \in Addresses :
          /\ chain[a].spent <= chain[a].mined
          /\ (\A d \in Donations : Created(d) => donations[d].address # a)
                => chain[a].mempool + chain[a].mined <= fromOthers[a]
    /\ \A d \in Donations :
          Created(d) /\ Exclusive(d) =>
              LET at == chain[donations[d].address]
              IN  at.mempool + at.mined <= sentFor[d] + fromOthers[donations[d].address]

\* No payment appears at an address by itself, and no invoice is confirmed on
\* what its address does not hold.
IInv == TypeOK /\ ChainBacked /\ ConfirmedWasPaid

\* A check would see that the address of this invoice holds what it asks.
SeenPaid(d, coin) ==
    /\ Created(d)
    /\ donations[d].coin = coin
    /\ Received(donations[d].address) > 0
    /\ Received(donations[d].address) >= donations[d].amount

\* invoice.html:74 "Bookmark it or leave it open": a Bitcoin invoice that stays
\* paid in full is confirmed in the end if its page stays open or is visited
\* again and again, whatever was replaced, spent or paid twice before, whichever
\* answers get lost and whichever other invoices there are.
EventuallyConfirmed ==
    \A d \in Donations : <>[]SeenPaid(d, "BTC") /\ []<>(d \in polling) => <>Confirmed(d)

\* payment_watcher.py:7-8 "Normalizes Bitcoin (sats) and Monero (piconero)
\* results behind one interface so callers don't care which coin is being
\* watched": a Monero invoice paid in full is confirmed in the end as well.
EventuallyConfirmedMonero ==
    \A d \in Donations : <>[]SeenPaid(d, "XMR") /\ []<>(d \in polling) => <>Confirmed(d)

\* base.py:10-12 "A user's xpub derives a fresh receive address for each
\* donation. This gives us reconciliation for free and avoids address reuse":
\* a donation is confirmed by its own donor's payment.
ConfirmedByOwnPayment == \A d \in Donations : Confirmed(d) => sentFor[d] > 0

-----------------------------------------------------------------------------
\* A row as the bookkeeping sees it.
Entry(row) == [user |-> row.user, fee |-> row.fee, confirmed |-> row.confirmed]

Accounts == INSTANCE FeeAccounts WITH
    Fees <- {PlatformFee(amount, FeeRate) : amount \in Amounts},
    donations <- [d \in Donations |-> IF Created(d) THEN Entry(donations[d]) ELSE None],
    owed <- balance

\* The handlers keep the atomic bookkeeping of FeeAccounts, whatever the
\* chains do: a fee is fixed at creation, owed once, and settled once.
ImplementsFeeAccounts == Accounts!Spec

=============================================================================
