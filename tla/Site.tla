--------------------------------- MODULE Site --------------------------------
(***************************************************************************)
(* The live wall of one creator, composed with the sessions that its       *)
(* buttons ask for.                                                        *)
(*                                                                         *)
(* live.py calls the buttons "Owner-only actions", but compares the user   *)
(* of the session only with the slug in the URL, and the donation id with  *)
(* nothing: whoever is signed in pins any donation and marks it read,      *)
(* under a slug of their own.  So it is here, and what is said of the wall *)
(* holds whoever presses.                                                  *)
(*                                                                         *)
(* A donation is stamped with the server's clock; the wall shows those of  *)
(* the last day by that clock, pinned ones first.  The invoice behind a    *)
(* donation and the settings of a user are the modules Invoices and        *)
(* FeeLedger; here a donation simply appears.                              *)
(***************************************************************************)
EXTENDS Sessions, Sequences, FiniteSets

CONSTANTS
    Owner,         \* the creator whose wall it is
    Amounts,       \* the amounts donated
    WindowSeconds, \* WINDOW_SECONDS of live.py: one day
    WallLimit,     \* the wall's LIMIT: 500 rows
    Bounds         \* bounds: how many sessions are made, how many donations come and
                   \* how many buttons are pressed; each behaviour keeps one of them

ASSUME SiteAssumption ==
    /\ Owner \in Users
    /\ Amounts \subseteq Nat
    /\ WindowSeconds \in Nat
    /\ WallLimit \in Nat
    /\ Bounds \subseteq [sessions : Nat, donations : Nat, presses : Nat]

VARIABLES
    donations,  \* the creator's rows in the order of their id
    presses,    \* number of buttons pressed
    bound,      \* the bounds of this behaviour
    setBack     \* history: the server's clock was set back

vars == <<time, offset, accounts, sessions, cookie, issued, loggedOut, refused,
          rushed, donations, presses, bound, setBack>>

Times == {t + drift : t \in 0..MaxTime, drift \in Offsets}

Donation == [amount : Amounts, created_at : Times, pinned : BOOLEAN,
             read_at : Times \cup {None}]

(* Type invariant.                                                         *)
TypeOK ==
    /\ SessionsTypeOK
    /\ donations \in Seq(Donation)
    /\ bound \in Bounds
    /\ Len(donations) <= bound.donations
    /\ presses \in 0..bound.presses
    /\ setBack \in BOOLEAN

Init ==
    /\ SessionsInit
    /\ donations = <<>>
    /\ presses = 0
    /\ bound \in Bounds
    /\ setBack = FALSE

Ids == DOMAIN donations

-----------------------------------------------------------------------------
(* The wall: ORDER BY pinned DESC, created_at DESC, id DESC LIMIT.         *)

(* Mutant: ORDER BY without the pin.                                       *)
BeforeByTime(i, j) ==
    \/ donations[i].created_at > donations[j].created_at
    \/ donations[i].created_at = donations[j].created_at /\ i > j

Before(i, j) ==
    LET d == donations[i]
        e == donations[j]
    IN  \/ d.pinned /\ ~ e.pinned
        \/ d.pinned = e.pinned /\ d.created_at > e.created_at
        \/ d.pinned = e.pinned /\ d.created_at = e.created_at /\ i > j

InWindow(i, minAmount) ==
    /\ donations[i].created_at >= Clock - WindowSeconds
    /\ donations[i].amount >= minAmount

Listed(minAmount) == {i \in Ids : InWindow(i, minAmount)}

ListedBefore(i, minAmount) == {j \in Listed(minAmount) : Before(j, i)}

(* The k-th row is the one with k - 1 rows before it.                      *)
Wall(minAmount) ==
    LET count == Cardinality(Listed(minAmount))
    IN  [k \in 1..(IF count < WallLimit THEN count ELSE WallLimit) |->
            CHOOSE i \in Listed(minAmount) : Cardinality(ListedBefore(i, minAmount)) = k - 1]

CountUnread == Cardinality({i \in Ids : donations[i].read_at = None})

-----------------------------------------------------------------------------
Donate(amount) ==
    /\ Owner \in accounts
    /\ Len(donations) < bound.donations
    /\ donations' = Append(donations, [amount |-> amount, created_at |-> Clock,
                                       pinned |-> FALSE, read_at |-> None])
    /\ UNCHANGED <<sessionVars, presses, bound, setBack>>

(* _require_owner: whoever is signed in is the owner of the slug they put  *)
(* into the URL, or is refused.  The session is looked up either way.      *)
RequireOwner(b, slug) ==
    /\ CurrentUser(b) = slug
    /\ LookUp(b)

(* What the handlers of both buttons leave alone.                          *)
Press(b, slug) ==
    /\ RequireOwner(b, slug)
    /\ presses < bound.presses
    /\ presses' = presses + 1
    /\ UNCHANGED <<time, offset, accounts, cookie, issued, loggedOut, rushed, bound, setBack>>

(* The buttons of the wall.  The id is any donation's: a tab shows the wall *)
(* of up to ten seconds ago, and nothing compares the donation's creator   *)
(* with the slug.  Pinning turns over what the row holds now.              *)
PinDonation(b, slug, i) ==
    /\ Press(b, slug)
    /\ donations' = [donations EXCEPT ![i].pinned = ~ @]

(* Mutant: the condition on read_at is missing.                            *)
MarkDonationReadAgain(b, slug, i) ==
    /\ Press(b, slug)
    /\ donations' = [donations EXCEPT ![i].read_at = Clock]

(* Mutant: the time at which it leaves the wall is stored.                 *)
MarkDonationReadUntil(b, slug, i) ==
    /\ Press(b, slug)
    /\ donations' = [donations EXCEPT ![i].read_at = Clock + WindowSeconds]

(* UPDATE ... WHERE read_at IS NULL.                                       *)
MarkDonationRead(b, slug, i) ==
    /\ Press(b, slug)
    /\ donations' = [donations EXCEPT ![i].read_at = IF @ = None THEN Clock ELSE @]

(* Not the slug's user: 403, after the lookup.  The wall and its feed look *)
(* up the visitor too, for the buttons.  Both are a Visit.                 *)
Next ==
    \/ /\ SessionsNext
       /\ Cardinality({t \in Tokens : issued'[t] # None}) <= bound.sessions
       /\ setBack' = (setBack \/ offset' < offset)
       /\ UNCHANGED <<donations, presses, bound>>
    \/ \E amount \in Amounts : Donate(amount)
    \/ \E b \in Browsers, slug \in Users, i \in Ids :
          PinDonation(b, slug, i) \/ MarkDonationRead(b, slug, i)

Spec == Init /\ [][Next]_vars

-----------------------------------------------------------------------------
(* Properties.                                                             *)

(* With a clock that was never set back, and whoever pins, the wall shows  *)
(* the pinned donations first and each part newest first in the order the  *)
(* donations came in, same-second ones included; nothing of the window is  *)
(* left out that comes before something shown.                             *)
WallOrder ==
    ~ setBack =>
        \A minAmount \in Amounts :
            LET wall == Wall(minAmount)
                on   == {wall[k] : k \in DOMAIN wall}
                comesBefore(i, j) == \/ donations[i].pinned /\ ~ donations[j].pinned
                                     \/ donations[i].pinned = donations[j].pinned /\ i > j
            IN  /\ \A k \in 1..(Len(wall) - 1) : comesBefore(wall[k], wall[k + 1])
                /\ \A i \in Ids, j \in on :
                      InWindow(i, minAmount) /\ comesBefore(i, j) => i \in on
                /\ \A i \in Ids :
                      InWindow(i, minAmount) /\ i \notin on => Len(wall) = WallLimit

(* A donation is read once: whoever clicks later, in whichever tab and     *)
(* under whichever slug, the time it was first read stays, and the unread  *)
(* count never rises but by a new donation.                                *)
ReadOnce ==
    [][/\ \A i \in Ids : donations[i].read_at # None
                            => donations'[i].read_at = donations[i].read_at
       /\ CountUnread' > CountUnread => Len(donations') = Len(donations) + 1]_vars
=============================================================================
