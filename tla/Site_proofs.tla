----------------------------- MODULE Site_proofs -----------------------------
(***************************************************************************)
(* Theorems about the live wall and the sessions under it, for every set   *)
(* of users, browsers and tokens, every lifetime of a session, every limit *)
(* of the wall and every correction of the server's clock.                 *)
(*                                                                         *)
(* For sessions, the argument is about three dates of a token: the true    *)
(* second and the offset of the clock at its issue, the expires_at of its  *)
(* row, which is their sum and the lifetime, and the second its cookie is  *)
(* dropped in.  Rows and cookies never leave these dates, so a lookup that *)
(* turns a token away does so after the cookie is gone, unless the clock   *)
(* ran ahead.                                                              *)
(*                                                                         *)
(* For the wall, whoever presses its buttons: as long as the clock is not  *)
(* set back, ids and times run the same way, so the order of the query is  *)
(* that of pins and ids; and in a strict order of finitely many rows every *)
(* place is taken once.                                                    *)
(***************************************************************************)
EXTENDS Site, FiniteLemmas

USE SessionsAssumption

\* Both clocks tell whole seconds.
LEMMA Clocks == ASSUME SessionsTypeOK PROVE time \in Nat /\ offset \in Int
PROOF
  BY SessionsAssumption DEF SessionsTypeOK

\* A row in the table is a session, a cookie in a jar a cookie, and so on.
LEMMA Records ==
    ASSUME SessionsTypeOK
    PROVE  /\ \A t \in Tokens : sessions[t] # None => sessions[t] \in Session
           /\ \A b \in Browsers : cookie[b] # None => cookie[b] \in Cookie
           /\ \A t \in Tokens : issued[t] # None => issued[t] \in Issue
PROOF
  BY DEF SessionsTypeOK

\* Nothing is in the table at the start.
LEMMA InitSessionsIInv == SessionsInit => SessionsIInv
<1> SUFFICES ASSUME SessionsInit PROVE SessionsIInv
  OBVIOUS
<1>1. SessionsTypeOK
  BY DEF SessionsInit, SessionsTypeOK
<1>2. RowsDated /\ CookiesDated /\ RowsGone /\ RowsKept /\ RefusedLate /\ RushKnown
  BY DEF SessionsInit, RowsDated, CookiesDated, RowsGone, RowsKept, RefusedLate, RushKnown
<1> QED
  BY <1>1, <1>2 DEF SessionsIInv

-----------------------------------------------------------------------------
(* Steps. *)

\* A visit removes expired rows, and the rows of no other session.  That a
\* session is refused early takes a clock that ran ahead.
LEMMA VisitIInv ==
    ASSUME SessionsIInv, NEW b \in Browsers, Visit(b)
    PROVE  SessionsIInv'
<1> USE DEF SessionsIInv
<1> DEFINE away == {t \in Tokens : Presents(b, t) /\ ~ Live(t)}
<1>1. /\ sessions' = [t \in Tokens |-> IF t \in away THEN None ELSE sessions[t]]
      /\ refused' = refused \cup away
      /\ UNCHANGED <<time, offset, accounts, cookie, issued, loggedOut, rushed>>
  BY DEF Visit, LookUp
<1>2. \A t \in away : issued[t] # None
  BY DEF CookiesDated, Presents
<1>3. ASSUME NEW t \in away, t \notin refused, t \notin loggedOut, t \notin rushed
      PROVE  time > issued[t].at + SessionTTL
  <2>1. issued[t] # None /\ issued[t] \in Issue
    BY <1>2, Records
  <2>2. sessions[t] # None /\ sessions[t] \in Session
    BY <1>3, <2>1, Records DEF RowsKept
  <2>3. sessions[t].expires_at = issued[t].at + issued[t].offset + SessionTTL
    BY <2>2 DEF RowsDated
  <2>4. sessions[t].expires_at < time + offset
    BY <2>2 DEF Live, Clock, Session, SessionsTypeOK
  <2>5. offset <= issued[t].offset
    BY <1>3, <2>1 DEF RushKnown
  <2>6. issued[t].at \in Int /\ issued[t].offset \in Int /\ offset \in Int /\ time \in Int
    BY <2>1, SessionsAssumption DEF Issue, SessionsTypeOK
  <2> QED
    BY <2>3, <2>4, <2>5, <2>6
<1>4. SessionsTypeOK'
  BY <1>1 DEF SessionsTypeOK
<1>5. RowsDated' /\ CookiesDated' /\ RushKnown'
  BY <1>1 DEF RowsDated, CookiesDated, RushKnown
<1>6. RowsGone' /\ RowsKept'
  BY <1>1, <1>2 DEF RowsGone, RowsKept, SessionsTypeOK
<1>7. RefusedLate'
  BY <1>1, <1>3 DEF RefusedLate
<1> QED
  BY <1>4, <1>5, <1>6, <1>7

\* A new session has the dates of its issue, whether its cookie arrives or not.
LEMMA OpenIInv ==
    ASSUME SessionsIInv, NEW b \in Browsers, NEW u \in Users, OpenSession(b, u),
           accounts' \subseteq Users,
           UNCHANGED <<time, offset, loggedOut, refused, rushed>>
    PROVE  SessionsIInv'
<1> USE DEF SessionsIInv
<1> PICK t \in Tokens :
        /\ issued[t] = None
        /\ sessions' = [sessions EXCEPT ![t] =
                          [user |-> u, expires_at |-> Clock + SessionTTL]]
        /\ issued' = [issued EXCEPT ![t] = [user |-> u, at |-> time, offset |-> offset]]
        /\ \/ cookie' = [cookie EXCEPT ![b] = [token |-> t, until |-> time + CookieMaxAge]]
           \/ UNCHANGED cookie
  BY DEF OpenSession
<1> DEFINE row == [user |-> u, expires_at |-> Clock + SessionTTL]
           new == [user |-> u, at |-> time, offset |-> offset]
           jar == [token |-> t, until |-> time + CookieMaxAge]
<1>1. time \in Nat /\ offset \in Int
  BY Clocks
<1>2. row \in Session /\ new \in Issue /\ jar \in Cookie
  BY <1>1 DEF Session, Issue, Cookie, Clock, CookieMaxAge
<1>3. row # None /\ new # None /\ jar # None
  BY <1>2, SessionsNoneAssumption
<1>4. /\ sessions' = [sessions EXCEPT ![t] = row]
      /\ issued' = [issued EXCEPT ![t] = new]
      /\ cookie' = [cookie EXCEPT ![b] = jar] \/ cookie' = cookie
  OBVIOUS
<1>5. /\ row.user = u /\ row.expires_at = time + offset + SessionTTL
      /\ new.user = u /\ new.at = time /\ new.offset = offset /\ jar.token = t /\ jar.until = time + SessionTTL
  BY DEF Clock, CookieMaxAge
<1>6. t \notin loggedOut \cup refused
  BY DEF RowsGone
<1> HIDE DEF row, new, jar
<1>7. SessionsTypeOK'
  BY <1>2, <1>4 DEF SessionsTypeOK
<1>8. RowsDated'
  BY <1>1, <1>3, <1>4, <1>5 DEF RowsDated, SessionsTypeOK
<1>9. CookiesDated'
  BY <1>1, <1>3, <1>4, <1>5 DEF CookiesDated, SessionsTypeOK
<1>10. RowsGone' /\ RowsKept'
  BY <1>3, <1>4, <1>6 DEF RowsGone, RowsKept, SessionsTypeOK
<1>11. RefusedLate'
  BY <1>4, <1>6 DEF RefusedLate, SessionsTypeOK
<1>12. RushKnown'
  BY <1>1, <1>3, <1>4, <1>5 DEF RushKnown, SessionsTypeOK
<1> QED
  BY <1>7, <1>8, <1>9, <1>10, <1>11, <1>12

\* A logout presents a token that was issued, and leaves no row of it.
LEMMA LogoutIInv ==
    ASSUME SessionsIInv, NEW b \in Browsers, Logout(b)
    PROVE  SessionsIInv'
<1> USE DEF SessionsIInv
<1> DEFINE gone == cookie[b].token
<1>1. gone \in Tokens /\ issued[gone] # None
  BY Records DEF Logout, Cookie, CookiesDated
<1>2. /\ sessions' = [sessions EXCEPT ![gone] = None]
      /\ loggedOut' = loggedOut \cup {gone}
      /\ cookie' = [cookie EXCEPT ![b] = None] \/ cookie' = cookie
      /\ UNCHANGED <<time, offset, accounts, issued, refused, rushed>>
  BY DEF Logout
<1> HIDE DEF gone
<1>3. SessionsTypeOK'
  BY <1>1, <1>2 DEF SessionsTypeOK
<1>4. RowsDated' /\ CookiesDated' /\ RushKnown'
  BY <1>1, <1>2 DEF RowsDated, CookiesDated, RushKnown, SessionsTypeOK
<1>5. RowsGone' /\ RowsKept' /\ RefusedLate'
  BY <1>1, <1>2 DEF RowsGone, RowsKept, RefusedLate, SessionsTypeOK
<1> QED
  BY <1>3, <1>4, <1>5

\* Cookies are gone by the end of the life of their session.
LEMMA TickIInv == ASSUME SessionsIInv, Tick PROVE SessionsIInv'
<1> USE DEF SessionsIInv
<1>1. /\ time \in Nat /\ time < MaxTime /\ time' = time + 1
      /\ cookie' = [b \in Browsers |->
                      IF cookie[b] # None /\ cookie[b].until < time + 1 THEN None
                      ELSE cookie[b]]
      /\ UNCHANGED <<offset, accounts, sessions, issued, loggedOut, refused, rushed>>
  BY DEF Tick, SessionsTypeOK
<1>2. SessionsTypeOK'
  BY <1>1 DEF SessionsTypeOK
<1>3. CookiesDated'
  BY <1>1, Records DEF CookiesDated, Cookie, Issue
<1>4. RowsDated' /\ RowsGone' /\ RowsKept' /\ RushKnown'
  BY <1>1 DEF RowsDated, RowsGone, RowsKept, RushKnown
<1>5. RefusedLate'
  BY <1>1, Records DEF RefusedLate, RowsGone, Issue
<1> QED
  BY <1>2, <1>3, <1>4, <1>5

\* A clock set ahead of the issue of a token marks it.
LEMMA CorrectIInv == ASSUME SessionsIInv, Correct PROVE SessionsIInv'
<1> USE DEF SessionsIInv
<1>1. SessionsTypeOK'
  BY DEF Correct, SessionsTypeOK
<1>2. RowsDated' /\ CookiesDated' /\ RowsGone' /\ RowsKept' /\ RefusedLate'
  BY DEF Correct, RowsDated, CookiesDated, RowsGone, RowsKept, RefusedLate
<1>3. RushKnown'
  BY Records DEF Correct, RushKnown, Issue, SessionsTypeOK
<1> QED
  BY <1>1, <1>2, <1>3

\* Every step of sessions.
LEMMA SessionsNextIInv == ASSUME SessionsIInv, SessionsNext PROVE SessionsIInv'
<1>1. CASE \E b \in Browsers, u \in Users : Signup(b, u) \/ Login(b, u)
  <2> PICK b \in Browsers, u \in Users : Signup(b, u) \/ Login(b, u)
    BY <1>1
  <2>1. /\ OpenSession(b, u)
        /\ UNCHANGED <<time, offset, loggedOut, refused, rushed>>
    BY DEF Signup, Login
  <2>2. accounts' \subseteq Users
    BY DEF Signup, Login, SessionsIInv, SessionsTypeOK
  <2> QED
    BY <2>1, <2>2, OpenIInv
<1> QED
  BY <1>1, LogoutIInv, VisitIInv, TickIInv, CorrectIInv DEF SessionsNext

\* The buttons of the wall do to the sessions what a visit does, and the rest
\* of the wall does nothing to them.
LEMMA WallVisits ==
    ASSUME NEW b \in Browsers, NEW slug \in Users, NEW i, PinDonation(b, slug, i) \/ MarkDonationRead(b, slug, i)
    PROVE  Visit(b)
PROOF
  BY DEF PinDonation, MarkDonationRead, Press, RequireOwner, Visit

\* A step of the site preserves what holds of the sessions.
LEMMA NextSessionsIInv == SessionsIInv /\ [Next]_vars => SessionsIInv'
<1> SUFFICES ASSUME SessionsIInv, [Next]_vars PROVE SessionsIInv'
  OBVIOUS
<1>1. CASE UNCHANGED sessionVars
  BY <1>1 DEF sessionVars, SessionsIInv, SessionsTypeOK, RowsDated, CookiesDated, RowsGone,
      RowsKept, RefusedLate, RushKnown
<1>2. CASE SessionsNext
  BY <1>2, SessionsNextIInv
<1>3. CASE \E amount \in Amounts : Donate(amount)
  BY <1>1, <1>3 DEF Donate
<1>4. CASE \E b \in Browsers, slug \in Users, i \in Ids : PinDonation(b, slug, i) \/ MarkDonationRead(b, slug, i)
  BY <1>4, WallVisits, VisitIInv
<1>5. CASE UNCHANGED vars
  BY <1>1, <1>5 DEF vars, sessionVars
<1> QED
  BY <1>2, <1>3, <1>4, <1>5 DEF Next

-----------------------------------------------------------------------------
(* Theorems. *)

\* Rows, cookies and the history of every token stay in step, whatever the wall
\* does and however the server's clock is corrected.
THEOREM SessionsInvariant == Spec => []SessionsIInv
<1>1. Init => SessionsIInv
  BY InitSessionsIInv DEF Init
<1> QED
  BY <1>1, NextSessionsIInv, PTL DEF Spec

\* A logged-out or expired session never comes back (get_session_user,
\* delete_session).
THEOREM LoggedOutForGood == Spec => []SessionEnds
<1>1. SessionsIInv => SessionEnds
  BY DEF SessionsIInv, RowsGone, SessionEnds, Live
<1> QED
  BY <1>1, SessionsInvariant, PTL

\* A browser that still holds its cookie is still signed in (COOKIE_MAX_AGE and
\* the lifetime of a row agree), unless the clock ran ahead.
THEOREM SignedInToTheEnd == Spec => []SessionLasts
<1>1. ASSUME SessionsIInv, NEW b \in Browsers, cookie[b] # None,
             cookie[b].token \notin loggedOut \cup rushed
      PROVE  CurrentUser(b) = issued[cookie[b].token].user
  <2> USE <1>1 DEF SessionsIInv
  <2> DEFINE t == cookie[b].token
  <2>1. /\ t \in Tokens /\ issued[t] # None
        /\ time <= issued[t].at + SessionTTL
    BY Records DEF CookiesDated, Cookie
  <2>0. t \notin loggedOut /\ t \notin rushed
    OBVIOUS
  <2> HIDE DEF t
  <2>2. issued[t].at \in Nat /\ issued[t].offset \in Int /\ time \in Nat /\ offset \in Int
    BY <2>1, Records, Clocks DEF Issue
  <2>3. t \notin refused
    BY <2>0, <2>1, <2>2, SessionsAssumption DEF RefusedLate
  <2>4. sessions[t] # None
    BY <2>0, <2>1, <2>3 DEF RowsKept
  <2>5. /\ sessions[t].user = issued[t].user
        /\ sessions[t].expires_at = issued[t].at + issued[t].offset + SessionTTL
    BY <2>1, <2>4 DEF RowsDated
  <2>6. offset <= issued[t].offset
    BY <2>0, <2>1 DEF RushKnown
  <2>7. Live(t)
    BY <2>1, <2>2, <2>4, <2>5, <2>6, SessionsAssumption DEF Live, Clock
  <2> QED
    BY <2>5, <2>7 DEF CurrentUser, t
<1>2. SessionsIInv => SessionLasts
  BY <1>1 DEF SessionLasts
<1> QED
  BY <1>2, SessionsInvariant, PTL

-----------------------------------------------------------------------------
(* The rows of the wall. *)

\* The server's clock reads one of the times the rows may carry.
LEMMA ClockInTimes == ASSUME SessionsTypeOK PROVE Clock \in Times
PROOF
  BY DEF SessionsTypeOK, Clock, Times

\* Changing one donation changes no other, and leaves the list a list.
LEMMA OneDonation ==
    ASSUME donations \in Seq(Donation), NEW i \in Ids, NEW row \in Donation,
           donations' = [donations EXCEPT ![i] = row]
    PROVE  /\ donations' \in Seq(Donation)
           /\ Len(donations') = Len(donations)
           /\ Ids' = Ids
           /\ \A j \in Ids : donations'[j] = IF j = i THEN row ELSE donations[j]
PROOF
  BY DEF Ids

\* What the buttons of the wall write.
LEMMA ButtonRow ==
    ASSUME TypeOK, NEW b \in Browsers, NEW slug \in Users, NEW i \in Ids,
           PinDonation(b, slug, i) \/ MarkDonationRead(b, slug, i)
    PROVE  \E row \in Donation :
               /\ donations' = [donations EXCEPT ![i] = row]
               /\ \/ row.read_at = donations[i].read_at
                  \/ donations[i].read_at = None /\ row.read_at \in Times
<1> USE DEF TypeOK
<1>1. donations[i] \in Donation
  BY DEF Ids
<1>2. CASE PinDonation(b, slug, i)
  <2> DEFINE row == [donations[i] EXCEPT !.pinned = ~ @]
  <2>1. donations' = [donations EXCEPT ![i] = row]
    BY <1>2 DEF PinDonation
  <2>2. (~ donations[i].pinned) \in BOOLEAN
    OBVIOUS
  <2>3. row \in Donation /\ row.read_at = donations[i].read_at
    BY <1>1, <2>2 DEF Donation
  <2> HIDE DEF row
  <2> QED
    BY <2>1, <2>3
<1>3. CASE MarkDonationRead(b, slug, i)
  <2> DEFINE read == IF donations[i].read_at = None THEN Clock ELSE donations[i].read_at
             row  == [donations[i] EXCEPT !.read_at = read]
  <2>1. donations' = [donations EXCEPT ![i] = row]
    BY <1>3 DEF MarkDonationRead
  <2>2. read \in Times \cup {None}
    BY <1>1, ClockInTimes DEF Donation
  <2>3. row \in Donation /\ row.read_at = read
    BY <1>1, <2>2 DEF Donation
  <2>4. \/ row.read_at = donations[i].read_at
        \/ donations[i].read_at = None /\ row.read_at \in Times
    BY <2>3, ClockInTimes
  <2> HIDE DEF row
  <2> QED
    BY <2>1, <2>3, <2>4
<1> QED
  BY <1>2, <1>3

\* A step adds a donation at the end, or writes one row, or none.
LEMMA DonationSteps ==
    ASSUME TypeOK, [Next]_vars
    PROVE  \/ UNCHANGED donations
           \/ /\ Len(donations) < bound.donations
              /\ \E row \in Donation : donations' = Append(donations, row)
           \/ \E i \in Ids, row \in Donation :
                 /\ donations' = [donations EXCEPT ![i] = row]
                 /\ \/ row.read_at = donations[i].read_at
                    \/ donations[i].read_at = None /\ row.read_at \in Times
<1> USE DEF TypeOK
<1>1. CASE UNCHANGED donations
  BY <1>1
<1>2. CASE \E amount \in Amounts : Donate(amount)
  <2> PICK amount \in Amounts : Donate(amount)
    BY <1>2
  <2> DEFINE row == [amount |-> amount, created_at |-> Clock,
                     pinned |-> FALSE, read_at |-> None]
  <2>1. row \in Donation
    BY ClockInTimes DEF Donation
  <2>2. Len(donations) < bound.donations /\ donations' = Append(donations, row)
    BY DEF Donate
  <2> HIDE DEF row
  <2> QED
    BY <2>1, <2>2
<1>3. CASE \E b \in Browsers, slug \in Users, i \in Ids : PinDonation(b, slug, i) \/ MarkDonationRead(b, slug, i)
  BY <1>3, ButtonRow
<1> QED
  BY <1>1, <1>2, <1>3 DEF Next, vars

\* A step keeps every row a donation, and the clock's corrections known.
LEMMA NextTypeOK == TypeOK /\ SessionsIInv /\ [Next]_vars => TypeOK'
<1> SUFFICES ASSUME TypeOK, SessionsIInv, [Next]_vars PROVE TypeOK'
  OBVIOUS
<1> USE DEF TypeOK
<1>1. SessionsTypeOK'
  BY NextSessionsIInv DEF SessionsIInv
<1>2. setBack' \in BOOLEAN
  BY DEF Next, Donate, PinDonation, MarkDonationRead, Press, vars
<1>3. /\ bound' = bound /\ bound.donations \in Nat /\ bound.presses \in Nat
      /\ presses \in Nat /\ presses <= bound.presses
      /\ presses' = presses \/ (presses < bound.presses /\ presses' = presses + 1)
  <2>1. bound.donations \in Nat /\ bound.presses \in Nat
    BY SiteAssumption
  <2>2. /\ bound' = bound
        /\ presses' = presses \/ (presses < bound.presses /\ presses' = presses + 1)
    BY DEF Next, Donate, PinDonation, MarkDonationRead, Press, vars
  <2> QED
    BY <2>1, <2>2
<1>4. bound' \in Bounds /\ presses' \in 0..bound'.presses
  BY <1>3
<1>5. donations' \in Seq(Donation) /\ Len(donations') <= bound'.donations
  <2>1. bound' = bound /\ bound.donations \in Nat /\ Len(donations) \in Nat
    BY <1>3
  <2>2. CASE UNCHANGED donations
    BY <2>1, <2>2
  <2>3. CASE /\ Len(donations) < bound.donations
             /\ \E row \in Donation : donations' = Append(donations, row)
    BY <2>1, <2>3
  <2>4. CASE \E i \in Ids, row \in Donation : donations' = [donations EXCEPT ![i] = row]
    BY <2>1, <2>4, OneDonation
  <2> QED
    BY <2>2, <2>3, <2>4, DonationSteps
<1> QED
  BY <1>1, <1>2, <1>4, <1>5

\* Every variable of the site stays in its type.
THEOREM TypeCorrect == Spec => []TypeOK
<1>1. ASSUME Init PROVE TypeOK
  <2>1. SessionsTypeOK
    BY <1>1, InitSessionsIInv DEF Init, SessionsIInv
  <2>2. donations = <<>> /\ setBack = FALSE
    BY <1>1 DEF Init
  <2>3. donations \in Seq(Donation) /\ Len(donations) = 0
    BY <2>2
  <2>4. Len(donations) <= bound.donations /\ bound \in Bounds /\ presses \in 0..bound.presses
    BY <1>1, <2>3, SiteAssumption DEF Init
  <2>5. setBack \in BOOLEAN
    BY <2>2
  <2> QED
    BY <2>1, <2>3, <2>4, <2>5 DEF TypeOK
<1>2. TypeOK /\ SessionsIInv /\ [Next]_vars => TypeOK'
  BY NextTypeOK
<1> QED
  BY <1>1, <1>2, SessionsInvariant, PTL DEF Spec

\* A donation is read once, and only a new one raises the unread count
\* (mark_read, count_unread).
THEOREM ReadIsOnce == Spec => ReadOnce
<1> DEFINE Unread == {i \in Ids : donations[i].read_at = None}
           Once == /\ \A i \in Ids : donations[i].read_at # None
                                        => donations'[i].read_at = donations[i].read_at
                   /\ CountUnread' > CountUnread => Len(donations') = Len(donations) + 1
<1>1. ASSUME TypeOK, [Next]_vars PROVE Once
  <2> USE <1>1 DEF TypeOK
  <2>1. IsFiniteSet(Unread)
    <3>1. Len(donations) \in Int /\ Ids = 1..Len(donations)
      BY DEF Ids
    <3>2. IsFiniteSet(Ids)
      BY <3>1, FS_Interval
    <3>3. Unread \in SUBSET Ids
      OBVIOUS
    <3> QED
      BY <3>2, <3>3, FS_Subset
  <2>2. CASE UNCHANGED donations
    BY <2>2, FS_CardinalityType, <2>1 DEF CountUnread, Ids
  <2>3. CASE \E row \in Donation : donations' = Append(donations, row)
    BY <2>3 DEF Ids
  <2>4. ASSUME NEW i \in Ids, NEW row \in Donation,
               donations' = [donations EXCEPT ![i] = row],
               \/ row.read_at = donations[i].read_at
               \/ donations[i].read_at = None /\ row.read_at \in Times
        PROVE  Once
    <3>1. /\ Ids' = Ids
          /\ \A j \in Ids : donations'[j] = IF j = i THEN row ELSE donations[j]
      BY <2>4, OneDonation
    <3>2. \A j \in Ids : donations[j].read_at # None
                            => donations'[j].read_at = donations[j].read_at
      BY <2>4, <3>1
    <3>3. Unread' \in SUBSET Unread
      BY <3>1, <3>2
    <3>4. Cardinality(Unread') <= Cardinality(Unread)
      BY <2>1, <3>3, FS_Subset
    <3>5. Cardinality(Unread') \in Nat /\ Cardinality(Unread) \in Nat
      BY <2>1, <3>3, FS_Subset, FS_CardinalityType
    <3> QED
      BY <3>2, <3>4, <3>5 DEF CountUnread
  <2> HIDE DEF Once
  <2> QED
    BY <2>2, <2>3, <2>4, DonationSteps
<1>2. TypeOK /\ [Next]_vars => [Once]_vars
  BY <1>1
<1> QED
  BY <1>2, TypeCorrect, PTL DEF Spec, ReadOnce, Once

-----------------------------------------------------------------------------
(* The order of the wall. *)

\* As long as the clock was not set back, the rows carry their times in the
\* order of their ids, and none of them is later than now.
RowsInTime ==
    ~ setBack =>
        \A j \in Ids :
            /\ donations[j].created_at <= Clock
            /\ \A i \in Ids : i < j => donations[i].created_at <= donations[j].created_at

\* The rows are numbered, and their times are whole seconds.
LEMMA RowTimes ==
    ASSUME TypeOK
    PROVE  /\ Ids = 1..Len(donations) /\ Len(donations) \in Nat
           /\ \A i \in Ids : /\ donations[i] \in Donation
                             /\ donations[i].created_at \in Int
                             /\ donations[i].pinned \in BOOLEAN
           /\ Clock \in Int
<1>1. Ids = 1..Len(donations) /\ Len(donations) \in Nat
  BY DEF TypeOK, Ids
<1>2. \A i \in Ids : donations[i] \in Donation
  BY <1>1 DEF TypeOK
<1>3. Times \subseteq Int
  BY DEF Times
<1>4. Clock \in Int
  BY Clocks DEF Clock, TypeOK
<1> QED
  BY <1>1, <1>2, <1>3, <1>4 DEF Donation

\* The buttons leave the time of a row alone.
LEMMA ButtonsKeepTimes ==
    ASSUME TypeOK, NEW b \in Browsers, NEW slug \in Users, NEW i \in Ids,
           PinDonation(b, slug, i) \/ MarkDonationRead(b, slug, i)
    PROVE  /\ Ids' = Ids /\ Clock' = Clock /\ setBack' = setBack
           /\ \A j \in Ids : donations'[j].created_at = donations[j].created_at
<1>1. donations[i] \in Donation
  BY RowTimes
<1>2. CASE PinDonation(b, slug, i)
  <2>1. donations' = [donations EXCEPT ![i] = [donations[i] EXCEPT !.pinned = ~ @]]
    BY <1>2 DEF PinDonation
  <2>2. UNCHANGED <<time, offset, setBack>>
    BY <1>2 DEF PinDonation, Press
  <2>3. [donations[i] EXCEPT !.pinned = ~ @].created_at = donations[i].created_at
    BY <1>1 DEF Donation
  <2> QED
    BY <2>1, <2>2, <2>3 DEF Ids, Clock
<1>3. CASE MarkDonationRead(b, slug, i)
  <2> DEFINE read == IF donations[i].read_at = None THEN Clock ELSE donations[i].read_at
  <2>1. donations' = [donations EXCEPT ![i] = [donations[i] EXCEPT !.read_at = read]]
    BY <1>3 DEF MarkDonationRead
  <2>2. UNCHANGED <<time, offset, setBack>>
    BY <1>3 DEF MarkDonationRead, Press
  <2>3. [donations[i] EXCEPT !.read_at = read].created_at = donations[i].created_at
    BY <1>1 DEF Donation
  <2> QED
    BY <2>1, <2>2, <2>3 DEF Ids, Clock
<1> QED
  BY <1>2, <1>3

\* The server's clock is the sum of two numbers, neither of which went back.
LEMMA LaterSum ==
    ASSUME NEW a \in Int, NEW b \in Int, NEW c \in Int, NEW d \in Int, a <= c, b <= d
    PROVE  a + b <= c + d
OBVIOUS

\* Every step keeps the rows in the order of their times: a new one is stamped
\* with the clock, which only a correction can set back.
LEMMA NextRowsInTime ==
    ASSUME TypeOK, TypeOK', RowsInTime, [Next]_vars
    PROVE  RowsInTime'
<1> SUFFICES ASSUME ~ setBack' PROVE RowsInTime'
  BY DEF RowsInTime
<1> USE DEF RowsInTime
<1>1. CASE UNCHANGED vars
  BY <1>1 DEF vars, Ids, Clock
<1>2. CASE SessionsNext /\ setBack' = (setBack \/ offset' < offset) /\ UNCHANGED donations
  <2>1. offset <= offset' /\ ~ setBack
    <3>1. offset \in Int /\ offset' \in Int /\ setBack \in BOOLEAN
      BY Clocks DEF TypeOK, SessionsTypeOK
    <3>2. ~ (setBack \/ offset' < offset)
      BY <1>2, Zenon
    <3> QED
      BY <3>1, <3>2
  <2>2. time <= time'
    <3>1. time \in Int
      BY Clocks DEF TypeOK
    <3>2. time' = time \/ time' = time + 1
      BY <1>2 DEF SessionsNext, Signup, Login, Logout, Visit, Tick, Correct
    <3> QED
      BY <3>1, <3>2
  <2>3. Clock <= Clock'
    <3>1. time \in Int /\ offset \in Int /\ time' \in Int /\ offset' \in Int
      <4>1. SessionsTypeOK /\ SessionsTypeOK'
        BY DEF TypeOK
      <4>2. time \in 0..MaxTime /\ offset \in Offsets
        BY <4>1 DEF SessionsTypeOK
      <4>3. time' \in 0..MaxTime /\ offset' \in Offsets
        BY <4>1 DEF SessionsTypeOK
      <4>4. MaxTime \in Nat /\ Offsets \subseteq Int
        BY SessionsAssumption
      <4> QED
        BY <4>2, <4>3, <4>4
    <3>2. Clock = time + offset /\ Clock' = time' + offset'
      BY DEF Clock
    <3>3. time + offset <= time' + offset'
      BY <2>1, <2>2, <3>1, LaterSum
    <3> QED
      BY <3>2, <3>3
  <2>4. Clock' \in Int
    BY RowTimes, Clocks DEF TypeOK, SessionsTypeOK, Clock
  <2> QED
    BY <1>2, <2>1, <2>3, <2>4, RowTimes DEF Ids
<1>3. ASSUME NEW amount \in Amounts, Donate(amount)
      PROVE  RowsInTime'
  <2> DEFINE n == Len(donations)
             row == [amount |-> amount, created_at |-> Clock, pinned |-> FALSE, read_at |-> None]
  <2>1. donations' = Append(donations, row) /\ Clock' = Clock /\ setBack' = setBack
    BY <1>3 DEF Donate, sessionVars, Clock
  <2>2. donations \in Seq(Donation)
    BY DEF TypeOK
  <2>3. row.created_at = Clock
    OBVIOUS
  <2> HIDE DEF row
  <2>4. /\ Ids = 1..n /\ Ids' = 1..(n + 1) /\ n \in Nat
        /\ \A i \in 1..n : donations'[i] = donations[i]
        /\ donations'[n + 1] = row
    BY <2>1, <2>2 DEF Ids
  <2>5. \A i \in 1..n : donations[i].created_at \in Int /\ donations[i].created_at <= Clock
    BY <2>1, <2>4, RowTimes
  <2> HIDE DEF n
  <2> SUFFICES ASSUME NEW j \in 1..(n + 1)
               PROVE  /\ donations'[j].created_at <= Clock
                      /\ \A i \in 1..(n + 1) : i < j =>
                            donations'[i].created_at <= donations'[j].created_at
    BY <2>1, <2>4
  <2>6. CASE j = n + 1
    <3>1. Clock \in Int
      BY RowTimes
    <3>2. \A i \in 1..(n + 1) : i < j => i \in 1..n
      BY <2>4, <2>6
    <3> QED
      BY <2>3, <2>4, <2>5, <2>6, <3>1, <3>2
  <2>7. CASE j # n + 1
    <3>1. j \in 1..n /\ \A i \in 1..(n + 1) : i < j => i \in 1..n
      BY <2>4, <2>7
    <3> QED
      BY <2>1, <2>4, <2>5, <3>1
  <2> QED
    BY <2>6, <2>7
<1>4. ASSUME NEW b \in Browsers, NEW slug \in Users, NEW i \in Ids, PinDonation(b, slug, i) \/ MarkDonationRead(b, slug, i)
      PROVE  RowsInTime'
  BY <1>4, ButtonsKeepTimes
<1> QED
  BY <1>1, <1>2, <1>3, <1>4 DEF Next

\* Which of two rows the wall shows first, by their pins and their ids.
ShownBefore(i, j) == \/ donations[i].pinned /\ ~ donations[j].pinned
                     \/ donations[i].pinned = donations[j].pinned /\ i > j

Pairs == {p \in Ids \X Ids : Before(p[1], p[2])}

\* With rows in the order of their times, the id decides where the pin does not.
LEMMA PinThenId ==
    ASSUME TypeOK, RowsInTime, ~ setBack, NEW i \in Ids, NEW j \in Ids
    PROVE  /\ Before(i, j) <=> ShownBefore(i, j)
           /\ <<i, j>> \in Pairs <=> ShownBefore(i, j)
<1>1. i \in Int /\ j \in Int
  BY RowTimes
<1>2. /\ donations[i].created_at \in Int /\ donations[j].created_at \in Int
      /\ donations[i].pinned \in BOOLEAN /\ donations[j].pinned \in BOOLEAN
  BY RowTimes
<1>3. /\ i < j => donations[i].created_at <= donations[j].created_at
      /\ j < i => donations[j].created_at <= donations[i].created_at
  BY DEF RowsInTime
<1>4. Before(i, j) <=> ShownBefore(i, j)
  BY <1>1, <1>2, <1>3 DEF Before, ShownBefore
<1> QED
  BY <1>4 DEF Pairs

\* The order of the query is strict, and no two rows tie.
LEMMA PairsOrder ==
    ASSUME TypeOK, RowsInTime, ~ setBack, NEW S \in SUBSET Ids
    PROVE  StrictlyOrders(Pairs, S)
<1>1. \A i \in S : i \in Int /\ donations[i].pinned \in BOOLEAN
  BY RowTimes
<1>2. \A i, j \in S : <<i, j>> \in Pairs <=> ShownBefore(i, j)
  BY PinThenId
<1>3. /\ \A x \in S : ~ ShownBefore(x, x)
      /\ \A x, y, z \in S : ShownBefore(x, y) /\ ShownBefore(y, z) => ShownBefore(x, z)
      /\ \A x, y \in S : x # y => ShownBefore(x, y) \/ ShownBefore(y, x)
  BY <1>1 DEF ShownBefore
<1> QED
  BY <1>2, <1>3 DEF StrictlyOrders

\* What the wall shows, row by row: the k-th has k - 1 listed rows before it.
LEMMA WallPlaces ==
    ASSUME TypeOK, RowsInTime, ~ setBack, NEW minAmount \in Amounts,
           NEW S, S = Listed(minAmount), NEW n, n = Cardinality(S)
    PROVE  /\ S \in SUBSET Ids /\ IsFiniteSet(S) /\ n \in Nat
           /\ Len(Wall(minAmount)) = IF n < WallLimit THEN n ELSE WallLimit
           /\ DOMAIN Wall(minAmount) = 1..Len(Wall(minAmount))
           /\ \A k \in DOMAIN Wall(minAmount) :
                 /\ Wall(minAmount)[k] \in S
                 /\ Cardinality(Ahead(Pairs, S, Wall(minAmount)[k])) = k - 1
<1> DEFINE len == IF n < WallLimit THEN n ELSE WallLimit
           at(k) == CHOOSE i \in S : Cardinality(Ahead(Pairs, S, i)) = k - 1
<1>1. S \in SUBSET Ids
  BY DEF Listed
<1>2. IsFiniteSet(Ids)
  BY RowTimes, FS_Interval
<1>3. IsFiniteSet(S)
  BY <1>1, <1>2, FS_Subset
<1>4. n \in Nat
  BY <1>3, FS_CardinalityType
<1>5. len \in Nat /\ len <= n
  BY <1>4, SiteAssumption
<1>6. \A i \in S : ListedBefore(i, minAmount) = Ahead(Pairs, S, i)
  BY <1>1 DEF ListedBefore, Ahead, Pairs
<1>7. Wall(minAmount) = [k \in 1..len |-> at(k)]
  BY <1>6 DEF Wall
<1>8. ASSUME NEW k \in 1..len
      PROVE  at(k) \in S /\ Cardinality(Ahead(Pairs, S, at(k))) = k - 1
  <2>1. k - 1 \in 0..(n - 1)
    BY <1>4, <1>5
  <2>2. \E i \in S : Cardinality(Ahead(Pairs, S, i)) = k - 1
    BY <1>1, <1>3, <2>1, PairsOrder, PlacesTaken
  <2> QED
    BY <2>2
<1> HIDE DEF len, at
<1>9. Len(Wall(minAmount)) = len /\ DOMAIN Wall(minAmount) = 1..len
  BY <1>5, <1>7
<1> QED
  BY <1>1, <1>3, <1>4, <1>7, <1>8, <1>9 DEF len

\* Rows in the order of their times make a wall in the order of pins and ids.
LEMMA OrderedWall ==
    ASSUME TypeOK, RowsInTime, ~ setBack, NEW minAmount \in Amounts
    PROVE  LET wall == Wall(minAmount)
               on   == {wall[k] : k \in DOMAIN wall}
           IN  /\ \A k \in 1..(Len(wall) - 1) : ShownBefore(wall[k], wall[k + 1])
               /\ \A i \in Ids, j \in on :
                     InWindow(i, minAmount) /\ ShownBefore(i, j) => i \in on
               /\ \A i \in Ids :
                     InWindow(i, minAmount) /\ i \notin on => Len(wall) = WallLimit
<1> DEFINE wall == Wall(minAmount)
           on   == {wall[k] : k \in DOMAIN wall}
           S    == Listed(minAmount)
           n    == Cardinality(S)
           place(i) == Cardinality(Ahead(Pairs, S, i))
<1>1. /\ S \in SUBSET Ids /\ IsFiniteSet(S) /\ n \in Nat
      /\ Len(wall) = IF n < WallLimit THEN n ELSE WallLimit
      /\ DOMAIN wall = 1..Len(wall)
      /\ \A k \in 1..Len(wall) : wall[k] \in S /\ place(wall[k]) = k - 1
  BY WallPlaces
<1>2. \A i \in Ids : InWindow(i, minAmount) => i \in S
  BY DEF Listed
<1>3. StrictlyOrders(Pairs, S)
  BY <1>1, PairsOrder
<1>4. ASSUME NEW i \in S, NEW j \in S
      PROVE  /\ place(i) \in 0..(n - 1)
             /\ place(i) < place(j) => ShownBefore(i, j)
             /\ ShownBefore(i, j) => place(i) < place(j)
             /\ place(i) = place(j) => i = j
  <2>1. <<i, j>> \in Pairs <=> ShownBefore(i, j)
    BY <1>1, PinThenId
  <2> QED
    BY <1>1, <1>3, <2>1, AheadCounts
<1>5. Len(wall) \in Nat /\ Len(wall) <= n
  BY <1>1, SiteAssumption
<1> HIDE DEF place, S, n, wall
<1>6. \A i \in S : place(i) + 1 <= Len(wall) => i \in on
  <2> SUFFICES ASSUME NEW i \in S, place(i) + 1 <= Len(wall) PROVE i \in on
    OBVIOUS
  <2>1. place(i) + 1 \in 1..Len(wall)
    BY <1>1, <1>4, <1>5
  <2>2. wall[place(i) + 1] \in S /\ place(wall[place(i) + 1]) = place(i)
    BY <1>1, <1>4, <2>1
  <2>3. wall[place(i) + 1] = i
    BY <1>4, <2>2
  <2> QED
    BY <1>1, <2>1, <2>3
<1>7. \A k \in 1..(Len(wall) - 1) : ShownBefore(wall[k], wall[k + 1])
  <2> SUFFICES ASSUME NEW k \in 1..(Len(wall) - 1) PROVE ShownBefore(wall[k], wall[k + 1])
    OBVIOUS
  <2>1. k \in 1..Len(wall) /\ k + 1 \in 1..Len(wall) /\ k - 1 < (k + 1) - 1
    BY <1>5
  <2>2. /\ wall[k] \in S /\ place(wall[k]) = k - 1
        /\ wall[k + 1] \in S /\ place(wall[k + 1]) = (k + 1) - 1
    BY <1>1, <2>1
  <2> QED
    BY <1>4, <2>1, <2>2
<1>8. \A i \in Ids, j \in on : InWindow(i, minAmount) /\ ShownBefore(i, j) => i \in on
  <2> SUFFICES ASSUME NEW i \in Ids, NEW k \in 1..Len(wall),
                      InWindow(i, minAmount), ShownBefore(i, wall[k])
               PROVE  i \in on
    BY <1>1
  <2>1. i \in S /\ wall[k] \in S /\ place(wall[k]) = k - 1
    BY <1>1, <1>2
  <2>2. place(i) < k - 1 /\ place(i) \in Int
    BY <1>4, <2>1
  <2>3. place(i) + 1 <= Len(wall)
    BY <1>5, <2>2
  <2> QED
    BY <1>6, <2>1, <2>3
<1>9. \A i \in Ids : InWindow(i, minAmount) /\ i \notin on => Len(wall) = WallLimit
  <2> SUFFICES ASSUME NEW i \in Ids, InWindow(i, minAmount), i \notin on
               PROVE  Len(wall) = WallLimit
    OBVIOUS
  <2>1. i \in S
    BY <1>2
  <2>2. ~ (place(i) + 1 <= Len(wall)) /\ place(i) \in 0..(n - 1)
    BY <1>4, <1>6, <2>1
  <2>3. Len(wall) < n
    BY <1>1, <1>5, <2>2
  <2> QED
    BY <1>1, <2>3
<1> QED
  BY <1>7, <1>8, <1>9 DEF wall

\* The wall shows pinned donations first and each part newest first, and leaves
\* nothing of the window out that comes before something shown, unless the
\* clock was set back (list_donations_since_filtered).
THEOREM WallInOrder == Spec => []WallOrder
<1>1. Init => RowsInTime
  BY DEF Init, RowsInTime, Ids
<1>2. TypeOK /\ TypeOK' /\ RowsInTime /\ [Next]_vars => RowsInTime'
  BY NextRowsInTime
<1>3. TypeOK /\ RowsInTime => WallOrder
  <2> SUFFICES ASSUME TypeOK, RowsInTime, ~ setBack, NEW minAmount \in Amounts
               PROVE  LET wall == Wall(minAmount)
                          on   == {wall[k] : k \in DOMAIN wall}
                      IN  /\ \A k \in 1..(Len(wall) - 1) : ShownBefore(wall[k], wall[k + 1])
                          /\ \A i \in Ids, j \in on :
                                InWindow(i, minAmount) /\ ShownBefore(i, j) => i \in on
                          /\ \A i \in Ids :
                                InWindow(i, minAmount) /\ i \notin on => Len(wall) = WallLimit
    BY DEF WallOrder, ShownBefore
  <2> QED
    BY OrderedWall
<1> QED
  BY <1>1, <1>2, <1>3, TypeCorrect, PTL DEF Spec

=============================================================================
