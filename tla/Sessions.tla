------------------------------- MODULE Sessions ------------------------------
(***************************************************************************)
(* Accounts, sessions and cookies of one server process.                   *)
(*                                                                         *)
(* Handlers run to their end without awaiting, so each is one action.  The *)
(* server stamps and judges sessions by its own clock, which may be        *)
(* corrected either way while it runs; a browser drops its cookie by the   *)
(* true time.  An answer may be lost after the handler committed; one that *)
(* is not arrives within the second of the commit.                         *)
(***************************************************************************)
EXTENDS Integers

CONSTANTS
    Users,       \* the slugs that accounts are made for
    Browsers,    \* browsers, each with its cookie jar
    Tokens,      \* session tokens; new_token never repeats one
    SessionTTL,  \* ttl_seconds of create_session: 30 days
    Offsets,     \* bound: how far the server's clock may be ahead, 0 among them
    MaxTime,     \* bound: how long the run lasts
    None         \* no user, no row, no cookie

ASSUME SessionsAssumption ==
    /\ SessionTTL \in Nat
    /\ Offsets \subseteq Int
    /\ 0 \in Offsets
    /\ MaxTime \in Nat

CookieMaxAge == SessionTTL  \* "30 days, matches DB ttl"

VARIABLES
    time,       \* the true time
    offset,     \* how far the server's clock is ahead of it
    accounts,   \* the slugs taken
    sessions,   \* the row of a token: its user and expires_at, or None
    cookie,     \* what a browser holds: a token and when to drop it, or None
    issued,     \* history: for whom, when and at which offset a token was made
    loggedOut,  \* history: tokens a logout presented
    refused,    \* history: tokens that were presented and not recognised
    rushed      \* history: tokens during whose life the server's clock was
                \* ahead of where it was when they were issued

sessionVars == <<time, offset, accounts, sessions, cookie, issued, loggedOut, refused, rushed>>

Clock == time + offset  \* int(time.time()) of the server

Session == [user : Users, expires_at : Int]
Cookie  == [token : Tokens, until : Nat]
Issue   == [user : Users, at : Nat, offset : Int]

ASSUME SessionsNoneAssumption ==
    None \notin Users \cup Tokens \cup Session \cup Cookie \cup Issue

(* Type invariant.                                                         *)
SessionsTypeOK ==
    /\ time \in 0..MaxTime
    /\ offset \in Offsets
    /\ accounts \subseteq Users
    /\ sessions \in [Tokens -> Session \cup {None}]
    /\ cookie \in [Browsers -> Cookie \cup {None}]
    /\ issued \in [Tokens -> Issue \cup {None}]
    /\ loggedOut \subseteq Tokens
    /\ refused \subseteq Tokens
    /\ rushed \subseteq Tokens

SessionsInit ==
    /\ time = 0
    /\ offset = 0
    /\ accounts = {}
    /\ sessions = [t \in Tokens |-> None]
    /\ cookie = [b \in Browsers |-> None]
    /\ issued = [t \in Tokens |-> None]
    /\ loggedOut = {}
    /\ refused = {}
    /\ rushed = {}

-----------------------------------------------------------------------------
(* current_user, which most pages and every form of a signed-in user call. *)

Presents(b, t) == cookie[b] # None /\ cookie[b].token = t

(* Mutant: dead in the second of expires_at.                               *)
LiveBefore(t) == sessions[t] # None /\ sessions[t].expires_at > Clock

(* Live up to and including the second of expires_at.                      *)
Live(t) == sessions[t] # None /\ sessions[t].expires_at >= Clock

CurrentUser(b) ==
    IF cookie[b] # None /\ Live(cookie[b].token)
    THEN sessions[cookie[b].token].user
    ELSE None

(* Mutant: an expired row stays in the table.                              *)
LookUpOnly(b) ==
    /\ UNCHANGED sessions
    /\ refused' = refused \cup {t \in Tokens : Presents(b, t) /\ ~ Live(t)}

(* The lookup deletes the row of a session it finds expired.               *)
LookUp(b) ==
    LET turnedAway == {t \in Tokens : Presents(b, t) /\ ~ Live(t)}
    IN  /\ sessions' = [t \in Tokens |-> IF t \in turnedAway THEN None ELSE sessions[t]]
        /\ refused' = refused \cup turnedAway

-----------------------------------------------------------------------------
(* A session is made and its cookie sent; the answer may get lost.         *)
OpenSession(b, u) ==
    \E t \in Tokens :
        /\ issued[t] = None
        /\ sessions' = [sessions EXCEPT ![t] =
                          [user |-> u, expires_at |-> Clock + SessionTTL]]
        /\ issued' = [issued EXCEPT ![t] = [user |-> u, at |-> time, offset |-> offset]]
        /\ \/ cookie' = [cookie EXCEPT ![b] = [token |-> t, until |-> time + CookieMaxAge]]
           \/ UNCHANGED cookie

(* A taken slug, a short password or an empty name change nothing here.    *)
Signup(b, u) ==
    /\ u \notin accounts
    /\ accounts' = accounts \cup {u}
    /\ OpenSession(b, u)
    /\ UNCHANGED <<time, offset, loggedOut, refused, rushed>>

(* With the right password.  The session of the cookie that is replaced,   *)
(* if any, stays in the table.                                             *)
Login(b, u) ==
    /\ u \in accounts
    /\ OpenSession(b, u)
    /\ UNCHANGED <<time, offset, accounts, loggedOut, refused, rushed>>

(* Mutant: only the cookie is deleted.                                     *)
LogoutKeepsRow(b) ==
    /\ cookie[b] # None
    /\ loggedOut' = loggedOut \cup {cookie[b].token}
    /\ cookie' = [cookie EXCEPT ![b] = None]
    /\ UNCHANGED <<time, offset, accounts, sessions, issued, refused, rushed>>

Logout(b) ==
    /\ cookie[b] # None
    /\ sessions' = [sessions EXCEPT ![cookie[b].token] = None]
    /\ loggedOut' = loggedOut \cup {cookie[b].token}
    /\ \/ cookie' = [cookie EXCEPT ![b] = None]
       \/ UNCHANGED cookie
    /\ UNCHANGED <<time, offset, accounts, issued, refused, rushed>>

(* Any page that asks who is there.                                        *)
Visit(b) ==
    /\ LookUp(b)
    /\ UNCHANGED <<time, offset, accounts, cookie, issued, loggedOut, rushed>>

-----------------------------------------------------------------------------
(* The browser drops a cookie when its max_age has passed, which is some   *)
(* time within the second of until.                                        *)
Tick ==
    /\ time < MaxTime
    /\ time' = time + 1
    /\ cookie' = [b \in Browsers |->
                    IF cookie[b] # None /\ cookie[b].until < time + 1 THEN None
                    ELSE cookie[b]]
    /\ UNCHANGED <<offset, accounts, sessions, issued, loggedOut, refused, rushed>>

(* The server's clock is set: by hand, by NTP after a start, ...           *)
Correct ==
    /\ offset' \in Offsets
    /\ rushed' = rushed \cup {t \in Tokens : issued[t] # None /\ offset' > issued[t].offset}
    /\ UNCHANGED <<time, accounts, sessions, cookie, issued, loggedOut, refused>>

SessionsNext ==
    \/ \E b \in Browsers :
          \/ \E u \in Users : Signup(b, u) \/ Login(b, u)
          \/ Logout(b)
          \/ Visit(b)
    \/ Tick
    \/ Correct

-----------------------------------------------------------------------------
(* Properties.                                                             *)

(* A token that was logged out, or once turned away as expired, is never   *)
(* accepted again, not even after the server's clock has been set back.    *)
SessionEnds == \A t \in loggedOut \cup refused : ~ Live(t)

(* "COOKIE_MAX_AGE = 30 days, matches DB ttl": as long as a browser holds  *)
(* the cookie of a session nobody logged out, it is recognised as the user *)
(* it signed in as, unless the server's clock has run ahead meanwhile.     *)
SessionLasts ==
    \A b \in Browsers :
        (/\ cookie[b] # None
         /\ cookie[b].token \notin loggedOut \cup rushed)
          => CurrentUser(b) = issued[cookie[b].token].user

-----------------------------------------------------------------------------
(* The inductive invariant behind both.                                    *)

(* A row carries the user and the second of the issue of its token.        *)
RowsDated ==
    \A t \in Tokens : sessions[t] # None =>
        /\ issued[t] # None
        /\ sessions[t].user = issued[t].user
        /\ sessions[t].expires_at = issued[t].at + issued[t].offset + SessionTTL

(* A cookie is dropped at the end of the life of its session.              *)
CookiesDated ==
    \A b \in Browsers : cookie[b] # None =>
        /\ issued[cookie[b].token] # None
        /\ cookie[b].until = issued[cookie[b].token].at + SessionTTL
        /\ time <= cookie[b].until

(* A token that was logged out or turned away was issued; its row is gone. *)
RowsGone == \A t \in loggedOut \cup refused : issued[t] # None /\ sessions[t] = None

(* Any other issued token has a row.                                       *)
RowsKept ==
    \A t \in Tokens : issued[t] # None /\ sessions[t] = None => t \in loggedOut \cup refused

(* A token the clock did not overtake is turned away only after its life.  *)
RefusedLate ==
    \A t \in Tokens : t \in refused \ (loggedOut \cup rushed)
                        => time > issued[t].at + SessionTTL

(* The clock is no further ahead than when such a token was issued.        *)
RushKnown ==
    \A t \in Tokens : issued[t] # None /\ t \notin rushed => offset <= issued[t].offset

SessionsIInv ==
    /\ SessionsTypeOK
    /\ RowsDated
    /\ CookiesDated
    /\ RowsGone
    /\ RowsKept
    /\ RefusedLate
    /\ RushKnown
=============================================================================
