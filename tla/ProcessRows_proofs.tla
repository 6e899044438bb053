-------------------------- MODULE ProcessRows_proofs --------------------------
(***************************************************************************)
(* Theorems about the rows and the starts of Processes, for any number of  *)
(* processes, any visitors and any old database file: what is committed    *)
(* makes sense at any moment, an answered signup is durable, the demo      *)
(* donations are completed or a death explains why not, and a start fails  *)
(* only in company.                                                        *)
(*                                                                         *)
(* The argument: from the place where a process stands follows what its    *)
(* transaction holds and which rows are there already.  A row of an        *)
(* account, a session or the demo is inserted at one place, under the      *)
(* write lock, after a check or behind the commit of the row it depends    *)
(* on; so whoever commits, no second copy can be waiting with another      *)
(* process.  For the starts: what is left of one is in order, and as long  *)
(* as nobody else is up nothing it is about to add is there.               *)
(***************************************************************************)
EXTENDS Processes_proofs

-----------------------------------------------------------------------------
(* Accounts and sessions. *)

\* One row per account; an open transaction has it only if the file has not.
AccountsHeld ==
    \A slug \in Slugs \cup {Demo} :
        /\ rows[UserRow(slug)] <= 1
        /\ \A p \in Procs :
              dirty[p][UserRow(slug)] > 0
                => dirty[p][UserRow(slug)] = 1 /\ rows[UserRow(slug)] = 0

\* The account is committed and its session not yet inserted.
Owed(p, slug) == SigningUp(p, slug, 3) \/ SigningUp(p, slug, 4)

\* What holds of one slug.
SessionsOf(slug) ==
    /\ rows[SessionRow(slug)] <= rows[UserRow(slug)]
    /\ slug \in welcomed => rows[UserRow(slug)] = 1 /\ rows[SessionRow(slug)] = 1
    /\ \A p \in Procs :
          /\ dirty[p][SessionRow(slug)] > 0
               => /\ dirty[p][SessionRow(slug)] = 1
                  /\ rows[UserRow(slug)] = 1 /\ rows[SessionRow(slug)] = 0
          /\ SigningUp(p, slug, 2) => dirty[p][UserRow(slug)] = 1
          /\ Owed(p, slug)
               => /\ rows[UserRow(slug)] = 1 /\ rows[SessionRow(slug)] = 0
                  /\ \A q \in Procs : dirty[q][SessionRow(slug)] = 0
          /\ SigningUp(p, slug, 5) => dirty[p][SessionRow(slug)] = 1
          /\ SigningUp(p, slug, 6)
               => rows[UserRow(slug)] = 1 /\ rows[SessionRow(slug)] = 1
    /\ \A p, q \in Procs : Owed(p, slug) /\ Owed(q, slug) => p = q

SessionsHeld == \A slug \in Slugs : SessionsOf(slug)

\* Steps that neither insert, commit nor answer: rows stay, a transaction
\* stays or is lost with its process, and a signup is at its beginning, goes
\* from its read to its second insert, or stays where it is.
Quiet(p) ==
    /\ OnlyMoves(p)
    /\ rows' = rows
    /\ welcomed' = welcomed
    /\ dirty'[p] = dirty[p] \/ dirty'[p] = NoRows
    /\ \A slug \in Slugs, k \in 1..6 :
          SigningUp(p, slug, k)' => \/ k = 1
                                    \/ k = 4 /\ SigningUp(p, slug, 3)
                                    \/ SigningUp(p, slug, k) /\ dirty'[p] = dirty[p]

\* A process that does not sign anybody up afterwards.
LEMMA NotSigningUp ==
    ASSUME NEW p \in Procs,
           \/ todo'[p] = <<>> \/ todo'[p] = Page \/ mode'[p] # "serving"
           \/ Migrating(p)' \/ \E i \in 0..4, f \in 1..3 : Seeding(p, i, f)'
    PROVE  \A slug \in Slugs, k \in 1..6 : ~ SigningUp(p, slug, k)'
  BY SignupPlaces, SignupDistinct DEF SigningUp, Migrating, Seeding

LEMMA ExitQuiet ==
    ASSUME Core, NEW p \in Procs, NEW how \in {"down", "failed"}, Exit(p, how)
    PROVE  Quiet(p)
<1>1. /\ rows' = rows /\ welcomed' = welcomed
      /\ dirty'[p] = NoRows /\ todo'[p] = <<>>
  BY DEF Exit, Core, TypeOK
<1>2. OnlyMoves(p)
  BY ExitLocks DEF Core
<1> QED
  BY <1>1, <1>2, NotSigningUp DEF Quiet

LEMMA RaiseQuiet ==
    ASSUME Core, NEW p \in Procs, NEW txn, NEW held, Raise(p, txn, held), OnlyMoves(p)
    PROVE  Quiet(p)
<1>1. /\ rows' = rows /\ welcomed' = welcomed /\ todo'[p] = <<>>
      /\ dirty'[p] = dirty[p] \/ dirty'[p] = NoRows
  BY DEF Raise, Exit, Core, TypeOK
<1> QED
  BY <1>1, NotSigningUp DEF Quiet

LEMMA BeginQuiet ==
    ASSUME Core, NEW p \in Procs, Start(p) \/ Request(p)
    PROVE  Quiet(p)
<1>1. /\ rows' = rows /\ welcomed' = welcomed /\ dirty' = dirty
  BY DEF Start, Request
<1>2. OnlyMoves(p)
  BY BeginLocks DEF Core
<1>3. ASSUME Start(p), NEW slug \in Slugs, NEW k \in 1..6
      PROVE  ~ SigningUp(p, slug, k)'
  BY <1>3, StartPlaces, NotSigningUp DEF Core
<1>4. ASSUME Request(p), NEW slug \in Slugs, NEW k \in 1..6, SigningUp(p, slug, k)'
      PROVE  k = 1
  <2>1. todo'[p] = Page \/ \E s \in Slugs : SigningUp(p, s, 1)'
    BY <1>4, RequestPlaces DEF Core
  <2>2. 1 \in 1..6
    OBVIOUS
  <2> QED
    BY <1>4, <2>1, <2>2, SignupDistinct DEF SigningUp
<1> QED
  BY <1>1, <1>2, <1>3, <1>4 DEF Quiet

LEMMA LookQuiet ==
    ASSUME Core, NEW p \in Procs,
           Read(p) \/ CheckSeed(p) \/ TableInfo(p) \/ PassOver(p) \/ Define(p)
    PROVE  Quiet(p)
<1>1. rows' = rows /\ welcomed' = welcomed /\ dirty' = dirty
  BY DEF Read, CheckSeed, TableInfo, PassOver, Define
<1>2. OnlyMoves(p)
  BY LookLocks, DefineLocks DEF Core
<1>3. ASSUME CheckSeed(p), NEW slug \in Slugs, NEW k \in 1..6
      PROVE  ~ SigningUp(p, slug, k)'
  <2>1. 0 \in 0..4 /\ 1 \in 1..3
    OBVIOUS
  <2> QED
    BY <1>3, <2>1, CheckSeedPlaces, NotSigningUp DEF Core
<1>4. ASSUME TableInfo(p), NEW slug \in Slugs, NEW k \in 1..6
      PROVE  ~ SigningUp(p, slug, k)'
  BY <1>4, TableInfoPlaces, NotSigningUp DEF Core
<1>5. ASSUME PassOver(p) \/ Define(p), NEW slug \in Slugs, NEW k \in 1..6
      PROVE  ~ SigningUp(p, slug, k)'
  <2>1. /\ todo[p] # <<>> /\ Now(p).op \in {"create", "add_column"}
        /\ Continue(p, Tail(todo[p]))
    BY <1>5 DEF PassOver, Define, ChangesSchema, At
  <2>2. Migrating(p)'
    BY <2>1, HeadPlaces, Advance DEF Core
  <2> QED
    BY <2>2, NotSigningUp
<1>6. ASSUME Read(p), NEW slug \in Slugs, NEW k \in 1..6, SigningUp(p, slug, k)'
      PROVE  k = 4 /\ SigningUp(p, slug, 3)
  <2>1. todo[p] # <<>> /\ Now(p).op = "select" /\ Continue(p, Tail(todo[p]))
    BY <1>6 DEF Read, At
  <2>2. CASE todo[p] = Page /\ mode[p] = "serving"
    BY <1>6, <2>1, <2>2, Advance, NotSigningUp DEF Core
  <2>3. ASSUME NEW i \in 0..4, Seeding(p, i, 3) PROVE FALSE
    <3>1. (i \in 0..3 /\ i + 1 \in 0..4 /\ 1 \in 1..3) \/ i = 4
      OBVIOUS
    <3>2. Seeding(p, i + 1, 1)' \/ todo'[p] = <<>>
      BY <2>1, <2>3, <3>1, Advance DEF Core
    <3> QED
      BY <1>6, <3>1, <3>2, NotSigningUp DEF Seeding
  <2>4. ASSUME NEW s \in Slugs, SigningUp(p, s, 3)
        PROVE  k = 4 /\ SigningUp(p, slug, 3)
    <3>1. 3 \in 1..5 /\ 3 + 1 = 4 /\ 4 \in 1..6
      OBVIOUS
    <3>2. SigningUp(p, s, 4)'
      BY <2>1, <2>4, <3>1, Advance DEF Core
    <3>3. SignupAt(s, 4) = SignupAt(slug, k)
      BY <1>6, <3>2 DEF SigningUp
    <3>4. s = slug /\ 4 = k
      BY <3>1, <3>3, SignupDistinct
    <3> QED
      BY <2>4, <3>4
  <2> QED
    BY <2>1, <2>2, <2>3, <2>4, HeadPlaces DEF Core
<1> QED
  BY <1>1, <1>2, <1>3, <1>4, <1>5, <1>6 DEF Quiet

LEMMA AwaitQuiet ==
    ASSUME Core, NEW p \in Procs, AwaitReaders(p)
    PROVE  Quiet(p)
<1>1. /\ rows' = rows /\ welcomed' = welcomed /\ dirty' = dirty
      /\ mode' = mode /\ todo' = todo
  BY DEF AwaitReaders
<1>2. OnlyMoves(p)
  BY AwaitLocks DEF Core
<1> QED
  BY <1>1, <1>2 DEF Quiet, SigningUp

\* Every step inserts, commits, answers or is quiet.
LEMMA StepQuiet ==
    ASSUME Core, NEW p \in Procs, Start(p) \/ Request(p) \/ Crash(p) \/ Step(p),
           ~ Write(p), ~ Publish(p), ~ Answer(p)
    PROVE  Quiet(p)
<1>1. CASE Crash(p)
  BY <1>1, ExitQuiet DEF Crash
<1>2. CASE DefineFails(p) \/ WriteDuplicate(p) \/ Locked(p)
  <2>1. Step(p)
    BY <1>2 DEF Step
  <2>2. OnlyMoves(p)
    BY <2>1, StepLocks DEF Core
  <2> QED
    BY <1>2, <2>2, RaiseQuiet DEF DefineFails, WriteDuplicate, Locked
<1> QED
  BY <1>1, <1>2, BeginQuiet, LookQuiet, AwaitQuiet DEF Step

\* What is quiet keeps accounts and sessions.
LEMMA QuietRows ==
    ASSUME Core, AccountsHeld, SessionsHeld, NEW p \in Procs, Quiet(p)
    PROVE  AccountsHeld' /\ SessionsHeld'
<1>1. /\ rows' = rows /\ welcomed' = welcomed
      /\ \A q \in Procs \ {p} : dirty'[q] = dirty[q]
      /\ dirty'[p] = dirty[p] \/ dirty'[p] = NoRows
  BY DEF Quiet, OnlyMoves
<1>2. \A q \in Procs, row \in Rows : dirty'[q][row] = dirty[q][row] \/ dirty'[q][row] = 0
  BY <1>1, NoRowsTyped
<1>3. \A q \in Procs, row \in Rows : dirty[q][row] \in Nat /\ rows[row] \in Nat
  BY DEF Core, TypeOK
<1>4. \A q \in Procs \ {p}, slug \in Slugs, k \in 1..6 :
         SigningUp(q, slug, k)' <=> SigningUp(q, slug, k)
  BY DEF Quiet, OnlyMoves, SigningUp
<1>5. \A slug \in Slugs, k \in 1..6 :
          SigningUp(p, slug, k)' => \/ k = 1
                                    \/ k = 4 /\ SigningUp(p, slug, 3)
                                    \/ SigningUp(p, slug, k) /\ dirty'[p] = dirty[p]
  BY DEF Quiet
<1>6. 2 \in 1..6 /\ 3 \in 1..6 /\ 4 \in 1..6 /\ 5 \in 1..6 /\ 6 \in 1..6
  OBVIOUS
<1>7. AccountsHeld'
  BY <1>1, <1>2, <1>3, SlugRows DEF AccountsHeld
<1>8. ASSUME NEW q \in Procs, NEW slug \in Slugs
      PROVE  /\ Owed(q, slug)' => Owed(q, slug)
             /\ SigningUp(q, slug, 2)' => SigningUp(q, slug, 2) /\ dirty'[q] = dirty[q]
             /\ SigningUp(q, slug, 5)' => SigningUp(q, slug, 5) /\ dirty'[q] = dirty[q]
             /\ SigningUp(q, slug, 6)' => SigningUp(q, slug, 6)
  BY <1>1, <1>4, <1>5, <1>6 DEF Owed
<1>9. SessionsHeld'
  <2> SUFFICES ASSUME NEW slug \in Slugs PROVE SessionsOf(slug)'
    BY DEF SessionsHeld
  <2>1. SessionRow(slug) \in Rows /\ UserRow(slug) \in Rows
    BY SlugRows
  <2> QED
    BY <1>1, <1>2, <1>3, <1>8, <2>1 DEF SessionsHeld, SessionsOf
<1> QED
  BY <1>7, <1>9

\* What an insert does: the row is not taken, and the commit comes next.
LEMMA WriteMoves ==
    ASSUME Core, NEW p \in Procs, Write(p)
    PROVE  /\ Now(p).row \in Rows
           /\ OnlyMoves(p) /\ rows' = rows /\ welcomed' = welcomed
           /\ \A row \in Rows :
                 dirty'[p][row] = IF row = Now(p).row THEN dirty[p][row] + 1 ELSE dirty[p][row]
           /\ Now(p).row \in Users => rows[Now(p).row] = 0 /\ dirty[p][Now(p).row] = 0
           /\ \/ \E s \in Slugs : /\ SigningUp(p, s, 1) /\ SigningUp(p, s, 2)'
                                  /\ Now(p).row = UserRow(s)
              \/ \E s \in Slugs : /\ SigningUp(p, s, 4) /\ SigningUp(p, s, 5)'
                                  /\ Now(p).row = SessionRow(s)
              \/ \E i \in 0..4 : /\ Seeding(p, i, 1) /\ Seeding(p, i, 2)'
                                 /\ Now(p).row = SeedRow(i)
<1>1. /\ todo[p] # <<>> /\ Now(p).op = "insert" /\ ~ Taken(p)
      /\ dirty' = [dirty EXCEPT ![p][Now(p).row] = @ + 1]
      /\ rows' = rows /\ welcomed' = welcomed
      /\ Continue(p, Tail(todo[p]))
  BY DEF Write, At
<1>2. Now(p) \in Statements
  BY <1>1, HeadTailProperties DEF Now, Core, TypeOK
<1>3. Now(p).row \in Rows
  BY <1>1, <1>2, StatementKinds
<1>4. \A row \in Rows :
         /\ rows[row] \in Nat /\ dirty[p][row] \in Nat
         /\ dirty'[p][row] = IF row = Now(p).row THEN dirty[p][row] + 1 ELSE dirty[p][row]
  BY <1>1, <1>3 DEF Core, TypeOK
<1>5. OnlyMoves(p)
  BY WriteLocks DEF Core
<1>6. Now(p).row \in Users => rows[Now(p).row] = 0 /\ dirty[p][Now(p).row] = 0
  BY <1>1, <1>3, <1>4 DEF Taken, Present
<1>7. 1 \in 1..5 /\ 1 + 1 = 2 /\ 4 \in 1..5 /\ 4 + 1 = 5 /\ 1 \in 1..2
  OBVIOUS
<1>8. /\ \A s \in Slugs : SigningUp(p, s, 1) => SigningUp(p, s, 2)'
      /\ \A s \in Slugs : SigningUp(p, s, 4) => SigningUp(p, s, 5)'
      /\ \A i \in 0..4 : Seeding(p, i, 1) => Seeding(p, i, 2)'
  BY <1>1, <1>7, Advance DEF Core
<1> QED
  BY <1>1, <1>3, <1>4, <1>5, <1>6, <1>8, HeadPlaces DEF Core

\* The places of the others, and of p by one place it is known to be at.
LEMMA PlacesAfter ==
    ASSUME NEW p \in Procs, OnlyMoves(p)
    PROVE  /\ \A q \in Procs \ {p}, slug \in Slugs, k \in 1..6 :
                 SigningUp(q, slug, k)' <=> SigningUp(q, slug, k)
           /\ \A s, slug \in Slugs, k, l \in 1..6 :
                 SigningUp(p, s, k)' /\ SigningUp(p, slug, l)' => s = slug /\ k = l
           /\ \A q \in Procs \ {p}, i \in 0..4, f \in 1..3 :
                 Seeding(q, i, f)' <=> Seeding(q, i, f)
           /\ \A i, j \in 0..4, f, g \in 1..3 :
                 Seeding(p, i, f)' /\ Seeding(p, j, g)' => i = j /\ f = g
  BY SignupDistinct, SeedDistinct DEF OnlyMoves, SigningUp, Seeding

LEMMA WriteRows ==
    ASSUME Core, AccountsHeld, SessionsHeld, NEW p \in Procs, Write(p)
    PROVE  AccountsHeld' /\ SessionsHeld'
<1> DEFINE new == Now(p).row
<1>1. /\ new \in Rows
      /\ OnlyMoves(p) /\ rows' = rows /\ welcomed' = welcomed
      /\ \A row \in Rows :
            dirty'[p][row] = IF row = new THEN dirty[p][row] + 1 ELSE dirty[p][row]
      /\ new \in Users => rows[new] = 0 /\ dirty[p][new] = 0
      /\ \/ \E s \in Slugs : SigningUp(p, s, 1) /\ SigningUp(p, s, 2)' /\ new = UserRow(s)
         \/ \E s \in Slugs : SigningUp(p, s, 4) /\ SigningUp(p, s, 5)' /\ new = SessionRow(s)
         \/ \E i \in 0..4 : Seeding(p, i, 1) /\ Seeding(p, i, 2)' /\ new = SeedRow(i)
  BY WriteMoves
<1> HIDE DEF new
<1>2. \A q \in Procs \ {p} : dirty'[q] = dirty[q]
  BY <1>1 DEF OnlyMoves
<1>3. \A q \in Procs, row \in Rows : dirty[q][row] \in Nat /\ rows[row] \in Nat
  BY DEF Core, TypeOK
<1>4. AccountsHeld'
  <2>1. ASSUME NEW slug \in Slugs \cup {Demo}, NEW q \in Procs, dirty'[q][UserRow(slug)] > 0
        PROVE  dirty'[q][UserRow(slug)] = 1 /\ rows'[UserRow(slug)] = 0
    <3>1. UserRow(slug) \in Rows /\ UserRow(slug) \in Users
      BY SlugRows
    <3>2. CASE q = p /\ UserRow(slug) = new
      BY <1>1, <3>1, <3>2
    <3>3. CASE ~ (q = p /\ UserRow(slug) = new)
      <4>1. dirty'[q][UserRow(slug)] = dirty[q][UserRow(slug)]
        BY <1>1, <1>2, <3>1, <3>3
      <4> QED
        BY <1>1, <2>1, <4>1 DEF AccountsHeld
    <3> QED
      BY <3>2, <3>3
  <2> QED
    BY <1>1, <2>1 DEF AccountsHeld
<1>5. ASSUME NEW slug \in Slugs PROVE SessionsOf(slug)'
  <2>1. /\ SessionRow(slug) \in Rows /\ UserRow(slug) \in Rows
        /\ SessionRow(slug) \notin Users /\ UserRow(slug) \in Users
    BY SlugRows
  <2>2. SessionsOf(slug)
    BY DEF SessionsHeld
  <2>3. 2 \in 1..6 /\ 3 \in 1..6 /\ 4 \in 1..6 /\ 5 \in 1..6 /\ 6 \in 1..6
          /\ 1 \in 1..3 /\ 2 \in 1..3
    OBVIOUS
  <2>4. \A q \in Procs \ {p}, k \in 1..6 : SigningUp(q, slug, k)' <=> SigningUp(q, slug, k)
    BY <1>1, PlacesAfter
  <2>5. CASE new = SessionRow(slug) /\ SigningUp(p, slug, 4) /\ SigningUp(p, slug, 5)'
    <3>1. \A k \in 1..6 : SigningUp(p, slug, k)' => k = 5
      BY <1>1, <2>3, <2>5, PlacesAfter
    <3>2. Owed(p, slug)
      BY <2>5 DEF Owed
    <3>3. /\ rows[UserRow(slug)] = 1 /\ rows[SessionRow(slug)] = 0
          /\ \A q \in Procs : dirty[q][SessionRow(slug)] = 0
          /\ \A q \in Procs : Owed(q, slug) => q = p
      BY <2>2, <3>2 DEF SessionsOf
    <3>4. \A q \in Procs : ~ Owed(q, slug)'
      BY <2>3, <2>4, <3>1, <3>3 DEF Owed
    <3>5. \A q \in Procs : dirty'[q][SessionRow(slug)] = IF q = p THEN 1 ELSE 0
      BY <1>1, <1>2, <2>1, <2>5, <3>3
    <3>6. \A q \in Procs \ {p} : dirty'[q][UserRow(slug)] = dirty[q][UserRow(slug)]
      BY <1>2
    <3> QED
      BY <1>1, <2>2, <2>3, <2>4, <3>1, <3>3, <3>4, <3>5, <3>6 DEF SessionsOf
  <2>6. CASE new = UserRow(slug) /\ SigningUp(p, slug, 2)'
    <3>1. \A k \in 1..6 : SigningUp(p, slug, k)' => k = 2
      BY <1>1, <2>3, <2>6, PlacesAfter
    <3>2. UserRow(slug) # SessionRow(slug)
      BY <2>1
    <3>3. \A q \in Procs : dirty'[q][SessionRow(slug)] = dirty[q][SessionRow(slug)]
      BY <1>1, <1>2, <2>1, <2>6, <3>2
    <3>4. dirty'[p][UserRow(slug)] = 1
      BY <1>1, <2>1, <2>6
    <3>5. \A q \in Procs : Owed(q, slug)' => Owed(q, slug)
      BY <2>3, <2>4, <3>1 DEF Owed
    <3> QED
      BY <1>1, <1>2, <2>2, <2>3, <2>4, <3>1, <3>3, <3>4, <3>5 DEF SessionsOf
  <2>7. CASE new # SessionRow(slug) /\ \A k \in 1..6 : ~ SigningUp(p, slug, k)'
    <3>1. \A q \in Procs : dirty'[q][SessionRow(slug)] = dirty[q][SessionRow(slug)]
      BY <1>1, <1>2, <2>1, <2>7
    <3>2. \A q \in Procs : Owed(q, slug)' => Owed(q, slug)
      BY <2>3, <2>4, <2>7 DEF Owed
    <3> QED
      BY <1>1, <1>2, <2>2, <2>3, <2>4, <2>7, <3>1, <3>2 DEF SessionsOf
  <2>8. ASSUME NEW s \in Slugs, SigningUp(p, s, 1), SigningUp(p, s, 2)', new = UserRow(s)
        PROVE  SessionsOf(slug)'
    <3>1. CASE s = slug
      BY <2>6, <2>8, <3>1
    <3>2. CASE s # slug
      <4>1. new # SessionRow(slug)
        BY <2>8, SlugRows
      <4>2. \A k \in 1..6 : ~ SigningUp(p, slug, k)'
        BY <1>1, <2>3, <2>8, <3>2, PlacesAfter
      <4> QED
        BY <2>7, <4>1, <4>2
    <3> QED
      BY <3>1, <3>2
  <2>9. ASSUME NEW s \in Slugs, SigningUp(p, s, 4), SigningUp(p, s, 5)', new = SessionRow(s)
        PROVE  SessionsOf(slug)'
    <3>1. CASE s = slug
      BY <2>5, <2>9, <3>1
    <3>2. CASE s # slug
      <4>1. new # SessionRow(slug)
        BY <2>9, <3>2, SlugRows
      <4>2. \A k \in 1..6 : ~ SigningUp(p, slug, k)'
        BY <1>1, <2>3, <2>9, <3>2, PlacesAfter
      <4> QED
        BY <2>7, <4>1, <4>2
    <3> QED
      BY <3>1, <3>2
  <2>10. ASSUME NEW i \in 0..4, Seeding(p, i, 2)', new = SeedRow(i)
         PROVE  SessionsOf(slug)'
    <3>1. new # SessionRow(slug)
      BY <2>10, SeedRows
    <3>2. \A k \in 1..6 : ~ SigningUp(p, slug, k)'
      BY <2>3, <2>10, NotSigningUp
    <3> QED
      BY <2>7, <3>1, <3>2
  <2> QED
    BY <1>1, <2>8, <2>9, <2>10
<1> QED
  BY <1>4, <1>5 DEF SessionsHeld

\* What a commit does: it publishes what no other transaction holds.
LEMMA PublishMoves ==
    ASSUME Core, NEW p \in Procs, Publish(p)
    PROVE  /\ OnlyMoves(p) /\ welcomed' = welcomed
           /\ dirty'[p] = NoRows
           /\ rows' = [row \in Rows |-> rows[row] + dirty[p][row]]
           /\ \A q \in Procs \ {p} : dirty[q] # NoRows => rows' = rows
           /\ \/ Migrating(p) /\ Migrating(p)' /\ rows' = rows
              \/ \E s \in Slugs : SigningUp(p, s, 2) /\ SigningUp(p, s, 3)'
              \/ \E s \in Slugs : SigningUp(p, s, 5) /\ SigningUp(p, s, 6)'
              \/ \E i \in 0..4 : Seeding(p, i, 2) /\ Seeding(p, i, 3)'
<1>1. /\ todo[p] # <<>> /\ Now(p).op = "commit" /\ welcomed' = welcomed
      /\ rows' = [row \in Rows |-> rows[row] + dirty[p][row]]
      /\ dirty'[p] = NoRows
      /\ Continue(p, Tail(todo[p]))
  BY DEF Publish, At, Core, TypeOK
<1>2. OnlyMoves(p)
  BY PublishLocks DEF Core
<1>3. dirty[p] = NoRows => rows' = rows
  <2> SUFFICES ASSUME dirty[p] = NoRows PROVE rows' = rows
    OBVIOUS
  <2>1. \A row \in Rows : rows[row] + dirty[p][row] = rows[row]
    BY NoRowsTyped DEF Core, TypeOK
  <2> QED
    BY <1>1, <2>1 DEF Core, TypeOK
<1>4. \A q \in Procs \ {p} : dirty[q] # NoRows => dirty[p] = NoRows
  BY DEF Core, LocksHeld, OneWriter, Orderly
<1>5. Migrating(p) => dirty[p] = NoRows /\ Migrating(p)'
  BY <1>1, Advance DEF Core, LocksHeld, Orderly
<1>6. 2 \in 1..5 /\ 2 + 1 = 3 /\ 5 \in 1..5 /\ 5 + 1 = 6 /\ 2 \in 1..2
  OBVIOUS
<1>7. /\ \A s \in Slugs : SigningUp(p, s, 2) => SigningUp(p, s, 3)'
      /\ \A s \in Slugs : SigningUp(p, s, 5) => SigningUp(p, s, 6)'
      /\ \A i \in 0..4 : Seeding(p, i, 2) => Seeding(p, i, 3)'
  BY <1>1, <1>6, Advance DEF Core
<1>8. Migrating(p) \/ AtCommit(p)
  BY <1>1, HeadPlaces DEF Core
<1> QED
  BY <1>1, <1>2, <1>3, <1>4, <1>5, <1>7, <1>8 DEF AtCommit

LEMMA PublishRows ==
    ASSUME Core, AccountsHeld, SessionsHeld, NEW p \in Procs, Publish(p)
    PROVE  AccountsHeld' /\ SessionsHeld'
<1>1. /\ OnlyMoves(p) /\ welcomed' = welcomed
      /\ dirty'[p] = NoRows
      /\ rows' = [row \in Rows |-> rows[row] + dirty[p][row]]
      /\ \A q \in Procs \ {p} : dirty[q] # NoRows => rows' = rows
      /\ \/ Migrating(p) /\ Migrating(p)' /\ rows' = rows
         \/ \E s \in Slugs : SigningUp(p, s, 2) /\ SigningUp(p, s, 3)'
         \/ \E s \in Slugs : SigningUp(p, s, 5) /\ SigningUp(p, s, 6)'
         \/ \E i \in 0..4 : Seeding(p, i, 2) /\ Seeding(p, i, 3)'
  BY PublishMoves
<1>2. \A q \in Procs \ {p} : dirty'[q] = dirty[q]
  BY <1>1 DEF OnlyMoves
<1>3. \A q \in Procs, row \in Rows : dirty[q][row] \in Nat /\ rows[row] \in Nat
  BY DEF Core, TypeOK
<1>4. \A row \in Rows : rows'[row] = rows[row] + dirty[p][row] /\ dirty'[p][row] = 0
  BY <1>1, NoRowsTyped
<1>5. \A q \in Procs, row \in Rows :
         dirty'[q][row] > 0 => /\ q # p /\ dirty'[q][row] = dirty[q][row]
                               /\ rows' = rows
  <2> SUFFICES ASSUME NEW q \in Procs, NEW row \in Rows, dirty'[q][row] > 0
               PROVE  q # p /\ dirty'[q][row] = dirty[q][row] /\ rows' = rows
    OBVIOUS
  <2>1. q # p
    BY <1>4
  <2>2. dirty'[q] = dirty[q]
    BY <1>2, <2>1
  <2>3. dirty[q] # NoRows
    BY <2>2, NoRowsTyped
  <2> QED
    BY <1>1, <2>1, <2>2, <2>3
<1>6. AccountsHeld'
  <2>1. ASSUME NEW slug \in Slugs \cup {Demo}
        PROVE  /\ rows'[UserRow(slug)] <= 1
               /\ \A q \in Procs :
                     dirty'[q][UserRow(slug)] > 0
                       => dirty'[q][UserRow(slug)] = 1 /\ rows'[UserRow(slug)] = 0
    <3>1. UserRow(slug) \in Rows
      BY SlugRows
    <3>2. rows'[UserRow(slug)] <= 1
      BY <1>3, <1>4, <3>1 DEF AccountsHeld
    <3> QED
      BY <1>5, <3>1, <3>2 DEF AccountsHeld
  <2> QED
    BY <2>1 DEF AccountsHeld
<1>7. ASSUME NEW slug \in Slugs PROVE SessionsOf(slug)'
  <2>1. SessionRow(slug) \in Rows /\ UserRow(slug) \in Rows
    BY SlugRows
  <2> DEFINE u  == rows[UserRow(slug)]
             s  == rows[SessionRow(slug)]
             u1 == rows'[UserRow(slug)]
             s1 == rows'[SessionRow(slug)]
  <2>2. SessionsOf(slug)
    BY DEF SessionsHeld
  <2>3. /\ u \in Nat /\ s \in Nat /\ s <= u /\ u1 <= 1
        /\ u1 = u + dirty[p][UserRow(slug)] /\ dirty[p][UserRow(slug)] \in Nat
        /\ s1 = s + dirty[p][SessionRow(slug)] /\ dirty[p][SessionRow(slug)] \in Nat
    BY <1>3, <1>4, <1>6, <2>1, <2>2 DEF SessionsOf, AccountsHeld
  <2>4. dirty[p][SessionRow(slug)] > 0 => dirty[p][SessionRow(slug)] = 1 /\ u = 1 /\ s = 0
    BY <2>2 DEF SessionsOf
  <2>5. /\ s1 <= u1
        /\ u = 1 => u1 = 1
        /\ s = 1 => s1 = 1
    BY <2>3, <2>4
  <2>6. slug \in welcomed' => u1 = 1 /\ s1 = 1
    BY <1>1, <2>2, <2>5 DEF SessionsOf
  <2>7. 2 \in 1..6 /\ 3 \in 1..6 /\ 4 \in 1..6 /\ 5 \in 1..6 /\ 6 \in 1..6 /\ 3 \in 1..3
    OBVIOUS
  <2>8. \A q \in Procs \ {p}, k \in 1..6 : SigningUp(q, slug, k)' <=> SigningUp(q, slug, k)
    BY <1>1, PlacesAfter
  <2>9. ASSUME NEW q \in Procs, dirty'[q][SessionRow(slug)] > 0
        PROVE  dirty'[q][SessionRow(slug)] = 1 /\ u1 = 1 /\ s1 = 0
    <3>1. dirty'[q][SessionRow(slug)] = dirty[q][SessionRow(slug)] /\ u1 = u /\ s1 = s
      BY <1>5, <2>1, <2>9
    <3> QED
      BY <2>2, <2>9, <3>1 DEF SessionsOf
  <2>10. ASSUME NEW q \in Procs, NEW k \in 1..6, SigningUp(q, slug, k)', k # 3, k # 6
         PROVE  SigningUp(q, slug, k) /\ q # p
    <3>1. q # p
      <4>1. CASE Migrating(p)'
        BY <2>10, <4>1, NotSigningUp
      <4>2. CASE \E i \in 0..4 : Seeding(p, i, 3)'
        BY <2>7, <2>10, <4>2, NotSigningUp
      <4>3. ASSUME NEW t \in Slugs, SigningUp(p, t, 3)' \/ SigningUp(p, t, 6)', q = p
            PROVE  FALSE
        BY <1>1, <2>7, <2>10, <4>3, PlacesAfter
      <4> QED
        BY <1>1, <4>1, <4>2, <4>3
    <3> QED
      BY <2>8, <2>10, <3>1
  <2>11. ASSUME NEW q \in Procs
         PROVE  /\ SigningUp(q, slug, 2)' => dirty'[q][UserRow(slug)] = 1
                /\ SigningUp(q, slug, 5)' => dirty'[q][SessionRow(slug)] = 1
    BY <1>2, <2>2, <2>7, <2>10 DEF SessionsOf
  <2>12. ASSUME SigningUp(p, slug, 3)'
         PROVE  /\ u1 = 1 /\ s1 = 0 /\ u = 0
                /\ \A r \in Procs : dirty'[r][SessionRow(slug)] = 0
    <3>1. SigningUp(p, slug, 2)
      <4>1. ~ Migrating(p)' /\ ~ \E i \in 0..4 : Seeding(p, i, 3)'
        BY <2>7, <2>12, NotSigningUp
      <4>2. ~ \E t \in Slugs : SigningUp(p, t, 6)'
        BY <1>1, <2>7, <2>12, PlacesAfter
      <4>3. \A t \in Slugs : SigningUp(p, t, 3)' => t = slug
        BY <1>1, <2>7, <2>12, PlacesAfter
      <4> QED
        BY <1>1, <4>1, <4>2, <4>3
    <3>2. dirty[p][UserRow(slug)] = 1 /\ u = 0
      BY <2>2, <3>1 DEF SessionsOf, AccountsHeld
    <3>3. \A r \in Procs : dirty[r][SessionRow(slug)] = 0
      BY <1>3, <2>1, <2>2, <3>2 DEF SessionsOf
    <3>4. \A r \in Procs : dirty'[r][SessionRow(slug)] = 0
      BY <1>2, <1>4, <2>1, <3>3
    <3> QED
      BY <2>3, <3>2, <3>3, <3>4
  <2>13. ASSUME NEW q \in Procs, Owed(q, slug)'
         PROVE  /\ u1 = 1 /\ s1 = 0
                /\ \A r \in Procs : dirty'[r][SessionRow(slug)] = 0
                /\ q # p => Owed(q, slug) /\ u = 1
    <3>1. CASE q = p /\ SigningUp(p, slug, 3)'
      BY <2>12, <3>1
    <3>2. CASE ~ (q = p /\ SigningUp(p, slug, 3)')
      <4>1. Owed(q, slug)
        BY <2>7, <2>8, <2>10, <2>13, <3>2 DEF Owed
      <4>2. u = 1 /\ s = 0 /\ \A r \in Procs : dirty[r][SessionRow(slug)] = 0
        BY <2>2, <4>1 DEF SessionsOf
      <4>3. \A r \in Procs : dirty'[r][SessionRow(slug)] = 0
        BY <1>2, <1>4, <2>1, <4>2
      <4>4. s1 = 0
        BY <2>3, <4>2
      <4> QED
        BY <2>5, <4>1, <4>2, <4>3, <4>4
    <3> QED
      BY <3>1, <3>2
  <2>14. ASSUME NEW q \in Procs, SigningUp(q, slug, 6)'
         PROVE  u1 = 1 /\ s1 = 1
    <3>1. CASE q # p
      <4>1. SigningUp(q, slug, 6)
        BY <2>7, <2>8, <2>14, <3>1
      <4> QED
        BY <2>2, <2>5, <4>1 DEF SessionsOf
    <3>2. CASE q = p
      <4>1. SigningUp(p, slug, 5)
        <5>1. ~ Migrating(p)' /\ ~ \E i \in 0..4 : Seeding(p, i, 3)'
          BY <2>7, <2>14, <3>2, NotSigningUp
        <5>2. ~ \E t \in Slugs : SigningUp(p, t, 3)'
          BY <1>1, <2>7, <2>14, <3>2, PlacesAfter
        <5>3. \A t \in Slugs : SigningUp(p, t, 6)' => t = slug
          BY <1>1, <2>7, <2>14, <3>2, PlacesAfter
        <5> QED
          BY <1>1, <5>1, <5>2, <5>3
      <4>2. dirty[p][SessionRow(slug)] = 1
        BY <2>2, <4>1 DEF SessionsOf
      <4>3. u = 1 /\ s = 0
        BY <2>4, <4>2
      <4> QED
        BY <2>3, <2>5, <4>2, <4>3
    <3> QED
      BY <3>1, <3>2
  <2>15. ASSUME NEW q \in Procs, NEW r \in Procs, Owed(q, slug)', Owed(r, slug)'
         PROVE  q = r
    <3>1. CASE q # p /\ r # p
      BY <2>2, <2>13, <2>15, <3>1 DEF SessionsOf
    <3>2. ASSUME NEW x \in Procs, Owed(x, slug)', x # p
          PROVE  ~ Owed(p, slug)'
      <4>1. u = 1
        BY <2>13, <3>2
      <4>2. ~ SigningUp(p, slug, 3)'
        BY <2>12, <4>1
      <4>3. ~ SigningUp(p, slug, 4)'
        BY <2>7, <2>10
      <4> QED
        BY <4>2, <4>3 DEF Owed
    <3> QED
      BY <2>15, <3>1, <3>2
  <2> QED
    BY <2>5, <2>6, <2>9, <2>11, <2>13, <2>14, <2>15 DEF SessionsOf
<1> QED
  BY <1>6, <1>7 DEF SessionsHeld

\* Who is answered has account and session in the file.
LEMMA AnswerRows ==
    ASSUME Core, AccountsHeld, SessionsHeld, NEW p \in Procs, Answer(p)
    PROVE  AccountsHeld' /\ SessionsHeld'
<1>1. /\ todo[p] # <<>> /\ Now(p).op = "welcome"
      /\ welcomed' = welcomed \cup {Now(p).slug}
      /\ rows' = rows /\ dirty' = dirty
      /\ Continue(p, Tail(todo[p]))
  BY DEF Answer, At
<1>2. OnlyMoves(p)
  BY AnswerLocks DEF Core
<1> PICK s \in Slugs : SigningUp(p, s, 6) /\ Now(p).slug = s
  BY <1>1, HeadPlaces DEF Core
<1>3. todo'[p] = <<>>
  BY <1>1, Advance DEF Core
<1>4. AccountsHeld'
  BY <1>1 DEF AccountsHeld
<1>5. ASSUME NEW slug \in Slugs PROVE SessionsOf(slug)'
  <2>1. SessionsOf(slug)
    BY DEF SessionsHeld
  <2>2. slug \in welcomed' => rows[UserRow(slug)] = 1 /\ rows[SessionRow(slug)] = 1
    BY <1>1, <2>1 DEF SessionsOf
  <2>3. 2 \in 1..6 /\ 3 \in 1..6 /\ 4 \in 1..6 /\ 5 \in 1..6 /\ 6 \in 1..6
    OBVIOUS
  <2>4. \A q \in Procs, k \in 1..6 : SigningUp(q, slug, k)' => SigningUp(q, slug, k)
    BY <1>2, <1>3, PlacesAfter, NotSigningUp
  <2>5. \A q \in Procs : Owed(q, slug)' => Owed(q, slug)
    BY <2>3, <2>4 DEF Owed
  <2> QED
    BY <1>1, <2>1, <2>2, <2>3, <2>4, <2>5 DEF SessionsOf
<1> QED
  BY <1>4, <1>5 DEF SessionsHeld

LEMMA NextRows ==
    Core /\ AccountsHeld /\ SessionsHeld /\ [Next]_vars => AccountsHeld' /\ SessionsHeld'
<1> SUFFICES ASSUME Core, AccountsHeld, SessionsHeld, [Next]_vars
             PROVE  AccountsHeld' /\ SessionsHeld'
  OBVIOUS
<1>1. CASE UNCHANGED vars
  <2>1. AccountsHeld'
    BY <1>1 DEF vars, AccountsHeld
  <2>2. \A slug \in Slugs : SessionsOf(slug)' <=> SessionsOf(slug)
    BY <1>1 DEF vars, SessionsOf, Owed, SigningUp
  <2> QED
    BY <2>1, <2>2 DEF SessionsHeld
<1> QED
  BY <1>1, StepQuiet, QuietRows, WriteRows, PublishRows, AnswerRows DEF Next

LEMMA InitRows == Init => AccountsHeld /\ SessionsHeld
<1> SUFFICES ASSUME Init PROVE AccountsHeld /\ SessionsHeld
  OBVIOUS
<1>1. /\ \A slug \in Slugs \cup {Demo} : rows[UserRow(slug)] = 0
      /\ \A slug \in Slugs : rows[SessionRow(slug)] = 0
      /\ \A p \in Procs, slug \in Slugs \cup {Demo} : dirty[p][UserRow(slug)] = 0
      /\ \A p \in Procs, slug \in Slugs : dirty[p][SessionRow(slug)] = 0
  BY NoRowsTyped, SlugRows DEF Init
<1>2. AccountsHeld
  BY <1>1 DEF AccountsHeld
<1>3. \A p \in Procs, slug \in Slugs, k \in 1..6 : ~ SigningUp(p, slug, k)
  BY DEF Init, SigningUp
<1>4. 2 \in 1..6 /\ 3 \in 1..6 /\ 4 \in 1..6 /\ 5 \in 1..6 /\ 6 \in 1..6
  OBVIOUS
<1>5. \A p \in Procs, slug \in Slugs : ~ Owed(p, slug)
  BY <1>3, <1>4 DEF Owed
<1>6. ASSUME NEW slug \in Slugs PROVE SessionsOf(slug)
  BY <1>1, <1>3, <1>4, <1>5 DEF SessionsOf, Init
<1> QED
  BY <1>2, <1>6 DEF SessionsHeld

\* A visitor who was sent off with a session cookie has an account and a
\* session in the file, whoever signs up for the same slug meanwhile, whatever
\* fails and whoever dies (the signup handler, create_user, create_session).
THEOREM SignupsDurable == Spec => []AcknowledgedIsDurable
<1>1. Init => Core /\ AccountsHeld /\ SessionsHeld
  BY InitCore, InitRows
<1>2. Core /\ AccountsHeld /\ SessionsHeld /\ [Next]_vars
         => (Core /\ AccountsHeld /\ SessionsHeld)'
  BY CoreInvariant, NextRows
<1>3. Core /\ SessionsHeld => AcknowledgedIsDurable
  BY DEF Core, TypeOK, SessionsHeld, SessionsOf, AcknowledgedIsDurable
<1> QED
  BY <1>1, <1>2, <1>3, PTL DEF Spec

-----------------------------------------------------------------------------
(* The demo. *)

\* The seed is past the insert of the demo user, committed or not.
Past(i, phase) == i > 0 \/ phase > 1

Seeder(p) == \E i \in 0..4, phase \in 1..3 : Seeding(p, i, phase) /\ Past(i, phase)

\* Who serves found or created the demo user; a seed has in its transaction
\* just the row it is at; past its first insert it knows which rows are in the
\* file, and it is the only one there; the rows came in order.
SeedersHeld ==
    /\ \A p \in Procs :
          mode[p] = "serving" => /\ rows[UserRow(Demo)] = 1
                                 /\ \A j \in 0..4 : dirty[p][SeedRow(j)] = 0
    /\ \A p \in Procs, i \in 0..4, phase \in 1..3 :
          Seeding(p, i, phase)
            => \A row \in Rows :
                  dirty[p][row] = IF phase = 2 /\ row = SeedRow(i) THEN 1 ELSE 0
    /\ \A p \in Procs, i \in 0..4, phase \in 1..3 :
          Seeding(p, i, phase) /\ Past(i, phase)
            => \A j \in 0..4 :
                  rows[SeedRow(j)] = IF j < i \/ (j = i /\ phase = 3) THEN 1 ELSE 0
    /\ \A p, q \in Procs : Seeder(p) /\ Seeder(q) => p = q
    /\ \A j \in 0..3 : rows[SeedRow(j + 1)] <= rows[SeedRow(j)]

\* The demo user is committed and the last donation is not.
Between(p) ==
    \E i \in 0..4, phase \in 1..3 :
        Seeding(p, i, phase) /\ (i > 0 \/ phase = 3) /\ (i < 4 \/ phase < 3)

DemoHeld ==
    rows[UserRow(Demo)] > 0 /\ ~ demoCut
      => \/ \A j \in 0..4 : rows[SeedRow(j)] = 1
         \/ \E p \in Procs : Between(p)

\* A process between the user and the last donation is adding donations.
LEMMA BetweenSeeds ==
    ASSUME Core, SeedersHeld, NEW p \in Procs, Between(p)
    PROVE  SeedsDonations(p)
<1> PICK i \in 0..4, f \in 1..3 : /\ Seeding(p, i, f)
                                  /\ (i > 0 \/ f = 3) /\ (i < 4 \/ f < 3)
  BY DEF Between
<1> DEFINE k == 3 * i + f
<1>1. k \in 3..14 /\ k = 3 * i + f
  OBVIOUS
<1>2. /\ Len(todo[p]) = 16 - k
      /\ \A n \in 1..16 - k : todo[p][n] = SeedDemo[k + n - 1]
      /\ DOMAIN todo[p] = 1..16 - k
  <2>1. /\ Len(SeedAt(i, f)) = 16 - (3 * i + f)
        /\ \A n \in 1..16 - (3 * i + f) : SeedAt(i, f)[n] = SeedDemo[3 * i + f + n - 1]
        /\ SeedAt(i, f) \in Seq(Plain)
    BY SeedPlaces
  <2>2. DOMAIN SeedAt(i, f) = 1..Len(SeedAt(i, f))
    BY <2>1, LenProperties
  <2> QED
    BY <2>1, <2>2 DEF Seeding
<1>3. rows[UserRow(Demo)] > 0
  <2>1. Past(i, f) /\ 0 \in 0..4
    BY DEF Past
  <2>2. rows[SeedRow(0)] = IF 0 < i \/ (0 = i /\ f = 3) THEN 1 ELSE 0
    BY <2>1 DEF SeedersHeld
  <2> QED
    BY <2>2, SeedRows
<1>4. \/ dirty[p][DemoRow("fourth")] > 0
      \/ \E n \in DOMAIN todo[p] : todo[p][n] = Insert(DemoRow("fourth"))
  <2>1. 4 \in 0..4 /\ 2 \in 1..3 /\ 3 * 4 + 1 = 13
    OBVIOUS
  <2>2. CASE k = 14
    <3>1. i = 4 /\ f = 2
      BY <2>2
    <3>2. dirty[p][SeedRow(4)] = 1
      BY <2>1, <3>1, SeedRows DEF SeedersHeld
    <3> QED
      BY <3>2, SeedRows
  <2>3. CASE k <= 13
    <3> HIDE DEF k
    <3>1. 14 - k \in 1..16 - k /\ k + (14 - k) - 1 = 13
      BY <1>1, <2>3
    <3>2. SeedDemo[13] = Insert(SeedRow(4))
      BY <2>1, SeedList
    <3>3. todo[p][14 - k] = Insert(SeedRow(4))
      BY <1>2, <3>1, <3>2
    <3> QED
      BY <1>2, <3>1, <3>3, SeedRows
  <2> QED
    BY <1>1, <2>2, <2>3
<1>5. \A n \in DOMAIN todo[p] : todo[p][n] # Insert(UserRow(Demo))
  <2> SUFFICES ASSUME NEW n \in DOMAIN todo[p], todo[p][n] = Insert(UserRow(Demo))
               PROVE  FALSE
    OBVIOUS
  <2> DEFINE m == k + n - 1
  <2>1. m \in 3..15 /\ todo[p][n] = SeedDemo[m]
    <3> HIDE DEF k
    <3>1. n \in 1..16 - k
      BY <1>2
    <3>2. todo[p][n] = SeedDemo[m]
      BY <1>2, <3>1
    <3>3. m \in 3..15
      BY <1>1, <3>1
    <3> QED
      BY <3>2, <3>3
  <2> HIDE DEF m
  <2>2. \E j \in 0..4 : \/ m = 3 * j + 1 /\ j > 0
                        \/ m = 3 * j + 2
                        \/ m = 3 * j + 3
    <3>1. \/ m = 3 \/ m = 4 \/ m = 5 \/ m = 6 \/ m = 7 \/ m = 8 \/ m = 9 \/ m = 10
          \/ m = 11 \/ m = 12 \/ m = 13 \/ m = 14 \/ m = 15
      BY <2>1
    <3>2. /\ 3 = 3 * 0 + 3 /\ 4 = 3 * 1 + 1 /\ 5 = 3 * 1 + 2 /\ 6 = 3 * 1 + 3
          /\ 7 = 3 * 2 + 1 /\ 8 = 3 * 2 + 2 /\ 9 = 3 * 2 + 3
          /\ 10 = 3 * 3 + 1 /\ 11 = 3 * 3 + 2 /\ 12 = 3 * 3 + 3
          /\ 13 = 3 * 4 + 1 /\ 14 = 3 * 4 + 2 /\ 15 = 3 * 4 + 3
      OBVIOUS
    <3>3. 0 \in 0..4 /\ 1 \in 0..4 /\ 2 \in 0..4 /\ 3 \in 0..4 /\ 4 \in 0..4
      OBVIOUS
    <3> QED
      BY <3>1, <3>2, <3>3
  <2>3. PICK j \in 0..4 : \/ m = 3 * j + 1 /\ j > 0
                          \/ m = 3 * j + 2
                          \/ m = 3 * j + 3
    BY <2>2
  <2>4. \/ SeedDemo[m] = Insert(SeedRow(j)) /\ j > 0
        \/ SeedDemo[m] = Commit
        \/ SeedDemo[m] = Select
    BY <2>3, SeedList
  <2>5. SeedDemo[m] # Commit /\ SeedDemo[m] # Select
    <3>1. Insert(UserRow(Demo)).op = "insert" /\ SeedDemo[m] = Insert(UserRow(Demo))
      BY <2>1, Ops
    <3> QED
      BY <3>1, Ops
  <2>6. Insert(SeedRow(j)) = Insert(UserRow(Demo)) /\ j > 0
    BY <2>1, <2>4, <2>5
  <2>7. SeedRow(j) = SeedRow(0) /\ j # 0
    BY <2>6, Ops, SeedRows
  <2>8. 0 \in 0..4
    OBVIOUS
  <2> QED
    BY <2>7, <2>8, SeedRows
<1> QED
  BY <1>3, <1>4, <1>5 DEF SeedsDonations

\* Steps that neither insert nor commit, as the demo sees them: a seed stays
\* where it is, goes from its read to the next row, or begins after a look
\* that found no demo user; a process comes to serve after a look that found
\* one, or at the end of its seed.
Seedless(p) ==
    /\ OnlyMoves(p)
    /\ rows' = rows
    /\ \A i \in 0..4, f \in 1..3 :
          Seeding(p, i, f)'
            => \/ dirty'[p] = dirty[p] /\ Seeding(p, i, f)
               \/ /\ dirty'[p] = dirty[p] /\ f = 1
                  /\ \E j \in 0..3 : i = j + 1 /\ Seeding(p, j, 3)
               \/ i = 0 /\ f = 1 /\ dirty'[p] = NoRows
    /\ mode'[p] = "serving"
         => \/ dirty'[p] = dirty[p] /\ mode[p] = "serving"
            \/ dirty'[p] = NoRows /\ rows[UserRow(Demo)] > 0
            \/ dirty'[p] = dirty[p] /\ Seeding(p, 4, 3)
    /\ Between(p) => Between(p)' \/ demoCut'
    /\ demoCut => demoCut'

LEMMA ExitSeedless ==
    ASSUME Core, SeedersHeld, NEW p \in Procs, NEW how \in {"down", "failed"}, Exit(p, how)
    PROVE  Seedless(p)
<1>1. /\ rows' = rows /\ mode'[p] = how
      /\ demoCut' = (demoCut \/ SeedsDonations(p))
  BY DEF Exit, Core, TypeOK
<1>2. OnlyMoves(p)
  BY ExitLocks DEF Core
<1>3. Between(p) => demoCut'
  BY <1>1, BetweenSeeds
<1>4. \A i \in 0..4, f \in 1..3 : ~ Seeding(p, i, f)'
  BY <1>1 DEF Seeding
<1> QED
  BY <1>1, <1>2, <1>3, <1>4 DEF Seedless

\* A process that serves, or does not start, seeds nothing.
LEMMA NotSeeding ==
    ASSUME NEW p \in Procs, mode[p] # "starting" \/ Migrating(p)
    PROVE  ~ Between(p) /\ \A i \in 0..4, f \in 1..3 : ~ Seeding(p, i, f)
  BY SeedDistinct DEF Between, Seeding, Migrating

LEMMA RaiseSeedless ==
    ASSUME Core, SeedersHeld, NEW p \in Procs, NEW txn, NEW held, Raise(p, txn, held),
           OnlyMoves(p)
    PROVE  Seedless(p)
<1>1. CASE mode[p] = "starting" /\ Exit(p, "failed")
  BY <1>1, ExitSeedless
<1>2. CASE ~ (mode[p] = "starting" /\ Exit(p, "failed"))
  <2>1. mode[p] = "serving" /\ mode' = mode /\ rows' = rows /\ dirty' = dirty
          /\ demoCut' = demoCut
    BY <1>2 DEF Raise
  <2>2. ~ Between(p)
    BY <2>1, NotSeeding
  <2>3. \A i \in 0..4, f \in 1..3 : ~ Seeding(p, i, f)'
    BY <2>1 DEF Seeding
  <2> QED
    BY <2>1, <2>2, <2>3 DEF Seedless
<1> QED
  BY <1>1, <1>2

LEMMA BeginSeedless ==
    ASSUME Core, SeedersHeld, NEW p \in Procs, Start(p) \/ Request(p)
    PROVE  Seedless(p)
<1>1. rows' = rows /\ dirty' = dirty /\ demoCut' = demoCut
  BY DEF Start, Request
<1>2. OnlyMoves(p)
  BY BeginLocks DEF Core
<1>3. mode[p] # "starting"
  BY DEF Start, Request, Up
<1>4. ~ Between(p)
  BY <1>3, NotSeeding
<1>5. \A i \in 0..4, f \in 1..3 : ~ Seeding(p, i, f)'
  BY StartPlaces, RequestPlaces, SeedDistinct DEF Core, Seeding, Migrating, Request
<1>6. mode'[p] = "serving" => mode[p] = "serving"
  BY DEF Start, Request, Core, TypeOK
<1> QED
  BY <1>1, <1>2, <1>4, <1>5, <1>6 DEF Seedless

LEMMA ReadSeedless ==
    ASSUME Core, SeedersHeld, NEW p \in Procs, Read(p)
    PROVE  Seedless(p)
<1>1. /\ rows' = rows /\ dirty' = dirty /\ demoCut' = demoCut
      /\ todo[p] # <<>> /\ Now(p).op = "select" /\ Continue(p, Tail(todo[p]))
  BY DEF Read, At
<1>2. OnlyMoves(p)
  BY LookLocks DEF Core
<1>3. CASE mode[p] = "serving"
  <2>1. mode'[p] = "serving"
    BY <1>1, <1>3 DEF Continue, Core, TypeOK
  <2>2. ~ Between(p)
    BY <1>3, NotSeeding
  <2>3. \A i \in 0..4, f \in 1..3 : ~ Seeding(p, i, f)'
    BY <2>1 DEF Seeding
  <2> QED
    BY <1>1, <1>2, <1>3, <2>1, <2>2, <2>3 DEF Seedless
<1>4. ASSUME NEW i \in 0..4, Seeding(p, i, 3)
      PROVE  Seedless(p)
  <2>1. CASE i = 4
    <3>1. todo'[p] = <<>> /\ mode'[p] = "serving"
      BY <1>1, <1>4, <2>1, Advance DEF Core
    <3>2. \A j \in 0..4, f \in 1..3 : ~ Seeding(p, j, f)'
      BY <3>1 DEF Seeding
    <3>3. ~ Between(p)
      <4>1. 3 \in 1..3
        OBVIOUS
      <4>2. \A j \in 0..4, f \in 1..3 : Seeding(p, j, f) => j = 4 /\ f = 3
        BY <1>4, <2>1, <4>1, OnePlace
      <4> QED
        BY <4>2 DEF Between
    <3> QED
      BY <1>1, <1>2, <1>4, <2>1, <3>1, <3>2, <3>3 DEF Seedless
  <2>2. CASE i # 4
    <3>1. i \in 0..3 /\ i + 1 \in 0..4 /\ 1 \in 1..3 /\ i + 1 > 0
      BY <2>2
    <3>2. Seeding(p, i + 1, 1)'
      BY <1>1, <1>4, <3>1, Advance DEF Core
    <3>3. \A j \in 0..4, f \in 1..3 : Seeding(p, j, f)' => j = i + 1 /\ f = 1
      BY <1>2, <3>1, <3>2, PlacesAfter
    <3>4. Between(p)'
      BY <3>1, <3>2 DEF Between
    <3>5. mode'[p] # "serving"
      BY <3>2 DEF Seeding
    <3> QED
      BY <1>1, <1>2, <1>4, <3>1, <3>3, <3>4, <3>5 DEF Seedless
  <2> QED
    BY <2>1, <2>2
<1> QED
  BY <1>1, <1>3, <1>4, HeadPlaces DEF Core, SigningUp

LEMMA LookSeedless ==
    ASSUME Core, AccountsHeld, SeedersHeld, NEW p \in Procs,
           CheckSeed(p) \/ TableInfo(p) \/ PassOver(p) \/ Define(p)
    PROVE  Seedless(p)
<1>1. rows' = rows /\ dirty' = dirty /\ demoCut' = demoCut
  BY DEF CheckSeed, TableInfo, PassOver, Define
<1>2. OnlyMoves(p)
  BY LookLocks, DefineLocks DEF Core
<1>3. /\ todo[p] # <<>>
      /\ Now(p).op \in {"find_demo", "read_columns", "create", "add_column"}
  BY DEF CheckSeed, TableInfo, PassOver, Define, ChangesSchema, At
<1>4. Migrating(p)
  BY <1>3, HeadPlaces DEF Core
<1>5. ~ Between(p) /\ dirty[p] = NoRows
  BY <1>4, NotSeeding DEF Core, LocksHeld, Orderly
<1>6. CASE CheckSeed(p)
  <2>1. \/ Present(p, UserRow(Demo)) /\ todo'[p] = <<>> /\ mode'[p] = "serving"
        \/ ~ Present(p, UserRow(Demo)) /\ Seeding(p, 0, 1)'
    BY <1>6, CheckSeedPlaces DEF Core
  <2>2. CASE Present(p, UserRow(Demo)) /\ mode'[p] = "serving"
    <3>1. rows[UserRow(Demo)] > 0
      BY <1>5, <2>2, NoRowsTyped, SlugRows DEF Present, Core, TypeOK
    <3>2. \A i \in 0..4, f \in 1..3 : ~ Seeding(p, i, f)'
      BY <2>2 DEF Seeding
    <3> QED
      BY <1>1, <1>2, <1>5, <3>1, <3>2 DEF Seedless
  <2>3. CASE Seeding(p, 0, 1)'
    <3>1. 0 \in 0..4 /\ 1 \in 1..3
      OBVIOUS
    <3>2. \A j \in 0..4, f \in 1..3 : Seeding(p, j, f)' => j = 0 /\ f = 1
      BY <1>2, <2>3, <3>1, PlacesAfter
    <3>3. mode'[p] # "serving"
      BY <2>3 DEF Seeding
    <3> QED
      BY <1>1, <1>2, <1>5, <3>2, <3>3 DEF Seedless
  <2> QED
    BY <2>1, <2>2, <2>3
<1>7. CASE TableInfo(p) \/ PassOver(p) \/ Define(p)
  <2>1. Migrating(p)'
    <3>1. CASE PassOver(p) \/ Define(p)
      <4>1. Continue(p, Tail(todo[p])) /\ Now(p).op \in {"create", "add_column"}
        BY <3>1 DEF PassOver, Define, ChangesSchema, At
      <4> QED
        BY <1>3, <1>4, <4>1, Advance DEF Core
    <3>2. CASE TableInfo(p)
      BY <3>2, TableInfoPlaces DEF Core
    <3> QED
      BY <1>7, <3>1, <3>2
  <2>2. \A i \in 0..4, f \in 1..3 : ~ Seeding(p, i, f)'
    BY <2>1, SeedDistinct DEF Seeding, Migrating
  <2>3. mode'[p] # "serving"
    BY <2>1 DEF Migrating
  <2> QED
    BY <1>1, <1>2, <1>5, <2>2, <2>3 DEF Seedless
<1> QED
  BY <1>6, <1>7

LEMMA OtherSeedless ==
    ASSUME Core, SeedersHeld, NEW p \in Procs, AwaitReaders(p) \/ Answer(p)
    PROVE  Seedless(p)
<1>1. rows' = rows /\ dirty' = dirty /\ demoCut' = demoCut
  BY DEF AwaitReaders, Answer
<1>2. OnlyMoves(p)
  BY AwaitLocks, AnswerLocks DEF Core
<1>3. CASE AwaitReaders(p)
  BY <1>1, <1>2, <1>3 DEF AwaitReaders, Seedless, Seeding, Between
<1>4. CASE Answer(p)
  <2>1. todo[p] # <<>> /\ Now(p).op = "welcome" /\ Continue(p, Tail(todo[p]))
    BY <1>4 DEF Answer, At
  <2>2. mode[p] = "serving"
    BY <2>1, HeadPlaces DEF Core, SigningUp
  <2>3. mode'[p] = "serving"
    BY <2>1, <2>2 DEF Continue, Core, TypeOK
  <2>4. ~ Between(p)
    BY <2>2, NotSeeding
  <2>5. \A i \in 0..4, f \in 1..3 : ~ Seeding(p, i, f)'
    BY <2>3 DEF Seeding
  <2> QED
    BY <1>1, <1>2, <2>2, <2>4, <2>5 DEF Seedless
<1> QED
  BY <1>3, <1>4

LEMMA StepSeedless ==
    ASSUME Core, AccountsHeld, SeedersHeld, NEW p \in Procs,
           Start(p) \/ Request(p) \/ Crash(p) \/ Step(p), ~ Write(p), ~ Publish(p)
    PROVE  Seedless(p)
<1>1. CASE Crash(p)
  BY <1>1, ExitSeedless DEF Crash
<1>2. CASE DefineFails(p) \/ WriteDuplicate(p) \/ Locked(p)
  <2>1. Step(p)
    BY <1>2 DEF Step
  <2>2. OnlyMoves(p)
    BY <2>1, StepLocks DEF Core
  <2> QED
    BY <1>2, <2>2, RaiseSeedless DEF DefineFails, WriteDuplicate, Locked
<1> QED
  BY <1>1, <1>2, BeginSeedless, ReadSeedless, LookSeedless, OtherSeedless DEF Step

\* The first row comes before all others.
LEMMA UserFirst ==
    ASSUME Core, SeedersHeld, rows[UserRow(Demo)] = 0
    PROVE  \A j \in 0..4 : rows[SeedRow(j)] = 0
<1>1. /\ rows[SeedRow(0 + 1)] <= rows[SeedRow(0)] /\ rows[SeedRow(1 + 1)] <= rows[SeedRow(1)]
      /\ rows[SeedRow(2 + 1)] <= rows[SeedRow(2)] /\ rows[SeedRow(3 + 1)] <= rows[SeedRow(3)]
  BY DEF SeedersHeld
<1>2. \A j \in 0..4 : rows[SeedRow(j)] \in Nat
  BY SeedRows DEF Core, TypeOK
<1>3. /\ rows[SeedRow(1)] <= rows[SeedRow(0)] /\ rows[SeedRow(2)] <= rows[SeedRow(1)]
      /\ rows[SeedRow(3)] <= rows[SeedRow(2)] /\ rows[SeedRow(4)] <= rows[SeedRow(3)]
  BY <1>1
<1>4. /\ rows[SeedRow(0)] \in Nat /\ rows[SeedRow(1)] \in Nat /\ rows[SeedRow(2)] \in Nat
      /\ rows[SeedRow(3)] \in Nat /\ rows[SeedRow(4)] \in Nat
  BY <1>2
<1>5. /\ rows[SeedRow(0)] = 0 /\ rows[SeedRow(1)] = 0 /\ rows[SeedRow(2)] = 0
      /\ rows[SeedRow(3)] = 0 /\ rows[SeedRow(4)] = 0
  BY <1>3, <1>4, SeedRows
<1>6. \A j \in 0..4 : j = 0 \/ j = 1 \/ j = 2 \/ j = 3 \/ j = 4
  OBVIOUS
<1> QED
  BY <1>5, <1>6

\* A step that changes no row of the demo, and leaves every other process at
\* its place, keeps what is between the rows and the other processes.
LEMMA SeedlessSeeds ==
    ASSUME Core, AccountsHeld, SeedersHeld, DemoHeld, NEW p \in Procs, Seedless(p)
    PROVE  SeedersHeld' /\ DemoHeld'
<1>1. /\ OnlyMoves(p) /\ rows' = rows
      /\ \A i \in 0..4, f \in 1..3 :
            Seeding(p, i, f)'
              => \/ dirty'[p] = dirty[p] /\ Seeding(p, i, f)
                 \/ /\ dirty'[p] = dirty[p] /\ f = 1
                    /\ \E j \in 0..3 : i = j + 1 /\ Seeding(p, j, 3)
                 \/ i = 0 /\ f = 1 /\ dirty'[p] = NoRows
      /\ mode'[p] = "serving"
           => \/ dirty'[p] = dirty[p] /\ mode[p] = "serving"
              \/ dirty'[p] = NoRows /\ rows[UserRow(Demo)] > 0
              \/ dirty'[p] = dirty[p] /\ Seeding(p, 4, 3)
      /\ Between(p) => Between(p)' \/ demoCut'
      /\ demoCut => demoCut'
  BY DEF Seedless
<1>2. \A q \in Procs \ {p} : dirty'[q] = dirty[q] /\ mode'[q] = mode[q]
  BY <1>1 DEF OnlyMoves
<1>3. \A q \in Procs \ {p}, i \in 0..4, f \in 1..3 : Seeding(q, i, f)' <=> Seeding(q, i, f)
  BY <1>1, PlacesAfter
<1>4. \A j \in 0..4 : SeedRow(j) \in Rows /\ NoRows[SeedRow(j)] = 0
  BY SeedRows, NoRowsTyped
<1>5. 4 \in 0..4 /\ 3 \in 1..3 /\ 0 \in 0..4 /\ \A j \in 0..3 : j \in 0..4
  OBVIOUS
<1>6. ASSUME NEW q \in Procs, mode'[q] = "serving"
      PROVE  rows'[UserRow(Demo)] = 1 /\ \A j \in 0..4 : dirty'[q][SeedRow(j)] = 0
  <2>1. CASE q # p \/ (dirty'[p] = dirty[p] /\ mode[p] = "serving")
    BY <1>1, <1>2, <1>6, <2>1 DEF SeedersHeld
  <2>2. CASE q = p /\ dirty'[p] = NoRows /\ rows[UserRow(Demo)] > 0
    <3>1. rows[UserRow(Demo)] = 1
      BY <2>2, SlugRows DEF AccountsHeld, Core, TypeOK
    <3> QED
      BY <1>1, <1>4, <2>2, <3>1
  <2>3. CASE q = p /\ dirty'[p] = dirty[p] /\ Seeding(p, 4, 3)
    <3>1. \A j \in 0..4 : dirty[p][SeedRow(j)] = 0
      BY <1>4, <1>5, <2>3 DEF SeedersHeld
    <3>2. Past(4, 3)
      BY DEF Past
    <3>3. rows[SeedRow(0)] = IF 0 < 4 \/ (0 = 4 /\ 3 = 3) THEN 1 ELSE 0
      BY <1>5, <2>3, <3>2 DEF SeedersHeld
    <3> QED
      BY <1>1, <2>3, <3>1, <3>3, SeedRows
  <2> QED
    BY <1>1, <1>6, <2>1, <2>2, <2>3
<1>7. ASSUME NEW q \in Procs, NEW i \in 0..4, NEW f \in 1..3, Seeding(q, i, f)'
      PROVE  \A row \in Rows :
                dirty'[q][row] = IF f = 2 /\ row = SeedRow(i) THEN 1 ELSE 0
  <2>1. CASE q # p \/ (dirty'[p] = dirty[p] /\ Seeding(p, i, f))
    BY <1>2, <1>3, <1>7, <2>1 DEF SeedersHeld
  <2>2. ASSUME q = p, dirty'[p] = dirty[p], f = 1, NEW j \in 0..3, Seeding(p, j, 3)
        PROVE  \A row \in Rows :
                  dirty'[q][row] = IF f = 2 /\ row = SeedRow(i) THEN 1 ELSE 0
    <3>1. \A row \in Rows : dirty[p][row] = 0
      BY <1>5, <2>2 DEF SeedersHeld
    <3> QED
      BY <2>2, <3>1
  <2>3. CASE q = p /\ f = 1 /\ dirty'[p] = NoRows
    BY <2>3, NoRowsTyped
  <2> QED
    BY <1>1, <1>7, <2>1, <2>2, <2>3
<1>8. ASSUME NEW q \in Procs, NEW i \in 0..4, NEW f \in 1..3, Seeding(q, i, f)', Past(i, f)
      PROVE  /\ Seeder(q)
             /\ \A j \in 0..4 :
                   rows'[SeedRow(j)] = IF j < i \/ (j = i /\ f = 3) THEN 1 ELSE 0
  <2>1. CASE Seeding(q, i, f)
    BY <1>1, <1>8, <2>1 DEF SeedersHeld, Seeder
  <2>2. ASSUME q = p, f = 1, NEW j \in 0..3, i = j + 1, Seeding(p, j, 3)
        PROVE  /\ Seeder(q)
               /\ \A k \in 0..4 :
                     rows'[SeedRow(k)] = IF k < i \/ (k = i /\ f = 3) THEN 1 ELSE 0
    <3>1. Past(j, 3) /\ j \in 0..4
      BY <1>5 DEF Past
    <3>2. \A k \in 0..4 : rows[SeedRow(k)] = IF k < j \/ (k = j /\ 3 = 3) THEN 1 ELSE 0
      BY <1>5, <2>2, <3>1 DEF SeedersHeld
    <3>3. \A k \in 0..4 : (k < j \/ (k = j /\ 3 = 3)) <=> (k < i \/ (k = i /\ f = 3))
      BY <2>2
    <3>4. Seeder(p)
      BY <1>5, <2>2, <3>1 DEF Seeder
    <3> QED
      BY <1>1, <2>2, <3>2, <3>3, <3>4
  <2>3. ~ (i = 0 /\ f = 1)
    BY <1>8 DEF Past
  <2> QED
    BY <1>1, <1>3, <1>8, <2>1, <2>2, <2>3
<1>9. \A q \in Procs : Seeder(q)' => Seeder(q)
  BY <1>8 DEF Seeder, Past
<1>10. SeedersHeld'
  <2>1. \A q, r \in Procs : Seeder(q)' /\ Seeder(r)' => q = r
    BY <1>9 DEF SeedersHeld
  <2>2. \A j \in 0..3 : rows'[SeedRow(j + 1)] <= rows'[SeedRow(j)]
    BY <1>1 DEF SeedersHeld
  <2> QED
    BY <1>6, <1>7, <1>8, <2>1, <2>2 DEF SeedersHeld, Past
<1>11. DemoHeld'
  <2> SUFFICES ASSUME rows[UserRow(Demo)] > 0, ~ demoCut'
               PROVE  \/ \A j \in 0..4 : rows[SeedRow(j)] = 1
                      \/ \E q \in Procs : Between(q)'
    BY <1>1 DEF DemoHeld
  <2>1. ~ demoCut
    BY <1>1
  <2>2. \A q \in Procs \ {p} : Between(q) => Between(q)'
    BY <1>3 DEF Between
  <2> QED
    BY <1>1, <2>1, <2>2 DEF DemoHeld
<1> QED
  BY <1>10, <1>11

\* A request inserts no row of the demo; a seed inserts the row it is at, the
\* first only where there is no demo user yet and nobody else is writing.
LEMMA WriteSeeds ==
    ASSUME Core, AccountsHeld, SeedersHeld, DemoHeld, NEW p \in Procs, Write(p)
    PROVE  SeedersHeld' /\ DemoHeld'
<1> DEFINE new == Now(p).row
<1>1. /\ new \in Rows
      /\ OnlyMoves(p) /\ rows' = rows
      /\ \A row \in Rows :
            dirty'[p][row] = IF row = new THEN dirty[p][row] + 1 ELSE dirty[p][row]
      /\ new \in Users => rows[new] = 0 /\ dirty[p][new] = 0
      /\ \/ \E s \in Slugs : SigningUp(p, s, 1) /\ SigningUp(p, s, 2)' /\ new = UserRow(s)
         \/ \E s \in Slugs : SigningUp(p, s, 4) /\ SigningUp(p, s, 5)' /\ new = SessionRow(s)
         \/ \E i \in 0..4 : Seeding(p, i, 1) /\ Seeding(p, i, 2)' /\ new = SeedRow(i)
  BY WriteMoves
<1> HIDE DEF new
<1>2. \A q \in Procs \ {p} : dirty'[q] = dirty[q] /\ mode'[q] = mode[q]
  BY <1>1 DEF OnlyMoves
<1>3. demoCut' = demoCut
  BY DEF Write
<1>4. \A q \in Procs \ {p}, i \in 0..4, f \in 1..3 : Seeding(q, i, f)' <=> Seeding(q, i, f)
  BY <1>1, PlacesAfter
<1>5. 1 \in 1..3 /\ 2 \in 1..3 /\ 3 \in 1..3 /\ 0 \in 0..4
  OBVIOUS
<1>6. \A j \in 0..4 : SeedRow(j) \in Rows
  BY SeedRows
<1>7. DemoHeld' <=> (rows[UserRow(Demo)] > 0 /\ ~ demoCut
                       => \/ \A j \in 0..4 : rows[SeedRow(j)] = 1
                          \/ \E q \in Procs : Between(q)')
  BY <1>1, <1>3 DEF DemoHeld
<1>8. \A q \in Procs \ {p} : Between(q) => Between(q)'
  BY <1>4 DEF Between
<1>9. ASSUME mode[p] = "serving", mode'[p] = "serving",
             \E s \in Slugs : new = UserRow(s) \/ new = SessionRow(s)
      PROVE  SeedersHeld' /\ DemoHeld'
  <2>1. rows[UserRow(Demo)] = 1 /\ \A j \in 0..4 : dirty[p][SeedRow(j)] = 0
    BY <1>9 DEF SeedersHeld
  <2>2. \A j \in 0..4 : new # SeedRow(j)
    <3> SUFFICES ASSUME NEW j \in 0..4, new = SeedRow(j) PROVE FALSE
      OBVIOUS
    <3>1. PICK s \in Slugs : new = UserRow(s)
      BY <1>9, SeedRows
    <3>2. j = 0
      <4>1. j = 0 \/ j \in 1..4
        OBVIOUS
      <4> QED
        BY <3>1, <4>1, SlugRows
    <3>3. new = UserRow(Demo) /\ new \in Users
      BY <3>2, SeedRows, SlugRows
    <3> QED
      BY <1>1, <2>1, <3>3
  <2>3. \A j \in 0..4 : dirty'[p][SeedRow(j)] = 0
    BY <1>1, <1>6, <2>1, <2>2
  <2>4. (\A i \in 0..4, f \in 1..3 : ~ Seeding(p, i, f)') /\ ~ Between(p)
    BY <1>9 DEF Seeding, Between
  <2>5. \A q \in Procs : Seeder(q)' => Seeder(q)
    BY <1>4, <2>4 DEF Seeder, Past
  <2>6. \A q \in Procs :
           mode'[q] = "serving" => /\ rows'[UserRow(Demo)] = 1
                                   /\ \A j \in 0..4 : dirty'[q][SeedRow(j)] = 0
    BY <1>1, <1>2, <2>1, <2>3 DEF SeedersHeld
  <2>7. \A q \in Procs, i \in 0..4, f \in 1..3 :
           Seeding(q, i, f)'
             => \A row \in Rows :
                   dirty'[q][row] = IF f = 2 /\ row = SeedRow(i) THEN 1 ELSE 0
    BY <1>2, <1>4, <2>4 DEF SeedersHeld
  <2>8. \A q \in Procs, i \in 0..4, f \in 1..3 :
           Seeding(q, i, f)' /\ Past(i, f)
             => \A j \in 0..4 :
                   rows'[SeedRow(j)] = IF j < i \/ (j = i /\ f = 3) THEN 1 ELSE 0
    BY <1>1, <1>4, <2>4 DEF SeedersHeld
  <2>9. SeedersHeld'
    BY <1>1, <2>5, <2>6, <2>7, <2>8 DEF SeedersHeld, Past
  <2>10. DemoHeld'
    BY <1>7, <1>8, <2>4 DEF DemoHeld
  <2> QED
    BY <2>9, <2>10
<1>10. ASSUME NEW i \in 0..4, Seeding(p, i, 1), Seeding(p, i, 2)', new = SeedRow(i)
       PROVE  SeedersHeld' /\ DemoHeld'
  <2>1. \A row \in Rows : dirty[p][row] = 0
    BY <1>5, <1>10 DEF SeedersHeld
  <2>2. \A row \in Rows : dirty'[p][row] = IF row = SeedRow(i) THEN 1 ELSE 0
    BY <1>1, <1>10, <2>1
  <2>3. \A j \in 0..4, f \in 1..3 : Seeding(p, j, f)' => j = i /\ f = 2
    BY <1>1, <1>5, <1>10, PlacesAfter
  <2>4. mode'[p] # "serving"
    BY <1>10 DEF Seeding
  <2>5. \A j \in 0..4 : rows[SeedRow(j)] = IF j < i THEN 1 ELSE 0
    <3>1. CASE i = 0
      <4>1. rows[UserRow(Demo)] = 0
        BY <1>1, <1>10, <3>1, SeedRows, SlugRows
      <4>2. \A j \in 0..4 : rows[SeedRow(j)] = 0 /\ ~ (j < i)
        BY <3>1, <4>1, UserFirst
      <4> QED
        BY <4>2
    <3>2. CASE i # 0
      <4>1. Past(i, 1)
        BY <3>2 DEF Past
      <4>2. \A j \in 0..4 : rows[SeedRow(j)] = IF j < i \/ (j = i /\ 1 = 3) THEN 1 ELSE 0
        BY <1>5, <1>10, <4>1 DEF SeedersHeld
      <4> QED
        BY <4>2
    <3> QED
      BY <3>1, <3>2
  <2>6. ASSUME NEW q \in Procs, q # p, Seeder(q)
        PROVE  FALSE
    <3>1. CASE i # 0
      <4>1. Seeder(p)
        BY <1>5, <1>10, <3>1 DEF Seeder, Past
      <4> QED
        BY <2>6, <4>1 DEF SeedersHeld
    <3>2. CASE i = 0
      <4>1. PICK j \in 0..4, f \in 1..3 : Seeding(q, j, f) /\ Past(j, f)
        BY <2>6 DEF Seeder
      <4>2. rows[SeedRow(0)] = IF 0 < j \/ (0 = j /\ f = 3) THEN 1 ELSE 0
        BY <1>5, <4>1 DEF SeedersHeld
      <4>3. rows[SeedRow(0)] = 0
        BY <1>5, <2>5, <3>2
      <4>4. j = 0 /\ f = 2
        BY <4>1, <4>2, <4>3 DEF Past
      <4>5. dirty[q][SeedRow(0)] = 1
        BY <1>5, <1>6, <4>1, <4>4 DEF SeedersHeld
      <4>6. dirty'[q] # NoRows
        BY <1>2, <1>5, <1>6, <2>6, <4>5, NoRowsTyped
      <4>7. dirty'[p] # NoRows
        BY <1>6, <2>2, NoRowsTyped
      <4>8. LocksHeld'
        BY WriteLocks DEF Core
      <4>9. Writes(p)' /\ Writes(q)'
        BY <4>6, <4>7, <4>8 DEF LocksHeld, Orderly
      <4> QED
        BY <2>6, <4>8, <4>9 DEF LocksHeld, OneWriter
    <3> QED
      BY <3>1, <3>2
  <2>7. \A q \in Procs : Seeder(q)' => q = p
    BY <1>4, <2>6 DEF Seeder, Past
  <2>8. \A q \in Procs :
           mode'[q] = "serving" => /\ rows'[UserRow(Demo)] = 1
                                   /\ \A j \in 0..4 : dirty'[q][SeedRow(j)] = 0
    BY <1>1, <1>2, <2>4 DEF SeedersHeld
  <2>9. ASSUME NEW q \in Procs, NEW j \in 0..4, NEW f \in 1..3, Seeding(q, j, f)'
        PROVE  \A row \in Rows :
                  dirty'[q][row] = IF f = 2 /\ row = SeedRow(j) THEN 1 ELSE 0
    <3>1. CASE q = p
      BY <2>2, <2>3, <2>9, <3>1
    <3>2. CASE q # p
      BY <1>2, <1>4, <2>9, <3>2 DEF SeedersHeld
    <3> QED
      BY <3>1, <3>2
  <2>10. ASSUME NEW q \in Procs, NEW j \in 0..4, NEW f \in 1..3, Seeding(q, j, f)', Past(j, f)
         PROVE  \A k \in 0..4 :
                   rows'[SeedRow(k)] = IF k < j \/ (k = j /\ f = 3) THEN 1 ELSE 0
    <3>1. CASE q = p
      <4>1. j = i /\ f = 2
        BY <2>3, <2>10, <3>1
      <4> QED
        BY <1>1, <2>5, <4>1
    <3>2. CASE q # p
      BY <1>1, <1>4, <2>10, <3>2 DEF SeedersHeld
    <3> QED
      BY <3>1, <3>2
  <2>11. SeedersHeld'
    <3>1. \A q, r \in Procs : Seeder(q)' /\ Seeder(r)' => q = r
      BY <2>7
    <3>2. \A j \in 0..3 : rows'[SeedRow(j + 1)] <= rows'[SeedRow(j)]
      BY <1>1 DEF SeedersHeld
    <3> QED
      BY <2>8, <2>9, <2>10, <3>1, <3>2 DEF SeedersHeld, Past
  <2>12. Between(p) => Between(p)'
    <3>1. ASSUME Between(p) PROVE i > 0
      BY <1>5, <1>10, <3>1, OnePlace DEF Between
    <3> QED
      BY <1>5, <1>10, <3>1 DEF Between
  <2>13. DemoHeld'
    BY <1>7, <1>8, <2>12 DEF DemoHeld
  <2> QED
    BY <2>11, <2>13
<1> QED
  BY <1>1, <1>9, <1>10 DEF SigningUp

\* A commit that publishes no row of the demo, or the one a seed is at.
LEMMA PublishSeeds ==
    ASSUME Core, AccountsHeld, SeedersHeld, DemoHeld, NEW p \in Procs, Publish(p)
    PROVE  SeedersHeld' /\ DemoHeld'
<1>1. /\ OnlyMoves(p)
      /\ dirty'[p] = NoRows
      /\ rows' = [row \in Rows |-> rows[row] + dirty[p][row]]
      /\ \/ Migrating(p) /\ Migrating(p)' /\ rows' = rows
         \/ \E s \in Slugs : SigningUp(p, s, 2) /\ SigningUp(p, s, 3)'
         \/ \E s \in Slugs : SigningUp(p, s, 5) /\ SigningUp(p, s, 6)'
         \/ \E i \in 0..4 : Seeding(p, i, 2) /\ Seeding(p, i, 3)'
  BY PublishMoves
<1>2. \A q \in Procs \ {p} : dirty'[q] = dirty[q] /\ mode'[q] = mode[q]
  BY <1>1 DEF OnlyMoves
<1>3. demoCut' = demoCut
  BY DEF Publish
<1>4. \A q \in Procs \ {p}, i \in 0..4, f \in 1..3 : Seeding(q, i, f)' <=> Seeding(q, i, f)
  BY <1>1, PlacesAfter
<1>5. 2 \in 1..3 /\ 3 \in 1..3 /\ 0 \in 0..4 /\ \A j \in 0..3 : j \in 0..4 /\ j + 1 \in 0..4
  OBVIOUS
<1>6. \A j \in 0..4 : SeedRow(j) \in Rows
  BY SeedRows
<1>7. \A j \in 0..4 : /\ rows[SeedRow(j)] \in Nat
                      /\ rows'[SeedRow(j)] = rows[SeedRow(j)] + dirty[p][SeedRow(j)]
                      /\ dirty'[p][SeedRow(j)] = 0
  BY <1>1, <1>6, NoRowsTyped DEF Core, TypeOK
<1>8. \A q \in Procs \ {p} : Between(q) => Between(q)'
  BY <1>4 DEF Between
<1>9. ASSUME \A j \in 0..4 : rows'[SeedRow(j)] = rows[SeedRow(j)],
             mode'[p] = "serving" => mode[p] = "serving",
             \A i \in 0..4, f \in 1..3 : ~ Seeding(p, i, f)',
             ~ Between(p)
      PROVE  SeedersHeld' /\ DemoHeld'
  <2>1. rows'[UserRow(Demo)] = rows[UserRow(Demo)]
    BY <1>5, <1>9, SeedRows
  <2>2. \A q \in Procs :
           mode'[q] = "serving" => /\ rows'[UserRow(Demo)] = 1
                                   /\ \A j \in 0..4 : dirty'[q][SeedRow(j)] = 0
    BY <1>2, <1>7, <1>9, <2>1 DEF SeedersHeld
  <2>3. \A q \in Procs, i \in 0..4, f \in 1..3 :
           Seeding(q, i, f)'
             => \A row \in Rows :
                   dirty'[q][row] = IF f = 2 /\ row = SeedRow(i) THEN 1 ELSE 0
    BY <1>2, <1>4, <1>9 DEF SeedersHeld
  <2>4. \A q \in Procs, i \in 0..4, f \in 1..3 :
           Seeding(q, i, f)' /\ Past(i, f)
             => \A j \in 0..4 :
                   rows'[SeedRow(j)] = IF j < i \/ (j = i /\ f = 3) THEN 1 ELSE 0
    BY <1>4, <1>9 DEF SeedersHeld
  <2>5. \A q \in Procs : Seeder(q)' => Seeder(q)
    BY <1>4, <1>9 DEF Seeder, Past
  <2>6. \A j \in 0..3 : rows'[SeedRow(j + 1)] <= rows'[SeedRow(j)]
    BY <1>5, <1>9 DEF SeedersHeld
  <2>7. SeedersHeld'
    BY <2>2, <2>3, <2>4, <2>5, <2>6 DEF SeedersHeld, Past
  <2>8. DemoHeld'
    BY <1>3, <1>8, <1>9, <2>1 DEF DemoHeld
  <2> QED
    BY <2>7, <2>8
<1>10. CASE Migrating(p) /\ Migrating(p)' /\ rows' = rows
  <2>1. \A i \in 0..4, f \in 1..3 : ~ Seeding(p, i, f)'
    BY <1>10, SeedDistinct DEF Seeding, Migrating
  <2>2. mode'[p] # "serving" /\ ~ Between(p)
    BY <1>10, NotSeeding DEF Migrating
  <2> QED
    BY <1>9, <1>10, <2>1, <2>2
<1>11. ASSUME mode[p] = "serving", mode'[p] = "serving"
       PROVE  SeedersHeld' /\ DemoHeld'
  <2>1. \A j \in 0..4 : dirty[p][SeedRow(j)] = 0
    BY <1>11 DEF SeedersHeld
  <2>2. \A j \in 0..4 : rows'[SeedRow(j)] = rows[SeedRow(j)]
    BY <1>7, <2>1
  <2>3. ~ Between(p)
    BY <1>11, NotSeeding
  <2>4. \A i \in 0..4, f \in 1..3 : ~ Seeding(p, i, f)'
    BY <1>11 DEF Seeding
  <2> QED
    BY <1>9, <1>11, <2>2, <2>3, <2>4
<1>12. ASSUME NEW i \in 0..4, Seeding(p, i, 2), Seeding(p, i, 3)'
       PROVE  SeedersHeld' /\ DemoHeld'
  <2>1. Past(i, 2) /\ Past(i, 3)
    BY DEF Past
  <2>2. \A j \in 0..4 : /\ rows[SeedRow(j)] = IF j < i THEN 1 ELSE 0
                        /\ dirty[p][SeedRow(j)] = IF j = i THEN 1 ELSE 0
    <3>1. \A j \in 0..4 : rows[SeedRow(j)] = IF j < i \/ (j = i /\ 2 = 3) THEN 1 ELSE 0
      BY <1>5, <1>12, <2>1 DEF SeedersHeld
    <3>2. \A row \in Rows : dirty[p][row] = IF 2 = 2 /\ row = SeedRow(i) THEN 1 ELSE 0
      BY <1>5, <1>12 DEF SeedersHeld
    <3>3. \A j \in 0..4 : dirty[p][SeedRow(j)] = IF j = i THEN 1 ELSE 0
      BY <1>6, <3>2, SeedRows
    <3> QED
      BY <3>1, <3>3
  <2>3. \A j \in 0..4 : rows'[SeedRow(j)] = IF j < i \/ j = i THEN 1 ELSE 0
    BY <1>7, <2>2
  <2>4. \A j \in 0..4, f \in 1..3 : Seeding(p, j, f)' => j = i /\ f = 3
    BY <1>1, <1>5, <1>12, PlacesAfter
  <2>5. mode'[p] # "serving"
    BY <1>12 DEF Seeding
  <2>6. \A q \in Procs : Seeder(q) => q = p
    <3>1. Seeder(p)
      BY <1>5, <1>12, <2>1 DEF Seeder
    <3> QED
      BY <3>1 DEF SeedersHeld
  <2>7. \A q \in Procs : Seeder(q)' => q = p
    BY <1>4, <2>6 DEF Seeder, Past
  <2>8. rows'[UserRow(Demo)] = 1
    BY <1>5, <2>3, SeedRows
  <2>9. \A q \in Procs :
           mode'[q] = "serving" => /\ rows'[UserRow(Demo)] = 1
                                   /\ \A j \in 0..4 : dirty'[q][SeedRow(j)] = 0
    BY <1>2, <2>5, <2>8 DEF SeedersHeld
  <2>10. ASSUME NEW q \in Procs, NEW j \in 0..4, NEW f \in 1..3, Seeding(q, j, f)'
         PROVE  \A row \in Rows :
                   dirty'[q][row] = IF f = 2 /\ row = SeedRow(j) THEN 1 ELSE 0
    <3>1. CASE q = p
      <4>1. f = 3
        BY <2>4, <2>10, <3>1
      <4> QED
        BY <1>1, <3>1, <4>1, NoRowsTyped
    <3>2. CASE q # p
      BY <1>2, <1>4, <2>10, <3>2 DEF SeedersHeld
    <3> QED
      BY <3>1, <3>2
  <2>11. ASSUME NEW q \in Procs, NEW j \in 0..4, NEW f \in 1..3, Seeding(q, j, f)', Past(j, f)
         PROVE  \A k \in 0..4 :
                   rows'[SeedRow(k)] = IF k < j \/ (k = j /\ f = 3) THEN 1 ELSE 0
    <3>1. q = p
      BY <2>7, <2>11 DEF Seeder, Past
    <3>2. j = i /\ f = 3
      BY <2>4, <2>11, <3>1
    <3> QED
      BY <2>3, <3>2
  <2>12. SeedersHeld'
    <3>1. \A q, r \in Procs : Seeder(q)' /\ Seeder(r)' => q = r
      BY <2>7
    <3>2. \A j \in 0..3 : rows'[SeedRow(j + 1)] <= rows'[SeedRow(j)]
      BY <1>5, <2>3
    <3> QED
      BY <2>9, <2>10, <2>11, <3>1, <3>2 DEF SeedersHeld, Past
  <2>13. DemoHeld'
    <3>1. CASE i = 4
      <4>1. \A j \in 0..4 : rows'[SeedRow(j)] = 1
        BY <2>3, <3>1
      <4> QED
        BY <4>1 DEF DemoHeld
    <3>2. CASE i < 4
      <4>1. Between(p)'
        BY <1>5, <1>12, <3>2 DEF Between
      <4> QED
        BY <4>1 DEF DemoHeld
    <3> QED
      BY <3>1, <3>2
  <2> QED
    BY <2>12, <2>13
<1> QED
  BY <1>1, <1>10, <1>11, <1>12 DEF SigningUp

LEMMA NextSeeds ==
    Core /\ AccountsHeld /\ SeedersHeld /\ DemoHeld /\ [Next]_vars
      => SeedersHeld' /\ DemoHeld'
<1> SUFFICES ASSUME Core, AccountsHeld, SeedersHeld, DemoHeld, [Next]_vars
             PROVE  SeedersHeld' /\ DemoHeld'
  OBVIOUS
<1>1. CASE UNCHANGED vars
  BY <1>1 DEF vars, SeedersHeld, DemoHeld, Seeder, Seeding, Past, Between
<1> QED
  BY <1>1, StepSeedless, SeedlessSeeds, WriteSeeds, PublishSeeds DEF Next

LEMMA InitSeeds == Init => SeedersHeld /\ DemoHeld
<1> SUFFICES ASSUME Init PROVE SeedersHeld /\ DemoHeld
  OBVIOUS
<1>1. \A row \in Rows : rows[row] = 0
  BY NoRowsTyped DEF Init
<1>2. \A p \in Procs : mode[p] = "down"
  BY DEF Init
<1>3. \A p \in Procs, i \in 0..4, f \in 1..3 : ~ Seeding(p, i, f)
  BY <1>2 DEF Seeding
<1>4. \A j \in 0..3 : rows[SeedRow(j + 1)] <= rows[SeedRow(j)]
  <2> SUFFICES ASSUME NEW j \in 0..3 PROVE rows[SeedRow(j + 1)] <= rows[SeedRow(j)]
    OBVIOUS
  <2>1. j \in 0..4 /\ j + 1 \in 0..4
    OBVIOUS
  <2>2. SeedRow(j) \in Rows /\ SeedRow(j + 1) \in Rows
    BY <2>1, SeedRows
  <2> QED
    BY <1>1, <2>2
<1>5. SeedersHeld
  BY <1>2, <1>3, <1>4 DEF SeedersHeld, Seeder
<1>6. DemoHeld
  BY <1>1, SlugRows DEF DemoHeld
<1> QED
  BY <1>5, <1>6

\* The rows part of the inductive invariant.
RowsInv == Core /\ AccountsHeld /\ SessionsHeld /\ SeedersHeld /\ DemoHeld

LEMMA RowsInvariant == Spec => []RowsInv
<1>1. Init => RowsInv
  BY InitCore, InitRows, InitSeeds DEF RowsInv
<1>2. RowsInv /\ [Next]_vars => RowsInv'
  BY CoreInvariant, NextRows, NextSeeds DEF RowsInv
<1> QED
  BY <1>1, <1>2, PTL DEF Spec

\* What is committed makes sense at any moment, and so after any crash: one
\* account per slug, no session without its account, the demo donations in
\* order and once each, beside their user (create_user, create_session,
\* seed_demo).
THEOREM CommittedInOrder == Spec => []RowsInOrder
<1>1. RowsInv => RowsInOrder
  <2> SUFFICES ASSUME RowsInv PROVE RowsInOrder
    OBVIOUS
  <2>1. \A user \in Users : rows[user] <= 1
    BY DEF RowsInv, AccountsHeld, Users
  <2>2. \A slug \in Slugs : rows[SessionRow(slug)] <= rows[UserRow(slug)]
    BY DEF RowsInv, SessionsHeld, SessionsOf
  <2>3. /\ rows[SeedRow(0 + 1)] <= rows[SeedRow(0)] /\ rows[SeedRow(1 + 1)] <= rows[SeedRow(1)]
        /\ rows[SeedRow(2 + 1)] <= rows[SeedRow(2)] /\ rows[SeedRow(3 + 1)] <= rows[SeedRow(3)]
    BY DEF RowsInv, SeedersHeld
  <2>4. /\ SeedRow(0) = UserRow(Demo) /\ SeedRow(1) = DemoRow(DemoDonations[1])
        /\ SeedRow(2) = DemoRow(DemoDonations[2]) /\ SeedRow(3) = DemoRow(DemoDonations[3])
        /\ SeedRow(4) = DemoRow(DemoDonations[4])
    BY DEF SeedRow
  <2>5. DemoDonations[1] = "first" /\ Len(DemoDonations) = 4
    BY DEF DemoDonations
  <2>6. rows[DemoRow("first")] <= rows[UserRow(Demo)]
    BY <2>3, <2>4, <2>5
  <2>7. ASSUME NEW i \in 2..Len(DemoDonations)
        PROVE  rows[DemoRow(DemoDonations[i])] <= rows[DemoRow(DemoDonations[i - 1])]
    <3>1. i = 2 \/ i = 3 \/ i = 4
      BY <2>5
    <3>2. 2 - 1 = 1 /\ 3 - 1 = 2 /\ 4 - 1 = 3 /\ 1 + 1 = 2 /\ 2 + 1 = 3 /\ 3 + 1 = 4
      OBVIOUS
    <3> QED
      BY <2>3, <2>4, <3>1, <3>2
  <2> QED
    BY <2>1, <2>2, <2>6, <2>7 DEF RowsInOrder
<1> QED
  BY <1>1, RowsInvariant, PTL

\* Once the demo user is there and nobody is adding its donations, all of them
\* are there, once each, unless a process went down while it added them
\* (seed_demo looks for the user only).
THEOREM DemoCompleted == Spec => []DemoComplete
<1>1. RowsInv => DemoComplete
  <2> SUFFICES ASSUME RowsInv, rows[UserRow(Demo)] > 0, ~ demoCut,
                      \A p \in Procs : ~ SeedsDonations(p),
                      NEW i \in DOMAIN DemoDonations
               PROVE  rows[DemoRow(DemoDonations[i])] = 1
    BY DEF DemoComplete
  <2>1. i \in 1..4
    BY DEF DemoDonations
  <2>2. \A p \in Procs : ~ Between(p)
    BY BetweenSeeds DEF RowsInv
  <2>3. \A j \in 0..4 : rows[SeedRow(j)] = 1
    BY <2>2 DEF RowsInv, DemoHeld
  <2>4. i \in 0..4 /\ SeedRow(i) = DemoRow(DemoDonations[i])
    BY <2>1, SeedRows
  <2> QED
    BY <2>3, <2>4
<1> QED
  BY <1>1, RowsInvariant, PTL

-----------------------------------------------------------------------------
(* A start fails only in company.  What is left of a start finds what it    *)
(* needs, in the schema or put there by a statement before it; and while    *)
(* nobody else is up, nothing it is about to add is there, and nothing      *)
(* stands in its way.                                                      *)

\* What must be there when a statement is executed.
NeedsOf(s) ==
    CASE s.op \in {"create", "add_column"} -> Needs(s.object)
      [] s.op = "read_columns" -> IF s.group = "accounts" THEN {"users"} ELSE {"donations"}
      [] OTHER -> {}

Ordered(list, have) ==
    \A i \in 1..Len(list) : \A object \in NeedsOf(list[i]) :
        \/ object \in have
        \/ \E j \in 1..Len(list) : j < i /\ object \in Promised(list[j])

\* The columns that are left to add are new, and come before all else.
NewColumnsFirst(list, have) ==
    \A i \in 1..Len(list) : list[i].op = "add_column" =>
        /\ list[i].object \notin have
        /\ \A j \in 1..Len(list) :
              j < i => list[j].op = "add_column" /\ list[j] # list[i]

Prepared(p) ==
    /\ mode[p] = "starting" /\ ~ company[p] => \A q \in Procs \ {p} : ~ Up(q)
    /\ mode[p] = "failed" => company[p]
    /\ Migrating(p) => /\ Ordered(todo[p], schema)
                       /\ ~ company[p] => NewColumnsFirst(todo[p], schema)
    /\ Seeding(p, 0, 1) /\ ~ company[p] => rows[UserRow(Demo)] = 0

StartsHeld == \A p \in Procs : Prepared(p)

\* Columns to add to what is there: each is new, and none comes twice.
Fresh(list, columns) ==
    /\ list \in Seq(Additions)
    /\ \A i \in 1..Len(list) : list[i].object \in columns \ schema
    /\ \A i, j \in 1..Len(list) : j < i => list[j] # list[i]

LEMMA FreshAlter ==
    ASSUME NEW c \in UserColumns \cup DonationColumns
    PROVE  Fresh(Alter(c), {c})
<1>1. CASE c \in schema
  <2>1. Alter(c) = <<>>
    BY <1>1 DEF Alter
  <2>2. Len(<<>>) = 0 /\ <<>> \in Seq(Additions) /\ 1..0 = {}
    OBVIOUS
  <2> QED
    BY <2>1, <2>2 DEF Fresh
<1>2. CASE c \notin schema
  <2>1. Alter(c) = <<AddColumn(c)>> /\ AddColumn(c) \in Additions
    BY <1>2 DEF Alter, Additions
  <2>2. AddColumn(c).object = c
    BY Ops
  <2>3. /\ <<AddColumn(c)>> \in Seq(Additions)
        /\ Len(<<AddColumn(c)>>) = 1
        /\ <<AddColumn(c)>>[1] = AddColumn(c)
    BY <2>1
  <2>4. \A i \in 1..1 : i = 1
    OBVIOUS
  <2> QED
    BY <1>2, <2>1, <2>2, <2>3, <2>4 DEF Fresh
<1> QED
  BY <1>1, <1>2

LEMMA FreshConcat ==
    ASSUME NEW s, NEW t, NEW A, NEW B, Fresh(s, A), Fresh(t, B), A \cap B = {}
    PROVE  Fresh(s \o t, A \cup B)
<1>1. /\ s \in Seq(Additions) /\ t \in Seq(Additions)
      /\ Len(s) \in Nat /\ Len(t) \in Nat
  BY LenProperties DEF Fresh
<1> DEFINE m == Len(s)
           n == Len(t)
           joined == s \o t
<1>2. /\ joined \in Seq(Additions) /\ Len(joined) = m + n
      /\ \A i \in 1 .. m + n : joined[i] = IF i <= m THEN s[i] ELSE t[i - m]
  BY <1>1, ConcatProperties
<1>3. /\ \A i \in 1..m : s[i].object \in A \ schema
      /\ \A i \in 1..n : t[i].object \in B \ schema
      /\ \A i, j \in 1..m : j < i => s[j] # s[i]
      /\ \A i, j \in 1..n : j < i => t[j] # t[i]
  BY DEF Fresh
<1>4. m \in Nat /\ n \in Nat
  BY <1>1
<1> HIDE DEF m, n, joined
<1>5. \A i \in 1 .. m + n :
         \/ i \in 1..m /\ joined[i] = s[i]
         \/ i \notin 1..m /\ i - m \in 1..n /\ joined[i] = t[i - m]
  BY <1>2, <1>4
<1>6. \A i \in 1 .. m + n : joined[i].object \in (A \cup B) \ schema
  BY <1>3, <1>5
<1>7. ASSUME NEW i \in 1 .. m + n, NEW j \in 1 .. m + n, j < i
      PROVE  joined[j] # joined[i]
  <2>1. CASE i \in 1..m
    <3>1. j \in 1..m
      BY <1>4, <1>7, <2>1
    <3> QED
      BY <1>3, <1>5, <1>7, <2>1, <3>1
  <2>2. CASE i \notin 1..m /\ j \in 1..m
    <3>1. joined[j].object \in A /\ joined[i].object \in B
      BY <1>3, <1>5, <2>2
    <3> QED
      BY <3>1
  <2>3. CASE i \notin 1..m /\ j \notin 1..m
    <3>1. /\ i - m \in 1..n /\ joined[i] = t[i - m]
          /\ j - m \in 1..n /\ joined[j] = t[j - m]
      BY <1>5, <2>3
    <3>2. j - m < i - m
      BY <1>4, <1>7
    <3> QED
      BY <1>3, <3>1, <3>2
  <2> QED
    BY <2>1, <2>2, <2>3
<1>8. Fresh(joined, A \cup B)
  BY <1>2, <1>6, <1>7 DEF Fresh
<1> QED
  BY <1>8 DEF joined

\* _migrate adds columns that were not there, once each.
LEMMA AltersFresh ==
    ASSUME NEW group \in Groups
    PROVE  Fresh(Alters(group), GroupColumns(group))
<1>1. CASE group = "marks"
  <2>1. /\ Fresh(Alter("donations.pinned"), {"donations.pinned"})
        /\ Fresh(Alter("donations.read_at"), {"donations.read_at"})
    BY FreshAlter DEF DonationColumns
  <2>2. Fresh(Alter("donations.pinned") \o Alter("donations.read_at"),
              {"donations.pinned"} \cup {"donations.read_at"})
    BY <2>1, FreshConcat
  <2>3. GroupColumns(group) = {"donations.pinned"} \cup {"donations.read_at"}
    BY <1>1 DEF GroupColumns
  <2> QED
    BY <1>1, <2>2, <2>3 DEF Alters
<1>2. CASE group = "accounts"
  <2> DEFINE a == Alter("users.btc_xpub")
             b == Alter("users.next_btc_index")
             c == Alter("users.fee_override")
             d == Alter("users.fee_balance_sats")
             A == {"users.btc_xpub"}
             B == {"users.next_btc_index"}
             C == {"users.fee_override"}
             D == {"users.fee_balance_sats"}
  <2>1. Fresh(a, A) /\ Fresh(b, B) /\ Fresh(c, C) /\ Fresh(d, D)
    BY FreshAlter DEF UserColumns
  <2>2. A \cap B = {} /\ (A \cup B) \cap C = {} /\ (A \cup B \cup C) \cap D = {}
    OBVIOUS
  <2>3. GroupColumns(group) = A \cup B \cup C \cup D
    BY <1>2 DEF GroupColumns
  <2>4. Alters(group) = ((a \o b) \o c) \o d
    BY <1>2 DEF Alters
  <2> HIDE DEF a, b, c, d, A, B, C, D
  <2>5. Fresh(a \o b, A \cup B)
    BY <2>1, <2>2, FreshConcat
  <2>6. Fresh((a \o b) \o c, A \cup B \cup C)
    BY <2>1, <2>2, <2>5, FreshConcat
  <2>7. Fresh(((a \o b) \o c) \o d, A \cup B \cup C \cup D)
    BY <2>1, <2>2, <2>6, FreshConcat
  <2> QED
    BY <2>3, <2>4, <2>7
<1>3. CASE group = "fees"
  <2> DEFINE a == Alter("donations.platform_fee_sats")
             b == Alter("donations.fee_percent_at_creation")
             c == Alter("donations.donor_user_id")
             A == {"donations.platform_fee_sats"}
             B == {"donations.fee_percent_at_creation"}
             C == {"donations.donor_user_id"}
  <2>1. Fresh(a, A) /\ Fresh(b, B) /\ Fresh(c, C)
    BY FreshAlter DEF DonationColumns
  <2>2. A \cap B = {} /\ (A \cup B) \cap C = {}
    OBVIOUS
  <2>3. GroupColumns(group) = A \cup B \cup C
    BY <1>3 DEF GroupColumns
  <2>4. Alters(group) = (a \o b) \o c
    BY <1>3 DEF Alters
  <2> HIDE DEF a, b, c, A, B, C
  <2>5. Fresh(a \o b, A \cup B)
    BY <2>1, <2>2, FreshConcat
  <2>6. Fresh((a \o b) \o c, A \cup B \cup C)
    BY <2>1, <2>2, <2>5, FreshConcat
  <2> QED
    BY <2>3, <2>4, <2>6
<1> QED
  BY <1>1, <1>2, <1>3 DEF Groups

\* What a group of columns needs is what its column list is read from.
LEMMA GroupNeeds ==
    ASSUME NEW group \in Groups, NEW c \in GroupColumns(group)
    PROVE  NeedsOf(AddColumn(c)) = NeedsOf(ReadColumns(group))
<1>1. NeedsOf(AddColumn(c)) = Needs(c)
  BY Ops DEF NeedsOf
<1>2. NeedsOf(ReadColumns(group)) = IF group = "accounts" THEN {"users"} ELSE {"donations"}
  BY Ops DEF NeedsOf
<1>3. CASE group = "marks"
  BY <1>1, <1>2, <1>3 DEF GroupColumns, Needs, DonationColumns, UserColumns, PinnedIndex
<1>4. CASE group = "accounts"
  BY <1>1, <1>2, <1>4 DEF GroupColumns, Needs, DonationColumns, UserColumns, PinnedIndex
<1>5. CASE group = "fees"
  BY <1>1, <1>2, <1>5 DEF GroupColumns, Needs, DonationColumns, UserColumns, PinnedIndex
<1> QED
  BY <1>3, <1>4, <1>5 DEF Groups

-----------------------------------------------------------------------------
(* What is left of a start stays prepared. *)

\* More in the schema is no less.
LEMMA OrderedGrows ==
    ASSUME NEW list, NEW have, NEW more, Ordered(list, have), have \subseteq more
    PROVE  Ordered(list, more)
  BY DEF Ordered

LEMMA OrderedTail ==
    ASSUME NEW list \in Seq(Schematic), list # <<>>, NEW have, NEW more,
           Ordered(list, have), have \cup Promised(Head(list)) \subseteq more
    PROVE  Ordered(Tail(list), more)
<1> DEFINE n == Len(list)
           tail == Tail(list)
<1>1. /\ Head(list) = list[1] /\ n \in Nat /\ n # 0
      /\ Len(tail) = n - 1
      /\ \A i \in 1..n - 1 : tail[i] = list[i + 1]
  BY HeadTailProperties, LenProperties, EmptySeq
<1>2. \A i \in 1..n : \A object \in NeedsOf(list[i]) :
         \/ object \in have
         \/ \E j \in 1..n : j < i /\ object \in Promised(list[j])
  BY DEF Ordered
<1> HIDE DEF n, tail
<1>3. ASSUME NEW i \in 1..n - 1, NEW object \in NeedsOf(tail[i]), object \notin more
      PROVE  \E j \in 1..n - 1 : j < i /\ object \in Promised(tail[j])
  <2>1. i + 1 \in 1..n /\ tail[i] = list[i + 1]
    BY <1>1
  <2>2. object \notin have /\ object \in NeedsOf(list[i + 1])
    BY <1>3, <2>1
  <2>3. PICK k \in 1..n : k < i + 1 /\ object \in Promised(list[k])
    BY <1>2, <2>1, <2>2
  <2>4. k # 1
    BY <1>1, <1>3, <2>3
  <2>5. k - 1 \in 1..n - 1 /\ k - 1 < i /\ k - 1 + 1 = k
    BY <1>1, <2>3, <2>4
  <2>6. tail[k - 1] = list[k]
    BY <1>1, <2>5
  <2> QED
    BY <2>3, <2>5, <2>6
<1>4. \A i \in 1..Len(tail) : \A object \in NeedsOf(tail[i]) :
         \/ object \in more
         \/ \E j \in 1..Len(tail) : j < i /\ object \in Promised(tail[j])
  BY <1>1, <1>3
<1>5. Ordered(tail, more)
  BY <1>4 DEF Ordered
<1> QED
  BY <1>5 DEF tail

\* Columns go ahead of a list when what they need is there; what they bring
\* makes up for the column list they come from.
LEMMA OrderedAlters ==
    ASSUME NEW list \in Seq(Schematic), list # <<>>, NEW have,
           Ordered(list, have), NEW s \in Seq(Additions),
           \A i \in 1..Len(s) : NeedsOf(s[i]) \subseteq have,
           Promised(Head(list)) \subseteq have \cup Promises(s)
    PROVE  Ordered(s \o Tail(list), have)
<1> DEFINE more == have \cup Promised(Head(list))
           tail == Tail(list)
           m == Len(s)
           n == Len(tail)
           joined == s \o tail
<1>1. Ordered(tail, more)
  BY OrderedTail
<1>2. tail \in Seq(Schematic) /\ s \in Seq(Schematic)
  <2>1. Additions \subseteq Schematic
    BY DEF Schematic
  <2> QED
    BY <2>1, HeadTailProperties, SeqMonotonic
<1>3. /\ m \in Nat /\ n \in Nat /\ Len(joined) = m + n
      /\ \A i \in 1 .. m + n : joined[i] = IF i <= m THEN s[i] ELSE tail[i - m]
  BY <1>2, LenProperties, ConcatProperties
<1>4. \A object \in more : object \in have \/ \E j \in 1..m : object \in Promised(s[j])
  <2>1. DOMAIN s = 1..m
    BY LenProperties
  <2> QED
    BY <2>1 DEF Promises
<1>5. \A i \in 1..n : \A object \in NeedsOf(tail[i]) :
         \/ object \in more
         \/ \E j \in 1..n : j < i /\ object \in Promised(tail[j])
  BY <1>1 DEF Ordered
<1>6. \A i \in 1..m : NeedsOf(s[i]) \subseteq have
  OBVIOUS
<1> HIDE DEF more, tail, m, n, joined
<1>7. \A j \in 1..m : j \in 1 .. m + n /\ joined[j] = s[j]
  BY <1>3
<1>8. \A j \in 1..n : j + m \in 1 .. m + n /\ joined[j + m] = tail[j]
  BY <1>3
<1>9. ASSUME NEW i \in 1 .. m + n, NEW object \in NeedsOf(joined[i]), object \notin have
      PROVE  \E j \in 1 .. m + n : j < i /\ object \in Promised(joined[j])
  <2>1. i \notin 1..m
    BY <1>6, <1>7, <1>9
  <2>2. i - m \in 1..n /\ joined[i] = tail[i - m]
    BY <1>3, <2>1
  <2>3. CASE object \in more
    <3>1. PICK j \in 1..m : object \in Promised(s[j])
      BY <1>4, <1>9, <2>3
    <3>2. j < i
      BY <1>3, <2>1
    <3> QED
      BY <1>7, <3>1, <3>2
  <2>4. CASE object \notin more
    <3>1. PICK j \in 1..n : j < i - m /\ object \in Promised(tail[j])
      BY <1>5, <1>9, <2>2, <2>4
    <3>2. j + m < i
      BY <1>3, <3>1
    <3> QED
      BY <1>8, <3>1, <3>2
  <2> QED
    BY <2>3, <2>4
<1>10. Ordered(joined, have)
  BY <1>3, <1>9 DEF Ordered
<1> QED
  BY <1>10 DEF joined, tail

\* After the column that comes first, the others are still new; after
\* anything else there are none.
LEMMA NewColumnsTail ==
    ASSUME NEW list \in Seq(Schematic), list # <<>>, NEW have, NEW more,
           NewColumnsFirst(list, have),
           Head(list).op = "add_column" => more \subseteq have \cup {Head(list).object}
    PROVE  NewColumnsFirst(Tail(list), more)
<1> DEFINE n == Len(list)
           tail == Tail(list)
<1>1. /\ Head(list) = list[1] /\ n \in Nat /\ n # 0
      /\ Len(tail) = n - 1
      /\ \A i \in 1..n - 1 : tail[i] = list[i + 1]
  BY HeadTailProperties, LenProperties, EmptySeq
<1>2. \A i \in 1..n : list[i].op = "add_column" =>
        /\ list[i].object \notin have
        /\ \A j \in 1..n : j < i => list[j].op = "add_column" /\ list[j] # list[i]
  BY DEF NewColumnsFirst
<1>3. \A i \in 1..n : list[i] \in Schematic
  BY ElementOfSeq
<1>4. \A x \in Schematic : x.op = "add_column" => x = AddColumn(x.object)
  BY Ops DEF Schematic, Additions
<1> HIDE DEF n, tail
<1>5. ASSUME NEW i \in 1..n - 1, tail[i].op = "add_column"
      PROVE  /\ tail[i].object \notin more
             /\ \A j \in 1..n - 1 : j < i => tail[j].op = "add_column" /\ tail[j] # tail[i]
  <2>1. i + 1 \in 1..n /\ tail[i] = list[i + 1] /\ 1 \in 1..n /\ 1 < i + 1
    BY <1>1
  <2>2. /\ list[i + 1].op = "add_column" /\ list[i + 1].object \notin have
        /\ \A j \in 1..n : j < i + 1 => list[j].op = "add_column" /\ list[j] # list[i + 1]
    BY <1>2, <1>5, <2>1
  <2>3. list[1].op = "add_column" /\ list[1] # list[i + 1]
    BY <2>1, <2>2
  <2>4. list[1].object # list[i + 1].object
    BY <1>3, <1>4, <2>1, <2>2, <2>3
  <2>5. tail[i].object \notin more
    BY <1>1, <2>1, <2>2, <2>3, <2>4
  <2>6. ASSUME NEW j \in 1..n - 1, j < i
        PROVE  tail[j].op = "add_column" /\ tail[j] # tail[i]
    <3>1. j + 1 \in 1..n /\ j + 1 < i + 1 /\ tail[j] = list[j + 1]
      BY <1>1, <2>6
    <3> QED
      BY <2>1, <2>2, <3>1
  <2> QED
    BY <2>5, <2>6
<1>6. NewColumnsFirst(tail, more)
  BY <1>1, <1>5 DEF NewColumnsFirst
<1> QED
  BY <1>6 DEF tail

\* Behind the column list that is read first no column waits, so new ones may
\* go ahead.
LEMMA NewColumnsAlters ==
    ASSUME NEW list \in Seq(Schematic), list # <<>>,
           NewColumnsFirst(list, schema), Head(list).op # "add_column",
           NEW s, NEW columns, Fresh(s, columns)
    PROVE  NewColumnsFirst(s \o Tail(list), schema)
<1> DEFINE tail == Tail(list)
           m == Len(s)
           n == Len(tail)
           joined == s \o tail
<1>1. tail \in Seq(Schematic) /\ s \in Seq(Schematic) /\ s \in Seq(Additions)
  <2>1. Additions \subseteq Schematic
    BY DEF Schematic
  <2> QED
    BY <2>1, HeadTailProperties, SeqMonotonic DEF Fresh
<1>2. /\ m \in Nat /\ n \in Nat /\ Len(joined) = m + n
      /\ \A i \in 1 .. m + n : joined[i] = IF i <= m THEN s[i] ELSE tail[i - m]
  BY <1>1, LenProperties, ConcatProperties
<1>3. \A i \in 1..n : tail[i].op # "add_column"
  <2>1. /\ Head(list) = list[1] /\ Len(list) \in Nat /\ n = Len(list) - 1
        /\ \A i \in 1..n : tail[i] = list[i + 1]
    BY HeadTailProperties, LenProperties
  <2>2. \A i \in 1..Len(list) : list[i].op = "add_column" =>
           \A j \in 1..Len(list) : j < i => list[j].op = "add_column"
    BY DEF NewColumnsFirst
  <2> HIDE DEF n, tail
  <2>3. ASSUME NEW i \in 1..n, tail[i].op = "add_column" PROVE FALSE
    <3>1. i + 1 \in 1..Len(list) /\ 1 \in 1..Len(list) /\ 1 < i + 1
      BY <2>1
    <3> QED
      BY <2>1, <2>2, <2>3, <3>1
  <2> QED
    BY <2>3
<1>4. /\ \A i \in 1..m : s[i].object \notin schema
      /\ \A i, j \in 1..m : j < i => s[j] # s[i]
  BY DEF Fresh
<1>5. \A i \in 1..m : s[i].op = "add_column"
  <2>1. \A i \in 1..m : s[i] \in Additions
    BY <1>1, ElementOfSeq
  <2> QED
    BY <2>1, Ops DEF Additions
<1> HIDE DEF tail, m, n, joined
<1>6. ASSUME NEW i \in 1 .. m + n, joined[i].op = "add_column"
      PROVE  /\ joined[i].object \notin schema
             /\ \A j \in 1 .. m + n :
                   j < i => joined[j].op = "add_column" /\ joined[j] # joined[i]
  <2>1. i \in 1..m
    <3> SUFFICES ASSUME i \notin 1..m PROVE FALSE
      OBVIOUS
    <3>1. i - m \in 1..n /\ joined[i] = tail[i - m]
      BY <1>2
    <3> QED
      BY <1>3, <1>6, <3>1
  <2>2. joined[i] = s[i]
    BY <1>2, <2>1
  <2>3. \A j \in 1 .. m + n : j < i => j \in 1..m /\ joined[j] = s[j]
    BY <1>2, <2>1
  <2> QED
    BY <1>4, <1>5, <2>1, <2>2, <2>3
<1>7. NewColumnsFirst(joined, schema)
  BY <1>2, <1>6 DEF NewColumnsFirst
<1> QED
  BY <1>7 DEF joined, tail

\* The start is in order whatever the file holds: each table comes before the
\* indexes and the columns on it, and the pinned column before its index.
LEMMA StartOrdered ==
    ASSUME NEW have
    PROVE  Ordered(StartUp, have) /\ NewColumnsFirst(StartUp, have)
<1>1. /\ Len(StartUp) = 14
      /\ \A i \in 1..8 : StartUp[i] = Create(Script[i])
      /\ StartUp[9] = ReadColumns("marks") /\ StartUp[10] = Create(PinnedIndex)
      /\ StartUp[11] = ReadColumns("accounts") /\ StartUp[12] = ReadColumns("fees")
      /\ StartUp[13] = Commit /\ StartUp[14] = FindDemo
  <2> DEFINE a == CreateSchema
             b == Migrate
             c == <<FindDemo>>
             ab == a \o b
  <2>1. /\ a \in Seq(Schematic) /\ Len(a) = 8
        /\ \A i \in 1..8 : a[i] = Create(Script[i])
    <3>1. DOMAIN Script = 1..8 /\ \A i \in 1..8 : Script[i] \in FullSchema
      BY DEF Script, FullSchema
    <3> QED
      BY <3>1 DEF CreateSchema, Schematic
  <2>2. /\ b \in Seq(Schematic) /\ Len(b) = 5
        /\ b[1] = ReadColumns("marks") /\ b[2] = Create(PinnedIndex)
        /\ b[3] = ReadColumns("accounts") /\ b[4] = ReadColumns("fees") /\ b[5] = Commit
    BY DEF Migrate, Schematic, FullSchema, Groups
  <2>3. c \in Seq(Schematic) /\ Len(c) = 1 /\ c[1] = FindDemo
    BY DEF Schematic
  <2>4. StartUp = ab \o c
    BY DEF StartUp
  <2> HIDE DEF a, b, c
  <2>5. /\ ab \in Seq(Schematic) /\ Len(ab) = 13
        /\ \A i \in 1..13 : ab[i] = IF i <= 8 THEN a[i] ELSE b[i - 8]
    <3>1. /\ ab \in Seq(Schematic) /\ Len(ab) = Len(a) + Len(b)
          /\ \A i \in 1 .. Len(a) + Len(b) : ab[i] = IF i <= Len(a) THEN a[i] ELSE b[i - Len(a)]
      BY <2>1, <2>2, ConcatProperties
    <3> HIDE DEF ab
    <3> QED
      BY <2>1, <2>2, <3>1
  <2> HIDE DEF ab
  <2>6. /\ Len(StartUp) = 14
        /\ \A i \in 1..14 : StartUp[i] = IF i <= 13 THEN ab[i] ELSE c[i - 13]
    <3>1. /\ Len(StartUp) = Len(ab) + Len(c)
          /\ \A i \in 1 .. Len(ab) + Len(c) :
                StartUp[i] = IF i <= Len(ab) THEN ab[i] ELSE c[i - Len(ab)]
      BY <2>3, <2>4, <2>5, ConcatProperties
    <3> QED
      BY <2>3, <2>5, <3>1
  <2>7. \A i \in 1..8 : StartUp[i] = a[i]
    BY <2>5, <2>6
  <2>8. /\ StartUp[9] = b[1] /\ StartUp[10] = b[2] /\ StartUp[11] = b[3]
        /\ StartUp[12] = b[4] /\ StartUp[13] = b[5] /\ StartUp[14] = c[1]
    BY <2>5, <2>6
  <2> QED
    BY <2>1, <2>2, <2>3, <2>6, <2>7, <2>8
<1>2. /\ Script[1] = "users" /\ Script[2] = "donations" /\ Script[3] = "idx_donations_user"
      /\ Script[4] = "idx_donations_address" /\ Script[5] = "claims" /\ Script[6] = "sessions"
      /\ Script[7] = "idx_sessions_token" /\ Script[8] = "fee_settlements"
  BY DEF Script
<1>3. /\ Needs("users") = {} /\ Needs("donations") = {} /\ Needs("claims") = {}
      /\ Needs("sessions") = {} /\ Needs("fee_settlements") = {}
      /\ Needs("idx_donations_user") = {"donations"}
      /\ Needs("idx_donations_address") = {"donations"}
      /\ Needs("idx_sessions_token") = {"sessions"}
      /\ Needs(PinnedIndex) = {"donations.pinned"}
  BY DEF Needs, PinnedIndex, DonationColumns, UserColumns
<1>4. \A o : NeedsOf(Create(o)) = Needs(o) /\ Promised(Create(o)) = {o}
  BY Ops DEF NeedsOf, Promised
<1>5. /\ NeedsOf(ReadColumns("marks")) = {"donations"}
      /\ NeedsOf(ReadColumns("fees")) = {"donations"}
      /\ NeedsOf(ReadColumns("accounts")) = {"users"}
      /\ NeedsOf(Commit) = {} /\ NeedsOf(FindDemo) = {}
  BY Ops DEF NeedsOf
<1>6. "donations.pinned" \in Promised(ReadColumns("marks"))
  BY Ops DEF Promised, GroupColumns
<1>7. /\ "users" \in Promised(StartUp[1])
      /\ "donations" \in Promised(StartUp[2])
      /\ "sessions" \in Promised(StartUp[6])
      /\ "donations.pinned" \in Promised(StartUp[9])
  BY <1>1, <1>2, <1>4, <1>6
<1>8. /\ NeedsOf(StartUp[1]) = {} /\ NeedsOf(StartUp[2]) = {}
      /\ NeedsOf(StartUp[3]) = {"donations"} /\ NeedsOf(StartUp[4]) = {"donations"}
      /\ NeedsOf(StartUp[5]) = {} /\ NeedsOf(StartUp[6]) = {}
      /\ NeedsOf(StartUp[7]) = {"sessions"} /\ NeedsOf(StartUp[8]) = {}
      /\ NeedsOf(StartUp[9]) = {"donations"} /\ NeedsOf(StartUp[10]) = {"donations.pinned"}
      /\ NeedsOf(StartUp[11]) = {"users"} /\ NeedsOf(StartUp[12]) = {"donations"}
      /\ NeedsOf(StartUp[13]) = {} /\ NeedsOf(StartUp[14]) = {}
  <2>1. /\ NeedsOf(StartUp[1]) = Needs("users") /\ NeedsOf(StartUp[2]) = Needs("donations")
        /\ NeedsOf(StartUp[3]) = Needs("idx_donations_user")
        /\ NeedsOf(StartUp[4]) = Needs("idx_donations_address")
        /\ NeedsOf(StartUp[5]) = Needs("claims") /\ NeedsOf(StartUp[6]) = Needs("sessions")
        /\ NeedsOf(StartUp[7]) = Needs("idx_sessions_token")
        /\ NeedsOf(StartUp[8]) = Needs("fee_settlements")
    BY <1>1, <1>2, <1>4
  <2>2. NeedsOf(StartUp[10]) = Needs(PinnedIndex)
    BY <1>1, <1>4
  <2> QED
    BY <1>1, <1>3, <1>5, <2>1, <2>2
<1>9. ASSUME NEW i \in 1..14, NEW object \in NeedsOf(StartUp[i])
      PROVE  \E j \in 1..14 : j < i /\ object \in Promised(StartUp[j])
  <2>1. \/ i \in {3, 4, 9, 12} /\ object = "donations"
        \/ i = 7 /\ object = "sessions"
        \/ i = 10 /\ object = "donations.pinned"
        \/ i = 11 /\ object = "users"
    <3>1. \/ i = 1 \/ i = 2 \/ i = 3 \/ i = 4 \/ i = 5 \/ i = 6 \/ i = 7
          \/ i = 8 \/ i = 9 \/ i = 10 \/ i = 11 \/ i = 12 \/ i = 13 \/ i = 14
      OBVIOUS
    <3> QED
      BY <1>8, <1>9, <3>1
  <2>2. 2 \in 1..14 /\ 6 \in 1..14 /\ 9 \in 1..14 /\ 1 \in 1..14
    OBVIOUS
  <2> QED
    BY <1>7, <2>1, <2>2
<1>10. \A i \in 1..14 : StartUp[i].op # "add_column"
  <2>1. \A i \in 1..14 : \/ i \in 1..8
                         \/ i = 9 \/ i = 10 \/ i = 11 \/ i = 12 \/ i = 13 \/ i = 14
    OBVIOUS
  <2> QED
    BY <1>1, <2>1, Ops
<1> QED
  BY <1>1, <1>9, <1>10 DEF Ordered, NewColumnsFirst

-----------------------------------------------------------------------------
(* Every step keeps the starts prepared. *)

\* What a process does changes nothing for a start that is alone, for it is
\* not alone then.
LEMMA OthersPrepared ==
    ASSUME StartsHeld, NEW p \in Procs, OnlyMoves(p),
           schema \subseteq schema',
           \A q \in Procs \ {p} : company[q] => company'[q],
           \A q \in Procs \ {p} : mode[q] = "starting" => company'[q],
           Prepared(p)'
    PROVE  StartsHeld'
<1>1. ASSUME NEW q \in Procs, q # p PROVE Prepared(q)'
  <2>1. /\ todo'[q] = todo[q] /\ mode'[q] = mode[q]
        /\ company[q] => company'[q]
        /\ mode[q] = "starting" => company'[q]
    BY <1>1 DEF OnlyMoves
  <2>2. Prepared(q)
    BY DEF StartsHeld
  <2>3. Migrating(q)' => Migrating(q) /\ company'[q]
    BY <2>1 DEF Migrating
  <2>4. Migrating(q)' => Ordered(todo[q], schema')
    BY <2>2, <2>3, OrderedGrows DEF Prepared
  <2>5. Migrating(q)' => Ordered(todo[q], schema)'
    BY <2>1, <2>4 DEF Ordered
  <2>6. Seeding(q, 0, 1)' => company'[q]
    BY <2>1 DEF Seeding
  <2> QED
    BY <2>1, <2>2, <2>3, <2>5, <2>6 DEF Prepared
<1> QED
  BY <1>1 DEF StartsHeld

\* A process that is not up holds nothing, so alone nothing is refused.
LEMMA AloneUnhindered ==
    ASSUME Core, StartsHeld, NEW p \in Procs, mode[p] = "starting", ~ company[p]
    PROVE  ~ Blocked(p)
<1>1. \A q \in Procs \ {p} : lock[q] = "none"
  <2> SUFFICES ASSUME NEW q \in Procs \ {p} PROVE lock[q] = "none"
    OBVIOUS
  <2>1. ~ Up(q)
    BY DEF StartsHeld, Prepared
  <2>2. ~ inTxn[q] /\ ~ Migrating(q)
    BY <2>1 DEF Core, LocksHeld, Orderly, Migrating, Up
  <2> QED
    BY <2>2 DEF Core, LocksHeld, Orderly
<1>2. CanRead(p) /\ CanWrite(p) /\ Alone(p)
  BY <1>1 DEF CanRead, CanWrite, Alone, Others
<1> QED
  BY <1>2 DEF Blocked

\* Alone a start finds what the next statement on the schema needs, and no
\* column it is about to add.
LEMMA AloneDefines ==
    ASSUME Core, StartsHeld, NEW p \in Procs, mode[p] = "starting", ~ company[p]
    PROVE  ~ DefineFails(p)
<1> SUFFICES ASSUME DefineFails(p) PROVE FALSE
  OBVIOUS
<1>1. /\ todo[p] # <<>> /\ Now(p).op \in {"create", "add_column"}
      /\ \/ Now(p).op = "add_column" /\ Now(p).object \in schema
         \/ ~ Needs(Now(p).object) \subseteq schema
  BY DEF DefineFails, ChangesSchema, At
<1>2. Migrating(p)
  BY <1>1, HeadPlaces DEF Core
<1>3. Ordered(todo[p], schema) /\ NewColumnsFirst(todo[p], schema)
  BY <1>2 DEF StartsHeld, Prepared
<1>4. /\ Now(p) = todo[p][1] /\ Len(todo[p]) \in Nat /\ Len(todo[p]) # 0
  <2>1. todo[p] \in Seq(Schematic)
    BY <1>2 DEF Migrating
  <2> QED
    BY <1>1, <2>1, HeadTailProperties, LenProperties, EmptySeq DEF Now
<1>5. 1 \in 1..Len(todo[p]) /\ \A j \in 1..Len(todo[p]) : ~ (j < 1)
  BY <1>4
<1>6. NeedsOf(Now(p)) \subseteq schema
  BY <1>3, <1>4, <1>5 DEF Ordered
<1>7. NeedsOf(Now(p)) = Needs(Now(p).object)
  BY <1>1 DEF NeedsOf
<1>8. Now(p).op = "add_column" => Now(p).object \notin schema
  BY <1>3, <1>4, <1>5 DEF NewColumnsFirst
<1> QED
  BY <1>1, <1>6, <1>7, <1>8

\* Alone a start creates the demo user only when it is not there.
LEMMA AloneInserts ==
    ASSUME Core, SeedersHeld, StartsHeld, NEW p \in Procs, mode[p] = "starting", ~ company[p]
    PROVE  ~ WriteDuplicate(p)
<1> SUFFICES ASSUME WriteDuplicate(p) PROVE FALSE
  OBVIOUS
<1>1. /\ todo[p] # <<>> /\ Now(p).op = "insert"
      /\ Now(p).row \in Users /\ rows[Now(p).row] + dirty[p][Now(p).row] > 0
  BY DEF WriteDuplicate, At, Taken, Present
<1>2. PICK i \in 0..4 : Seeding(p, i, 1) /\ Now(p).row = SeedRow(i)
  BY <1>1, HeadPlaces DEF Core, SigningUp
<1>3. i = 0
  <2>1. i = 0 \/ i \in 1..4
    OBVIOUS
  <2> QED
    BY <1>1, <1>2, <2>1, SeedRows
<1>4. Now(p).row = SeedRow(0) /\ SeedRow(0) = UserRow(Demo) /\ SeedRow(0) \in Rows
  <2>1. 0 \in 0..4
    OBVIOUS
  <2> QED
    BY <1>2, <1>3, <2>1, SeedRows
<1>5. rows[UserRow(Demo)] = 0
  BY <1>2, <1>3 DEF StartsHeld, Prepared
<1>6. dirty[p][SeedRow(0)] = 0
  <2>1. 1 \in 1..3 /\ 1 # 2
    OBVIOUS
  <2> QED
    BY <1>2, <1>4, <2>1 DEF SeedersHeld
<1> QED
  BY <1>1, <1>4, <1>5, <1>6

\* A statement that raises leaves no start behind, unless as failed.
LEMMA RaisePrepared ==
    ASSUME Core, StartsHeld, NEW p \in Procs, NEW txn, NEW held, Raise(p, txn, held),
           mode[p] = "starting" => company[p]
    PROVE  Prepared(p)'
<1>1. CASE mode[p] = "starting"
  <2>1. mode'[p] = "failed" /\ company'[p]
    BY <1>1 DEF Raise, Exit, Core, TypeOK
  <2> QED
    BY <2>1 DEF Prepared, Migrating, Seeding
<1>2. CASE mode[p] # "starting"
  <2>1. mode'[p] = "serving"
    BY <1>2 DEF Raise
  <2> QED
    BY <2>1 DEF Prepared, Migrating, Seeding
<1> QED
  BY <1>1, <1>2

\* A process that goes on is alone as long as the others stay as they were.
LEMMA GoesOnPrepared ==
    ASSUME Core, StartsHeld, NEW p \in Procs, NEW rest, Continue(p, rest), todo[p] # <<>>,
           Migrating(p)' => /\ Ordered(todo'[p], schema')
                            /\ ~ company[p] => NewColumnsFirst(todo'[p], schema'),
           Seeding(p, 0, 1)' /\ ~ company[p] => rows'[UserRow(Demo)] = 0
    PROVE  Prepared(p)'
<1>1. \A q \in Procs \ {p} : mode'[q] = mode[q]
  BY DEF Continue, Core, TypeOK
<1>2. mode'[p] = "serving" \/ (mode'[p] = mode[p] /\ company'[p] = company[p])
  BY DEF Continue, Core, TypeOK
<1>3. mode[p] # "failed"
  BY DEF Core, Placed, SigningUp, Seeding, Migrating
<1>4. CASE mode'[p] = "serving"
  BY <1>4 DEF Prepared, Migrating, Seeding
<1>5. CASE mode'[p] = mode[p] /\ company'[p] = company[p]
  <2>1. mode[p] = "starting" /\ ~ company[p] => \A q \in Procs \ {p} : ~ Up(q)
    BY DEF StartsHeld, Prepared
  <2>2. mode'[p] = "starting" /\ ~ company'[p] => \A q \in Procs \ {p} : ~ Up(q)'
    BY <1>1, <1>5, <2>1 DEF Up
  <2>3. Migrating(p)' => /\ Ordered(todo[p], schema)'
                         /\ ~ company'[p] => NewColumnsFirst(todo[p], schema)'
    BY <1>5 DEF Ordered, NewColumnsFirst
  <2> QED
    BY <1>3, <1>5, <2>2, <2>3 DEF Prepared
<1> QED
  BY <1>2, <1>4, <1>5

\* A start begins in order.
LEMMA BeginPrepared ==
    ASSUME Core, StartsHeld, NEW p \in Procs, Start(p)
    PROVE  Prepared(p)'
<1>1. /\ mode'[p] = "starting" /\ todo'[p] = StartUp /\ schema' = schema
      /\ \A q \in Procs \ {p} : mode'[q] = mode[q]
      /\ company'[p] <=> \E other \in Others(p) : Up(other)
  BY DEF Start, Core, TypeOK
<1>2. ~ company'[p] => \A q \in Procs \ {p} : ~ Up(q)'
  BY <1>1 DEF Others, Up
<1>3. Ordered(todo[p], schema)' /\ NewColumnsFirst(todo[p], schema)'
  <2>1. Ordered(StartUp, schema') /\ NewColumnsFirst(StartUp, schema')
    BY StartOrdered
  <2> QED
    BY <1>1, <2>1 DEF Ordered, NewColumnsFirst
<1>4. ~ Seeding(p, 0, 1)'
  <2>1. StartUp \in Seq(Schematic) /\ 0 \in 0..4 /\ 1 \in 1..3
    BY StartMigrating
  <2> QED
    BY <1>1, <2>1, SeedDistinct DEF Seeding
<1> QED
  BY <1>1, <1>2, <1>3, <1>4 DEF Prepared

\* The look for the demo user begins the seed only when the user is not there.
LEMMA CheckSeedPrepared ==
    ASSUME Core, StartsHeld, NEW p \in Procs, CheckSeed(p)
    PROVE  Prepared(p)'
<1>1. /\ todo[p] # <<>> /\ rows' = rows
      /\ Continue(p, IF Present(p, UserRow(Demo)) THEN <<>> ELSE SeedDemo)
  BY DEF CheckSeed, At
<1>2. \/ Present(p, UserRow(Demo)) /\ todo'[p] = <<>> /\ mode'[p] = "serving"
      \/ ~ Present(p, UserRow(Demo)) /\ Seeding(p, 0, 1)'
  BY CheckSeedPlaces DEF Core
<1>3. ~ Migrating(p)'
  <2>1. 0 \in 0..4 /\ 1 \in 1..3
    OBVIOUS
  <2> QED
    BY <1>2, <2>1, SeedDistinct DEF Seeding, Migrating
<1>4. Seeding(p, 0, 1)' => rows'[UserRow(Demo)] = 0
  <2>1. Seeding(p, 0, 1)' => ~ Present(p, UserRow(Demo))
    BY <1>2 DEF Seeding
  <2>2. rows[UserRow(Demo)] \in Nat /\ dirty[p][UserRow(Demo)] \in Nat
    BY SlugRows DEF Core, TypeOK
  <2> QED
    BY <1>1, <2>1, <2>2 DEF Present
<1> QED
  BY <1>1, <1>3, <1>4, GoesOnPrepared

\* The columns that a list lacks go ahead of the rest.
LEMMA TableInfoPrepared ==
    ASSUME Core, StartsHeld, NEW p \in Procs, TableInfo(p)
    PROVE  Prepared(p)'
<1> DEFINE list  == todo[p]
           group == Now(p).group
           s     == Alters(group)
<1>1. /\ list # <<>> /\ Now(p) = Head(list) /\ Now(p).op = "read_columns"
      /\ schema' = schema /\ Continue(p, s \o Tail(list))
  BY DEF TableInfo, At, Now
<1>2. /\ Migrating(p) /\ group \in Groups
      /\ todo'[p] = s \o Tail(list)
  BY TableInfoPlaces DEF Core, TypeOK
<1>3. list \in Seq(Schematic) /\ Head(list) = ReadColumns(group)
  <2>1. list \in Seq(Schematic) /\ Head(list) \in Schematic
    BY <1>1, <1>2, PlaceHeads DEF Migrating
  <2> QED
    BY <1>1, <2>1, Ops DEF Schematic, Additions
<1>4. Fresh(s, GroupColumns(group))
  BY <1>2, AltersFresh
<1>5. /\ s \in Seq(Additions)
      /\ Promised(Head(list)) \subseteq schema \cup Promises(s)
  <2>1. Promised(ReadColumns(group)) = GroupColumns(group)
    BY Ops DEF Promised
  <2> QED
    BY <1>2, <1>3, <2>1, AltersPromise
<1>6. Ordered(list, schema)
  BY <1>2 DEF StartsHeld, Prepared
<1>7. NeedsOf(Head(list)) \subseteq schema
  <2>1. Head(list) = list[1] /\ Len(list) \in Nat /\ Len(list) # 0
    BY <1>1, <1>3, HeadTailProperties, LenProperties, EmptySeq
  <2>2. 1 \in 1..Len(list) /\ \A j \in 1..Len(list) : ~ (j < 1)
    BY <2>1
  <2> QED
    BY <1>6, <2>1, <2>2 DEF Ordered
<1>8. \A i \in 1..Len(s) : NeedsOf(s[i]) \subseteq schema
  <2> SUFFICES ASSUME NEW i \in 1..Len(s) PROVE NeedsOf(s[i]) \subseteq schema
    OBVIOUS
  <2>1. s[i] \in Additions /\ s[i].object \in GroupColumns(group)
    BY <1>4, <1>5, ElementOfSeq DEF Fresh
  <2>2. s[i] = AddColumn(s[i].object)
    BY <2>1, Ops DEF Additions
  <2>3. NeedsOf(AddColumn(s[i].object)) = NeedsOf(ReadColumns(group))
    BY <1>2, <2>1, GroupNeeds
  <2> HIDE DEF s
  <2> QED
    BY <1>3, <1>7, <2>2, <2>3
<1> HIDE DEF s
<1>9. Ordered(s \o Tail(list), schema)
  BY <1>1, <1>3, <1>5, <1>6, <1>8, OrderedAlters
<1>10. ~ company[p] => NewColumnsFirst(s \o Tail(list), schema)
  <2>1. ~ company[p] => NewColumnsFirst(list, schema)
    BY <1>2 DEF StartsHeld, Prepared
  <2>2. Head(list).op # "add_column"
    BY <1>1
  <2> QED
    BY <1>1, <1>3, <1>4, <2>1, <2>2, NewColumnsAlters
<1>11. ~ Seeding(p, 0, 1)'
  <2>1. Migrating(p)'
    BY TableInfoPlaces DEF Core
  <2>2. 0 \in 0..4 /\ 1 \in 1..3
    OBVIOUS
  <2> QED
    BY <2>1, <2>2, SeedDistinct DEF Seeding, Migrating
<1> QED
  BY <1>1, <1>2, <1>9, <1>10, <1>11, GoesOnPrepared

\* A step that takes a statement off the list, having put there what the
\* statement promised.
LEMMA TakenOffPrepared ==
    ASSUME Core, StartsHeld, NEW p \in Procs, todo[p] # <<>>, Now(p).op # "find_demo",
           Continue(p, Tail(todo[p])),
           schema \cup Promised(Now(p)) \subseteq schema',
           Now(p).op = "add_column" => schema' \subseteq schema \cup {Now(p).object}
    PROVE  Prepared(p)'
<1>1. ASSUME Migrating(p)
      PROVE  /\ Ordered(todo'[p], schema')
             /\ ~ company[p] => NewColumnsFirst(todo'[p], schema')
  <2>1. todo[p] \in Seq(Schematic) /\ todo'[p] = Tail(todo[p]) /\ Now(p) = Head(todo[p])
    BY <1>1 DEF Migrating, Continue, Core, TypeOK, Now
  <2>2. Ordered(todo[p], schema) /\ (~ company[p] => NewColumnsFirst(todo[p], schema))
    BY <1>1 DEF StartsHeld, Prepared
  <2>3. Ordered(Tail(todo[p]), schema')
    BY <2>1, <2>2, OrderedTail
  <2>4. ~ company[p] => NewColumnsFirst(Tail(todo[p]), schema')
    BY <2>1, <2>2, NewColumnsTail
  <2> QED
    BY <2>1, <2>3, <2>4
<1>2. ASSUME ~ Migrating(p)
      PROVE  ~ Migrating(p)' /\ ~ Seeding(p, 0, 1)'
  <2>1. /\ \A s \in Slugs, k \in 1..5 : SigningUp(p, s, k) => SigningUp(p, s, k + 1)'
        /\ \A i \in 0..4, f \in 1..2 : Seeding(p, i, f) => Seeding(p, i, f + 1)'
        /\ \A i \in 0..3 : Seeding(p, i, 3) => Seeding(p, i + 1, 1)'
        /\ (\/ todo[p] = Page /\ mode[p] = "serving"
            \/ \E s \in Slugs : SigningUp(p, s, 6)
            \/ Seeding(p, 4, 3))
             => todo'[p] = <<>> /\ mode'[p] = "serving"
    BY Advance DEF Core
  <2>2. \A k \in 1..6 : k \in 1..5 \/ k = 6
    OBVIOUS
  <2>3. \A i \in 0..4, f \in 1..3 :
           \/ f \in 1..2 /\ f + 1 \in 1..3 /\ f + 1 # 1
           \/ f = 3 /\ i \in 0..3 /\ i + 1 \in 0..4 /\ i + 1 # 0
           \/ f = 3 /\ i = 4
    OBVIOUS
  <2>4. 1 \in 1..3 /\ 0 \in 0..4
    OBVIOUS
  <2>5. \/ mode'[p] = "serving"
        \/ \E j \in 0..4, g \in 1..3 : Seeding(p, j, g)' /\ ~ (j = 0 /\ g = 1)
    <3>1. CASE todo[p] = Page /\ mode[p] = "serving"
      BY <2>1, <3>1
    <3>2. CASE \E s \in Slugs, k \in 1..6 : SigningUp(p, s, k)
      BY <2>1, <2>2, <3>2 DEF SigningUp
    <3>3. ASSUME NEW i \in 0..4, NEW f \in 1..3, Seeding(p, i, f)
          PROVE  \/ mode'[p] = "serving"
                 \/ \E j \in 0..4, g \in 1..3 : Seeding(p, j, g)' /\ ~ (j = 0 /\ g = 1)
      <4>1. CASE f \in 1..2 /\ f + 1 \in 1..3 /\ f + 1 # 1
        BY <2>1, <3>3, <4>1
      <4>2. CASE f = 3 /\ i \in 0..3 /\ i + 1 \in 0..4 /\ i + 1 # 0
        BY <2>1, <2>4, <3>3, <4>2
      <4>3. CASE f = 3 /\ i = 4
        BY <2>1, <3>3, <4>3
      <4> QED
        BY <2>3, <4>1, <4>2, <4>3
    <3> QED
      BY <1>2, <3>1, <3>2, <3>3 DEF Core, Placed
  <2> QED
    BY <2>4, <2>5, SeedDistinct DEF Seeding, Migrating
<1>3. ASSUME Migrating(p) PROVE ~ Seeding(p, 0, 1)'
  <2>1. Migrating(p)'
    BY <1>3, Advance DEF Core
  <2>2. 0 \in 0..4 /\ 1 \in 1..3
    OBVIOUS
  <2> QED
    BY <2>1, <2>2, SeedDistinct DEF Seeding, Migrating
<1> QED
  BY <1>1, <1>2, <1>3, GoesOnPrepared

LEMMA StepPrepared ==
    ASSUME Core, SeedersHeld, StartsHeld, NEW p \in Procs, Step(p)
    PROVE  Prepared(p)' /\ schema \subseteq schema'
<1>1. CASE CheckSeed(p)
  BY <1>1, CheckSeedPrepared DEF CheckSeed
<1>2. CASE TableInfo(p)
  BY <1>2, TableInfoPrepared DEF TableInfo
<1>3. CASE Read(p) \/ Write(p) \/ Publish(p) \/ Answer(p)
  <2>1. /\ todo[p] # <<>> /\ Now(p).op \in {"select", "insert", "commit", "welcome"}
        /\ Continue(p, Tail(todo[p])) /\ schema' = schema
    BY <1>3 DEF Read, Write, Publish, Answer, At
  <2>2. Promised(Now(p)) = {}
    BY <2>1 DEF Promised
  <2> QED
    BY <2>1, <2>2, TakenOffPrepared
<1>4. CASE PassOver(p)
  <2>1. /\ todo[p] # <<>> /\ Now(p).op = "create" /\ Now(p).object \in schema
        /\ Continue(p, Tail(todo[p])) /\ schema' = schema
    BY <1>4 DEF PassOver, At
  <2>2. Promised(Now(p)) = {Now(p).object}
    BY <2>1 DEF Promised
  <2> QED
    BY <2>1, <2>2, TakenOffPrepared
<1>5. CASE Define(p)
  <2>1. /\ todo[p] # <<>> /\ Now(p).op \in {"create", "add_column"}
        /\ Continue(p, Tail(todo[p]))
        /\ schema' = schema \cup {Now(p).object}
                       \cup (IF Now(p).op = "create" THEN ColumnsOf(Now(p).object) ELSE {})
    BY <1>5 DEF Define, ChangesSchema, At
  <2>2. Promised(Now(p)) = {Now(p).object}
    BY <2>1 DEF Promised
  <2> QED
    BY <2>1, <2>2, TakenOffPrepared
<1>6. CASE DefineFails(p) \/ WriteDuplicate(p) \/ Locked(p)
  <2>1. mode[p] = "starting" => company[p]
    BY <1>6, AloneDefines, AloneInserts, AloneUnhindered DEF Locked
  <2>2. \E txn, held : Raise(p, txn, held)
    BY <1>6 DEF DefineFails, WriteDuplicate, Locked
  <2>3. schema' = schema
    BY <2>2 DEF Raise, Exit
  <2> QED
    BY <2>1, <2>2, <2>3, RaisePrepared
<1>7. CASE AwaitReaders(p)
  <2>1. /\ schema' = schema /\ rows' = rows /\ mode' = mode /\ todo' = todo
        /\ company' = company
    BY <1>7 DEF AwaitReaders
  <2>2. Prepared(p)' <=> Prepared(p)
    BY <2>1 DEF Prepared, Up, Migrating, Seeding, Ordered, NewColumnsFirst
  <2> QED
    BY <2>1, <2>2 DEF StartsHeld
<1> QED
  BY <1>1, <1>2, <1>3, <1>4, <1>5, <1>6, <1>7 DEF Step

LEMMA NextStarts ==
    Core /\ SeedersHeld /\ StartsHeld /\ [Next]_vars => StartsHeld'
<1> SUFFICES ASSUME Core, SeedersHeld, StartsHeld, [Next]_vars PROVE StartsHeld'
  OBVIOUS
<1>1. CASE UNCHANGED vars
  <2>1. \A p \in Procs : Prepared(p)' <=> Prepared(p)
    BY <1>1 DEF vars, Prepared, Up, Migrating, Seeding, Ordered, NewColumnsFirst
  <2> QED
    BY <2>1 DEF StartsHeld
<1>2. ASSUME NEW p \in Procs, Start(p) PROVE StartsHeld'
  <2>1. Prepared(p)' /\ OnlyMoves(p)
    BY <1>2, BeginPrepared, BeginLocks DEF Core
  <2>2. /\ schema' = schema
        /\ \A q \in Procs \ {p} : company'[q] = (company[q] \/ mode[q] = "starting")
    BY <1>2 DEF Start
  <2> QED
    BY <2>1, <2>2, OthersPrepared
<1>3. ASSUME NEW p \in Procs, Up(p), OnlyMoves(p), schema \subseteq schema',
             \A q \in Procs \ {p} : company'[q] = company[q], Prepared(p)'
      PROVE  StartsHeld'
  <2>1. \A q \in Procs \ {p} : mode[q] = "starting" => company[q]
    BY <1>3 DEF StartsHeld, Prepared
  <2> QED
    BY <1>3, <2>1, OthersPrepared
<1>4. ASSUME NEW p \in Procs, Request(p) PROVE StartsHeld'
  <2>1. /\ mode[p] = "serving" /\ mode' = mode /\ schema' = schema /\ company' = company
        /\ OnlyMoves(p)
    BY <1>4, BeginLocks DEF Request, Core
  <2>2. Prepared(p)'
    BY <2>1 DEF Prepared, Migrating, Seeding
  <2> QED
    BY <1>3, <2>1, <2>2 DEF Up
<1>5. ASSUME NEW p \in Procs, Crash(p) PROVE StartsHeld'
  <2>1. /\ Up(p) /\ mode'[p] = "down" /\ schema' = schema /\ OnlyMoves(p)
        /\ \A q \in Procs \ {p} : company'[q] = company[q]
    BY <1>5, ExitLocks DEF Crash, Exit, Core, TypeOK
  <2>2. Prepared(p)'
    BY <2>1 DEF Prepared, Migrating, Seeding
  <2> QED
    BY <1>3, <2>1, <2>2
<1>6. ASSUME NEW p \in Procs, Step(p) PROVE StartsHeld'
  <2>1. Prepared(p)' /\ schema \subseteq schema' /\ OnlyMoves(p)
    BY <1>6, StepPrepared, StepLocks DEF Core
  <2>2. todo[p] # <<>>
    BY <1>6 DEF Step, Read, CheckSeed, TableInfo, PassOver, Define, DefineFails, Write,
       WriteDuplicate, Publish, AwaitReaders, Locked, Blocked, Reads, ChangesSchema, Answer, At
  <2>3. Up(p)
    BY <2>2 DEF Core, SchemaPromised
  <2>4. \A q \in Procs \ {p} : company'[q] = company[q]
    BY <1>6 DEF Step, Read, CheckSeed, TableInfo, PassOver, Define, DefineFails, Write,
       WriteDuplicate, Publish, AwaitReaders, Locked, Answer, Continue, Raise, Exit, Core, TypeOK
  <2> QED
    BY <1>3, <2>1, <2>3, <2>4
<1> QED
  BY <1>1, <1>2, <1>4, <1>5, <1>6 DEF Next

\* A start that fails does so because another process was up: alone, every
\* start gets through, whatever file it finds and whatever an earlier start
\* left behind (Database.__init__, _migrate, seed_demo).
THEOREM StartsFailInCompany == Spec => []FailsOnlyInCompany
<1>1. Init => StartsHeld
  BY DEF Init, StartsHeld, Prepared, Migrating, Seeding
<1>2. StartsHeld => FailsOnlyInCompany
  BY DEF StartsHeld, Prepared, FailsOnlyInCompany
<1>3. RowsInv => Core /\ SeedersHeld
  BY DEF RowsInv
<1> QED
  BY <1>1, <1>2, <1>3, NextStarts, RowsInvariant, PTL DEF Spec
===============================================================================
