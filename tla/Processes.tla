------------------------------ MODULE Processes ------------------------------
(***************************************************************************)
(* Server processes that share one SQLite file, statement by statement:    *)
(* the start of each (Database.__init__ with the schema script and         *)
(* _migrate, then seed_demo) and the requests it serves afterwards.        *)
(*                                                                         *)
(* A process holds one connection.  Its handlers do not await between      *)
(* statements, so a process works off one program at a time; processes     *)
(* interleave between any two statements, and one may die at any of them.  *)
(* SQLite itself (rollback journal, the locks of a file, the implicit      *)
(* BEGIN of Python's sqlite3, the busy timeout) is external and modelled   *)
(* as the code uses it.                                                    *)
(***************************************************************************)
EXTENDS Naturals, Sequences

CONSTANTS
    Procs,       \* the server processes (workers) that open the file
    Slugs,       \* the slugs visitors sign up with
    Demo,        \* DEMO_SLUG of seed.py, which Slugs may contain
    OldSchemas   \* what a database file may hold before the first start

-----------------------------------------------------------------------------
(* The schema: tables, indexes, and the columns that came after the first  *)
(* release, each under the name "table.column".                            *)

Script == <<"users", "donations", "idx_donations_user", "idx_donations_address",
            "claims", "sessions", "idx_sessions_token", "fee_settlements">>

UserColumns == {"users.btc_xpub", "users.next_btc_index", "users.fee_override",
                "users.fee_balance_sats"}

DonationColumns == {"donations.pinned", "donations.read_at",
                    "donations.platform_fee_sats", "donations.fee_percent_at_creation",
                    "donations.donor_user_id"}

ColumnsOf(table) == CASE table = "users"     -> UserColumns
                      [] table = "donations" -> DonationColumns
                      [] OTHER               -> {}

PinnedIndex == "idx_donations_pinned"

FullSchema == {Script[i] : i \in DOMAIN Script} \cup UserColumns \cup DonationColumns
                \cup {PinnedIndex}

(* What must be there before an object can be created.                     *)
Needs(object) ==
    CASE object \in {"idx_donations_user", "idx_donations_address"} -> {"donations"}
      [] object = PinnedIndex                                      -> {"donations.pinned"}
      [] object = "idx_sessions_token"                             -> {"sessions"}
      [] object \in DonationColumns                                -> {"donations"}
      [] object \in UserColumns                                    -> {"users"}
      [] OTHER                                                     -> {}

ASSUME OldSchemasAssumption ==
    \A old \in OldSchemas : /\ old \subseteq FullSchema
                            /\ \A object \in old : Needs(object) \subseteq old

-----------------------------------------------------------------------------
(* The rows.  A table is the number of copies of each of its rows, for     *)
(* only users.slug is UNIQUE.                                              *)

DemoDonations == <<"first", "second", "third", "fourth">>

UserRow(slug)    == <<"users", slug>>
SessionRow(slug) == <<"sessions", slug>>
DemoRow(name)    == <<"donations", name>>

Users == {UserRow(slug) : slug \in Slugs \cup {Demo}}

Rows == Users \cup {SessionRow(slug) : slug \in Slugs}
              \cup {DemoRow(DemoDonations[i]) : i \in DOMAIN DemoDonations}

NoRows == [row \in Rows |-> 0]

-----------------------------------------------------------------------------
(* Statements, and the programs the code runs.                             *)

Select         == [op |-> "select"]
FindDemo       == [op |-> "find_demo"]
Commit         == [op |-> "commit"]
Create(o)      == [op |-> "create", object |-> o]
AddColumn(c)   == [op |-> "add_column", object |-> c]
Insert(r)      == [op |-> "insert", row |-> r]
Welcome(slug)  == [op |-> "welcome", slug |-> slug]

(* PRAGMA table_info, before the columns of one group of _migrate.         *)
ReadColumns(group) == [op |-> "read_columns", group |-> group]

Groups == {"marks", "accounts", "fees"}

Statements ==
    {Select, FindDemo, Commit}
      \cup {ReadColumns(group) : group \in Groups}
      \cup {Create(o) : o \in FullSchema}
      \cup {AddColumn(c) : c \in UserColumns \cup DonationColumns}
      \cup {Insert(r) : r \in Rows}
      \cup {Welcome(slug) : slug \in Slugs}

CreateSchema == [i \in DOMAIN Script |-> Create(Script[i])]

(* Mutant: the index comes before the columns it names.                    *)
MigrateIndexFirst == <<Create(PinnedIndex), ReadColumns("marks"), ReadColumns("accounts"),
                       ReadColumns("fees"), Commit>>

(* Mutant: the columns of the user accounts are forgotten.                 *)
MigrateNoAccounts == <<ReadColumns("marks"), Create(PinnedIndex), ReadColumns("fees"), Commit>>

(* Mutant: the index has another name than in a new file.                  *)
MigrateOtherIndex == <<ReadColumns("marks"), Create("idx_donations_pin"),
                       ReadColumns("accounts"), ReadColumns("fees"), Commit>>

Migrate == <<ReadColumns("marks"), Create(PinnedIndex), ReadColumns("accounts"),
             ReadColumns("fees"), Commit>>

(* Mutant: the commit is forgotten.                                        *)
CreatingUncommitted(row) == <<Insert(row), Select>>

(* create_user and create_donation: insert, commit, and read the row back. *)
Creating(row) == <<Insert(row), Commit, Select>>

(* Mutant: a donation is created twice.                                    *)
SeedDonationsTwice == Creating(DemoRow("first")) \o Creating(DemoRow("second"))
                        \o Creating(DemoRow("third")) \o Creating(DemoRow("third"))
                        \o Creating(DemoRow("fourth"))

SeedDonations == Creating(DemoRow("first")) \o Creating(DemoRow("second"))
                   \o Creating(DemoRow("third")) \o Creating(DemoRow("fourth"))

SeedDemo == Creating(UserRow(Demo)) \o SeedDonations

StartUp == CreateSchema \o Migrate \o <<FindDemo>>

(* Mutant: the session is inserted before the account.                     *)
SignupSessionFirst(slug) == <<Insert(SessionRow(slug)), Commit>>
                              \o Creating(UserRow(slug)) \o <<Welcome(slug)>>

(* Mutant: the session is never committed.                                 *)
SignupUncommitted(slug) == Creating(UserRow(slug))
                             \o <<Insert(SessionRow(slug)), Welcome(slug)>>

Signup(slug) == Creating(UserRow(slug))
                  \o <<Insert(SessionRow(slug)), Commit, Welcome(slug)>>

Page == <<Select>>

Programs == {Page} \cup {Signup(slug) : slug \in Slugs}

-----------------------------------------------------------------------------
VARIABLES
    schema,    \* the tables, indexes and added columns in the file
    rows,      \* the committed rows
    mode,      \* of a process: "down", "starting", "serving", or "failed"
               \* when its start raised
    todo,      \* the statements it has still to execute
    inTxn,     \* whether its connection is inside a transaction
    lock,      \* the lock its connection holds on the file
    dirty,     \* the rows of its open transaction
    welcomed,  \* history: slugs whose signup was answered with a session
    failed,    \* history: a statement failed in the transaction now open
    company,   \* history: another process was up during its start
    demoCut    \* history: a process went down between the demo user and
               \* the last of the demo donations

file    == <<schema, rows>>
session == <<inTxn, lock, dirty>>
vars    == <<schema, rows, mode, todo, inTxn, lock, dirty,
             welcomed, failed, company, demoCut>>

Modes == {"down", "starting", "serving", "failed"}
Locks == {"none", "shared", "reserved", "pending"}

(* Type invariant.                                                         *)
TypeOK ==
    /\ schema \subseteq FullSchema
    /\ rows \in [Rows -> Nat]
    /\ mode \in [Procs -> Modes]
    /\ todo \in [Procs -> Seq(Statements)]
    /\ inTxn \in [Procs -> BOOLEAN]
    /\ lock \in [Procs -> Locks]
    /\ dirty \in [Procs -> [Rows -> Nat]]
    /\ welcomed \subseteq Slugs
    /\ failed \in [Procs -> BOOLEAN]
    /\ company \in [Procs -> BOOLEAN]
    /\ demoCut \in BOOLEAN

Init ==
    /\ schema \in OldSchemas
    /\ rows = NoRows
    /\ mode = [p \in Procs |-> "down"]
    /\ todo = [p \in Procs |-> <<>>]
    /\ inTxn = [p \in Procs |-> FALSE]
    /\ lock = [p \in Procs |-> "none"]
    /\ dirty = [p \in Procs |-> NoRows]
    /\ welcomed = {}
    /\ failed = [p \in Procs |-> FALSE]
    /\ company = [p \in Procs |-> FALSE]
    /\ demoCut = FALSE

-----------------------------------------------------------------------------
(* SQLite's file locks, as one connection meets those of the others.       *)

Others(p) == Procs \ {p}

(* SHARED is refused only while another connection waits to commit.        *)
CanRead(p) == lock[p] # "none" \/ \A q \in Others(p) : lock[q] # "pending"

(* RESERVED: one writer at a time.                                         *)
CanWrite(p) == \/ lock[p] \in {"reserved", "pending"}
               \/ \A q \in Others(p) : lock[q] \notin {"reserved", "pending"}

(* EXCLUSIVE, to write the file itself: no other connection may read.      *)
Alone(p) == \A q \in Others(p) : lock[q] = "none"

WriteLock(p) == IF lock[p] = "pending" THEN "pending" ELSE "reserved"

Present(p, row) == rows[row] + dirty[p][row] > 0

-----------------------------------------------------------------------------
Now(p)   == Head(todo[p])
At(p, o) == todo[p] # <<>> /\ Now(p).op = o

Up(p) == mode[p] \in {"starting", "serving"}

(* Go on with what is left; a start that has nothing left is serving.      *)
Continue(p, rest) ==
    /\ todo' = [todo EXCEPT ![p] = rest]
    /\ mode' = IF rest = <<>> THEN [mode EXCEPT ![p] = "serving"] ELSE mode
    /\ company' = IF rest = <<>> THEN [company EXCEPT ![p] = FALSE] ELSE company

SeedsDonations(p) ==
    /\ rows[UserRow(Demo)] > 0
    /\ \/ dirty[p][DemoRow("fourth")] > 0
       \/ \E i \in DOMAIN todo[p] : todo[p][i] = Insert(DemoRow("fourth"))
    /\ \A i \in DOMAIN todo[p] : todo[p][i] # Insert(UserRow(Demo))

(* The process is gone: its locks and its open transaction go with it.     *)
Exit(p, how) ==
    /\ mode' = [mode EXCEPT ![p] = how]
    /\ todo' = [todo EXCEPT ![p] = <<>>]
    /\ inTxn' = [inTxn EXCEPT ![p] = FALSE]
    /\ lock' = [lock EXCEPT ![p] = "none"]
    /\ dirty' = [dirty EXCEPT ![p] = NoRows]
    /\ failed' = [failed EXCEPT ![p] = FALSE]
    /\ company' = [company EXCEPT ![p] = @ /\ how = "failed"]
    /\ demoCut' = (demoCut \/ SeedsDonations(p))
    /\ UNCHANGED <<schema, rows, welcomed>>

(* A statement raised.  While starting nothing catches it and the process  *)
(* ends; a request is answered with an error, and the connection stays as  *)
(* the statement left it, for nothing rolls back.                          *)
Raise(p, txn, held) ==
    \/ /\ mode[p] = "starting"
       /\ Exit(p, "failed")
    \/ /\ mode[p] = "serving"
       /\ todo' = [todo EXCEPT ![p] = <<>>]
       /\ inTxn' = [inTxn EXCEPT ![p] = txn]
       /\ lock' = [lock EXCEPT ![p] = held]
       /\ failed' = [failed EXCEPT ![p] = txn]
       /\ UNCHANGED <<schema, rows, mode, dirty, welcomed, company, demoCut>>

-----------------------------------------------------------------------------
(* A process is started: by hand, by its supervisor, after a crash.        *)
Start(p) ==
    /\ ~ Up(p)
    /\ mode' = [mode EXCEPT ![p] = "starting"]
    /\ todo' = [todo EXCEPT ![p] = StartUp]
    /\ company' = [q \in Procs |->
                     IF q = p THEN \E other \in Others(p) : Up(other)
                     ELSE company[q] \/ mode[q] = "starting"]
    /\ UNCHANGED <<schema, rows, inTxn, lock, dirty, welcomed, failed, demoCut>>

Request(p) ==
    /\ mode[p] = "serving"
    /\ todo[p] = <<>>
    /\ \E program \in Programs : todo' = [todo EXCEPT ![p] = program]
    /\ UNCHANGED <<schema, rows, mode, inTxn, lock, dirty,
                   welcomed, failed, company, demoCut>>

Crash(p) == Up(p) /\ Exit(p, "down")

-----------------------------------------------------------------------------
(* Statements that only read.  Inside an open transaction the SHARED lock  *)
(* stays with the connection.                                              *)

HeldByReading(p) ==
    lock' = IF inTxn[p] /\ lock[p] = "none" THEN [lock EXCEPT ![p] = "shared"] ELSE lock

Read(p) ==
    /\ At(p, "select")
    /\ CanRead(p)
    /\ HeldByReading(p)
    /\ Continue(p, Tail(todo[p]))
    /\ UNCHANGED <<schema, rows, inTxn, dirty, welcomed, failed, demoCut>>

(* seed_demo: nothing to do when the demo user is there.                   *)
CheckSeed(p) ==
    /\ At(p, "find_demo")
    /\ CanRead(p)
    /\ HeldByReading(p)
    /\ Continue(p, IF Present(p, UserRow(Demo)) THEN <<>> ELSE SeedDemo)
    /\ UNCHANGED <<schema, rows, inTxn, dirty, welcomed, failed, demoCut>>

(* _migrate: the columns that the list lacks are added, in this order.     *)
Alter(column) == IF column \in schema THEN <<>> ELSE <<AddColumn(column)>>

Alters(group) ==
    CASE group = "marks" ->
           Alter("donations.pinned") \o Alter("donations.read_at")
      [] group = "accounts" ->
           Alter("users.btc_xpub") \o Alter("users.next_btc_index")
             \o Alter("users.fee_override") \o Alter("users.fee_balance_sats")
      [] group = "fees" ->
           Alter("donations.platform_fee_sats")
             \o Alter("donations.fee_percent_at_creation")
             \o Alter("donations.donor_user_id")

TableInfo(p) ==
    /\ At(p, "read_columns")
    /\ CanRead(p)
    /\ HeldByReading(p)
    /\ Continue(p, Alters(Now(p).group) \o Tail(todo[p]))
    /\ UNCHANGED <<schema, rows, inTxn, dirty, welcomed, failed, demoCut>>

-----------------------------------------------------------------------------
(* Schema changes: each commits by itself and leaves nothing when it fails. *)

(* CREATE ... IF NOT EXISTS of what exists reads the schema, no more.       *)
PassOver(p) ==
    /\ At(p, "create")
    /\ Now(p).object \in schema
    /\ CanRead(p)
    /\ Continue(p, Tail(todo[p]))
    /\ UNCHANGED <<schema, rows, inTxn, lock, dirty, welcomed, failed, demoCut>>

ChangesSchema(p) ==
    (At(p, "create") \/ At(p, "add_column")) /\ Now(p).object \notin schema

(* A new table has all its columns.                                        *)
Define(p) ==
    /\ ChangesSchema(p)
    /\ Needs(Now(p).object) \subseteq schema
    /\ Alone(p)
    /\ schema' = schema \cup {Now(p).object}
                        \cup (IF At(p, "create") THEN ColumnsOf(Now(p).object) ELSE {})
    /\ lock' = [lock EXCEPT ![p] = "none"]
    /\ Continue(p, Tail(todo[p]))
    /\ UNCHANGED <<rows, inTxn, dirty, welcomed, failed, demoCut>>

(* "duplicate column name" when another process added it after the column  *)
(* list was read; "no such column" or "no such table" under an index.      *)
DefineFails(p) ==
    /\ \/ At(p, "add_column") /\ Now(p).object \in schema
       \/ ChangesSchema(p) /\ ~ Needs(Now(p).object) \subseteq schema
    /\ CanRead(p)
    /\ Raise(p, inTxn[p], lock[p])

-----------------------------------------------------------------------------
(* INSERT: Python opens the transaction before it, whatever becomes of it. *)

Taken(p) == Now(p).row \in Users /\ Present(p, Now(p).row)

Write(p) ==
    /\ At(p, "insert")
    /\ CanWrite(p)
    /\ ~ Taken(p)
    /\ dirty' = [dirty EXCEPT ![p][Now(p).row] = @ + 1]
    /\ inTxn' = [inTxn EXCEPT ![p] = TRUE]
    /\ lock' = [lock EXCEPT ![p] = WriteLock(p)]
    /\ Continue(p, Tail(todo[p]))
    /\ UNCHANGED <<schema, rows, welcomed, failed, demoCut>>

(* IntegrityError: create_user turns it into DuplicateError and leaves the *)
(* transaction open, with the write lock the INSERT had taken.             *)
WriteDuplicate(p) ==
    /\ At(p, "insert")
    /\ CanWrite(p)
    /\ Taken(p)
    /\ Raise(p, TRUE, WriteLock(p))

(* COMMIT without changes, or outside a transaction, needs nothing.        *)
Publish(p) ==
    /\ At(p, "commit")
    /\ lock[p] \in {"reserved", "pending"} => Alone(p)
    /\ rows' = [row \in Rows |-> rows[row] + dirty[p][row]]
    /\ dirty' = [dirty EXCEPT ![p] = NoRows]
    /\ inTxn' = [inTxn EXCEPT ![p] = FALSE]
    /\ lock' = [lock EXCEPT ![p] = "none"]
    /\ failed' = [failed EXCEPT ![p] = FALSE]
    /\ Continue(p, Tail(todo[p]))
    /\ UNCHANGED <<schema, welcomed, demoCut>>

(* A commit or a schema change that meets readers waits for them with the  *)
(* PENDING lock, which keeps new ones out.                                 *)
AwaitReaders(p) ==
    /\ \/ At(p, "commit") /\ lock[p] = "reserved"
       \/ ChangesSchema(p) /\ Needs(Now(p).object) \subseteq schema
            /\ lock[p] # "pending" /\ CanWrite(p)
    /\ ~ Alone(p)
    /\ lock' = [lock EXCEPT ![p] = "pending"]
    /\ UNCHANGED <<schema, rows, mode, todo, inTxn, dirty,
                   welcomed, failed, company, demoCut>>

(* "database is locked" after the busy timeout.  An INSERT has opened its  *)
(* transaction by then; a COMMIT keeps the lock, the transaction and the   *)
(* rows in it.                                                             *)
Reads(p) == todo[p] # <<>> /\ Now(p).op \notin {"insert", "commit", "welcome"}

(* Mutant: an INSERT waits without a timeout.                              *)
BlockedForGood(p) ==
    \/ Reads(p) /\ ~ CanRead(p)
    \/ ChangesSchema(p) /\ (~ CanWrite(p) \/ (lock[p] = "pending" /\ ~ Alone(p)))
    \/ At(p, "commit") /\ lock[p] = "pending" /\ ~ Alone(p)

Blocked(p) ==
    \/ Reads(p) /\ ~ CanRead(p)
    \/ At(p, "insert") /\ ~ CanWrite(p)
    \/ ChangesSchema(p) /\ (~ CanWrite(p) \/ (lock[p] = "pending" /\ ~ Alone(p)))
    \/ At(p, "commit") /\ lock[p] = "pending" /\ ~ Alone(p)

Locked(p) ==
    /\ Blocked(p)
    /\ Raise(p, inTxn[p] \/ At(p, "insert"), lock[p])

-----------------------------------------------------------------------------
(* The answer to a signup that ran to its end: the redirect with the cookie. *)
Answer(p) ==
    /\ At(p, "welcome")
    /\ welcomed' = welcomed \cup {Now(p).slug}
    /\ Continue(p, Tail(todo[p]))
    /\ UNCHANGED <<schema, rows, inTxn, lock, dirty, failed, demoCut>>

Step(p) ==
    \/ Read(p)
    \/ CheckSeed(p)
    \/ TableInfo(p)
    \/ PassOver(p)
    \/ Define(p)
    \/ DefineFails(p)
    \/ Write(p)
    \/ WriteDuplicate(p)
    \/ Publish(p)
    \/ AwaitReaders(p)
    \/ Locked(p)
    \/ Answer(p)

Next == \E p \in Procs : Start(p) \/ Request(p) \/ Crash(p) \/ Step(p)

(* A process that has statements to execute executes them: the busy        *)
(* timeout of sqlite3.connect (five seconds by default) bounds each.       *)
Spec == Init /\ [][Next]_vars /\ \A p \in Procs : WF_vars(Step(p))

-----------------------------------------------------------------------------
(* Properties.                                                             *)

(* A process that serves finds every table, index and column its queries   *)
(* name, whatever the file was when it started and whoever else was        *)
(* migrating it or died while doing so.                                    *)
ServesFullSchema == \A p \in Procs : mode[p] = "serving" => FullSchema \subseteq schema

(* What is committed makes sense at any moment, thus after any crash: one  *)
(* account per slug whoever raced for it, no session without its account,  *)
(* the demo donations in order, once each, and only beside their user.     *)
RowsInOrder ==
    /\ \A user \in Users : rows[user] <= 1
    /\ \A slug \in Slugs : rows[SessionRow(slug)] <= rows[UserRow(slug)]
    /\ rows[DemoRow("first")] <= rows[UserRow(Demo)]
    /\ \A i \in 2..Len(DemoDonations) :
          rows[DemoRow(DemoDonations[i])] <= rows[DemoRow(DemoDonations[i - 1])]

(* "Create the demo user + a handful of donations, if not present": once   *)
(* the demo user is there and nobody is adding its donations, all four are *)
(* there, unless the process that was adding them went down on the way:    *)
(* the guard looks at the user only, so then they are never completed.     *)
DemoComplete ==
    (/\ rows[UserRow(Demo)] > 0
     /\ ~ demoCut
     /\ \A p \in Procs : ~ SeedsDonations(p))
      => \A i \in DOMAIN DemoDonations : rows[DemoRow(DemoDonations[i])] = 1

(* A start that fails does so because another process was up: alone, every *)
(* start gets through whatever an earlier one left behind.                 *)
FailsOnlyInCompany == \A p \in Procs : mode[p] = "failed" => company[p]

(* A visitor who was sent off with a session cookie has an account and a   *)
(* session in the file, through every later crash.                         *)
AcknowledgedIsDurable ==
    \A slug \in welcomed : rows[UserRow(slug)] = 1 /\ rows[SessionRow(slug)] = 1

(* Between requests a connection holds no lock and has no transaction open *)
(* unless a statement failed in it: only an error path leaves one process  *)
(* in the way of the others.                                               *)
IdleIsUnlocked ==
    \A p \in Procs :
        (todo[p] = <<>> /\ ~ failed[p])
          => lock[p] = "none" /\ ~ inTxn[p] /\ dirty[p] = NoRows

(* Every start and every request comes to an end: processes that wait for  *)
(* each other's locks give up, nobody waits forever.                       *)
EveryProgramEnds == \A p \in Procs : todo[p] # <<>> ~> todo[p] = <<>>
=============================================================================
