--------------------------- MODULE Processes_proofs ---------------------------
(***************************************************************************)
(* Theorems about Processes, for any number of processes, any visitors and *)
(* any old database file: who serves finds the full schema; the types; and *)
(* a connection between requests holds nothing unless a statement failed.  *)
(*                                                                         *)
(* The argument of the first: whatever a starting process still misses, a  *)
(* statement ahead of it creates, or reads a column list in order to       *)
(* create it.  A step takes a statement off the list only once its objects *)
(* are there, whoever put them there; nothing is ever dropped; so a list   *)
(* that is worked off leaves nothing missing.                              *)
(*                                                                         *)
(* The argument of the others: a process runs only a handful of straight   *)
(* programs, so what is left of its list says where it stands in one of    *)
(* them.  At each such place one can say whether a transaction is open and *)
(* which lock may be held.  ProcessRows_proofs goes on from here to the    *)
(* rows in the file.                                                       *)
(***************************************************************************)
EXTENDS Processes, SequenceTheorems, TLAPS

GroupColumns(group) ==
    CASE group = "marks"    -> {"donations.pinned", "donations.read_at"}
      [] group = "accounts" -> {"users.btc_xpub", "users.next_btc_index",
                                "users.fee_override", "users.fee_balance_sats"}
      [] group = "fees"     -> {"donations.platform_fee_sats",
                                "donations.fee_percent_at_creation",
                                "donations.donor_user_id"}

(* What is in the schema once a statement has been executed.               *)
Promised(s) ==
    CASE s.op \in {"create", "add_column"} -> {s.object}
      [] s.op = "read_columns"             -> GroupColumns(s.group)
      [] OTHER                             -> {}

Promises(list) == UNION {Promised(list[i]) : i \in DOMAIN list}

(* Nothing is promised after the look for the demo user, which changes     *)
(* what comes next.                                                        *)
SeedsLast(list) ==
    \A i \in DOMAIN list, j \in DOMAIN list :
        (i < j /\ list[i].op = "find_demo") => Promised(list[j]) = {}

(* The inductive invariant.                                                *)
SchemaPromised ==
    /\ todo \in [Procs -> Seq(Statements)]
    /\ mode \in [Procs -> Modes]
    /\ \A p \in Procs : todo[p] # <<>> => Up(p)
    /\ \A p \in Procs :
          mode[p] = "starting" => /\ FullSchema \subseteq schema \cup Promises(todo[p])
                                  /\ SeedsLast(todo[p])
    /\ ServesFullSchema

(* Statements that change no schema and so promise nothing.                *)
Plain == {Select, Commit} \cup {Insert(r) : r \in Rows} \cup {Welcome(slug) : slug \in Slugs}

Additions == {AddColumn(c) : c \in UserColumns \cup DonationColumns}

-----------------------------------------------------------------------------
(* Lists of statements. *)

\* A list that is joined to another promises what both do.
LEMMA PromisesConcat ==
    ASSUME NEW s \in Seq(Statements), NEW t \in Seq(Statements)
    PROVE  Promises(s \o t) = Promises(s) \cup Promises(t)
<1>1. \A i \in DOMAIN s : i \in DOMAIN (s \o t) /\ (s \o t)[i] = s[i]
  OBVIOUS
<1>2. \A i \in DOMAIN t : Len(s) + i \in DOMAIN (s \o t) /\ (s \o t)[Len(s) + i] = t[i]
  OBVIOUS
<1>3. \A k \in DOMAIN (s \o t) :
         \/ k \in DOMAIN s
         \/ k - Len(s) \in DOMAIN t /\ k = Len(s) + (k - Len(s))
  OBVIOUS
<1>4. Promises(s \o t) \subseteq Promises(s) \cup Promises(t)
  BY <1>1, <1>2, <1>3 DEF Promises
<1>5. Promises(s) \subseteq Promises(s \o t)
  BY <1>1 DEF Promises
<1>6. Promises(t) \subseteq Promises(s \o t)
  BY <1>2 DEF Promises
<1> QED
  BY <1>4, <1>5, <1>6

\* What the first statement promises, the rest need not.
LEMMA PromisesTail ==
    ASSUME NEW s \in Seq(Statements), s # <<>>
    PROVE  /\ Head(s) \in Statements
           /\ Tail(s) \in Seq(Statements)
           /\ Promises(s) \subseteq Promised(Head(s)) \cup Promises(Tail(s))
<1>1. \A i \in DOMAIN s : i = 1 \/ (i - 1 \in DOMAIN Tail(s) /\ Tail(s)[i - 1] = s[i])
  OBVIOUS
<1>2. Head(s) = s[1]
  OBVIOUS
<1>3. Promises(s) \subseteq Promised(Head(s)) \cup Promises(Tail(s))
  BY <1>1, <1>2 DEF Promises
<1> QED
  BY <1>3

LEMMA PromisesNothing == Promises(<<>>) = {}
PROOF
  BY DEF Promises

\* The start promises the full schema and looks for the demo user last.
LEMMA StartPromises ==
    /\ StartUp \in Seq(Statements)
    /\ FullSchema \subseteq Promises(StartUp)
    /\ SeedsLast(StartUp)
<1>1. DOMAIN Script = 1..8 /\ \A i \in 1..8 : Script[i] \in FullSchema
  BY DEF Script, FullSchema
<1>2. CreateSchema \in Seq(Statements) /\ Len(CreateSchema) = 8
  BY <1>1 DEF CreateSchema, Statements
<1>3. Migrate \in Seq(Statements) /\ Len(Migrate) = 5
  BY DEF Migrate, Statements, Groups, FullSchema
<1>4. {Script[i] : i \in DOMAIN Script} \subseteq Promises(CreateSchema)
  <2>1. \A i \in 1..8 : Script[i] \in Promised(CreateSchema[i])
    BY <1>1 DEF CreateSchema, Create, Promised
  <2> QED
    BY <1>1, <2>1 DEF Promises, CreateSchema
<1>5. UserColumns \cup DonationColumns \cup {PinnedIndex} \subseteq Promises(Migrate)
  <2>1. /\ Migrate[1] = ReadColumns("marks") /\ Migrate[2] = Create(PinnedIndex)
        /\ Migrate[3] = ReadColumns("accounts") /\ Migrate[4] = ReadColumns("fees")
        /\ DOMAIN Migrate = 1..5
    BY DEF Migrate
  <2>2. /\ Promised(ReadColumns("marks")) = GroupColumns("marks")
        /\ Promised(ReadColumns("accounts")) = GroupColumns("accounts")
        /\ Promised(ReadColumns("fees")) = GroupColumns("fees")
        /\ Promised(Create(PinnedIndex)) = {PinnedIndex}
    BY DEF Promised, ReadColumns, Create
  <2>3. /\ Promised(Migrate[1]) \subseteq Promises(Migrate)
        /\ Promised(Migrate[2]) \subseteq Promises(Migrate)
        /\ Promised(Migrate[3]) \subseteq Promises(Migrate)
        /\ Promised(Migrate[4]) \subseteq Promises(Migrate)
    BY <2>1 DEF Promises
  <2>4. UserColumns = GroupColumns("accounts")
    BY DEF UserColumns, GroupColumns
  <2>5. DonationColumns = GroupColumns("marks") \cup GroupColumns("fees")
    BY DEF DonationColumns, GroupColumns
  <2> QED
    BY <2>1, <2>2, <2>3, <2>4, <2>5
<1> DEFINE both == CreateSchema \o Migrate
<1>6. <<FindDemo>> \in Seq(Statements) /\ Len(<<FindDemo>>) = 1
  BY DEF Statements
<1>7. /\ both \in Seq(Statements) /\ Len(both) = 13
      /\ \A i \in 1..13 : both[i] = IF i <= 8 THEN CreateSchema[i] ELSE Migrate[i - 8]
  <2>1. /\ both \in Seq(Statements)
        /\ Len(both) = Len(CreateSchema) + Len(Migrate)
        /\ \A i \in 1 .. Len(CreateSchema) + Len(Migrate) :
              both[i] = IF i <= Len(CreateSchema) THEN CreateSchema[i]
                        ELSE Migrate[i - Len(CreateSchema)]
    BY <1>2, <1>3, ConcatProperties
  <2> HIDE DEF both
  <2> QED
    BY <1>2, <1>3, <2>1
<1>10. StartUp = both \o <<FindDemo>>
  BY DEF StartUp
<1>11. Promises(both) = Promises(CreateSchema) \cup Promises(Migrate)
  BY <1>2, <1>3, PromisesConcat
<1> HIDE DEF both
<1>12. /\ StartUp \in Seq(Statements) /\ Len(StartUp) = 14
       /\ \A i \in 1..13 : StartUp[i] = both[i]
  <2>1. /\ StartUp \in Seq(Statements)
        /\ Len(StartUp) = Len(both) + Len(<<FindDemo>>)
        /\ \A i \in 1 .. Len(both) + Len(<<FindDemo>>) :
              StartUp[i] = IF i <= Len(both) THEN both[i] ELSE <<FindDemo>>[i - Len(both)]
    BY <1>6, <1>7, <1>10, ConcatProperties
  <2> QED
    BY <1>6, <1>7, <2>1
<1>8. FullSchema \subseteq Promises(StartUp)
  <2>1. Promises(StartUp) = Promises(both) \cup Promises(<<FindDemo>>)
    BY <1>6, <1>7, <1>10, PromisesConcat
  <2> QED
    BY <1>4, <1>5, <1>11, <2>1 DEF FullSchema
<1>9. \A i \in 1..13 : StartUp[i].op # "find_demo"
  <2>1. \A i \in 1..8 : CreateSchema[i].op = "create"
    BY <1>1 DEF CreateSchema, Create
  <2>2. \A i \in 1..5 : Migrate[i].op # "find_demo"
    BY DEF Migrate, Create, ReadColumns, Commit
  <2> QED
    BY <2>1, <2>2, <1>7, <1>12
<1> QED
  BY <1>8, <1>9, <1>12 DEF SeedsLast

\* Lists of plain statements promise nothing, in any order.
LEMMA PlainLists ==
    ASSUME NEW s \in Seq(Plain)
    PROVE  s \in Seq(Statements) /\ SeedsLast(s)
<1>1. Plain \subseteq Statements
  BY DEF Plain, Statements
<1>2. \A x \in Plain : Promised(x) = {}
  BY DEF Plain, Promised, Select, Commit, Insert, Welcome
<1>3. s \in Seq(Statements)
  BY <1>1
<1>4. \A i \in DOMAIN s : s[i] \in Plain
  OBVIOUS
<1> QED
  BY <1>2, <1>3, <1>4 DEF SeedsLast

\* What a request or the seed runs is plain.
LEMMA CreatingPlain ==
    ASSUME NEW row \in Rows
    PROVE  Creating(row) \in Seq(Plain)
<1>1. Insert(row) \in Plain /\ Commit \in Plain /\ Select \in Plain
  BY DEF Plain
<1> QED
  BY <1>1 DEF Creating

LEMMA SeedPlain == SeedDemo \in Seq(Plain)
<1>1. /\ DemoRow("first") \in Rows /\ DemoRow("second") \in Rows
      /\ DemoRow("third") \in Rows /\ DemoRow("fourth") \in Rows
  <2>1. DOMAIN DemoDonations = 1..4
    BY DEF DemoDonations
  <2>2. /\ DemoDonations[1] = "first" /\ DemoDonations[2] = "second"
        /\ DemoDonations[3] = "third" /\ DemoDonations[4] = "fourth"
    BY DEF DemoDonations
  <2>3. \A i \in 1..4 : DemoRow(DemoDonations[i]) \in Rows
    BY <2>1 DEF Rows
  <2> QED
    BY <2>2, <2>3
<1>2. UserRow(Demo) \in Rows
  BY DEF Rows, Users
<1> DEFINE a == Creating(DemoRow("first"))
           b == Creating(DemoRow("second"))
           c == Creating(DemoRow("third"))
           d == Creating(DemoRow("fourth"))
           u == Creating(UserRow(Demo))
<1>3. a \in Seq(Plain) /\ b \in Seq(Plain) /\ c \in Seq(Plain) /\ d \in Seq(Plain)
        /\ u \in Seq(Plain)
  BY <1>1, <1>2, CreatingPlain
<1>4. SeedDemo = u \o (a \o b \o c \o d)
  BY DEF SeedDemo, SeedDonations
<1> HIDE DEF a, b, c, d, u
<1> QED
  BY <1>3, <1>4, ConcatProperties

LEMMA ProgramsPlain == ASSUME NEW program \in Programs PROVE program \in Seq(Plain)
<1>1. CASE program = Page
  BY <1>1 DEF Page, Plain
<1>2. ASSUME NEW slug \in Slugs, program = Signup(slug)
      PROVE  program \in Seq(Plain)
  <2>1. UserRow(slug) \in Rows /\ SessionRow(slug) \in Rows
    BY DEF Rows, Users
  <2>2. Creating(UserRow(slug)) \in Seq(Plain)
    BY <2>1, CreatingPlain
  <2>3. <<Insert(SessionRow(slug)), Commit, Welcome(slug)>> \in Seq(Plain)
    BY <2>1 DEF Plain
  <2> QED
    BY <1>2, <2>2, <2>3, ConcatProperties DEF Signup
<1> QED
  BY <1>1, <1>2 DEF Programs

\* What _migrate adds for a group of columns is what the file lacks of it.
LEMMA AltersPromise ==
    ASSUME NEW group \in Groups
    PROVE  /\ Alters(group) \in Seq(Additions)
           /\ GroupColumns(group) \subseteq schema \cup Promises(Alters(group))
<1>1. Additions \subseteq Statements
  BY DEF Additions, Statements
<1>2. ASSUME NEW c \in UserColumns \cup DonationColumns
      PROVE  Alter(c) \in Seq(Additions) /\ c \in schema \cup Promises(Alter(c))
  <2>1. AddColumn(c) \in Additions /\ c \in Promised(AddColumn(c))
    BY DEF Additions, Promised, AddColumn
  <2>2. <<AddColumn(c)>> \in Seq(Additions)
    BY <2>1
  <2>3. c \in Promises(<<AddColumn(c)>>)
    BY <2>1 DEF Promises
  <2> QED
    BY <2>2, <2>3 DEF Alter
<1>3. ASSUME NEW s \in Seq(Additions), NEW t \in Seq(Additions)
      PROVE  /\ s \o t \in Seq(Additions)
             /\ Promises(s \o t) = Promises(s) \cup Promises(t)
  <2>1. s \in Seq(Statements) /\ t \in Seq(Statements)
    BY <1>1
  <2> QED
    BY <2>1, PromisesConcat, ConcatProperties
<1>4. CASE group = "marks"
  <2> DEFINE a == Alter("donations.pinned")
             b == Alter("donations.read_at")
  <2>1. /\ a \in Seq(Additions) /\ "donations.pinned" \in schema \cup Promises(a)
        /\ b \in Seq(Additions) /\ "donations.read_at" \in schema \cup Promises(b)
    BY <1>2 DEF DonationColumns
  <2>2. Alters(group) = a \o b
    BY <1>4 DEF Alters
  <2>3. GroupColumns(group) = {"donations.pinned", "donations.read_at"}
    BY <1>4 DEF GroupColumns
  <2> HIDE DEF a, b
  <2> QED
    BY <1>3, <2>1, <2>2, <2>3
<1>5. CASE group = "accounts"
  <2> DEFINE a == Alter("users.btc_xpub")
             b == Alter("users.next_btc_index")
             c == Alter("users.fee_override")
             d == Alter("users.fee_balance_sats")
  <2>1. /\ a \in Seq(Additions) /\ "users.btc_xpub" \in schema \cup Promises(a)
        /\ b \in Seq(Additions) /\ "users.next_btc_index" \in schema \cup Promises(b)
        /\ c \in Seq(Additions) /\ "users.fee_override" \in schema \cup Promises(c)
        /\ d \in Seq(Additions) /\ "users.fee_balance_sats" \in schema \cup Promises(d)
    BY <1>2 DEF UserColumns
  <2>2. Alters(group) = a \o b \o c \o d
    BY <1>5 DEF Alters
  <2>3. GroupColumns(group) = {"users.btc_xpub", "users.next_btc_index",
                               "users.fee_override", "users.fee_balance_sats"}
    BY <1>5 DEF GroupColumns
  <2> HIDE DEF a, b, c, d
  <2>4. /\ a \o b \in Seq(Additions)
        /\ Promises(a \o b) = Promises(a) \cup Promises(b)
    BY <1>3, <2>1
  <2> DEFINE ab == a \o b
  <2>5. ab \in Seq(Additions) /\ Promises(ab) = Promises(a) \cup Promises(b)
    BY <2>4
  <2>6. Alters(group) = ab \o c \o d
    BY <2>2
  <2> HIDE DEF ab
  <2> DEFINE abc == ab \o c
  <2>7. abc \in Seq(Additions) /\ Promises(abc) = Promises(ab) \cup Promises(c)
    BY <1>3, <2>1, <2>5
  <2>8. Alters(group) = abc \o d
    BY <2>6
  <2> HIDE DEF abc
  <2>9. /\ Alters(group) \in Seq(Additions)
        /\ Promises(Alters(group)) = Promises(abc) \cup Promises(d)
    BY <1>3, <2>1, <2>7, <2>8
  <2> QED
    BY <2>1, <2>3, <2>5, <2>7, <2>9
<1>6. CASE group = "fees"
  <2> DEFINE a == Alter("donations.platform_fee_sats")
             b == Alter("donations.fee_percent_at_creation")
             c == Alter("donations.donor_user_id")
  <2>1. /\ a \in Seq(Additions) /\ "donations.platform_fee_sats" \in schema \cup Promises(a)
        /\ b \in Seq(Additions)
        /\ "donations.fee_percent_at_creation" \in schema \cup Promises(b)
        /\ c \in Seq(Additions) /\ "donations.donor_user_id" \in schema \cup Promises(c)
    BY <1>2 DEF DonationColumns
  <2>2. Alters(group) = a \o b \o c
    BY <1>6 DEF Alters
  <2>3. GroupColumns(group) = {"donations.platform_fee_sats",
                               "donations.fee_percent_at_creation",
                               "donations.donor_user_id"}
    BY <1>6 DEF GroupColumns
  <2> HIDE DEF a, b, c
  <2>4. /\ a \o b \in Seq(Additions)
        /\ Promises(a \o b) = Promises(a) \cup Promises(b)
    BY <1>3, <2>1
  <2> DEFINE ab == a \o b
  <2>5. ab \in Seq(Additions) /\ Promises(ab) = Promises(a) \cup Promises(b)
    BY <2>4
  <2>6. Alters(group) = ab \o c
    BY <2>2
  <2> HIDE DEF ab
  <2>7. /\ Alters(group) \in Seq(Additions)
        /\ Promises(Alters(group)) = Promises(ab) \cup Promises(c)
    BY <1>3, <2>1, <2>5, <2>6
  <2> QED
    BY <2>1, <2>3, <2>5, <2>7
<1> QED
  BY <1>4, <1>5, <1>6 DEF Groups

-----------------------------------------------------------------------------
(* Steps. *)

\* A list without its first statement still seeds last.
LEMMA SeedsLastTail ==
    ASSUME NEW s \in Seq(Statements), s # <<>>, SeedsLast(s)
    PROVE  SeedsLast(Tail(s))
<1>1. \A i \in DOMAIN Tail(s) : i \in Nat /\ i + 1 \in DOMAIN s /\ Tail(s)[i] = s[i + 1]
  BY HeadTailProperties
<1>2. ASSUME NEW i \in DOMAIN Tail(s), NEW j \in DOMAIN Tail(s),
             i < j, Tail(s)[i].op = "find_demo"
      PROVE  Promised(Tail(s)[j]) = {}
  <2>1. /\ i + 1 \in DOMAIN s /\ j + 1 \in DOMAIN s /\ i + 1 < j + 1
        /\ s[i + 1].op = "find_demo" /\ Tail(s)[j] = s[j + 1]
    BY <1>1, <1>2
  <2> QED
    BY <2>1 DEF SeedsLast
<1> QED
  BY <1>2 DEF SeedsLast

\* What _migrate adds comes before the rest.
LEMMA SeedsLastAlters ==
    ASSUME NEW s \in Seq(Additions), NEW t \in Seq(Statements), SeedsLast(t)
    PROVE  s \o t \in Seq(Statements) /\ SeedsLast(s \o t)
<1>1. \A x \in Additions : x \in Statements /\ x.op # "find_demo"
  BY DEF Additions, AddColumn, Statements
<1>2. s \in Seq(Statements) /\ \A i \in DOMAIN s : s[i].op # "find_demo"
  BY <1>1
<1>3. /\ s \o t \in Seq(Statements)
      /\ Len(s \o t) = Len(s) + Len(t)
      /\ \A i \in 1 .. Len(s) + Len(t) : (s \o t)[i] = IF i <= Len(s) THEN s[i] ELSE t[i - Len(s)]
  BY <1>2, ConcatProperties
<1>4. /\ Len(s) \in Nat /\ Len(t) \in Nat
      /\ DOMAIN s = 1..Len(s) /\ DOMAIN t = 1..Len(t)
      /\ DOMAIN (s \o t) = 1..(Len(s) + Len(t))
  BY <1>2, <1>3, LenProperties
<1>5. ASSUME NEW i \in DOMAIN (s \o t), NEW j \in DOMAIN (s \o t),
             i < j, (s \o t)[i].op = "find_demo"
      PROVE  Promised((s \o t)[j]) = {}
  <2>1. i > Len(s) /\ j > Len(s)
    BY <1>2, <1>3, <1>4, <1>5
  <2>2. /\ i - Len(s) \in DOMAIN t /\ j - Len(s) \in DOMAIN t /\ i - Len(s) < j - Len(s)
        /\ (s \o t)[i] = t[i - Len(s)] /\ (s \o t)[j] = t[j - Len(s)]
    BY <1>3, <1>4, <1>5, <2>1
  <2> QED
    BY <1>5, <2>2 DEF SeedsLast
<1> QED
  BY <1>3, <1>5 DEF SeedsLast

\* Going on with a list that still promises what is missing.
LEMMA Onward ==
    ASSUME SchemaPromised, NEW p \in Procs, todo[p] # <<>>,
           NEW rest \in Seq(Statements), Continue(p, rest), schema \subseteq schema',
           mode[p] = "starting" => /\ FullSchema \subseteq schema' \cup Promises(rest)
                                   /\ SeedsLast(rest)
    PROVE  SchemaPromised'
<1> USE DEF SchemaPromised
<1>1. /\ todo' = [todo EXCEPT ![p] = rest]
      /\ mode' = IF rest = <<>> THEN [mode EXCEPT ![p] = "serving"] ELSE mode
  BY DEF Continue
<1>2. mode[p] \in {"starting", "serving"}
  BY DEF Up
<1>3. todo' \in [Procs -> Seq(Statements)] /\ mode' \in [Procs -> Modes]
  BY <1>1 DEF Modes
<1>4. \A q \in Procs : todo'[q] # <<>> => Up(q)'
  BY <1>1, <1>2 DEF Up
<1>5. ASSUME NEW q \in Procs, mode'[q] = "starting"
      PROVE  /\ FullSchema \subseteq schema' \cup Promises(todo'[q])
             /\ SeedsLast(todo'[q])
  <2>1. CASE q = p
    BY <1>1, <1>5, <2>1
  <2>2. CASE q # p
    <3>1. mode[q] = "starting" /\ todo'[q] = todo[q]
      BY <1>1, <1>5, <2>2
    <3> QED
      BY <3>1
  <2> QED
    BY <2>1, <2>2
<1>6. ASSUME NEW q \in Procs, mode'[q] = "serving"
      PROVE  FullSchema \subseteq schema'
  <2>1. CASE mode[q] = "serving"
    BY <2>1 DEF ServesFullSchema
  <2>2. CASE mode[q] # "serving"
    <3>1. q = p /\ rest = <<>>
      BY <1>1, <1>6, <2>2
    <3> QED
      BY <1>2, <2>2, <3>1, PromisesNothing
  <2> QED
    BY <2>1, <2>2
<1> QED
  BY <1>3, <1>4, <1>5, <1>6 DEF ServesFullSchema

\* A statement is taken off the list once its objects are there.
LEMMA TakenOff ==
    ASSUME SchemaPromised, NEW p \in Procs, todo[p] # <<>>,
           Continue(p, Tail(todo[p])), schema \subseteq schema',
           Promised(Now(p)) \subseteq schema'
    PROVE  SchemaPromised'
<1> DEFINE list == todo[p]
<1>1. list \in Seq(Statements) /\ list # <<>>
  BY DEF SchemaPromised
<1>2. /\ Tail(list) \in Seq(Statements)
      /\ Promises(list) \subseteq Promised(Now(p)) \cup Promises(Tail(list))
  BY <1>1, PromisesTail DEF Now
<1>3. mode[p] = "starting" => /\ FullSchema \subseteq schema \cup Promises(list)
                              /\ SeedsLast(Tail(list))
  BY <1>1, SeedsLastTail DEF SchemaPromised
<1>4. mode[p] = "starting" => FullSchema \subseteq schema' \cup Promises(Tail(list))
  BY <1>2, <1>3
<1> QED
  BY <1>1, <1>2, <1>3, <1>4, Onward

\* A process that dies, gives up its start or its request promises nothing and
\* takes nothing away.
LEMMA Dropped ==
    ASSUME SchemaPromised, NEW p \in Procs, schema' = schema,
           todo' = [todo EXCEPT ![p] = <<>>],
           \/ mode' = [mode EXCEPT ![p] = "down"]
           \/ mode' = [mode EXCEPT ![p] = "failed"]
           \/ mode[p] = "serving" /\ mode' = mode
    PROVE  SchemaPromised'
<1> USE DEF SchemaPromised
<1>1. todo' \in [Procs -> Seq(Statements)] /\ mode' \in [Procs -> Modes]
  BY DEF Modes
<1>2. \A q \in Procs : todo'[q] # <<>> => q # p /\ todo[q] # <<>>
  OBVIOUS
<1>3. \A q \in Procs : q # p => mode'[q] = mode[q] /\ todo'[q] = todo[q]
  OBVIOUS
<1>4. mode'[p] # "starting" /\ (mode'[p] = "serving" => mode[p] = "serving")
  OBVIOUS
<1>5. \A q \in Procs : todo'[q] # <<>> => Up(q)'
  BY <1>2, <1>3 DEF Up
<1>6. \A q \in Procs :
         mode'[q] = "starting" => /\ FullSchema \subseteq schema' \cup Promises(todo'[q])
                                  /\ SeedsLast(todo'[q])
  BY <1>3, <1>4
<1>7. ServesFullSchema'
  BY <1>3, <1>4 DEF ServesFullSchema
<1> QED
  BY <1>1, <1>5, <1>6, <1>7

\* A process that starts has everything ahead of it.
LEMMA StartSchema ==
    ASSUME SchemaPromised, NEW p \in Procs, Start(p)
    PROVE  SchemaPromised'
<1> USE DEF SchemaPromised
<1>1. /\ mode' = [mode EXCEPT ![p] = "starting"]
      /\ todo' = [todo EXCEPT ![p] = StartUp]
      /\ schema' = schema
  BY DEF Start
<1>2. todo' \in [Procs -> Seq(Statements)] /\ mode' \in [Procs -> Modes]
  BY <1>1, StartPromises DEF Modes
<1>3. \A q \in Procs : todo'[q] # <<>> => Up(q)'
  BY <1>1 DEF Up
<1>4. ASSUME NEW q \in Procs, mode'[q] = "starting"
      PROVE  /\ FullSchema \subseteq schema' \cup Promises(todo'[q])
             /\ SeedsLast(todo'[q])
  <2>1. CASE q = p
    BY <1>1, <2>1, StartPromises
  <2>2. CASE q # p
    BY <1>1, <1>4, <2>2
  <2> QED
    BY <2>1, <2>2
<1>5. ServesFullSchema'
  BY <1>1 DEF ServesFullSchema
<1> QED
  BY <1>2, <1>3, <1>4, <1>5

LEMMA RequestSchema ==
    ASSUME SchemaPromised, NEW p \in Procs, Request(p)
    PROVE  SchemaPromised'
<1> USE DEF SchemaPromised
<1> PICK program \in Programs : todo' = [todo EXCEPT ![p] = program]
  BY DEF Request
<1>1. mode[p] = "serving" /\ mode' = mode /\ schema' = schema
  BY DEF Request
<1>2. program \in Seq(Statements)
  BY ProgramsPlain, PlainLists
<1>3. todo' \in [Procs -> Seq(Statements)]
  BY <1>2
<1>4. \A q \in Procs : todo'[q] # <<>> => Up(q)'
  BY <1>1 DEF Up
<1>5. \A q \in Procs :
         mode'[q] = "starting" => /\ FullSchema \subseteq schema' \cup Promises(todo'[q])
                                  /\ SeedsLast(todo'[q])
  BY <1>1
<1>6. ServesFullSchema'
  BY <1>1 DEF ServesFullSchema
<1> QED
  BY <1>1, <1>3, <1>4, <1>5, <1>6

\* seed_demo comes when nothing is missing any more.
LEMMA CheckSeedSchema ==
    ASSUME SchemaPromised, NEW p \in Procs, CheckSeed(p)
    PROVE  SchemaPromised'
<1> DEFINE list == todo[p]
           rest == IF Present(p, UserRow(Demo)) THEN <<>> ELSE SeedDemo
<1>1. /\ list \in Seq(Statements) /\ list # <<>> /\ list[1].op = "find_demo"
      /\ Continue(p, rest) /\ schema' = schema
  BY DEF SchemaPromised, CheckSeed, At, Now
<1>2. <<>> \in Seq(Plain)
  OBVIOUS
<1>3. rest \in Seq(Statements) /\ SeedsLast(rest)
  BY <1>2, SeedPlain, PlainLists
<1>4. mode[p] = "starting" => Promises(list) = {}
  <2>1. ASSUME mode[p] = "starting", NEW j \in DOMAIN list
        PROVE  Promised(list[j]) = {}
    <3>1. 1 \in DOMAIN list /\ (j = 1 \/ 1 < j)
      BY <1>1
    <3>2. CASE j = 1
      BY <1>1, <3>2 DEF Promised
    <3>3. CASE 1 < j
      BY <1>1, <2>1, <3>1, <3>3 DEF SchemaPromised, SeedsLast
    <3> QED
      BY <3>1, <3>2, <3>3
  <2> QED
    BY <2>1 DEF Promises
<1>5. mode[p] = "starting" => FullSchema \subseteq schema' \cup Promises(rest)
  BY <1>1, <1>4 DEF SchemaPromised
<1> HIDE DEF rest
<1> QED
  BY <1>1, <1>3, <1>5, Onward

\* What the column list lacks is put ahead.
LEMMA TableInfoSchema ==
    ASSUME SchemaPromised, NEW p \in Procs, TableInfo(p)
    PROVE  SchemaPromised'
<1> DEFINE list  == todo[p]
           group == Now(p).group
           rest  == Alters(group) \o Tail(list)
<1>1. /\ list \in Seq(Statements) /\ list # <<>> /\ Now(p) = Head(list)
      /\ Now(p).op = "read_columns" /\ Continue(p, rest) /\ schema' = schema
  BY DEF SchemaPromised, TableInfo, At, Now
<1>2. /\ Now(p) \in Statements /\ Tail(list) \in Seq(Statements)
      /\ Promises(list) \subseteq Promised(Now(p)) \cup Promises(Tail(list))
  BY <1>1, PromisesTail
<1>3. group \in Groups /\ Promised(Now(p)) = GroupColumns(group)
  BY <1>1, <1>2 DEF Statements, Select, FindDemo, Commit, Create, AddColumn, Insert, Welcome,
      ReadColumns, Promised
<1>4. /\ Alters(group) \in Seq(Additions)
      /\ GroupColumns(group) \subseteq schema \cup Promises(Alters(group))
  BY <1>3, AltersPromise
<1>5. Alters(group) \in Seq(Statements)
  <2>1. Additions \subseteq Statements
    BY DEF Additions, Statements
  <2> QED
    BY <1>4, <2>1
<1>6. Promises(rest) = Promises(Alters(group)) \cup Promises(Tail(list))
  BY <1>2, <1>5, PromisesConcat
<1>7. mode[p] = "starting" => /\ FullSchema \subseteq schema \cup Promises(list)
                              /\ SeedsLast(Tail(list))
  BY <1>1, SeedsLastTail DEF SchemaPromised
<1>8. rest \in Seq(Statements)
  BY <1>2, <1>5, ConcatProperties
<1>9. mode[p] = "starting" => SeedsLast(rest)
  BY <1>2, <1>4, <1>7, SeedsLastAlters
<1> HIDE DEF rest, group
<1>10. mode[p] = "starting" => FullSchema \subseteq schema' \cup Promises(rest)
  BY <1>1, <1>2, <1>3, <1>4, <1>6, <1>7
<1> QED
  BY <1>1, <1>8, <1>9, <1>10, Onward

LEMMA StepSchema ==
    ASSUME SchemaPromised, NEW p \in Procs, Step(p)
    PROVE  SchemaPromised'
<1>1. CASE Read(p) \/ Write(p) \/ Publish(p) \/ Answer(p)
  <2>1. /\ todo[p] # <<>> /\ Continue(p, Tail(todo[p])) /\ schema' = schema
        /\ Now(p).op \in {"select", "insert", "commit", "welcome"}
    BY <1>1 DEF Read, Write, Publish, Answer, At
  <2>2. Promised(Now(p)) = {}
    BY <2>1 DEF Promised
  <2> QED
    BY <2>1, <2>2, TakenOff
<1>2. CASE PassOver(p) \/ Define(p)
  <2>1. /\ todo[p] # <<>> /\ Continue(p, Tail(todo[p]))
        /\ schema \subseteq schema' /\ Now(p).object \in schema'
        /\ Now(p).op \in {"create", "add_column"}
    BY <1>2 DEF PassOver, Define, ChangesSchema, At
  <2>2. Promised(Now(p)) = {Now(p).object}
    BY <2>1 DEF Promised
  <2> QED
    BY <2>1, <2>2, TakenOff
<1>3. ASSUME NEW txn, NEW held, Raise(p, txn, held) PROVE SchemaPromised'
  <2>1. /\ schema' = schema
        /\ todo' = [todo EXCEPT ![p] = <<>>]
        /\ \/ mode' = [mode EXCEPT ![p] = "failed"]
           \/ mode[p] = "serving" /\ mode' = mode
    BY <1>3 DEF Raise, Exit
  <2> QED
    BY <2>1, Dropped
<1>4. CASE DefineFails(p) \/ WriteDuplicate(p) \/ Locked(p)
  BY <1>3, <1>4 DEF DefineFails, WriteDuplicate, Locked
<1>5. CASE AwaitReaders(p)
  BY <1>5 DEF AwaitReaders, SchemaPromised, ServesFullSchema, Up
<1> QED
  BY <1>1, <1>2, <1>4, <1>5, CheckSeedSchema, TableInfoSchema DEF Step

LEMMA NextSchema == SchemaPromised /\ [Next]_vars => SchemaPromised'
<1> SUFFICES ASSUME SchemaPromised, [Next]_vars PROVE SchemaPromised'
  OBVIOUS
<1>1. CASE UNCHANGED vars
  BY <1>1 DEF vars, SchemaPromised, ServesFullSchema, Up
<1>2. ASSUME NEW p \in Procs, Crash(p) PROVE SchemaPromised'
  <2>1. /\ schema' = schema
        /\ todo' = [todo EXCEPT ![p] = <<>>]
        /\ mode' = [mode EXCEPT ![p] = "down"]
    BY <1>2 DEF Crash, Exit
  <2> QED
    BY <2>1, Dropped
<1> QED
  BY <1>1, <1>2, StartSchema, RequestSchema, StepSchema DEF Next

-----------------------------------------------------------------------------
(* The theorem. *)

\* A process that serves finds every table, index and column its queries name,
\* whatever was in the file, whoever migrates it meanwhile and whatever fails
\* or dies (Database.__init__, _migrate).
THEOREM FullSchemaServed == Spec => []ServesFullSchema
<1>1. Init => SchemaPromised
  BY DEF Init, SchemaPromised, ServesFullSchema, Modes
<1>2. SchemaPromised => ServesFullSchema
  BY DEF SchemaPromised
<1> QED
  BY <1>1, <1>2, NextSchema, PTL DEF Spec

-----------------------------------------------------------------------------
(* The inductive invariant: where a process stands.                        *)

\* What is left of a signup, and of seed_demo, which creates five rows in
\* three statements each: phase 1 inserts row i, 2 commits it, 3 reads it.
SignupAt(slug, k)  == SubSeq(Signup(slug), k, 6)
SeedAt(i, phase)   == SubSeq(SeedDemo, 3 * i + phase, 15)

SeedRow(i) == IF i = 0 THEN UserRow(Demo) ELSE DemoRow(DemoDonations[i])

\* What the schema script and _migrate consist of.
Schematic == {Commit, FindDemo}
               \cup {ReadColumns(group) : group \in Groups}
               \cup {Create(o) : o \in FullSchema}
               \cup Additions

SigningUp(p, slug, k) == mode[p] = "serving" /\ todo[p] = SignupAt(slug, k)
Seeding(p, i, phase)  == mode[p] = "starting" /\ todo[p] = SeedAt(i, phase)

Migrating(p) ==
    /\ mode[p] = "starting"
    /\ todo[p] \in Seq(Schematic)
    /\ todo[p] # <<>>
    /\ todo[p][Len(todo[p])] = FindDemo

Placed ==
    \A p \in Procs :
        \/ todo[p] = <<>> /\ mode[p] # "starting"
        \/ todo[p] = Page /\ mode[p] = "serving"
        \/ \E slug \in Slugs, k \in 1..6 : SigningUp(p, slug, k)
        \/ \E i \in 0..4, phase \in 1..3 : Seeding(p, i, phase)
        \/ Migrating(p)

(* Locks and transactions: one writer; a transaction is open from an       *)
(* insert to its commit, or since a statement failed in it.                *)

Writes(p) == lock[p] \in {"reserved", "pending"}

AtCommit(p) ==
    \/ \E slug \in Slugs : SigningUp(p, slug, 2) \/ SigningUp(p, slug, 5)
    \/ \E i \in 0..4 : Seeding(p, i, 2)

Orderly(p) ==
    /\ ~ Up(p) => ~ inTxn[p]
    /\ failed[p] => mode[p] = "serving" /\ inTxn[p]
    /\ Migrating(p) => ~ inTxn[p]
    /\ lock[p] # "none" => inTxn[p] \/ (Migrating(p) /\ ChangesSchema(p))
    /\ dirty[p] # NoRows => inTxn[p] /\ Writes(p)
    /\ inTxn[p] /\ ~ failed[p] => AtCommit(p)

OneWriter == \A p, q \in Procs : Writes(p) /\ Writes(q) => p = q

LocksHeld == OneWriter /\ \A p \in Procs : Orderly(p)

-----------------------------------------------------------------------------
(* Rows, and the lists of the programs. *)

\* The rows of the seed are five different rows, and none is a session.
LEMMA SeedRows ==
    /\ \A i \in 0..4 : SeedRow(i) \in Rows
    /\ \A i, j \in 0..4 : SeedRow(i) = SeedRow(j) => i = j
    /\ \A i \in 0..4, slug \in Slugs : SeedRow(i) # SessionRow(slug)
    /\ \A i \in 1..4 : SeedRow(i) \notin Users /\ SeedRow(i) = DemoRow(DemoDonations[i])
    /\ SeedRow(0) = UserRow(Demo)
    /\ SeedRow(4) = DemoRow("fourth")
<1>1. /\ DemoDonations[1] = "first" /\ DemoDonations[2] = "second"
      /\ DemoDonations[3] = "third" /\ DemoDonations[4] = "fourth"
      /\ DOMAIN DemoDonations = 1..4
  BY DEF DemoDonations
<1>2. \A i \in 1..4 : SeedRow(i) = DemoRow(DemoDonations[i])
  BY DEF SeedRow
<1>3. SeedRow(0) = UserRow(Demo)
  BY DEF SeedRow
<1>4. \A x, y : /\ DemoRow(x) = DemoRow(y) => x = y
                /\ DemoRow(x) # UserRow(y)
                /\ DemoRow(x) # SessionRow(y)
                /\ UserRow(x) # SessionRow(y)
  BY DEF DemoRow, UserRow, SessionRow
<1>5. \A i, j \in 1..4 : DemoDonations[i] = DemoDonations[j] => i = j
  BY <1>1
<1>6. \A i \in 0..4 : i = 0 \/ i \in 1..4
  OBVIOUS
<1>7. \A i \in 0..4 : SeedRow(i) \in Rows
  BY <1>1, <1>2, <1>3, <1>6 DEF Rows, Users
<1>8. \A i, j \in 0..4 : SeedRow(i) = SeedRow(j) => i = j
  BY <1>2, <1>3, <1>4, <1>5, <1>6
<1>9. \A i \in 1..4 : SeedRow(i) \notin Users
  BY <1>2, <1>4 DEF Users
<1> QED
  BY <1>1, <1>2, <1>3, <1>4, <1>6, <1>7, <1>8, <1>9

\* Accounts and sessions are different rows, one of each per slug.
LEMMA SlugRows ==
    /\ \A slug \in Slugs \cup {Demo} : UserRow(slug) \in Rows /\ UserRow(slug) \in Users
    /\ \A slug \in Slugs : SessionRow(slug) \in Rows /\ SessionRow(slug) \notin Users
    /\ \A s, t : /\ UserRow(s) = UserRow(t) => s = t
                 /\ SessionRow(s) = SessionRow(t) => s = t
                 /\ UserRow(s) # SessionRow(t)
    /\ \A i \in 1..4, slug \in Slugs \cup {Demo} : SeedRow(i) # UserRow(slug)
<1>1. \A s, t : /\ UserRow(s) = UserRow(t) => s = t
                /\ SessionRow(s) = SessionRow(t) => s = t
                /\ UserRow(s) # SessionRow(t)
  BY DEF UserRow, SessionRow
<1> QED
  BY <1>1, SeedRows DEF Rows, Users

\* The rest of a list from its k-th statement.
LEMMA Suffix ==
    ASSUME NEW S, NEW list \in Seq(S), NEW k \in 1..Len(list)
    PROVE  LET rest == SubSeq(list, k, Len(list))
           IN  /\ rest \in Seq(S)
               /\ rest # <<>>
               /\ Len(rest) = Len(list) - k + 1
               /\ \A i \in 1..Len(list) - k + 1 : rest[i] = list[k + i - 1]
               /\ Head(rest) = list[k]
               /\ Tail(rest) = IF k = Len(list) THEN <<>> ELSE SubSeq(list, k + 1, Len(list))
<1> DEFINE rest == SubSeq(list, k, Len(list))
<1>1. Len(list) \in Nat /\ k \in Int /\ Len(list) \in Int /\ k <= Len(list)
  BY LenProperties
<1>2. \A i \in k..Len(list) : list[i] \in S
  BY <1>1, ElementOfSeq
<1>3. /\ rest \in Seq(S)
      /\ Len(rest) = Len(list) - k + 1
      /\ \A i \in 1..Len(list) - k + 1 : rest[i] = list[k + i - 1]
  BY <1>1, <1>2, SubSeqProperties
<1>4. Head(rest) = list[k] /\ Tail(rest) = SubSeq(list, k + 1, Len(list))
  BY <1>1, HeadTailOfSubSeq
<1>5. k = Len(list) => SubSeq(list, k + 1, Len(list)) = <<>>
  BY <1>1, SubSeqEmpty
<1>6. rest # <<>>
  <2> HIDE DEF rest
  <2> QED
    BY <1>1, <1>3
<1> QED
  BY <1>3, <1>4, <1>5, <1>6

\* A row is created in three statements.
LEMMA CreatingList ==
    ASSUME NEW row \in Rows
    PROVE  /\ Creating(row) \in Seq(Plain)
           /\ Len(Creating(row)) = 3
           /\ Creating(row)[1] = Insert(row)
           /\ Creating(row)[2] = Commit
           /\ Creating(row)[3] = Select
  BY CreatingPlain DEF Creating

\* A signup creates the account, then the session.
LEMMA SignupList ==
    ASSUME NEW slug \in Slugs
    PROVE  /\ Signup(slug) \in Seq(Plain)
           /\ Len(Signup(slug)) = 6
           /\ Signup(slug)[1] = Insert(UserRow(slug))
           /\ Signup(slug)[2] = Commit
           /\ Signup(slug)[3] = Select
           /\ Signup(slug)[4] = Insert(SessionRow(slug))
           /\ Signup(slug)[5] = Commit
           /\ Signup(slug)[6] = Welcome(slug)
<1> DEFINE a == Creating(UserRow(slug))
           b == <<Insert(SessionRow(slug)), Commit, Welcome(slug)>>
<1>1. a \in Seq(Plain) /\ Len(a) = 3 /\ a[1] = Insert(UserRow(slug)) /\ a[2] = Commit
        /\ a[3] = Select
  BY CreatingList, SlugRows
<1>2. b \in Seq(Plain) /\ Len(b) = 3 /\ b[1] = Insert(SessionRow(slug)) /\ b[2] = Commit
        /\ b[3] = Welcome(slug)
  BY SlugRows DEF Plain
<1>3. Signup(slug) = a \o b
  BY DEF Signup
<1> HIDE DEF a, b
<1>4. /\ a \o b \in Seq(Plain) /\ Len(a \o b) = 6
      /\ \A i \in 1..6 : (a \o b)[i] = IF i <= 3 THEN a[i] ELSE b[i - 3]
  <2>1. /\ a \o b \in Seq(Plain)
        /\ Len(a \o b) = Len(a) + Len(b)
        /\ \A i \in 1 .. Len(a) + Len(b) :
              (a \o b)[i] = IF i <= Len(a) THEN a[i] ELSE b[i - Len(a)]
    BY <1>1, <1>2, ConcatProperties
  <2> QED
    BY <1>1, <1>2, <2>1
<1> QED
  BY <1>1, <1>2, <1>3, <1>4

\* seed_demo creates its rows one after the other.
LEMMA SeedList ==
    /\ SeedDemo \in Seq(Plain)
    /\ Len(SeedDemo) = 15
    /\ \A i \in 0..4 : /\ SeedDemo[3 * i + 1] = Insert(SeedRow(i))
                       /\ SeedDemo[3 * i + 2] = Commit
                       /\ SeedDemo[3 * i + 3] = Select
<1> DEFINE u == Creating(UserRow(Demo))
           a == Creating(DemoRow("first"))
           b == Creating(DemoRow("second"))
           c == Creating(DemoRow("third"))
           d == Creating(DemoRow("fourth"))
<1>1. /\ SeedRow(0) = UserRow(Demo) /\ SeedRow(1) = DemoRow("first")
      /\ SeedRow(2) = DemoRow("second") /\ SeedRow(3) = DemoRow("third")
      /\ SeedRow(4) = DemoRow("fourth")
  BY DEF SeedRow, DemoDonations
<1>2. /\ u = Creating(SeedRow(0)) /\ a = Creating(SeedRow(1)) /\ b = Creating(SeedRow(2))
      /\ c = Creating(SeedRow(3)) /\ d = Creating(SeedRow(4))
  BY <1>1
<1>3. SeedDemo = u \o (((a \o b) \o c) \o d)
  BY DEF SeedDemo, SeedDonations
<1>4. \A i \in 0..4 : SeedRow(i) \in Rows
  BY SeedRows
<1>5. /\ u \in Seq(Plain) /\ Len(u) = 3
      /\ a \in Seq(Plain) /\ Len(a) = 3
      /\ b \in Seq(Plain) /\ Len(b) = 3
      /\ c \in Seq(Plain) /\ Len(c) = 3
      /\ d \in Seq(Plain) /\ Len(d) = 3
  BY <1>2, <1>4, CreatingList
<1>6. /\ u[1] = Insert(SeedRow(0)) /\ u[2] = Commit /\ u[3] = Select
      /\ a[1] = Insert(SeedRow(1)) /\ a[2] = Commit /\ a[3] = Select
      /\ b[1] = Insert(SeedRow(2)) /\ b[2] = Commit /\ b[3] = Select
      /\ c[1] = Insert(SeedRow(3)) /\ c[2] = Commit /\ c[3] = Select
      /\ d[1] = Insert(SeedRow(4)) /\ d[2] = Commit /\ d[3] = Select
  BY <1>2, <1>4, CreatingList
<1> HIDE DEF u, a, b, c, d
<1> DEFINE ab == a \o b
<1>7. /\ ab \in Seq(Plain) /\ Len(ab) = 6
      /\ \A i \in 1..6 : ab[i] = IF i <= 3 THEN a[i] ELSE b[i - 3]
  <2>1. /\ a \o b \in Seq(Plain)
        /\ Len(a \o b) = Len(a) + Len(b)
        /\ \A i \in 1 .. Len(a) + Len(b) :
              (a \o b)[i] = IF i <= Len(a) THEN a[i] ELSE b[i - Len(a)]
    BY <1>5, ConcatProperties
  <2> QED
    BY <1>5, <2>1
<1>8. SeedDemo = u \o ((ab \o c) \o d)
  BY <1>3
<1> HIDE DEF ab
<1> DEFINE abc == ab \o c
<1>9. /\ abc \in Seq(Plain) /\ Len(abc) = 9
      /\ \A i \in 1..9 : abc[i] = IF i <= 6 THEN ab[i] ELSE c[i - 6]
  <2>1. /\ abc \in Seq(Plain)
        /\ Len(abc) = Len(ab) + Len(c)
        /\ \A i \in 1 .. Len(ab) + Len(c) :
              abc[i] = IF i <= Len(ab) THEN ab[i] ELSE c[i - Len(ab)]
    BY <1>5, <1>7, ConcatProperties
  <2> HIDE DEF abc
  <2> QED
    BY <1>5, <1>7, <2>1
<1>10. SeedDemo = u \o (abc \o d)
  BY <1>8
<1> HIDE DEF abc
<1> DEFINE abcd == abc \o d
<1>11. /\ abcd \in Seq(Plain) /\ Len(abcd) = 12
       /\ \A i \in 1..12 : abcd[i] = IF i <= 9 THEN abc[i] ELSE d[i - 9]
  <2>1. /\ abcd \in Seq(Plain)
        /\ Len(abcd) = Len(abc) + Len(d)
        /\ \A i \in 1 .. Len(abc) + Len(d) :
              abcd[i] = IF i <= Len(abc) THEN abc[i] ELSE d[i - Len(abc)]
    BY <1>5, <1>9, ConcatProperties
  <2> HIDE DEF abcd
  <2> QED
    BY <1>5, <1>9, <2>1
<1>12. SeedDemo = u \o abcd
  BY <1>10
<1> HIDE DEF abcd
<1>13. /\ SeedDemo \in Seq(Plain) /\ Len(SeedDemo) = 15
       /\ \A i \in 1..15 : SeedDemo[i] = IF i <= 3 THEN u[i] ELSE abcd[i - 3]
  <2>1. /\ SeedDemo \in Seq(Plain)
        /\ Len(SeedDemo) = Len(u) + Len(abcd)
        /\ \A i \in 1 .. Len(u) + Len(abcd) :
              SeedDemo[i] = IF i <= Len(u) THEN u[i] ELSE abcd[i - Len(u)]
    BY <1>5, <1>11, <1>12, ConcatProperties
  <2> QED
    BY <1>5, <1>11, <2>1
<1>14. /\ SeedDemo[1] = u[1] /\ SeedDemo[2] = u[2] /\ SeedDemo[3] = u[3]
       /\ SeedDemo[4] = a[1] /\ SeedDemo[5] = a[2] /\ SeedDemo[6] = a[3]
       /\ SeedDemo[7] = b[1] /\ SeedDemo[8] = b[2] /\ SeedDemo[9] = b[3]
       /\ SeedDemo[10] = c[1] /\ SeedDemo[11] = c[2] /\ SeedDemo[12] = c[3]
       /\ SeedDemo[13] = d[1] /\ SeedDemo[14] = d[2] /\ SeedDemo[15] = d[3]
  BY <1>7, <1>9, <1>11, <1>13
<1>15. ASSUME NEW i \in 0..4
       PROVE  /\ SeedDemo[3 * i + 1] = Insert(SeedRow(i))
              /\ SeedDemo[3 * i + 2] = Commit
              /\ SeedDemo[3 * i + 3] = Select
  <2>1. i = 0 \/ i = 1 \/ i = 2 \/ i = 3 \/ i = 4
    BY <1>15
  <2> QED
    BY <2>1, <1>6, <1>14
<1> QED
  BY <1>13, <1>15

-----------------------------------------------------------------------------
(* Types. *)

\* A statement of its kind names an object, a row or a slug.
LEMMA StatementKinds ==
    ASSUME NEW s \in Statements
    PROVE  /\ s.op \in {"create", "add_column"} => s.object \in FullSchema
           /\ s.op = "read_columns" => s.group \in Groups
           /\ s.op = "insert" => s.row \in Rows
           /\ s.op = "welcome" => s.slug \in Slugs
<1>1. UserColumns \cup DonationColumns \subseteq FullSchema
  BY DEF FullSchema
<1> QED
  BY <1>1 DEF Statements, Select, FindDemo, Commit, Create, AddColumn, Insert, Welcome, ReadColumns

LEMMA NoRowsTyped == NoRows \in [Rows -> Nat] /\ \A row \in Rows : NoRows[row] = 0
PROOF
  BY DEF NoRows

\* What every step leaves typed, given that the lists and modes are.
LEMMA StepTyped ==
    ASSUME TypeOK, NEW p \in Procs, Step(p),
           todo' \in [Procs -> Seq(Statements)], mode' \in [Procs -> Modes]
    PROVE  TypeOK'
<1> USE DEF TypeOK
<1>1. ASSUME todo[p] # <<>>
      PROVE  Now(p) \in Statements
  BY <1>1, HeadTailProperties DEF Now
<1>2. WriteLock(p) \in Locks
  BY DEF WriteLock, Locks
<1>3. /\ HeldByReading(p) => lock' \in [Procs -> Locks]
      /\ \A rest : Continue(p, rest) => company' \in [Procs -> BOOLEAN]
  BY DEF HeldByReading, Continue, Locks
<1>4. ASSUME NEW txn \in BOOLEAN, NEW held \in Locks, Raise(p, txn, held)
      PROVE  TypeOK'
  <2>1. CASE mode[p] = "starting" /\ Exit(p, "failed")
    <3>1. SeedsDonations(p) \in BOOLEAN
      BY DEF SeedsDonations
    <3>2. demoCut' \in BOOLEAN
      BY <2>1, <3>1 DEF Exit
    <3>3. company' \in [Procs -> BOOLEAN]
      BY <2>1 DEF Exit
    <3>4. dirty' \in [Procs -> [Rows -> Nat]]
      BY <2>1, NoRowsTyped DEF Exit
    <3>5. lock' \in [Procs -> Locks]
      BY <2>1 DEF Exit, Locks
    <3> QED
      BY <2>1, <3>2, <3>3, <3>4, <3>5 DEF Exit
  <2>2. CASE ~(mode[p] = "starting" /\ Exit(p, "failed"))
    BY <1>4, <2>2 DEF Raise
  <2> QED
    BY <2>1, <2>2
<1>5. CASE Read(p) \/ CheckSeed(p) \/ TableInfo(p)
  <2>1. company' \in [Procs -> BOOLEAN] /\ lock' \in [Procs -> Locks]
    BY <1>3, <1>5 DEF Read, CheckSeed, TableInfo
  <2> QED
    BY <1>5, <2>1 DEF Read, CheckSeed, TableInfo
<1>6. CASE PassOver(p)
  BY <1>3, <1>6 DEF PassOver
<1>7. CASE Define(p)
  <2>1. Now(p) \in Statements /\ Now(p).op \in {"create", "add_column"}
    BY <1>1, <1>7 DEF Define, ChangesSchema, At
  <2>2. Now(p).object \in FullSchema
    BY <2>1, StatementKinds
  <2>3. ColumnsOf(Now(p).object) \subseteq FullSchema
    BY DEF ColumnsOf, FullSchema
  <2>4. schema' \subseteq FullSchema
    BY <1>7, <2>2, <2>3 DEF Define
  <2>5. lock' \in [Procs -> Locks] /\ company' \in [Procs -> BOOLEAN]
    BY <1>3, <1>7 DEF Define, Locks
  <2> QED
    BY <1>7, <2>4, <2>5 DEF Define
<1>8. CASE DefineFails(p)
  BY <1>4, <1>8 DEF DefineFails
<1>9. CASE Write(p)
  <2>1. Now(p).row \in Rows
    BY <1>1, <1>9, StatementKinds DEF Write, At
  <2>2. dirty' \in [Procs -> [Rows -> Nat]]
    BY <1>9, <2>1 DEF Write
  <2>3. inTxn' \in [Procs -> BOOLEAN] /\ lock' \in [Procs -> Locks]
    BY <1>2, <1>9 DEF Write
  <2>4. company' \in [Procs -> BOOLEAN]
    BY <1>3, <1>9 DEF Write
  <2> QED
    BY <1>9, <2>2, <2>3, <2>4 DEF Write
<1>10. CASE WriteDuplicate(p)
  BY <1>2, <1>4, <1>10 DEF WriteDuplicate
<1>11. CASE Publish(p)
  <2>1. rows' \in [Rows -> Nat]
    BY <1>11 DEF Publish
  <2>2. dirty' \in [Procs -> [Rows -> Nat]]
    BY <1>11, NoRowsTyped DEF Publish
  <2>3. /\ inTxn' \in [Procs -> BOOLEAN] /\ lock' \in [Procs -> Locks]
        /\ failed' \in [Procs -> BOOLEAN]
    BY <1>11 DEF Publish, Locks
  <2>4. company' \in [Procs -> BOOLEAN]
    BY <1>3, <1>11 DEF Publish
  <2> QED
    BY <1>11, <2>1, <2>2, <2>3, <2>4 DEF Publish
<1>12. CASE AwaitReaders(p)
  BY <1>12 DEF AwaitReaders, Locks
<1>13. CASE Locked(p)
  <2>1. (inTxn[p] \/ At(p, "insert")) \in BOOLEAN
    BY DEF At
  <2> QED
    BY <1>4, <1>13, <2>1 DEF Locked
<1>14. CASE Answer(p)
  <2>1. Now(p).slug \in Slugs
    BY <1>1, <1>14, StatementKinds DEF Answer, At
  <2>2. company' \in [Procs -> BOOLEAN]
    BY <1>3, <1>14 DEF Answer
  <2> QED
    BY <1>14, <2>1, <2>2 DEF Answer
<1> QED
  BY <1>5, <1>6, <1>7, <1>8, <1>9, <1>10, <1>11, <1>12, <1>13, <1>14 DEF Step

LEMMA NextTyped ==
    TypeOK /\ SchemaPromised' /\ [Next]_vars => TypeOK'
<1> SUFFICES ASSUME TypeOK, SchemaPromised', [Next]_vars PROVE TypeOK'
  OBVIOUS
<1> USE DEF TypeOK
<1>1. todo' \in [Procs -> Seq(Statements)] /\ mode' \in [Procs -> Modes]
  BY DEF SchemaPromised
<1>2. CASE UNCHANGED vars
  BY <1>2 DEF vars
<1>3. ASSUME NEW p \in Procs, Start(p) PROVE TypeOK'
  <2>1. \A q \in Procs : (IF q = p THEN \E other \in Others(p) : Up(other)
                          ELSE company[q] \/ mode[q] = "starting") \in BOOLEAN
    OBVIOUS
  <2>2. company' \in [Procs -> BOOLEAN]
    BY <1>3, <2>1 DEF Start
  <2> QED
    BY <1>1, <1>3, <2>2 DEF Start
<1>4. ASSUME NEW p \in Procs, Request(p) PROVE TypeOK'
  BY <1>1, <1>4 DEF Request
<1>5. ASSUME NEW p \in Procs, Crash(p) PROVE TypeOK'
  <2>1. SeedsDonations(p) \in BOOLEAN
    BY DEF SeedsDonations
  <2>2. demoCut' \in BOOLEAN
    BY <1>5, <2>1 DEF Crash, Exit
  <2>3. company' \in [Procs -> BOOLEAN]
    BY <1>5 DEF Crash, Exit
  <2>4. dirty' \in [Procs -> [Rows -> Nat]]
    BY <1>5, NoRowsTyped DEF Crash, Exit
  <2>5. lock' \in [Procs -> Locks]
    BY <1>5 DEF Crash, Exit, Locks
  <2> QED
    BY <1>1, <1>5, <2>2, <2>3, <2>4, <2>5 DEF Crash, Exit
<1> QED
  BY <1>1, <1>2, <1>3, <1>4, <1>5, StepTyped DEF Next

LEMMA InitTyped == Init => TypeOK /\ SchemaPromised
<1> SUFFICES ASSUME Init PROVE TypeOK /\ SchemaPromised
  OBVIOUS
<1>1. SchemaPromised
  BY DEF Init, SchemaPromised, ServesFullSchema, Modes
<1>2. schema \subseteq FullSchema
  BY OldSchemasAssumption DEF Init
<1>3. rows \in [Rows -> Nat] /\ dirty \in [Procs -> [Rows -> Nat]]
  BY NoRowsTyped DEF Init
<1>4. lock \in [Procs -> Locks] /\ inTxn \in [Procs -> BOOLEAN]
  BY DEF Init, Locks
<1>5. failed \in [Procs -> BOOLEAN] /\ company \in [Procs -> BOOLEAN] /\ demoCut \in BOOLEAN
  BY DEF Init
<1> QED
  BY <1>1, <1>2, <1>3, <1>4, <1>5 DEF Init, TypeOK, SchemaPromised

\* The file and the connections keep their types, whatever interleaves, fails
\* or dies (Database, seed_demo and the requests).
THEOREM ProcessesTyped == Spec => []TypeOK
<1>1. TypeOK /\ SchemaPromised /\ [Next]_vars => (TypeOK /\ SchemaPromised)'
  BY NextSchema, NextTyped
<1> QED
  BY <1>1, InitTyped, PTL DEF Spec

-----------------------------------------------------------------------------
(* Places in the lists. *)

\* A signup goes from place to place.
LEMMA SignupPlaces ==
    ASSUME NEW slug \in Slugs, NEW k \in 1..6
    PROVE  /\ SignupAt(slug, k) # <<>>
           /\ Len(SignupAt(slug, k)) = 7 - k
           /\ SignupAt(slug, k)[7 - k] = Welcome(slug)
           /\ Head(SignupAt(slug, k)) = Signup(slug)[k]
           /\ Tail(SignupAt(slug, k)) = IF k = 6 THEN <<>> ELSE SignupAt(slug, k + 1)
<1> DEFINE list == Signup(slug)
<1>1. list \in Seq(Plain) /\ Len(list) = 6 /\ list[6] = Welcome(slug)
  BY SignupList
<1>2. LET rest == SubSeq(list, k, Len(list))
      IN  /\ rest \in Seq(Plain)
          /\ rest # <<>>
          /\ Len(rest) = Len(list) - k + 1
          /\ \A i \in 1..Len(list) - k + 1 : rest[i] = list[k + i - 1]
          /\ Head(rest) = list[k]
          /\ Tail(rest) = IF k = Len(list) THEN <<>> ELSE SubSeq(list, k + 1, Len(list))
  <2> HIDE DEF list
  <2> QED
    BY <1>1, Suffix
<1>3. SignupAt(slug, k) = SubSeq(list, k, 6) /\ SignupAt(slug, k + 1) = SubSeq(list, k + 1, 6)
  BY DEF SignupAt
<1> HIDE DEF list
<1>4. 7 - k \in 1..6 - k + 1 /\ k + (7 - k) - 1 = 6 /\ 6 - k + 1 = 7 - k
  OBVIOUS
<1>5. SubSeq(list, k, 6)[7 - k] = list[6]
  BY <1>1, <1>2, <1>4
<1> QED
  BY <1>1, <1>2, <1>3, <1>4, <1>5 DEF list

\* The places of signups are all different, and none is that of a page.
LEMMA SignupDistinct ==
    /\ \A s, t \in Slugs, k, l \in 1..6 : SignupAt(s, k) = SignupAt(t, l) => s = t /\ k = l
    /\ \A s \in Slugs, k \in 1..6 : SignupAt(s, k) # Page
<1>1. ASSUME NEW s \in Slugs, NEW t \in Slugs, NEW k \in 1..6, NEW l \in 1..6,
             SignupAt(s, k) = SignupAt(t, l)
      PROVE  s = t /\ k = l
  <2>1. Len(SignupAt(s, k)) = 7 - k /\ SignupAt(s, k)[7 - k] = Welcome(s)
    BY SignupPlaces
  <2>2. Len(SignupAt(t, l)) = 7 - l /\ SignupAt(t, l)[7 - l] = Welcome(t)
    BY SignupPlaces
  <2>3. 7 - k = 7 - l
    BY <1>1, <2>1, <2>2
  <2>4. Welcome(s) = Welcome(t)
    BY <1>1, <2>1, <2>2, <2>3
  <2>5. s = t
    BY <2>4 DEF Welcome
  <2> QED
    BY <2>3, <2>5
<1>2. ASSUME NEW s \in Slugs, NEW k \in 1..6, SignupAt(s, k) = Page
      PROVE  FALSE
  <2>1. Len(Page) = 1 /\ Page[1] = Select
    BY DEF Page
  <2>2. 7 - k = 1
    BY <1>2, <2>1, SignupPlaces
  <2>3. Welcome(s) = Select
    BY <1>2, <2>1, <2>2, SignupPlaces
  <2> QED
    BY <2>3 DEF Welcome, Select
<1> QED
  BY <1>1, <1>2

\* The seed goes from place to place.
LEMMA SeedPlaces ==
    ASSUME NEW i \in 0..4, NEW phase \in 1..3
    PROVE  /\ SeedAt(i, phase) \in Seq(Plain)
           /\ SeedAt(i, phase) # <<>>
           /\ Len(SeedAt(i, phase)) = 16 - (3 * i + phase)
           /\ \A n \in 1..16 - (3 * i + phase) :
                 SeedAt(i, phase)[n] = SeedDemo[3 * i + phase + n - 1]
           /\ Head(SeedAt(i, phase)) = SeedDemo[3 * i + phase]
           /\ Tail(SeedAt(i, phase)) = IF phase < 3 THEN SeedAt(i, phase + 1)
                                       ELSE IF i < 4 THEN SeedAt(i + 1, 1) ELSE <<>>
<1> DEFINE k == 3 * i + phase
<1>1. SeedDemo \in Seq(Plain) /\ Len(SeedDemo) = 15 /\ k \in 1..15
  BY SeedList
<1>2. /\ SeedAt(i, phase) = SubSeq(SeedDemo, k, 15)
      /\ phase < 3 => SeedAt(i, phase + 1) = SubSeq(SeedDemo, k + 1, 15)
      /\ phase = 3 => SeedAt(i + 1, 1) = SubSeq(SeedDemo, k + 1, 15)
      /\ k = 15 <=> phase = 3 /\ i = 4
  <2>1. 3 * i + (phase + 1) = k + 1
    OBVIOUS
  <2>2. phase = 3 => 3 * (i + 1) + 1 = k + 1
    OBVIOUS
  <2>3. k = 15 <=> phase = 3 /\ i = 4
    OBVIOUS
  <2> QED
    BY <2>1, <2>2, <2>3 DEF SeedAt
<1> HIDE DEF k
<1>3. LET rest == SubSeq(SeedDemo, k, Len(SeedDemo))
      IN  /\ rest \in Seq(Plain)
          /\ rest # <<>>
          /\ Len(rest) = Len(SeedDemo) - k + 1
          /\ \A n \in 1..Len(SeedDemo) - k + 1 : rest[n] = SeedDemo[k + n - 1]
          /\ Head(rest) = SeedDemo[k]
          /\ Tail(rest) = IF k = Len(SeedDemo) THEN <<>> ELSE SubSeq(SeedDemo, k + 1, Len(SeedDemo))
  BY <1>1, Suffix
<1>4. /\ SeedAt(i, phase) \in Seq(Plain)
      /\ SeedAt(i, phase) # <<>>
      /\ Len(SeedAt(i, phase)) = 16 - k
      /\ \A n \in 1..16 - k : SeedAt(i, phase)[n] = SeedDemo[k + n - 1]
      /\ Head(SeedAt(i, phase)) = SeedDemo[k]
      /\ Tail(SeedAt(i, phase)) = IF k = 15 THEN <<>> ELSE SubSeq(SeedDemo, k + 1, 15)
  <2>1. 15 - k + 1 = 16 - k
    BY <1>1
  <2> QED
    BY <1>1, <1>2, <1>3, <2>1
<1>5. Tail(SeedAt(i, phase)) = IF phase < 3 THEN SeedAt(i, phase + 1)
                               ELSE IF i < 4 THEN SeedAt(i + 1, 1) ELSE <<>>
  <2>1. CASE phase < 3
    <3>1. k # 15
      BY <1>2, <2>1
    <3>2. Tail(SeedAt(i, phase)) = SubSeq(SeedDemo, k + 1, 15)
      BY <1>4, <3>1
    <3>3. SeedAt(i, phase + 1) = SubSeq(SeedDemo, k + 1, 15)
      BY <1>2, <2>1
    <3> QED
      BY <2>1, <3>2, <3>3
  <2>2. CASE phase = 3 /\ i < 4
    <3>1. k # 15 /\ ~(phase < 3) /\ i < 4
      BY <1>2, <2>2
    <3>2. Tail(SeedAt(i, phase)) = SubSeq(SeedDemo, k + 1, 15)
      BY <1>4, <3>1
    <3>3. SeedAt(i + 1, 1) = SubSeq(SeedDemo, k + 1, 15)
      BY <1>2, <2>2
    <3> QED
      BY <3>1, <3>2, <3>3
  <2>3. CASE phase = 3 /\ i = 4
    <3>1. k = 15 /\ ~(phase < 3) /\ ~(i < 4)
      BY <1>2, <2>3
    <3> QED
      BY <1>4, <3>1
  <2> QED
    BY <2>1, <2>2, <2>3
<1> QED
  BY <1>4, <1>5 DEF k

\* The places of the seed are all different, and none is one of a migration.
LEMMA SeedDistinct ==
    /\ \A i, j \in 0..4, f, g \in 1..3 : SeedAt(i, f) = SeedAt(j, g) => i = j /\ f = g
    /\ \A i \in 0..4, f \in 1..3 : SeedAt(i, f) \notin Seq(Schematic)
    /\ SeedAt(0, 1) = SeedDemo
<1>1. ASSUME NEW i \in 0..4, NEW j \in 0..4, NEW f \in 1..3, NEW g \in 1..3,
             SeedAt(i, f) = SeedAt(j, g)
      PROVE  i = j /\ f = g
  <2>1. 16 - (3 * i + f) = 16 - (3 * j + g)
    BY <1>1, SeedPlaces
  <2> QED
    BY <2>1
<1>2. ASSUME NEW i \in 0..4, NEW f \in 1..3, SeedAt(i, f) \in Seq(Schematic)
      PROVE  FALSE
  <2> DEFINE n == 16 - (3 * i + f)
  <2>1. n \in 1..15 /\ 3 * i + f + n - 1 = 15
    OBVIOUS
  <2>2. /\ Len(SeedAt(i, f)) = n
        /\ \A m \in 1..n : SeedAt(i, f)[m] = SeedDemo[3 * i + f + m - 1]
    BY SeedPlaces
  <2>3. n \in 1..n
    BY <2>1
  <2>4. Len(SeedAt(i, f)) = n /\ SeedAt(i, f)[n] = SeedDemo[15]
    <3> SUFFICES SeedAt(i, f)[n] = SeedDemo[15]
      BY <2>2
    <3>1. SeedAt(i, f)[n] = SeedDemo[3 * i + f + n - 1]
      BY <2>2, <2>3
    <3> QED
      BY <2>1, <3>1
  <2>5. SeedDemo[3 * 4 + 3] = Select
    BY SeedList
  <2>6. Select \in Schematic
    <3> HIDE DEF n
    <3>1. n \in 1..Len(SeedAt(i, f))
      BY <2>1, <2>4
    <3>2. SeedAt(i, f)[n] \in Schematic
      BY <1>2, <3>1, ElementOfSeq
    <3> QED
      BY <2>4, <2>5, <3>2
  <2> QED
    BY <2>6 DEF Schematic, Additions, Select, Commit, FindDemo, ReadColumns, Create, AddColumn
<1>3. SeedAt(0, 1) = SeedDemo
  <2>1. SubSeq(SeedDemo, 1, Len(SeedDemo)) = SeedDemo
    BY SeedList, SubSeqFull
  <2> QED
    BY <2>1, SeedList DEF SeedAt
<1> QED
  BY <1>1, <1>2, <1>3

\* A migration consists of statements on the schema; the last looks for the
\* demo user, so that it never just ends.
LEMMA MigratingGoesOn ==
    ASSUME NEW list \in Seq(Schematic), list # <<>>, list[Len(list)] = FindDemo
    PROVE  /\ Head(list) \in Schematic
           /\ Tail(list) \in Seq(Schematic)
           /\ Head(list) # FindDemo =>
                /\ Tail(list) # <<>>
                /\ Tail(list)[Len(Tail(list))] = FindDemo
<1>1. /\ Head(list) \in Schematic /\ Tail(list) \in Seq(Schematic)
      /\ Len(Tail(list)) = Len(list) - 1
      /\ \A n \in 1..Len(Tail(list)) : Tail(list)[n] = list[n + 1]
  BY HeadTailProperties
<1>2. Head(list) = list[1] /\ Len(list) \in Nat /\ Len(list) # 0
  BY LenProperties, EmptySeq
<1>3. ASSUME Head(list) # FindDemo
      PROVE  /\ Tail(list) # <<>>
             /\ Tail(list)[Len(Tail(list))] = FindDemo
  <2>1. Len(Tail(list)) # 0 /\ Len(Tail(list)) \in Nat
    BY <1>1, <1>2, <1>3
  <2>2. Tail(list) # <<>>
    BY <2>1, EmptySeq
  <2>3. Tail(list)[Len(Tail(list))] = list[Len(list)]
    BY <1>1, <1>2, <2>1
  <2> QED
    BY <2>2, <2>3
<1> QED
  BY <1>1, <1>3

\* What _migrate puts ahead of a migration leaves it one.
LEMMA MigratingAlters ==
    ASSUME NEW s \in Seq(Additions), NEW list \in Seq(Schematic), list # <<>>,
           list[Len(list)] = FindDemo
    PROVE  /\ s \o list \in Seq(Schematic)
           /\ s \o list # <<>>
           /\ (s \o list)[Len(s \o list)] = FindDemo
<1>1. s \in Seq(Schematic)
  <2>1. Additions \subseteq Schematic
    BY DEF Schematic
  <2> QED
    BY <2>1, SeqMonotonic
<1>2. /\ s \o list \in Seq(Schematic)
      /\ Len(s \o list) = Len(s) + Len(list)
      /\ \A i \in 1 .. Len(s) + Len(list) :
            (s \o list)[i] = IF i <= Len(s) THEN s[i] ELSE list[i - Len(s)]
  BY <1>1, ConcatProperties
<1>3. Len(s) \in Nat /\ Len(list) \in Nat /\ Len(list) # 0
  BY LenProperties, EmptySeq
<1> DEFINE m == Len(s)
           n == Len(list)
           joined == s \o list
<1>4. /\ joined \in Seq(Schematic) /\ Len(joined) = m + n
      /\ \A i \in 1 .. m + n : joined[i] = IF i <= m THEN s[i] ELSE list[i - m]
      /\ m \in Nat /\ n \in Nat /\ n # 0 /\ list[n] = FindDemo
  BY <1>2, <1>3
<1> HIDE DEF m, n, joined
<1>5. joined[m + n] = list[m + n - m] /\ m + n - m = n
  BY <1>4
<1>6. joined # <<>>
  BY <1>4
<1>7. joined[Len(joined)] = FindDemo
  BY <1>4, <1>5
<1> QED
  BY <1>4, <1>6, <1>7 DEF joined

\* A start begins as a migration.
LEMMA StartMigrating ==
    /\ StartUp \in Seq(Schematic)
    /\ StartUp # <<>>
    /\ StartUp[Len(StartUp)] = FindDemo
<1>1. CreateSchema \in Seq(Schematic)
  BY DEF CreateSchema, Schematic, FullSchema, Script
<1>2. Migrate \in Seq(Schematic)
  BY DEF Migrate, Schematic, FullSchema, Groups
<1> DEFINE both == CreateSchema \o Migrate
<1>3. both \in Seq(Schematic)
  BY <1>1, <1>2, ConcatProperties
<1>4. StartUp = Append(both, FindDemo)
  <2>1. StartUp = both \o <<FindDemo>>
    BY DEF StartUp
  <2>2. FindDemo \in Schematic
    BY DEF Schematic
  <2> HIDE DEF both
  <2> QED
    BY <1>3, <2>1, <2>2, AppendIsConcat
<1>5. FindDemo \in Schematic
  BY DEF Schematic
<1> HIDE DEF both
<1> QED
  BY <1>3, <1>4, <1>5, AppendProperties, LenProperties

-----------------------------------------------------------------------------
(* Where a process stands, and where a step takes it. *)

\* Kinds of statements.
LEMMA Ops ==
    /\ Select.op = "select" /\ FindDemo.op = "find_demo" /\ Commit.op = "commit"
    /\ \A o : Create(o).op = "create" /\ Create(o).object = o
    /\ \A c : AddColumn(c).op = "add_column" /\ AddColumn(c).object = c
    /\ \A r : Insert(r).op = "insert" /\ Insert(r).row = r
    /\ \A slug : Welcome(slug).op = "welcome" /\ Welcome(slug).slug = slug
    /\ \A group : ReadColumns(group).op = "read_columns" /\ ReadColumns(group).group = group
  BY DEF Select, FindDemo, Commit, Create, AddColumn, Insert, Welcome, ReadColumns

\* A process stands at one place only.
LEMMA OnePlace ==
    ASSUME NEW p \in Procs
    PROVE  /\ \A s, t \in Slugs, k, l \in 1..6 :
                 SigningUp(p, s, k) /\ SigningUp(p, t, l) => s = t /\ k = l
           /\ \A i, j \in 0..4, f, g \in 1..3 :
                 Seeding(p, i, f) /\ Seeding(p, j, g) => i = j /\ f = g
           /\ \A i \in 0..4, f \in 1..3 : ~ (Seeding(p, i, f) /\ Migrating(p))
  BY SignupDistinct, SeedDistinct DEF SigningUp, Seeding, Migrating

\* The statement a place is at.
LEMMA PlaceHeads ==
    ASSUME NEW p \in Procs
    PROVE  /\ \A s \in Slugs :
                /\ SigningUp(p, s, 1) => Now(p) = Insert(UserRow(s))
                /\ SigningUp(p, s, 2) => Now(p) = Commit
                /\ SigningUp(p, s, 3) => Now(p) = Select
                /\ SigningUp(p, s, 4) => Now(p) = Insert(SessionRow(s))
                /\ SigningUp(p, s, 5) => Now(p) = Commit
                /\ SigningUp(p, s, 6) => Now(p) = Welcome(s)
           /\ \A i \in 0..4 :
                /\ Seeding(p, i, 1) => Now(p) = Insert(SeedRow(i))
                /\ Seeding(p, i, 2) => Now(p) = Commit
                /\ Seeding(p, i, 3) => Now(p) = Select
           /\ todo[p] = Page => Now(p) = Select
           /\ Migrating(p) => Now(p) \in Schematic
<1>1. ASSUME NEW s \in Slugs, NEW k \in 1..6, SigningUp(p, s, k)
      PROVE  Now(p) = Signup(s)[k]
  BY <1>1, SignupPlaces DEF SigningUp, Now
<1>2. ASSUME NEW i \in 0..4, NEW f \in 1..3, Seeding(p, i, f)
      PROVE  Now(p) = SeedDemo[3 * i + f]
  BY <1>2, SeedPlaces DEF Seeding, Now
<1>3. Migrating(p) => Now(p) \in Schematic
  BY HeadTailProperties DEF Migrating, Now
<1>4. todo[p] = Page => Now(p) = Select
  BY DEF Page, Now
<1> QED
  BY <1>1, <1>2, <1>3, <1>4, SignupList, SeedList

\* The place a statement is at.
LEMMA HeadPlaces ==
    ASSUME Placed, NEW p \in Procs, todo[p] # <<>>
    PROVE  /\ Now(p).op = "select" =>
                \/ todo[p] = Page /\ mode[p] = "serving"
                \/ \E s \in Slugs : SigningUp(p, s, 3)
                \/ \E i \in 0..4 : Seeding(p, i, 3)
           /\ Now(p).op \in {"find_demo", "read_columns", "create", "add_column"} =>
                Migrating(p)
           /\ Now(p).op = "insert" =>
                \/ \E s \in Slugs : SigningUp(p, s, 1) /\ Now(p).row = UserRow(s)
                \/ \E s \in Slugs : SigningUp(p, s, 4) /\ Now(p).row = SessionRow(s)
                \/ \E i \in 0..4 : Seeding(p, i, 1) /\ Now(p).row = SeedRow(i)
           /\ Now(p).op = "commit" => Migrating(p) \/ AtCommit(p)
           /\ Now(p).op = "welcome" =>
                \E s \in Slugs : SigningUp(p, s, 6) /\ Now(p).slug = s
<1>1. CASE todo[p] = Page /\ mode[p] = "serving"
  BY <1>1, PlaceHeads, Ops
<1>2. ASSUME NEW s \in Slugs, NEW k \in 1..6, SigningUp(p, s, k)
      PROVE  \/ SigningUp(p, s, 1) /\ Now(p) = Insert(UserRow(s))
             \/ (SigningUp(p, s, 2) \/ SigningUp(p, s, 5)) /\ Now(p) = Commit
             \/ SigningUp(p, s, 3) /\ Now(p) = Select
             \/ SigningUp(p, s, 4) /\ Now(p) = Insert(SessionRow(s))
             \/ SigningUp(p, s, 6) /\ Now(p) = Welcome(s)
  <2>1. k = 1 \/ k = 2 \/ k = 3 \/ k = 4 \/ k = 5 \/ k = 6
    OBVIOUS
  <2> QED
    BY <1>2, <2>1, PlaceHeads
<1>3. ASSUME NEW i \in 0..4, NEW f \in 1..3, Seeding(p, i, f)
      PROVE  \/ Seeding(p, i, 1) /\ Now(p) = Insert(SeedRow(i))
             \/ Seeding(p, i, 2) /\ Now(p) = Commit
             \/ Seeding(p, i, 3) /\ Now(p) = Select
  <2>1. f = 1 \/ f = 2 \/ f = 3
    OBVIOUS
  <2> QED
    BY <1>3, <2>1, PlaceHeads
<1>4. CASE \E s \in Slugs, k \in 1..6 : SigningUp(p, s, k)
  BY <1>2, <1>4, Ops DEF AtCommit
<1>5. CASE \E i \in 0..4, f \in 1..3 : Seeding(p, i, f)
  BY <1>3, <1>5, Ops DEF AtCommit
<1>6. CASE Migrating(p)
  <2>1. Now(p) \in Schematic
    BY <1>6, PlaceHeads
  <2>2. Now(p).op \notin {"select", "insert", "welcome"}
    BY <2>1, Ops DEF Schematic, Additions
  <2> QED
    BY <1>6, <2>2
<1> QED
  BY <1>1, <1>4, <1>5, <1>6 DEF Placed

\* A process goes on to the next place of its program.
LEMMA Advance ==
    ASSUME TypeOK, Placed, NEW p \in Procs, todo[p] # <<>>, Now(p).op # "find_demo",
           Continue(p, Tail(todo[p]))
    PROVE  /\ Placed'
           /\ Migrating(p) => Migrating(p)'
           /\ \A s \in Slugs, k \in 1..5 : SigningUp(p, s, k) => SigningUp(p, s, k + 1)'
           /\ \A i \in 0..4, f \in 1..2 : Seeding(p, i, f) => Seeding(p, i, f + 1)'
           /\ \A i \in 0..3 : Seeding(p, i, 3) => Seeding(p, i + 1, 1)'
           /\ (\/ todo[p] = Page /\ mode[p] = "serving"
               \/ \E s \in Slugs : SigningUp(p, s, 6)
               \/ Seeding(p, 4, 3))
                => todo'[p] = <<>> /\ mode'[p] = "serving"
           /\ \A q \in Procs \ {p} : todo'[q] = todo[q] /\ mode'[q] = mode[q]
<1>1. /\ todo'[p] = Tail(todo[p])
      /\ mode'[p] = IF Tail(todo[p]) = <<>> THEN "serving" ELSE mode[p]
      /\ \A q \in Procs \ {p} : todo'[q] = todo[q] /\ mode'[q] = mode[q]
  BY DEF Continue, TypeOK
<1>2. ASSUME Migrating(p) PROVE Migrating(p)'
  <2>1. Now(p) # FindDemo
    BY Ops
  <2>2. /\ Tail(todo[p]) \in Seq(Schematic)
        /\ Tail(todo[p]) # <<>>
        /\ Tail(todo[p])[Len(Tail(todo[p]))] = FindDemo
    BY <1>2, <2>1, MigratingGoesOn DEF Migrating, Now
  <2> QED
    BY <1>1, <1>2, <2>2 DEF Migrating
<1>3. ASSUME NEW s \in Slugs, NEW k \in 1..5, SigningUp(p, s, k)
      PROVE  SigningUp(p, s, k + 1)'
  <2>1. k \in 1..6 /\ k + 1 \in 1..6 /\ k # 6
    OBVIOUS
  <2>2. Tail(todo[p]) = SignupAt(s, k + 1) /\ SignupAt(s, k + 1) # <<>>
    BY <1>3, <2>1, SignupPlaces DEF SigningUp
  <2> QED
    BY <1>1, <1>3, <2>2 DEF SigningUp
<1>4. ASSUME NEW i \in 0..4, NEW f \in 1..2, Seeding(p, i, f)
      PROVE  Seeding(p, i, f + 1)'
  <2>1. f \in 1..3 /\ f + 1 \in 1..3 /\ f < 3
    OBVIOUS
  <2>2. Tail(todo[p]) = SeedAt(i, f + 1)
    BY <1>4, <2>1, SeedPlaces DEF Seeding
  <2>3. SeedAt(i, f + 1) # <<>>
    BY <2>1, SeedPlaces
  <2> QED
    BY <1>1, <1>4, <2>2, <2>3 DEF Seeding
<1>5. ASSUME NEW i \in 0..3, Seeding(p, i, 3)
      PROVE  Seeding(p, i + 1, 1)'
  <2>1. i \in 0..4 /\ i + 1 \in 0..4 /\ i < 4 /\ 3 \in 1..3 /\ 1 \in 1..3 /\ ~ (3 < 3)
    OBVIOUS
  <2>2. Tail(todo[p]) = SeedAt(i + 1, 1)
    BY <1>5, <2>1, SeedPlaces DEF Seeding
  <2>3. SeedAt(i + 1, 1) # <<>>
    BY <2>1, SeedPlaces
  <2> QED
    BY <1>1, <1>5, <2>2, <2>3 DEF Seeding
<1>6. ASSUME \/ todo[p] = Page /\ mode[p] = "serving"
             \/ \E s \in Slugs : SigningUp(p, s, 6)
             \/ Seeding(p, 4, 3)
      PROVE  todo'[p] = <<>> /\ mode'[p] = "serving"
  <2>1. CASE todo[p] = Page /\ mode[p] = "serving"
    BY <1>1, <2>1 DEF Page
  <2>2. CASE \E s \in Slugs : SigningUp(p, s, 6)
    BY <1>1, <2>2, SignupPlaces DEF SigningUp
  <2>3. CASE Seeding(p, 4, 3)
    <3>1. 4 \in 0..4 /\ 3 \in 1..3 /\ ~ (3 < 3) /\ ~ (4 < 4)
      OBVIOUS
    <3>2. Tail(SeedAt(4, 3)) = <<>>
      BY <3>1, SeedPlaces
    <3> QED
      BY <1>1, <2>3, <3>2 DEF Seeding
  <2> QED
    BY <1>6, <2>1, <2>2, <2>3
<1>7. ASSUME NEW q \in Procs
      PROVE  \/ todo'[q] = <<>> /\ mode'[q] # "starting"
             \/ todo'[q] = Page /\ mode'[q] = "serving"
             \/ \E slug \in Slugs, k \in 1..6 : SigningUp(q, slug, k)'
             \/ \E i \in 0..4, phase \in 1..3 : Seeding(q, i, phase)'
             \/ Migrating(q)'
  <2>1. CASE q # p
    BY <1>1, <2>1 DEF Placed, SigningUp, Seeding, Migrating
  <2>2. CASE q = p
    <3>1. CASE todo[p] = Page /\ mode[p] = "serving"
      BY <1>6, <2>2, <3>1
    <3>2. ASSUME NEW s \in Slugs, NEW k \in 1..6, SigningUp(p, s, k)
          PROVE  \/ todo'[p] = <<>> /\ mode'[p] = "serving"
                 \/ SigningUp(p, s, k + 1)' /\ k + 1 \in 1..6
      <4>1. k = 6 \/ (k \in 1..5 /\ k + 1 \in 1..6)
        OBVIOUS
      <4> QED
        BY <1>3, <1>6, <3>2, <4>1
    <3>3. ASSUME NEW i \in 0..4, NEW f \in 1..3, Seeding(p, i, f)
          PROVE  \/ todo'[p] = <<>> /\ mode'[p] = "serving"
                 \/ Seeding(p, i, f + 1)' /\ f + 1 \in 1..3
                 \/ Seeding(p, i + 1, 1)' /\ i + 1 \in 0..4 /\ 1 \in 1..3
      <4>1. \/ f \in 1..2 /\ f + 1 \in 1..3
            \/ f = 3 /\ i \in 0..3 /\ i + 1 \in 0..4 /\ 1 \in 1..3
            \/ f = 3 /\ i = 4
        OBVIOUS
      <4> QED
        BY <1>4, <1>5, <1>6, <3>3, <4>1
    <3>4. CASE Migrating(p)
      BY <1>2, <2>2, <3>4
    <3> QED
      BY <2>2, <3>1, <3>2, <3>3, <3>4 DEF Placed
  <2> QED
    BY <2>1, <2>2
<1> QED
  BY <1>1, <1>2, <1>3, <1>4, <1>5, <1>6, <1>7 DEF Placed

\* The places of the other processes do not change when one moves.
LEMMA OthersPlaced ==
    ASSUME Placed, NEW p \in Procs,
           \A q \in Procs \ {p} : todo'[q] = todo[q] /\ mode'[q] = mode[q],
           \/ todo'[p] = <<>> /\ mode'[p] # "starting"
           \/ todo'[p] = Page /\ mode'[p] = "serving"
           \/ \E slug \in Slugs, k \in 1..6 : SigningUp(p, slug, k)'
           \/ \E i \in 0..4, phase \in 1..3 : Seeding(p, i, phase)'
           \/ Migrating(p)'
    PROVE  Placed'
<1>1. ASSUME NEW q \in Procs
      PROVE  \/ todo'[q] = <<>> /\ mode'[q] # "starting"
             \/ todo'[q] = Page /\ mode'[q] = "serving"
             \/ \E slug \in Slugs, k \in 1..6 : SigningUp(q, slug, k)'
             \/ \E i \in 0..4, phase \in 1..3 : Seeding(q, i, phase)'
             \/ Migrating(q)'
  <2>1. CASE q = p
    BY <2>1
  <2>2. CASE q # p
    BY <2>2 DEF Placed, SigningUp, Seeding, Migrating
  <2> QED
    BY <2>1, <2>2
<1> QED
  BY <1>1 DEF Placed

\* The look for the demo user ends the start, or begins the seed.
LEMMA CheckSeedPlaces ==
    ASSUME TypeOK, Placed, NEW p \in Procs, CheckSeed(p)
    PROVE  /\ Placed'
           /\ Migrating(p)
           /\ \A q \in Procs \ {p} : todo'[q] = todo[q] /\ mode'[q] = mode[q]
           /\ \/ Present(p, UserRow(Demo)) /\ todo'[p] = <<>> /\ mode'[p] = "serving"
              \/ ~ Present(p, UserRow(Demo)) /\ Seeding(p, 0, 1)'
<1>1. Migrating(p)
  BY HeadPlaces DEF CheckSeed, At
<1>2. SeedDemo # <<>> /\ SeedDemo = SeedAt(0, 1)
  <2>1. 0 \in 0..4 /\ 1 \in 1..3
    OBVIOUS
  <2>2. SeedAt(0, 1) # <<>>
    BY <2>1, SeedPlaces
  <2> QED
    BY <2>2, SeedDistinct
<1>3. \A q \in Procs \ {p} : todo'[q] = todo[q] /\ mode'[q] = mode[q]
  BY DEF CheckSeed, Continue, TypeOK
<1>4. CASE Present(p, UserRow(Demo))
  <2>1. todo'[p] = <<>> /\ mode'[p] = "serving"
    BY <1>4 DEF CheckSeed, Continue, TypeOK
  <2> QED
    BY <1>1, <1>3, <1>4, <2>1, OthersPlaced
<1>5. CASE ~ Present(p, UserRow(Demo))
  <2>1. Seeding(p, 0, 1)'
    BY <1>1, <1>2, <1>5 DEF CheckSeed, Continue, TypeOK, Seeding, Migrating
  <2>2. 0 \in 0..4 /\ 1 \in 1..3
    OBVIOUS
  <2>3. Placed'
    BY <1>3, <2>1, <2>2, OthersPlaced
  <2> QED
    BY <1>1, <1>3, <1>5, <2>1, <2>3
<1> QED
  BY <1>4, <1>5

\* After a column list the migration goes on.
LEMMA TableInfoPlaces ==
    ASSUME TypeOK, Placed, NEW p \in Procs, TableInfo(p)
    PROVE  /\ Placed'
           /\ Migrating(p)
           /\ Migrating(p)'
           /\ Now(p).group \in Groups
           /\ todo' = [todo EXCEPT ![p] = Alters(Now(p).group) \o Tail(todo[p])]
           /\ mode' = mode
           /\ company' = company
<1> DEFINE group == Now(p).group
           rest  == Alters(group) \o Tail(todo[p])
<1>1. Migrating(p) /\ Now(p).op = "read_columns"
  BY HeadPlaces DEF TableInfo, At
<1>2. Now(p) \in Schematic /\ Now(p) # FindDemo
  BY <1>1, PlaceHeads, Ops
<1>3. group \in Groups
  BY <1>1, <1>2, Ops DEF Schematic, Additions
<1>4. /\ Tail(todo[p]) \in Seq(Schematic)
      /\ Tail(todo[p]) # <<>>
      /\ Tail(todo[p])[Len(Tail(todo[p]))] = FindDemo
  BY <1>1, <1>2, MigratingGoesOn DEF Migrating, Now
<1>5. Alters(group) \in Seq(Additions)
  BY <1>3, AltersPromise
<1>6. /\ rest \in Seq(Schematic)
      /\ rest # <<>>
      /\ rest[Len(rest)] = FindDemo
  BY <1>4, <1>5, MigratingAlters
<1>7. Continue(p, rest)
  BY DEF TableInfo
<1> HIDE DEF rest
<1>8. todo' = [todo EXCEPT ![p] = rest] /\ mode' = mode /\ company' = company
  BY <1>6, <1>7 DEF Continue
<1>9. Migrating(p)'
  BY <1>1, <1>6, <1>8 DEF Migrating, TypeOK
<1>10. Placed'
  BY <1>8, <1>9, OthersPlaced DEF TypeOK
<1> QED
  BY <1>1, <1>3, <1>8, <1>9, <1>10 DEF rest

\* A process that starts has a migration before it.
LEMMA StartPlaces ==
    ASSUME TypeOK, Placed, NEW p \in Procs, Start(p)
    PROVE  /\ Placed'
           /\ Migrating(p)'
           /\ \A q \in Procs \ {p} : todo'[q] = todo[q] /\ mode'[q] = mode[q]
<1>1. /\ todo'[p] = StartUp /\ mode'[p] = "starting"
      /\ \A q \in Procs \ {p} : todo'[q] = todo[q] /\ mode'[q] = mode[q]
  BY DEF Start, TypeOK
<1>2. Migrating(p)'
  BY <1>1, StartMigrating DEF Migrating
<1> QED
  BY <1>1, <1>2, OthersPlaced

\* A request is for a page, or a signup at its beginning.
LEMMA RequestPlaces ==
    ASSUME TypeOK, Placed, NEW p \in Procs, Request(p)
    PROVE  /\ Placed'
           /\ mode[p] = "serving" /\ mode' = mode
           /\ todo'[p] = Page \/ \E s \in Slugs : SigningUp(p, s, 1)'
           /\ \A q \in Procs \ {p} : todo'[q] = todo[q]
<1> PICK program \in Programs : todo' = [todo EXCEPT ![p] = program]
  BY DEF Request
<1>1. mode[p] = "serving" /\ mode' = mode /\ todo'[p] = program
        /\ \A q \in Procs \ {p} : todo'[q] = todo[q]
  BY DEF Request, TypeOK
<1>2. ASSUME NEW s \in Slugs, program = Signup(s)
      PROVE  SigningUp(p, s, 1)'
  <2>1. SubSeq(Signup(s), 1, Len(Signup(s))) = Signup(s)
    BY SignupList, SubSeqFull
  <2>2. SignupAt(s, 1) = Signup(s)
    BY <2>1, SignupList DEF SignupAt
  <2> QED
    BY <1>1, <1>2, <2>2 DEF SigningUp
<1>3. todo'[p] = Page \/ \E s \in Slugs : SigningUp(p, s, 1)'
  BY <1>1, <1>2 DEF Programs
<1>4. 1 \in 1..6
  OBVIOUS
<1>5. Placed'
  BY <1>1, <1>3, <1>4, OthersPlaced
<1> QED
  BY <1>1, <1>3, <1>5

\* A process that stops, or drops a request, has nothing left to do.
LEMMA DroppedPlaces ==
    ASSUME TypeOK, Placed, NEW p \in Procs,
           todo' = [todo EXCEPT ![p] = <<>>],
           \/ mode' = [mode EXCEPT ![p] = "down"]
           \/ mode' = [mode EXCEPT ![p] = "failed"]
           \/ mode[p] = "serving" /\ mode' = mode
    PROVE  Placed'
<1>1. /\ todo'[p] = <<>> /\ mode'[p] # "starting"
      /\ \A q \in Procs \ {p} : todo'[q] = todo[q] /\ mode'[q] = mode[q]
  BY DEF TypeOK
<1> QED
  BY <1>1, OthersPlaced

LEMMA RaisePlaces ==
    ASSUME TypeOK, Placed, NEW p \in Procs, NEW txn, NEW held, Raise(p, txn, held)
    PROVE  Placed'
<1>1. /\ todo' = [todo EXCEPT ![p] = <<>>]
      /\ \/ mode' = [mode EXCEPT ![p] = "failed"]
         \/ mode[p] = "serving" /\ mode' = mode
  BY DEF Raise, Exit
<1> QED
  BY <1>1, DroppedPlaces

\* Every process stands at a place of one of its programs, always.
LEMMA NextPlaced == TypeOK /\ Placed /\ [Next]_vars => Placed'
<1> SUFFICES ASSUME TypeOK, Placed, [Next]_vars PROVE Placed'
  OBVIOUS
<1>1. CASE UNCHANGED vars
  BY <1>1 DEF vars, Placed, SigningUp, Seeding, Migrating
<1>2. ASSUME NEW p \in Procs, Crash(p) PROVE Placed'
  <2>1. /\ todo' = [todo EXCEPT ![p] = <<>>]
        /\ mode' = [mode EXCEPT ![p] = "down"]
    BY <1>2 DEF Crash, Exit
  <2> QED
    BY <2>1, DroppedPlaces
<1>3. ASSUME NEW p \in Procs, Step(p) PROVE Placed'
  <2>1. CASE Read(p) \/ PassOver(p) \/ Define(p) \/ Write(p) \/ Publish(p) \/ Answer(p)
    <3>1. /\ todo[p] # <<>> /\ Continue(p, Tail(todo[p]))
          /\ Now(p).op \in {"select", "create", "add_column", "insert", "commit", "welcome"}
      BY <2>1 DEF Read, PassOver, Define, ChangesSchema, Write, Publish, Answer, At
    <3> QED
      BY <3>1, Advance
  <2>2. CASE DefineFails(p) \/ WriteDuplicate(p) \/ Locked(p)
    BY <2>2, RaisePlaces DEF DefineFails, WriteDuplicate, Locked
  <2>3. CASE AwaitReaders(p)
    BY <2>3 DEF AwaitReaders, Placed, SigningUp, Seeding, Migrating
  <2> QED
    BY <1>3, <2>1, <2>2, <2>3, CheckSeedPlaces, TableInfoPlaces DEF Step
<1> QED
  BY <1>1, <1>2, <1>3, StartPlaces, RequestPlaces DEF Next

-----------------------------------------------------------------------------
(* Locks and transactions. *)

\* A step of p leaves the connections of the others as they are.
OnlyMoves(p) ==
    \A q \in Procs \ {p} :
        /\ todo'[q] = todo[q] /\ mode'[q] = mode[q]
        /\ inTxn'[q] = inTxn[q] /\ lock'[q] = lock[q] /\ dirty'[q] = dirty[q]
        /\ failed'[q] = failed[q]

LEMMA OthersOrderly ==
    ASSUME NEW p \in Procs, NEW q \in Procs \ {p}, OnlyMoves(p), Orderly(q),
           schema' = schema \/ lock[q] = "none"
    PROVE  Orderly(q)'
<1>1. /\ Up(q)' <=> Up(q)
      /\ Migrating(q)' <=> Migrating(q)
      /\ AtCommit(q)' <=> AtCommit(q)
      /\ Writes(q)' <=> Writes(q)
  BY DEF OnlyMoves, Up, Migrating, AtCommit, SigningUp, Seeding, Writes
<1>2. schema' = schema => (ChangesSchema(q)' <=> ChangesSchema(q))
  BY DEF OnlyMoves, ChangesSchema, At, Now
<1> QED
  BY <1>1, <1>2 DEF OnlyMoves, Orderly

\* Nobody becomes a writer but p, who was free to.
LEMMA StillOneWriter ==
    ASSUME OneWriter, NEW p \in Procs, OnlyMoves(p),
           Writes(p)' => CanWrite(p)
    PROVE  OneWriter'
<1>1. \A q \in Procs \ {p} : Writes(q)' <=> Writes(q)
  BY DEF OnlyMoves, Writes
<1>2. CanWrite(p) => \A q \in Procs \ {p} : ~ Writes(q)
  BY DEF CanWrite, Others, Writes, OneWriter
<1> QED
  BY <1>1, <1>2 DEF OneWriter

\* Both at once.
LEMMA LocksKept ==
    ASSUME LocksHeld, NEW p \in Procs, OnlyMoves(p), Writes(p)' => CanWrite(p),
           schema' = schema \/ \A q \in Procs \ {p} : lock[q] = "none",
           Orderly(p)'
    PROVE  LocksHeld'
<1>1. OneWriter'
  BY StillOneWriter DEF LocksHeld
<1>2. ASSUME NEW q \in Procs PROVE Orderly(q)'
  BY OthersOrderly DEF LocksHeld
<1> QED
  BY <1>1, <1>2 DEF LocksHeld

\* Who has a transaction open is up.
LEMMA TransactionsUp ==
    ASSUME TypeOK, Placed, LocksHeld, NEW p \in Procs
    PROVE  /\ Writes(p) => CanWrite(p)
           /\ inTxn[p] /\ ~ failed[p] => todo[p] # <<>> /\ Now(p).op = "commit"
<1>1. Writes(p) => CanWrite(p)
  BY DEF Writes, CanWrite
<1>2. AtCommit(p) => Now(p) = Commit
  BY PlaceHeads DEF AtCommit
<1>3. AtCommit(p) => todo[p] # <<>>
  <2>1. 2 \in 1..6 /\ 5 \in 1..6 /\ 2 \in 1..3
    OBVIOUS
  <2>2. \A s \in Slugs : SignupAt(s, 2) # <<>> /\ SignupAt(s, 5) # <<>>
    BY <2>1, SignupPlaces
  <2>3. \A i \in 0..4 : SeedAt(i, 2) # <<>>
    BY <2>1, SeedPlaces
  <2> QED
    BY <2>2, <2>3 DEF AtCommit, SigningUp, Seeding
<1> QED
  BY <1>1, <1>2, <1>3, Ops DEF LocksHeld, Orderly

\* A process that is gone holds nothing.
LEMMA ExitLocks ==
    ASSUME TypeOK, LocksHeld, NEW p \in Procs, NEW how \in {"down", "failed"}, Exit(p, how)
    PROVE  LocksHeld' /\ OnlyMoves(p)
<1>1. OnlyMoves(p)
  BY DEF Exit, OnlyMoves, TypeOK
<1>2. /\ mode'[p] = how /\ inTxn'[p] = FALSE /\ lock'[p] = "none" /\ dirty'[p] = NoRows
      /\ failed'[p] = FALSE /\ schema' = schema
  BY DEF Exit, TypeOK
<1>3. Orderly(p)'
  BY <1>2 DEF Orderly, Migrating
<1>4. ~ Writes(p)'
  BY <1>2 DEF Writes
<1> QED
  BY <1>1, <1>2, <1>3, <1>4, LocksKept

\* A start, or a request, begins without a transaction unless one failed.
LEMMA BeginLocks ==
    ASSUME TypeOK, Placed, LocksHeld, NEW p \in Procs, Start(p) \/ Request(p)
    PROVE  LocksHeld' /\ OnlyMoves(p)
<1>1. OnlyMoves(p)
  BY DEF Start, Request, OnlyMoves, TypeOK
<1>2. /\ inTxn' = inTxn /\ lock' = lock /\ dirty' = dirty /\ failed' = failed
      /\ schema' = schema
  BY DEF Start, Request
<1>3. Writes(p)' => CanWrite(p)
  BY <1>2, TransactionsUp DEF Writes
<1>4. todo[p] = <<>>
  BY DEF Start, Request, Placed, Up, SigningUp, Seeding, Migrating
<1>5. inTxn[p] => failed[p]
  BY <1>4, TransactionsUp
<1>6. lock[p] # "none" => inTxn[p]
  BY <1>4 DEF LocksHeld, Orderly, ChangesSchema, At
<1>7. CASE Start(p)
  <2>1. mode'[p] = "starting" /\ ~ Up(p)
    BY <1>7 DEF Start, TypeOK
  <2>2. ~ inTxn[p] /\ lock[p] = "none" /\ dirty[p] = NoRows /\ ~ failed[p]
    BY <1>5, <1>6, <2>1 DEF LocksHeld, Orderly
  <2>3. Orderly(p)'
    BY <1>2, <2>2 DEF Orderly
  <2> QED
    BY <1>1, <1>2, <1>3, <2>3, LocksKept
<1>8. CASE Request(p)
  <2>1. mode'[p] = "serving" /\ mode[p] = "serving"
    BY <1>8 DEF Request
  <2>2. Orderly(p)'
    BY <1>2, <1>5, <1>6, <2>1 DEF LocksHeld, Orderly, Migrating, Up, Writes
  <2> QED
    BY <1>1, <1>2, <1>3, <2>2, LocksKept
<1> QED
  BY <1>7, <1>8

\* A statement that raised leaves a transaction only to a request, as failed.
LEMMA RaiseLocks ==
    ASSUME TypeOK, Placed, LocksHeld, NEW p \in Procs,
           NEW txn \in BOOLEAN, NEW held \in Locks, Raise(p, txn, held),
           inTxn[p] => txn,
           held = lock[p] \/ (held \in {"reserved", "pending"} /\ CanWrite(p) /\ txn)
    PROVE  LocksHeld' /\ OnlyMoves(p)
<1>1. CASE mode[p] = "starting" /\ Exit(p, "failed")
  BY <1>1, ExitLocks
<1>2. CASE ~ (mode[p] = "starting" /\ Exit(p, "failed"))
  <2>1. /\ mode[p] = "serving" /\ mode' = mode /\ schema' = schema
        /\ todo' = [todo EXCEPT ![p] = <<>>]
        /\ inTxn' = [inTxn EXCEPT ![p] = txn]
        /\ lock' = [lock EXCEPT ![p] = held]
        /\ failed' = [failed EXCEPT ![p] = txn]
        /\ dirty' = dirty
    BY <1>2 DEF Raise
  <2>2. OnlyMoves(p)
    BY <2>1 DEF OnlyMoves, TypeOK
  <2>3. /\ mode'[p] = "serving" /\ inTxn'[p] = txn /\ lock'[p] = held /\ failed'[p] = txn
        /\ dirty'[p] = dirty[p]
    BY <2>1 DEF TypeOK
  <2>4. Writes(p)' => CanWrite(p)
    BY <2>3, TransactionsUp DEF Writes
  <2>5. lock[p] # "none" => inTxn[p]
    BY <2>1 DEF LocksHeld, Orderly, Migrating
  <2>6. dirty[p] # NoRows => inTxn[p] /\ Writes(p)
    BY DEF LocksHeld, Orderly
  <2>7. Orderly(p)'
    BY <2>3, <2>5, <2>6 DEF Orderly, Migrating, Up, Writes
  <2> QED
    BY <2>1, <2>2, <2>4, <2>7, LocksKept
<1> QED
  BY <1>1, <1>2

\* What is read without a transaction leaves no lock behind.
LEMMA LookLocks ==
    ASSUME TypeOK, Placed, LocksHeld, NEW p \in Procs,
           Read(p) \/ CheckSeed(p) \/ TableInfo(p) \/ PassOver(p)
    PROVE  LocksHeld' /\ OnlyMoves(p)
<1>1. /\ todo[p] # <<>>
      /\ Now(p).op \in {"select", "find_demo", "read_columns", "create"}
      /\ inTxn' = inTxn /\ dirty' = dirty /\ failed' = failed /\ schema' = schema
  BY DEF Read, CheckSeed, TableInfo, PassOver, At
<1>2. \/ lock' = lock
      \/ lock' = [lock EXCEPT ![p] = "shared"] /\ inTxn[p] /\ lock[p] = "none"
  BY DEF Read, CheckSeed, TableInfo, PassOver, HeldByReading
<1>3. \A q \in Procs \ {p} : todo'[q] = todo[q] /\ mode'[q] = mode[q]
  BY DEF Read, CheckSeed, TableInfo, PassOver, Continue, TypeOK
<1>4. OnlyMoves(p)
  BY <1>1, <1>2, <1>3 DEF OnlyMoves, TypeOK
<1>5. mode'[p] \in {mode[p], "serving"}
  BY DEF Read, CheckSeed, TableInfo, PassOver, Continue, TypeOK
<1>6. Up(p) /\ Up(p)'
  <2>1. mode[p] \in {"starting", "serving"}
    BY <1>1 DEF Placed, SigningUp, Seeding, Migrating
  <2> QED
    BY <1>5, <2>1 DEF Up
<1>7. inTxn[p] => failed[p]
  BY <1>1, TransactionsUp
<1>8. failed[p] => mode[p] = "serving" /\ inTxn[p]
  BY DEF LocksHeld, Orderly
<1>9. ~ ChangesSchema(p)
  <2>1. CASE PassOver(p)
    BY <2>1, Ops DEF PassOver, ChangesSchema, At
  <2>2. CASE Read(p) \/ CheckSeed(p) \/ TableInfo(p)
    BY <2>2 DEF Read, CheckSeed, TableInfo, ChangesSchema, At
  <2> QED
    BY <2>1, <2>2
<1>10. lock[p] # "none" => inTxn[p]
  BY <1>9 DEF LocksHeld, Orderly
<1>11. dirty[p] # NoRows => inTxn[p] /\ Writes(p)
  BY DEF LocksHeld, Orderly
<1>12. Writes(p)' => Writes(p)
  BY <1>2 DEF Writes, TypeOK
<1>13. Writes(p) => Writes(p)'
  BY <1>2 DEF Writes
<1>14. lock'[p] # "none" => inTxn[p]
  BY <1>2, <1>10 DEF TypeOK
<1>15. failed[p] => mode'[p] = "serving"
  BY <1>5, <1>8
<1>16. Orderly(p)'
  BY <1>1, <1>6, <1>7, <1>8, <1>11, <1>13, <1>14, <1>15 DEF Orderly, Migrating
<1> QED
  BY <1>1, <1>4, <1>12, <1>16, LocksKept, TransactionsUp

\* A schema change commits by itself, when nobody else holds a lock.
LEMMA DefineLocks ==
    ASSUME TypeOK, Placed, LocksHeld, NEW p \in Procs, Define(p)
    PROVE  LocksHeld' /\ OnlyMoves(p)
<1>1. /\ todo[p] # <<>> /\ Now(p).op \in {"create", "add_column"}
      /\ inTxn' = inTxn /\ dirty' = dirty /\ failed' = failed
      /\ lock' = [lock EXCEPT ![p] = "none"]
      /\ Continue(p, Tail(todo[p]))
      /\ \A q \in Procs \ {p} : lock[q] = "none"
  BY DEF Define, ChangesSchema, At, Alone, Others
<1>2. Migrating(p)
  BY <1>1, HeadPlaces
<1>3. Migrating(p)' /\ \A q \in Procs \ {p} : todo'[q] = todo[q] /\ mode'[q] = mode[q]
  BY <1>1, <1>2, Advance
<1>4. OnlyMoves(p)
  BY <1>1, <1>3 DEF OnlyMoves, TypeOK
<1>5. ~ inTxn[p] /\ ~ failed[p] /\ dirty[p] = NoRows
  BY <1>2 DEF LocksHeld, Orderly
<1>6. lock'[p] = "none"
  BY <1>1 DEF TypeOK
<1>7. Orderly(p)'
  BY <1>1, <1>5, <1>6 DEF Orderly
<1>8. ~ Writes(p)'
  BY <1>6 DEF Writes
<1> QED
  BY <1>1, <1>4, <1>7, <1>8, LocksKept

\* An insert takes the write lock, and a commit comes next.
LEMMA WriteLocks ==
    ASSUME TypeOK, Placed, LocksHeld, NEW p \in Procs, Write(p)
    PROVE  LocksHeld' /\ OnlyMoves(p)
<1>1. /\ todo[p] # <<>> /\ Now(p).op = "insert" /\ CanWrite(p)
      /\ inTxn' = [inTxn EXCEPT ![p] = TRUE]
      /\ lock' = [lock EXCEPT ![p] = WriteLock(p)]
      /\ dirty' = [dirty EXCEPT ![p][Now(p).row] = @ + 1]
      /\ failed' = failed /\ schema' = schema
      /\ Continue(p, Tail(todo[p]))
  BY DEF Write, At
<1>2. \A q \in Procs \ {p} : todo'[q] = todo[q] /\ mode'[q] = mode[q]
  BY <1>1, Advance
<1>3. OnlyMoves(p)
  BY <1>1, <1>2 DEF OnlyMoves, TypeOK
<1>4. lock'[p] \in {"reserved", "pending"} /\ inTxn'[p]
  BY <1>1 DEF WriteLock, TypeOK
<1>5. AtCommit(p)' /\ Up(p)'
  <2>1. CASE \E s \in Slugs : SigningUp(p, s, 1)
    <3>1. 1 \in 1..5 /\ 1 + 1 = 2
      OBVIOUS
    <3>2. \E s \in Slugs : SigningUp(p, s, 2)'
      BY <1>1, <2>1, <3>1, Advance
    <3> QED
      BY <3>2 DEF AtCommit, SigningUp, Up
  <2>2. CASE \E s \in Slugs : SigningUp(p, s, 4)
    <3>1. 4 \in 1..5 /\ 4 + 1 = 5
      OBVIOUS
    <3>2. \E s \in Slugs : SigningUp(p, s, 5)'
      BY <1>1, <2>2, <3>1, Advance
    <3> QED
      BY <3>2 DEF AtCommit, SigningUp, Up
  <2>3. CASE \E i \in 0..4 : Seeding(p, i, 1)
    <3>1. 1 \in 1..2 /\ 1 + 1 = 2
      OBVIOUS
    <3>2. \E i \in 0..4 : Seeding(p, i, 2)'
      BY <1>1, <2>3, <3>1, Advance
    <3> QED
      BY <3>2 DEF AtCommit, Seeding, Up
  <2> QED
    BY <1>1, <2>1, <2>2, <2>3, HeadPlaces
<1>6. ~ Migrating(p)'
  <2>1. 2 \in 1..3
    OBVIOUS
  <2> QED
    BY <1>5, <2>1, SeedDistinct DEF AtCommit, SigningUp, Seeding, Migrating
<1>7. failed[p] => mode'[p] = "serving"
  BY <1>1 DEF LocksHeld, Orderly, Continue, TypeOK
<1>8. Orderly(p)'
  BY <1>1, <1>4, <1>5, <1>6, <1>7 DEF Orderly, Writes
<1> QED
  BY <1>1, <1>3, <1>8, LocksKept

\* A commit gives everything up.
LEMMA PublishLocks ==
    ASSUME TypeOK, Placed, LocksHeld, NEW p \in Procs, Publish(p)
    PROVE  LocksHeld' /\ OnlyMoves(p)
<1>1. /\ todo[p] # <<>> /\ Now(p).op = "commit"
      /\ inTxn' = [inTxn EXCEPT ![p] = FALSE]
      /\ lock' = [lock EXCEPT ![p] = "none"]
      /\ dirty' = [dirty EXCEPT ![p] = NoRows]
      /\ failed' = [failed EXCEPT ![p] = FALSE]
      /\ schema' = schema
      /\ Continue(p, Tail(todo[p]))
  BY DEF Publish, At
<1>2. \A q \in Procs \ {p} : todo'[q] = todo[q] /\ mode'[q] = mode[q]
  BY <1>1, Advance
<1>3. OnlyMoves(p)
  BY <1>1, <1>2 DEF OnlyMoves, TypeOK
<1>4. ~ inTxn'[p] /\ lock'[p] = "none" /\ dirty'[p] = NoRows /\ ~ failed'[p]
  BY <1>1 DEF TypeOK
<1>5. Orderly(p)' /\ ~ Writes(p)'
  BY <1>4 DEF Orderly, Writes
<1> QED
  BY <1>1, <1>3, <1>5, LocksKept

\* Who waits for readers is the writer, or changes the schema.
LEMMA AwaitLocks ==
    ASSUME TypeOK, Placed, LocksHeld, NEW p \in Procs, AwaitReaders(p)
    PROVE  LocksHeld' /\ OnlyMoves(p)
<1>1. /\ lock' = [lock EXCEPT ![p] = "pending"]
      /\ schema' = schema /\ mode' = mode /\ todo' = todo /\ inTxn' = inTxn
      /\ dirty' = dirty /\ failed' = failed
  BY DEF AwaitReaders
<1>2. OnlyMoves(p) /\ lock'[p] = "pending"
  BY <1>1 DEF OnlyMoves, TypeOK
<1>3. CanWrite(p)
  BY DEF AwaitReaders, CanWrite
<1>4. /\ Up(p)' <=> Up(p)
      /\ Migrating(p)' <=> Migrating(p)
      /\ AtCommit(p)' <=> AtCommit(p)
      /\ ChangesSchema(p)' <=> ChangesSchema(p)
  BY <1>1 DEF Up, Migrating, AtCommit, SigningUp, Seeding, ChangesSchema, At, Now
<1>5. inTxn[p] \/ (Migrating(p) /\ ChangesSchema(p))
  <2>1. CASE At(p, "commit") /\ lock[p] = "reserved"
    BY <2>1 DEF LocksHeld, Orderly
  <2>2. CASE ChangesSchema(p)
    BY <2>2, HeadPlaces DEF ChangesSchema, At
  <2> QED
    BY <2>1, <2>2 DEF AwaitReaders
<1>6. Orderly(p)'
  BY <1>1, <1>2, <1>4, <1>5 DEF LocksHeld, Orderly, Writes
<1> QED
  BY <1>1, <1>2, <1>3, <1>6, LocksKept

\* The answer to a signup changes no lock; its transactions are committed.
LEMMA AnswerLocks ==
    ASSUME TypeOK, Placed, LocksHeld, NEW p \in Procs, Answer(p)
    PROVE  LocksHeld' /\ OnlyMoves(p)
<1>1. /\ todo[p] # <<>> /\ Now(p).op = "welcome"
      /\ inTxn' = inTxn /\ lock' = lock /\ dirty' = dirty /\ failed' = failed
      /\ schema' = schema
      /\ Continue(p, Tail(todo[p]))
  BY DEF Answer, At
<1>2. \A q \in Procs \ {p} : todo'[q] = todo[q] /\ mode'[q] = mode[q]
  BY <1>1, Advance
<1>3. OnlyMoves(p)
  BY <1>1, <1>2 DEF OnlyMoves, TypeOK
<1>4. inTxn[p] => failed[p]
  BY <1>1, TransactionsUp
<1>5. mode'[p] = "serving"
  BY <1>1, HeadPlaces, Advance
<1>6. lock[p] # "none" => inTxn[p]
  BY <1>1 DEF LocksHeld, Orderly, ChangesSchema, At
<1>7. Orderly(p)'
  BY <1>1, <1>4, <1>5, <1>6 DEF LocksHeld, Orderly, Migrating, Up, Writes
<1>8. Writes(p)' => CanWrite(p)
  BY <1>1, TransactionsUp DEF Writes
<1> QED
  BY <1>1, <1>3, <1>7, <1>8, LocksKept

LEMMA StepLocks ==
    ASSUME TypeOK, Placed, LocksHeld, NEW p \in Procs, Step(p)
    PROVE  LocksHeld' /\ OnlyMoves(p)
<1>1. lock[p] \in Locks /\ inTxn[p] \in BOOLEAN
  BY DEF TypeOK
<1>2. CASE DefineFails(p)
  BY <1>1, <1>2, RaiseLocks DEF DefineFails
<1>3. CASE WriteDuplicate(p)
  <2>1. WriteLock(p) \in {"reserved", "pending"} /\ WriteLock(p) \in Locks
    BY DEF WriteLock, Locks
  <2>2. Raise(p, TRUE, WriteLock(p)) /\ CanWrite(p)
    BY <1>3 DEF WriteDuplicate
  <2> QED
    BY <2>1, <2>2, RaiseLocks
<1>4. CASE Locked(p)
  <2> DEFINE txn == inTxn[p] \/ At(p, "insert")
  <2>1. txn \in BOOLEAN /\ (inTxn[p] => txn)
    BY DEF At
  <2>2. Raise(p, txn, lock[p])
    BY <1>4 DEF Locked
  <2> HIDE DEF txn
  <2> QED
    BY <1>1, <2>1, <2>2, RaiseLocks
<1> QED
  BY <1>2, <1>3, <1>4, LookLocks, DefineLocks, WriteLocks, PublishLocks, AwaitLocks,
     AnswerLocks DEF Step

LEMMA NextLocks ==
    TypeOK /\ Placed /\ LocksHeld /\ [Next]_vars => LocksHeld'
<1> SUFFICES ASSUME TypeOK, Placed, LocksHeld, [Next]_vars PROVE LocksHeld'
  OBVIOUS
<1>1. CASE UNCHANGED vars
  <2>1. /\ OneWriter' <=> OneWriter
        /\ \A p \in Procs : Orderly(p)' <=> Orderly(p)
    BY <1>1 DEF vars, OneWriter, Writes, Orderly, Up, Migrating, ChangesSchema, At, Now,
        AtCommit, SigningUp, Seeding
  <2> QED
    BY <2>1 DEF LocksHeld
<1>2. ASSUME NEW p \in Procs, Crash(p) PROVE LocksHeld'
  BY <1>2, ExitLocks DEF Crash
<1> QED
  BY <1>1, <1>2, BeginLocks, StepLocks DEF Next

\* The invariant so far.
Core == TypeOK /\ SchemaPromised /\ Placed /\ LocksHeld

LEMMA CoreInvariant == Core /\ [Next]_vars => Core'
  BY NextSchema, NextTyped, NextPlaced, NextLocks DEF Core

LEMMA InitCore == Init => Core
<1> SUFFICES ASSUME Init PROVE Core
  OBVIOUS
<1>1. Placed
  BY DEF Init, Placed
<1>2. LocksHeld
  <2>1. ASSUME NEW p \in Procs
        PROVE  /\ mode[p] = "down" /\ ~ inTxn[p] /\ lock[p] = "none"
               /\ dirty[p] = NoRows /\ ~ failed[p]
    BY DEF Init
  <2>2. \A p \in Procs : Orderly(p)
    BY <2>1 DEF Orderly
  <2>3. OneWriter
    BY <2>1 DEF OneWriter, Writes
  <2> QED
    BY <2>2, <2>3 DEF LocksHeld
<1> QED
  BY <1>1, <1>2, InitTyped DEF Core

\* Between requests a connection holds nothing unless a statement failed in
\* its transaction (create_user and create_session commit what they insert;
\* nothing rolls back).
THEOREM IdleConnectionsUnlocked == Spec => []IdleIsUnlocked
<1>1. Core => IdleIsUnlocked
  <2> SUFFICES ASSUME Core, NEW p \in Procs, todo[p] = <<>>, ~ failed[p]
               PROVE  lock[p] = "none" /\ ~ inTxn[p] /\ dirty[p] = NoRows
    BY DEF IdleIsUnlocked
  <2>1. ~ inTxn[p]
    BY TransactionsUp DEF Core
  <2>2. ~ ChangesSchema(p)
    BY DEF ChangesSchema, At
  <2> QED
    BY <2>1, <2>2 DEF Core, LocksHeld, Orderly
<1> QED
  BY <1>1, InitCore, CoreInvariant, PTL DEF Spec
===============================================================================
