-------------------------- MODULE FeeLedger_proofs --------------------------
(***************************************************************************)
(* Theorems of FeeLedger.  The types, and that what was earned is the sum  *)
(* of the fees of the confirmed rows, hold for any set of workers.  The    *)
(* other bookkeeping properties hold for one worker, however many users,   *)
(* donations, aborted requests and settlements there are; they rest on one *)
(* inductive invariant, IInv.                                              *)
(***************************************************************************)
EXTENDS FeeLedger, FiniteLemmas

\* The part of the invariant that no concurrency disturbs.
TypeInv == TypeOK /\ RequestsRefer

\* A record built from typed parts is a frame.
LEMMA RequestTyped ==
    ASSUME NEW p \in Points, NEW d \in Donations \union {None}, NEW u \in Users \union {None},
           NEW n \in Nat, NEW m \in Nat
    PROVE  Request(p, d, u, n, m) \in Frame
BY DEF Request, Frame

\* The idle frame is a frame.
LEMMA IdleTyped == Idle \in Frame
<1>1. "idle" \in Points /\ 0 \in Nat
  BY DEF Points
<1> QED
  BY <1>1, RequestTyped DEF Idle

\* TypeInv is preserved by the statements of a running request.
LEMMA ContinueTyped ==
    ASSUME TypeInv, NEW w \in Workers, Continue(w)
    PROVE  TypeInv'
<1> USE DEF TypeInv, TypeOK, RequestsRefer, dbVars, userVars, boundVars, historyVars
<1> DEFINE d == frame[w].donation
           u == frame[w].user
           n == frame[w].amount
           p == frame[w].payment
<1>0. frame[w] \in Frame /\ n \in Nat /\ p \in Nat
  BY DEF Frame
<1>1. CASE BackendFinal(w)
  <2>1. d \in Donations
    BY <1>1 DEF BackendFinal
  <2>2. Request("confirm", d, None, 0, 0) \in Frame
    BY <2>1, RequestTyped DEF Points
  <2> QED
    BY <1>1, <2>1, <2>2 DEF BackendFinal, GoTo, Request
<1>2. CASE BackendNotFinal(w)
  BY <1>2, IdleTyped DEF BackendNotFinal, Return, Idle, Request
<1>3. CASE ConfirmDonation(w)
  <2>1. d \in Donations /\ donations[d] # None /\ donations[d] \in Row
    BY <1>3 DEF ConfirmDonation
  <2>2. donations[d].user \in Users /\ donations[d].fee \in Nat
    BY <2>1, FeesAssumption DEF Row
  <2>3. [donations[d] EXCEPT !.confirmed = TRUE] \in Row
    BY <2>1 DEF Row
  <2>4. donations' \in [Donations -> Row \union {None}]
    BY <1>3, <2>1, <2>3 DEF ConfirmDonation
  <2>5. \A e \in Donations : donations[e] # None => donations'[e] # None
    BY <1>3, <2>1, <2>3, NoneAssumption DEF ConfirmDonation
  <2>6. earned' \in [Users -> Nat]
    BY <1>3, <2>1, <2>2 DEF ConfirmDonation
  <2>7. Request("credit", d, donations[d].user, donations[d].fee, 0) \in Frame
    BY <2>1, <2>2, RequestTyped DEF Points
  <2>8. CASE donations[d].fee > 0
    <3>1. frame' = [frame EXCEPT ![w] = Request("credit", d, donations[d].user, donations[d].fee, 0)]
      BY <1>3, <2>8 DEF ConfirmDonation, GoTo
    <3> QED
      BY <1>3, <2>1, <2>2, <2>4, <2>5, <2>6, <2>7, <3>1 DEF ConfirmDonation, Request
  <2>9. CASE ~(donations[d].fee > 0)
    <3>1. frame' = [frame EXCEPT ![w] = Idle]
      BY <1>3, <2>9 DEF ConfirmDonation, Return
    <3> QED
      BY <1>3, <2>1, <2>2, <2>4, <2>5, <2>6, <3>1, IdleTyped DEF ConfirmDonation, Idle, Request
  <2> QED
    BY <2>8, <2>9
<1>4. CASE IncrementFeeBalance(w)
  BY <1>0, <1>4, IdleTyped DEF IncrementFeeBalance, Return, Idle, Request
<1>5. CASE RecordSettlement(w)
  <2>1. u \in Users
    BY <1>5 DEF RecordSettlement
  <2>2. Request("reset", None, u, n, p) \in Frame
    BY <1>0, <2>1, RequestTyped DEF Points
  <2> QED
    BY <1>0, <1>5, <2>1, <2>2 DEF RecordSettlement, GoTo, Request
<1>6. CASE ResetFeeBalance(w)
  BY <1>6, IdleTyped DEF ResetFeeBalance, Return, Idle, Request
<1> QED
  BY <1>1, <1>2, <1>3, <1>4, <1>5, <1>6 DEF Continue

\* TypeInv is preserved by every step.
LEMMA NextTyped == TypeInv /\ [Next]_vars => TypeInv'
<1> SUFFICES ASSUME TypeInv, [Next]_vars PROVE TypeInv'
  OBVIOUS
<1> USE DEF TypeInv, TypeOK, RequestsRefer, dbVars, userVars, boundVars, historyVars
<1>1. ASSUME NEW w \in Workers, NEW d \in Donations, NEW u \in Users, NEW f \in Fees,
             CreateInvoice(w, d, u, f)
      PROVE  TypeInv'
  <2>1. [user |-> u, fee |-> f, confirmed |-> FALSE] \in Row
    BY DEF Row
  <2> QED
    BY <1>1, <2>1, NoneAssumption DEF CreateInvoice
<1>2. ASSUME NEW w \in Workers, NEW d \in Donations, CheckBegin(w, d)
      PROVE  TypeInv'
  <2>1. Request("query", d, None, 0, 0) \in Frame
    BY RequestTyped DEF Points
  <2> QED
    BY <1>2, <2>1 DEF CheckBegin, GoTo, Request
<1>3. ASSUME NEW w \in Workers, NEW u \in Users, SettlePage(w, u)
      PROVE  TypeInv'
  BY <1>3 DEF SettlePage
<1>4. ASSUME NEW u \in Users, UserPays(u)
      PROVE  TypeInv'
  BY <1>4 DEF UserPays
<1>5. ASSUME NEW w \in Workers, NEW u \in Users, SettleBegin(w, u)
      PROVE  TypeInv'
  <2>1. Request("record", None, u, balance[u], paid[u]) \in Frame
    BY RequestTyped DEF Points
  <2>2. paid' \in [Users -> Nat] /\ settlePosts' \in Nat
    BY <1>5 DEF SettleBegin
  <2> QED
    BY <1>5, <2>1, <2>2 DEF SettleBegin, GoTo, Request
<1>6. ASSUME NEW w \in Workers, Continue(w)
      PROVE  TypeInv'
  BY <1>6, ContinueTyped
<1>7. ASSUME NEW w \in Workers, Abort(w)
      PROVE  TypeInv'
  BY <1>7, IdleTyped DEF Abort, Return, Idle, Request
<1>8. CASE UNCHANGED vars
  BY <1>8 DEF vars
<1> QED
  BY <1>1, <1>2, <1>3, <1>4, <1>5, <1>6, <1>7, <1>8 DEF Next

\* Initially nothing is created, owed or running.
LEMMA InitTyped == Init => TypeInv
BY IdleTyped DEF Init, TypeInv, TypeOK, RequestsRefer, Idle, Request

\* The types hold whatever the number of workers and of aborted requests.
THEOREM TypeCorrect == Spec => []TypeOK
<1>1. TypeInv => TypeOK
  BY DEF TypeInv
<1> QED
  BY <1>1, InitTyped, NextTyped, PTL DEF Spec

-----------------------------------------------------------------------------
(* What was earned is a sum over the table, for any set of workers.         *)

SumInv == TypeInv /\ EarnedIsSum /\ \A u \in Users : IsFiniteSet(ConfirmedOf(u))

\* A step that leaves the rows that are confirmed, and their fees, alone.
LEMMA SumKept ==
    ASSUME SumInv, earned' = earned,
           \A d \in Donations :
               \/ donations'[d] = donations[d]
               \/ /\ donations[d] = None \/ ~ donations[d].confirmed
                  /\ donations'[d] = None \/ ~ donations'[d].confirmed
    PROVE  EarnedIsSum' /\ \A u \in Users : IsFiniteSet(ConfirmedOf(u)')
<1> SUFFICES ASSUME NEW u \in Users
             PROVE  ConfirmedOf(u)' = ConfirmedOf(u) /\ ConfirmedFees(u)' = ConfirmedFees(u)
  BY DEF SumInv, EarnedIsSum
<1>1. ConfirmedOf(u)' = ConfirmedOf(u)
  BY DEF ConfirmedOf
<1>2. \A d \in ConfirmedOf(u) : donations'[d] = donations[d]
  BY DEF ConfirmedOf
<1> QED
  BY <1>1, <1>2 DEF ConfirmedFees

\* Confirming a row adds its fee, unless it was confirmed already.
LEMMA ConfirmDonationSum ==
    ASSUME SumInv, NEW w \in Workers, ConfirmDonation(w)
    PROVE  EarnedIsSum' /\ \A u \in Users : IsFiniteSet(ConfirmedOf(u)')
<1> DEFINE d == frame[w].donation
           row == donations[d]
<1>1. /\ d \in Donations /\ row # None /\ row \in Row
      /\ donations \in [Donations -> Row \cup {None}]
      /\ earned \in [Users -> Nat]
  BY DEF ConfirmDonation, SumInv, TypeInv, TypeOK, RequestsRefer
<1>2. /\ donations' = [donations EXCEPT ![d] = [row EXCEPT !.confirmed = TRUE]]
      /\ earned' = [earned EXCEPT ![row.user] = IF row.confirmed THEN @ ELSE @ + row.fee]
  BY DEF ConfirmDonation
<1> DEFINE new == [row EXCEPT !.confirmed = TRUE]
<1>3. /\ row.user \in Users /\ row.fee \in Nat /\ row.confirmed \in BOOLEAN
      /\ new.user = row.user /\ new.fee = row.fee /\ new.confirmed /\ new \in Row /\ new # None
  BY <1>1, FeesAssumption, NoneAssumption DEF Row
<1>4. CASE row.confirmed
  <2>1. new = row
    BY <1>1, <1>4 DEF Row
  <2>2. donations' = donations /\ earned' = earned
    BY <1>1, <1>2, <1>3, <1>4, <2>1
  <2> QED
    BY <2>2, SumKept
<1>5. CASE ~ row.confirmed
  <2> SUFFICES ASSUME NEW u \in Users
               PROVE  IsFiniteSet(ConfirmedOf(u)') /\ earned'[u] = SumFunction(ConfirmedFees(u)')
    BY DEF EarnedIsSum
  <2>1. IsFiniteSet(ConfirmedOf(u)) /\ earned[u] = SumFunction(ConfirmedFees(u))
    BY DEF SumInv, EarnedIsSum
  <2> HIDE DEF new
  <2>2. \A e \in Donations : donations'[e] = IF e = d THEN new ELSE donations[e]
    BY <1>1, <1>2 DEF new
  <2>3. CASE u = row.user
    <3>1. ConfirmedOf(u)' = ConfirmedOf(u) \cup {d} /\ d \notin ConfirmedOf(u)
      BY <1>1, <1>3, <1>5, <2>2, <2>3 DEF ConfirmedOf
    <3>2. ConfirmedFees(u) \in [ConfirmedOf(u) -> Nat]
      BY <1>1, FeesAssumption DEF ConfirmedFees, ConfirmedOf, Row
    <3>3. /\ \A e \in ConfirmedOf(u) : ConfirmedFees(u)'[e] = ConfirmedFees(u)[e]
          /\ ConfirmedFees(u)'[d] = row.fee
          /\ ConfirmedFees(u)' \in [ConfirmedOf(u) \cup {d} -> Nat]
      <4>1. ConfirmedFees(u)' = [e \in ConfirmedOf(u) \cup {d} |-> donations'[e].fee]
        BY <3>1 DEF ConfirmedFees
      <4>2. \A e \in ConfirmedOf(u) : donations'[e].fee = ConfirmedFees(u)[e]
        BY <2>2, <3>1 DEF ConfirmedFees, ConfirmedOf
      <4>3. donations'[d].fee = row.fee
        BY <1>1, <1>3, <2>2
      <4> HIDE DEF d, row
      <4> QED
        BY <1>3, <3>2, <4>1, <4>2, <4>3
    <3>4. SumFunction(ConfirmedFees(u)') = SumFunction(ConfirmedFees(u)) + ConfirmedFees(u)'[d]
      BY <2>1, <3>1, <3>2, <3>3, SumOfMore
    <3>5. earned'[u] = earned[u] + row.fee
      BY <1>1, <1>2, <1>5, <2>3
    <3>6. IsFiniteSet(ConfirmedOf(u)')
      BY <2>1, <3>1, FS_AddElement
    <3> QED
      BY <2>1, <3>3, <3>4, <3>5, <3>6
  <2>4. CASE u # row.user
    <3>1. ConfirmedOf(u)' = ConfirmedOf(u)
      BY <1>1, <1>3, <1>5, <2>2, <2>4 DEF ConfirmedOf
    <3>2. \A e \in ConfirmedOf(u) : donations'[e] = donations[e]
      BY <1>3, <2>2, <2>4 DEF ConfirmedOf
    <3>3. ConfirmedFees(u)' = ConfirmedFees(u)
      BY <3>1, <3>2 DEF ConfirmedFees
    <3>4. earned'[u] = earned[u]
      BY <1>1, <1>2, <2>4
    <3> QED
      BY <2>1, <3>1, <3>3, <3>4
  <2> QED
    BY <2>3, <2>4
<1> QED
  BY <1>3, <1>4, <1>5

\* Every step keeps the sum.
LEMMA NextSum == SumInv /\ [Next]_vars => SumInv'
<1> SUFFICES ASSUME SumInv, [Next]_vars PROVE SumInv'
  OBVIOUS
<1>1. TypeInv'
  BY NextTyped DEF SumInv
<1>2. EarnedIsSum' /\ \A u \in Users : IsFiniteSet(ConfirmedOf(u)')
  <2>1. CASE \E w \in Workers, d \in Donations, u \in Users, f \in Fees : CreateInvoice(w, d, u, f)
    <3>1. PICK w \in Workers, d \in Donations, u \in Users, f \in Fees : CreateInvoice(w, d, u, f)
      BY <2>1
    <3>2. /\ donations[d] = None /\ earned' = earned
          /\ \A e \in Donations : donations'[e] =
                IF e = d THEN [user |-> u, fee |-> f, confirmed |-> FALSE] ELSE donations[e]
      BY <3>1 DEF CreateInvoice, historyVars, SumInv, TypeInv, TypeOK
    <3> QED
      BY <3>2, SumKept
  <2>2. CASE \E w \in Workers : ConfirmDonation(w)
    BY <2>2, ConfirmDonationSum
  <2>3. CASE UNCHANGED <<donations, earned>>
    BY <2>3, SumKept
  <2> QED
    BY <2>1, <2>2, <2>3 DEF Next, Continue, vars, dbVars, historyVars, CheckBegin, SettlePage,
       UserPays, SettleBegin, BackendFinal, BackendNotFinal, IncrementFeeBalance,
       RecordSettlement, ResetFeeBalance, Abort
<1> QED
  BY <1>1, <1>2 DEF SumInv

\* What a creator earned is the sum of the fees of their confirmed rows, for any
\* set of workers: confirming twice earns nothing twice.
THEOREM EarnedIsTheSum == Spec => []EarnedIsSum
<1>1. Init => SumInv
  <2> SUFFICES ASSUME Init PROVE SumInv
    OBVIOUS
  <2>1. ASSUME NEW u \in Users PROVE ConfirmedOf(u) = {}
    BY DEF Init, ConfirmedOf
  <2>2. ASSUME NEW u \in Users PROVE SumFunction(ConfirmedFees(u)) = 0
    <3>1. DOMAIN ConfirmedFees(u) = {}
      BY <2>1 DEF ConfirmedFees
    <3> QED
      BY <3>1, SumOfNone
  <2>3. EarnedIsSum
    BY <2>2 DEF EarnedIsSum, Init
  <2>4. \A u \in Users : IsFiniteSet(ConfirmedOf(u))
    BY <2>1, FS_EmptySet
  <2> QED
    BY <2>3, <2>4, InitTyped DEF SumInv
<1>2. SumInv => EarnedIsSum
  BY DEF SumInv
<1> QED
  BY <1>1, <1>2, NextSum, PTL DEF Spec
-----------------------------------------------------------------------------
(* One worker.  s is its name; nothing else about Workers is used.          *)

\* The three parts of IInv that need a lone worker.
Books == SnapshotsFresh /\ CreditsFollowConfirms /\ BooksBalance

\* Initially every total is zero and no request runs.
LEMMA InitBooks == Init => Books
BY DEF Init, Books, SnapshotsFresh, CreditsFollowConfirms, BooksBalance, Idle, Request,
       Pending, Recorded

\* A new row earns nothing and is in no request's frame.
LEMMA CreateInvoiceBooks ==
    ASSUME IInv, NEW w \in Workers, NEW d \in Donations, NEW u \in Users, NEW f \in Fees,
           NEW s, Workers = {s}, CreateInvoice(w, d, u, f)
    PROVE  Books'
<1> USE DEF IInv, TypeOK
<1>1. frame' = frame /\ balance' = balance /\ settled' = settled /\ earned' = earned
      /\ credits' = credits /\ aborts' = aborts
  BY DEF CreateInvoice, boundVars, historyVars
<1>2. frame[s].at = "idle"
  BY DEF CreateInvoice, Idle, Request
<1>3. SnapshotsFresh'
  BY <1>1, <1>2 DEF SnapshotsFresh
<1>4. CreditsFollowConfirms'
  BY <1>1, NoneAssumption DEF CreateInvoice, CreditsFollowConfirms, Row
<1>5. BooksBalance'
  BY <1>1 DEF BooksBalance, Pending, Recorded
<1> QED
  BY <1>3, <1>4, <1>5 DEF Books

\* A check starts from an unconfirmed row.
LEMMA CheckBeginBooks ==
    ASSUME IInv, NEW w \in Workers, NEW d \in Donations, NEW s, Workers = {s}, CheckBegin(w, d)
    PROVE  Books'
<1> USE DEF IInv, TypeOK
<1>1. UNCHANGED <<donations, balance, settled, earned, credits, aborts>>
  BY DEF CheckBegin, dbVars, boundVars, historyVars
<1>2. /\ frame[s].at = "idle"
      /\ frame'[s].at = "query" /\ frame'[s].donation = d
  BY DEF CheckBegin, GoTo, Idle, Request
<1>3. SnapshotsFresh'
  BY <1>1, <1>2 DEF SnapshotsFresh, CheckBegin
<1>4. CreditsFollowConfirms'
  BY <1>1 DEF CreditsFollowConfirms
<1>5. BooksBalance'
  BY <1>1, <1>2 DEF BooksBalance, Pending, Recorded
<1> QED
  BY <1>3, <1>4, <1>5 DEF Books

\* The backend's answer moves the request and nothing else.
LEMMA BackendBooks ==
    ASSUME IInv, NEW w \in Workers, NEW s, Workers = {s}, BackendFinal(w) \/ BackendNotFinal(w)
    PROVE  Books'
<1> USE DEF IInv, TypeOK
<1>1. UNCHANGED <<donations, balance, settled, earned, credits, aborts>>
  BY DEF BackendFinal, BackendNotFinal, dbVars, boundVars, historyVars
<1>2. /\ frame[s].at = "query"
      /\ \/ frame'[s].at = "confirm" /\ frame'[s].donation = frame[s].donation
         \/ frame'[s].at = "idle"
  BY DEF BackendFinal, BackendNotFinal, GoTo, Return, Idle, Request
<1>3. SnapshotsFresh'
  BY <1>1, <1>2 DEF SnapshotsFresh
<1>4. CreditsFollowConfirms'
  BY <1>1 DEF CreditsFollowConfirms
<1>5. BooksBalance'
  BY <1>1, <1>2 DEF BooksBalance, Pending, Recorded
<1> QED
  BY <1>3, <1>4, <1>5 DEF Books

\* Confirming earns the fee and makes the same amount pending.
LEMMA ConfirmDonationBooks ==
    ASSUME IInv, NEW w \in Workers, NEW s, Workers = {s}, ConfirmDonation(w)
    PROVE  Books'
<1> USE DEF IInv, TypeOK
<1> DEFINE d == frame[s].donation
           row == donations[d]
<1>0. w = s /\ frame[s].at = "confirm"
  BY DEF ConfirmDonation
<1>1. d \in Donations /\ row \in Row /\ ~row.confirmed
  BY <1>0 DEF RequestsRefer, SnapshotsFresh
<1>2. row.user \in Users /\ row.fee \in Nat
  BY <1>1, FeesAssumption DEF Row
<1>3. UNCHANGED <<balance, settled, credits, aborts>>
  BY DEF ConfirmDonation, boundVars
<1>4. /\ donations' = [donations EXCEPT ![d].confirmed = TRUE]
      /\ earned' = [earned EXCEPT ![row.user] = @ + row.fee]
  BY <1>0, <1>1 DEF ConfirmDonation
<1>5. /\ donations'[d].confirmed = TRUE
      /\ \A e \in Donations : e # d => donations'[e] = donations[e]
      /\ donations'[d] # None
  <2>1. [row EXCEPT !.confirmed = TRUE] \in Row
    BY <1>1 DEF Row
  <2> QED
    BY <1>1, <1>4, <2>1, NoneAssumption DEF Row
<1>6. \/ /\ row.fee > 0
         /\ frame'[s] = Request("credit", d, row.user, row.fee, 0)
      \/ /\ row.fee = 0
         /\ frame'[s] = Idle
  BY <1>0, <1>2 DEF ConfirmDonation, GoTo, Return
<1>7. credits[d] = 0
  BY <1>1, NoneAssumption DEF CreditsFollowConfirms
<1>8. SnapshotsFresh'
  BY <1>3, <1>5, <1>6, <1>7 DEF SnapshotsFresh, Idle, Request
<1>9. CreditsFollowConfirms'
  BY <1>1, <1>3, <1>5, <1>7 DEF CreditsFollowConfirms
<1>10. BooksBalance'
  <2> SUFFICES ASSUME NEW v \in Users
               PROVE  /\ balance[v] + Pending(s, v)' <= earned'[v]
                      /\ aborts = 0 =>
                            balance[v] + Pending(s, v)' + settled[v] = earned'[v] + Recorded(s, v)'
    BY <1>3 DEF BooksBalance
  <2>1. Pending(s, v) = 0 /\ Recorded(s, v) = 0 /\ Recorded(s, v)' = 0
    BY <1>0, <1>6 DEF Pending, Recorded, Idle, Request
  <2>2. Pending(s, v)' = IF v = row.user THEN row.fee ELSE 0
    BY <1>2, <1>6 DEF Pending, Idle, Request
  <2>3. earned'[v] = IF v = row.user THEN earned[v] + row.fee ELSE earned[v]
    BY <1>2, <1>4
  <2>4. /\ balance[v] + 0 <= earned[v]
        /\ aborts = 0 => balance[v] + 0 + settled[v] = earned[v] + 0
    BY <2>1 DEF BooksBalance
  <2>5. balance[v] \in Nat /\ settled[v] \in Nat /\ earned[v] \in Nat
    OBVIOUS
  <2> QED
    BY <1>2, <2>1, <2>2, <2>3, <2>4, <2>5
<1> QED
  BY <1>8, <1>9, <1>10 DEF Books

\* Crediting moves the pending amount into the balance.
LEMMA IncrementFeeBalanceBooks ==
    ASSUME IInv, NEW w \in Workers, NEW s, Workers = {s}, IncrementFeeBalance(w)
    PROVE  Books'
<1> USE DEF IInv, TypeOK
<1> DEFINE d == frame[s].donation
           u == frame[s].user
           n == frame[s].amount
<1>0. w = s /\ frame[s].at = "credit"
  BY DEF IncrementFeeBalance
<1>1. /\ d \in Donations /\ donations[d] # None /\ donations[d].confirmed
      /\ u \in Users /\ n \in Nat /\ credits[d] = 0
  BY <1>0 DEF RequestsRefer, SnapshotsFresh, Frame
<1>2. UNCHANGED <<donations, settled, earned, aborts>> /\ frame'[s] = Idle
  BY <1>0 DEF IncrementFeeBalance, Return, boundVars
<1>3. SnapshotsFresh'
  BY <1>2 DEF SnapshotsFresh, Idle, Request
<1>4. CreditsFollowConfirms'
  <2>1. credits' = [credits EXCEPT ![d] = 1]
    BY <1>0, <1>1 DEF IncrementFeeBalance
  <2> QED
    BY <1>1, <1>2, <2>1 DEF CreditsFollowConfirms
<1>5. BooksBalance'
  <2> SUFFICES ASSUME NEW v \in Users
               PROVE  /\ balance'[v] + Pending(s, v)' <= earned[v]
                      /\ aborts = 0 =>
                            balance'[v] + Pending(s, v)' + settled[v] = earned[v] + Recorded(s, v)'
    BY <1>2 DEF BooksBalance
  <2>1. Pending(s, v)' = 0 /\ Recorded(s, v) = 0 /\ Recorded(s, v)' = 0
    BY <1>0, <1>2 DEF Pending, Recorded, Idle, Request
  <2>2. Pending(s, v) = IF v = u THEN n ELSE 0
    BY <1>0 DEF Pending
  <2>3. balance'[v] = IF v = u THEN balance[v] + n ELSE balance[v]
    BY <1>0, <1>1 DEF IncrementFeeBalance
  <2>4. /\ balance[v] + Pending(s, v) <= earned[v]
        /\ aborts = 0 => balance[v] + Pending(s, v) + settled[v] = earned[v] + Recorded(s, v)
    BY DEF BooksBalance
  <2>5. balance[v] \in Nat /\ settled[v] \in Nat /\ earned[v] \in Nat
    OBVIOUS
  <2> QED
    BY <1>1, <2>1, <2>2, <2>3, <2>4, <2>5
<1> QED
  BY <1>3, <1>4, <1>5 DEF Books

\* A settlement starts from the balance as it is.
LEMMA SettleBeginBooks ==
    ASSUME IInv, NEW w \in Workers, NEW u \in Users, NEW s, Workers = {s}, SettleBegin(w, u)
    PROVE  Books'
<1> USE DEF IInv, TypeOK
<1>1. UNCHANGED <<donations, balance, settled, earned, credits, aborts>>
  BY DEF SettleBegin, dbVars, historyVars
<1>2. /\ frame[s].at = "idle"
      /\ frame'[s].at = "record" /\ frame'[s].user = u /\ frame'[s].amount = balance[u]
  BY DEF SettleBegin, GoTo, Idle, Request
<1>3. SnapshotsFresh'
  BY <1>1, <1>2 DEF SnapshotsFresh
<1>4. CreditsFollowConfirms'
  BY <1>1 DEF CreditsFollowConfirms
<1>5. BooksBalance'
  BY <1>1, <1>2 DEF BooksBalance, Pending, Recorded
<1> QED
  BY <1>3, <1>4, <1>5 DEF Books

\* Recording counts the amount as settled while it is still in the balance.
LEMMA RecordSettlementBooks ==
    ASSUME IInv, NEW w \in Workers, NEW s, Workers = {s}, RecordSettlement(w)
    PROVE  Books'
<1> USE DEF IInv, TypeOK
<1> DEFINE u == frame[s].user
           n == frame[s].amount
<1>0. w = s /\ frame[s].at = "record"
  BY DEF RecordSettlement
<1>1. u \in Users /\ n \in Nat /\ n = balance[u]
  BY <1>0 DEF RequestsRefer, SnapshotsFresh, Frame
<1>2. /\ UNCHANGED <<donations, balance, earned, credits, aborts>>
      /\ frame'[s].at = "reset" /\ frame'[s].user = u /\ frame'[s].amount = n
  BY <1>0 DEF RecordSettlement, GoTo, Request, boundVars, historyVars
<1>3. SnapshotsFresh'
  BY <1>1, <1>2 DEF SnapshotsFresh
<1>4. CreditsFollowConfirms'
  BY <1>2 DEF CreditsFollowConfirms
<1>5. BooksBalance'
  <2> SUFFICES ASSUME NEW v \in Users
               PROVE  /\ balance[v] + Pending(s, v)' <= earned[v]
                      /\ aborts = 0 =>
                            balance[v] + Pending(s, v)' + settled'[v] = earned[v] + Recorded(s, v)'
    BY <1>2 DEF BooksBalance
  <2>1. Pending(s, v) = 0 /\ Pending(s, v)' = 0 /\ Recorded(s, v) = 0
    BY <1>0, <1>2 DEF Pending, Recorded
  <2>2. Recorded(s, v)' = IF v = u THEN n ELSE 0
    BY <1>2 DEF Recorded
  <2>3. settled'[v] = IF v = u THEN settled[v] + n ELSE settled[v]
    BY <1>0, <1>1 DEF RecordSettlement
  <2>4. /\ balance[v] + Pending(s, v) <= earned[v]
        /\ aborts = 0 => balance[v] + Pending(s, v) + settled[v] = earned[v] + Recorded(s, v)
    BY DEF BooksBalance
  <2>5. balance[v] \in Nat /\ settled[v] \in Nat /\ earned[v] \in Nat
    OBVIOUS
  <2> QED
    BY <1>1, <2>1, <2>2, <2>3, <2>4, <2>5
<1> QED
  BY <1>3, <1>4, <1>5 DEF Books

\* Resetting takes out exactly what was recorded.
LEMMA ResetFeeBalanceBooks ==
    ASSUME IInv, NEW w \in Workers, NEW s, Workers = {s}, ResetFeeBalance(w)
    PROVE  Books'
<1> USE DEF IInv, TypeOK
<1> DEFINE u == frame[s].user
           n == frame[s].amount
<1>0. w = s /\ frame[s].at = "reset"
  BY DEF ResetFeeBalance
<1>1. u \in Users /\ n \in Nat /\ n = balance[u]
  BY <1>0 DEF RequestsRefer, SnapshotsFresh, Frame
<1>2. UNCHANGED <<donations, settled, earned, credits, aborts>> /\ frame'[s] = Idle
  BY <1>0 DEF ResetFeeBalance, Return, boundVars, historyVars
<1>3. SnapshotsFresh'
  BY <1>2 DEF SnapshotsFresh, Idle, Request
<1>4. CreditsFollowConfirms'
  BY <1>2 DEF CreditsFollowConfirms
<1>5. BooksBalance'
  <2> SUFFICES ASSUME NEW v \in Users
               PROVE  /\ balance'[v] + Pending(s, v)' <= earned[v]
                      /\ aborts = 0 =>
                            balance'[v] + Pending(s, v)' + settled[v] = earned[v] + Recorded(s, v)'
    BY <1>2 DEF BooksBalance
  <2>1. Pending(s, v) = 0 /\ Pending(s, v)' = 0 /\ Recorded(s, v)' = 0
    BY <1>0, <1>2 DEF Pending, Recorded, Idle, Request
  <2>2. Recorded(s, v) = IF v = u THEN n ELSE 0
    BY <1>0 DEF Recorded
  <2>3. balance'[v] = IF v = u THEN 0 ELSE balance[v]
    BY <1>0, <1>1 DEF ResetFeeBalance
  <2>4. /\ balance[v] + Pending(s, v) <= earned[v]
        /\ aborts = 0 => balance[v] + Pending(s, v) + settled[v] = earned[v] + Recorded(s, v)
    BY DEF BooksBalance
  <2>5. balance[v] \in Nat /\ settled[v] \in Nat /\ earned[v] \in Nat
    OBVIOUS
  <2> QED
    BY <1>1, <2>1, <2>2, <2>3, <2>4, <2>5
<1> QED
  BY <1>3, <1>4, <1>5 DEF Books

\* A request that dies can lose a credit, never add one.
LEMMA AbortBooks ==
    ASSUME IInv, NEW w \in Workers, NEW s, Workers = {s}, Abort(w)
    PROVE  Books'
<1> USE DEF IInv, TypeOK
<1>1. UNCHANGED <<donations, balance, settled, earned, credits>> /\ frame'[s] = Idle
  BY DEF Abort, Return, dbVars, historyVars
<1>2. aborts' # 0
  BY DEF Abort
<1>3. SnapshotsFresh'
  BY <1>1 DEF SnapshotsFresh, Idle, Request
<1>4. CreditsFollowConfirms'
  BY <1>1 DEF CreditsFollowConfirms
<1>5. BooksBalance'
  <2> SUFFICES ASSUME NEW v \in Users
               PROVE  balance[v] + Pending(s, v)' <= earned[v]
    BY <1>1, <1>2 DEF BooksBalance
  <2>1. Pending(s, v)' = 0
    BY <1>1 DEF Pending, Idle, Request
  <2>2. Pending(s, v) \in Nat
    BY DEF Pending, Frame
  <2>3. balance[v] + Pending(s, v) <= earned[v]
    BY DEF BooksBalance
  <2>4. balance[v] \in Nat /\ earned[v] \in Nat
    OBVIOUS
  <2> QED
    BY <2>1, <2>2, <2>3, <2>4
<1> QED
  BY <1>3, <1>4, <1>5 DEF Books

\* IInv is inductive for one worker.
LEMMA IInvInductive ==
    ASSUME NEW s, Workers = {s}
    PROVE  IInv /\ [Next]_vars => IInv'
<1> SUFFICES ASSUME IInv, [Next]_vars PROVE IInv'
  OBVIOUS
<1>1. TypeInv'
  BY NextTyped DEF IInv, TypeInv
<1>2. Books'
  <2>1. ASSUME NEW w \in Workers, NEW d \in Donations, NEW u \in Users, NEW f \in Fees,
               CreateInvoice(w, d, u, f)
        PROVE  Books'
    BY <2>1, CreateInvoiceBooks
  <2>2. ASSUME NEW w \in Workers, NEW d \in Donations, CheckBegin(w, d)
        PROVE  Books'
    BY <2>2, CheckBeginBooks
  <2>3. ASSUME NEW w \in Workers, NEW u \in Users, SettlePage(w, u)
        PROVE  Books'
    BY <2>3 DEF SettlePage, dbVars, boundVars, historyVars, IInv, Books, SnapshotsFresh,
                CreditsFollowConfirms, BooksBalance, Pending, Recorded
  <2>4. ASSUME NEW u \in Users, UserPays(u)
        PROVE  Books'
    BY <2>4 DEF UserPays, dbVars, boundVars, historyVars, IInv, Books, SnapshotsFresh,
                CreditsFollowConfirms, BooksBalance, Pending, Recorded
  <2>5. ASSUME NEW w \in Workers, NEW u \in Users, SettleBegin(w, u)
        PROVE  Books'
    BY <2>5, SettleBeginBooks
  <2>6. ASSUME NEW w \in Workers, Continue(w)
        PROVE  Books'
    BY <2>6, BackendBooks, ConfirmDonationBooks, IncrementFeeBalanceBooks,
       RecordSettlementBooks, ResetFeeBalanceBooks DEF Continue
  <2>7. ASSUME NEW w \in Workers, Abort(w)
        PROVE  Books'
    BY <2>7, AbortBooks
  <2>8. CASE UNCHANGED vars
    BY <2>8 DEF vars, IInv, Books, SnapshotsFresh, CreditsFollowConfirms, BooksBalance,
                Pending, Recorded
  <2> QED
    BY <2>1, <2>2, <2>3, <2>4, <2>5, <2>6, <2>7, <2>8 DEF Next
<1> QED
  BY <1>1, <1>2 DEF IInv, TypeInv, Books

\* One worker keeps the inductive invariant at every commit.
THEOREM InductiveInvariant ==
    ASSUME NEW s, Workers = {s}
    PROVE  Spec => []IInv
<1>1. Init => IInv
  BY InitTyped, InitBooks DEF IInv, TypeInv, Books
<1>2. IInv /\ [Next]_vars => IInv'
  BY IInvInductive
<1> QED
  BY <1>1, <1>2, PTL DEF Spec

\* "Only credit the fee balance once": for one worker, however often invoices
\* are polled and wherever requests die.
THEOREM CreditOnce ==
    ASSUME NEW s, Workers = {s}
    PROVE  Spec => []CreditedOnce
<1>1. IInv => CreditedOnce
  BY DEF IInv, CreditsFollowConfirms, CreditedOnce
<1> QED
  BY <1>1, InductiveInvariant, PTL

\* "Your balance accumulates from confirmed donations only": a dead request
\* can lose a fee for the platform, never charge a creator too much.
THEOREM NeverOvercharged ==
    ASSUME NEW s, Workers = {s}
    PROVE  Spec => []OwedAtMostEarned
<1>1. IInv => OwedAtMostEarned
  <2> SUFFICES ASSUME IInv, NEW u \in Users PROVE balance[u] <= earned[u]
    BY DEF OwedAtMostEarned
  <2>1. balance[u] \in Nat /\ earned[u] \in Nat /\ Pending(s, u) \in Nat
    BY DEF IInv, TypeOK, Pending, Frame
  <2>2. balance[u] + Pending(s, u) <= earned[u]
    BY DEF IInv, BooksBalance
  <2> QED
    BY <2>1, <2>2
<1> QED
  BY <1>1, InductiveInvariant, PTL

\* Between requests, and unless one died, balance and settlements add up to
\* exactly what the confirmed donations earned.
THEOREM FeesConserved ==
    ASSUME NEW s, Workers = {s}
    PROVE  Spec => []FeesAccounted
<1>1. IInv => FeesAccounted
  <2> SUFFICES ASSUME IInv, aborts = 0, AllIdle, NEW u \in Users
               PROVE  balance[u] + settled[u] = earned[u]
    BY DEF FeesAccounted
  <2>1. Pending(s, u) = 0 /\ Recorded(s, u) = 0
    BY DEF AllIdle, Pending, Recorded, Idle, Request
  <2>2. balance[u] + Pending(s, u) + settled[u] = earned[u] + Recorded(s, u)
    BY DEF IInv, BooksBalance
  <2>3. balance[u] \in Nat /\ settled[u] \in Nat /\ earned[u] \in Nat
    BY DEF IInv, TypeOK
  <2> QED
    BY <2>1, <2>2, <2>3
<1> QED
  BY <1>1, InductiveInvariant, PTL

\* A creator's balance only goes down by what the same request has recorded.
THEOREM NoForgiveness ==
    ASSUME NEW s, Workers = {s}
    PROVE  Spec => NothingForgiven
<1>1. ASSUME IInv, [Next]_vars, NEW u \in Users, balance'[u] < balance[u]
      PROVE  \E w \in Workers : Recorded(w, u) = balance[u] - balance'[u]
  <2> USE DEF IInv, TypeOK
  <2>0. balance[u] \in Nat /\ balance'[u] \in Nat
    <3>1. TypeInv'
      BY <1>1, NextTyped DEF TypeInv
    <3> QED
      BY <1>1, <3>1 DEF TypeInv
  <2>1. balance' # balance
    BY <1>1, <2>0
  <2>2. PICK w \in Workers : IncrementFeeBalance(w) \/ ResetFeeBalance(w)
    BY <1>1, <2>1 DEF Next, Continue, vars, dbVars, CreateInvoice, CheckBegin, SettlePage,
       UserPays, SettleBegin, BackendFinal, BackendNotFinal, ConfirmDonation,
       RecordSettlement, Abort
  <2>3. CASE IncrementFeeBalance(w)
    <3>1. frame[w].amount \in Nat /\ frame[w].user \in Users
      BY <1>1, <2>3 DEF IncrementFeeBalance, Frame, RequestsRefer
    <3>2. balance'[u] = balance[u] \/ balance'[u] = balance[u] + frame[w].amount
      BY <1>1, <2>3, <3>1 DEF IncrementFeeBalance
    <3> QED
      BY <1>1, <2>0, <3>1, <3>2
  <2>4. CASE ResetFeeBalance(w)
    <3>1. /\ frame[w].at = "reset" /\ frame[w].user \in Users
          /\ frame[w].amount = balance[frame[w].user]
      BY <1>1, <2>4 DEF ResetFeeBalance, RequestsRefer, SnapshotsFresh
    <3>2. balance' = [balance EXCEPT ![frame[w].user] = 0]
      BY <2>4 DEF ResetFeeBalance
    <3>3. frame[w].user = u /\ balance'[u] = 0
      BY <1>1, <2>0, <3>1, <3>2
    <3> QED
      BY <2>0, <3>1, <3>3 DEF Recorded
  <2> QED
    BY <2>2, <2>3, <2>4
<1>2. IInv /\ [Next]_vars =>
        [\A u \in Users : balance'[u] < balance[u] =>
           \E w \in Workers : Recorded(w, u) = balance[u] - balance'[u]]_vars
  BY <1>1
<1> QED
  BY <1>2, InductiveInvariant, PTL DEF Spec, NothingForgiven

-----------------------------------------------------------------------------
(* Refinement.  Opening, confirming and recording are the abstract steps;   *)
(* every other statement leaves what the abstract specification sees alone. *)

\* The lone worker is the one the refinement mapping names.
LEMMA ServerIs ==
    ASSUME NEW s, Workers = {s}
    PROVE  Server = s
BY DEF Server

\* A step that changes no table, no balance and no pending or recorded amount
\* is invisible in FeeAccounts.
LEMMA InvisibleStep ==
    ASSUME UNCHANGED <<donations, settled>>,
           \A u \in Users : balance'[u] + Pending(Server, u)' - Recorded(Server, u)'
                             = balance[u] + Pending(Server, u) - Recorded(Server, u)
    PROVE  UNCHANGED Accounts!vars
<1>1. Owed' = Owed
  BY DEF Owed
<1> QED
  BY <1>1 DEF Accounts!vars

\* Each statement of a running request maps to a step or to a stutter.
LEMMA ContinueRefines ==
    ASSUME IInv, NEW w \in Workers, NEW s, Workers = {s}, Continue(w)
    PROVE  [Accounts!Next]_(Accounts!vars)
<1> USE DEF IInv, TypeOK
<1> DEFINE d == frame[s].donation
           u == frame[s].user
           n == frame[s].amount
<1>0. w = s /\ Server = s
  BY ServerIs
<1>t. n \in Nat /\ \A v \in Users : balance[v] \in Nat /\ settled[v] \in Nat
  BY <1>0 DEF Frame
<1>1. CASE BackendFinal(w) \/ BackendNotFinal(w)
  <2>1. UNCHANGED <<donations, balance, settled>>
    BY <1>1 DEF BackendFinal, BackendNotFinal, dbVars
  <2>2. frame[s].at = "query" /\ frame'[s].at \in {"confirm", "idle"}
    BY <1>0, <1>1 DEF BackendFinal, BackendNotFinal, GoTo, Return, Idle, Request
  <2>3. \A v \in Users : /\ Pending(s, v) = 0 /\ Pending(s, v)' = 0
                         /\ Recorded(s, v) = 0 /\ Recorded(s, v)' = 0
    BY <2>2 DEF Pending, Recorded
  <2> QED
    BY <1>0, <2>1, <2>3, InvisibleStep
<1>2. CASE ConfirmDonation(w)
  <2> DEFINE row == donations[d]
  <2>1. frame[s].at = "confirm" /\ d \in Donations /\ row \in Row /\ ~row.confirmed
    BY <1>0, <1>2 DEF ConfirmDonation, RequestsRefer, SnapshotsFresh
  <2>2. row.user \in Users /\ row.fee \in Nat /\ row # None
    BY <2>1, FeesAssumption, NoneAssumption DEF Row
  <2>3. /\ donations' = [donations EXCEPT ![d].confirmed = TRUE]
        /\ UNCHANGED <<balance, settled>>
    BY <1>0, <1>2 DEF ConfirmDonation
  <2>4. \/ row.fee > 0 /\ frame'[s] = Request("credit", d, row.user, row.fee, 0)
        \/ row.fee = 0 /\ frame'[s] = Idle
    BY <1>0, <1>2, <2>2 DEF ConfirmDonation, GoTo, Return
  <2>5. \A v \in Users : /\ Pending(s, v) = 0 /\ Recorded(s, v) = 0 /\ Recorded(s, v)' = 0
                         /\ Pending(s, v)' = IF v = row.user THEN row.fee ELSE 0
    BY <2>1, <2>2, <2>4 DEF Pending, Recorded, Idle, Request
  <2>6. Owed = [v \in Users |-> balance[v]]
    BY <1>0, <1>t, <2>5 DEF Owed
  <2>7. Owed' = [v \in Users |-> IF v = row.user THEN balance[v] + row.fee ELSE balance[v]]
    BY <1>0, <1>t, <2>2, <2>3, <2>5 DEF Owed
  <2>8. Owed' = [Owed EXCEPT ![row.user] = @ + row.fee]
    BY <2>2, <2>6, <2>7
  <2>9. Accounts!Confirm(d)
    BY <2>1, <2>2, <2>3, <2>8 DEF Accounts!Confirm
  <2> QED
    BY <2>1, <2>9 DEF Accounts!Next
<1>3. CASE IncrementFeeBalance(w)
  <2>1. frame[s].at = "credit" /\ u \in Users
    BY <1>0, <1>3 DEF IncrementFeeBalance, RequestsRefer
  <2>2. /\ UNCHANGED <<donations, settled>> /\ frame'[s] = Idle
        /\ balance' = [balance EXCEPT ![u] = @ + n]
    BY <1>0, <1>3 DEF IncrementFeeBalance, Return
  <2>3. \A v \in Users : /\ Recorded(s, v) = 0 /\ Recorded(s, v)' = 0 /\ Pending(s, v)' = 0
                         /\ Pending(s, v) = IF v = u THEN n ELSE 0
    BY <2>1, <2>2 DEF Pending, Recorded, Idle, Request
  <2>4. \A v \in Users : balance'[v] = IF v = u THEN balance[v] + n ELSE balance[v]
    BY <2>1, <2>2
  <2>5. \A v \in Users : balance'[v] + Pending(s, v)' - Recorded(s, v)'
                          = balance[v] + Pending(s, v) - Recorded(s, v)
    BY <1>t, <2>3, <2>4
  <2> QED
    BY <1>0, <2>2, <2>5, InvisibleStep
<1>4. CASE RecordSettlement(w)
  <2>1. frame[s].at = "record" /\ u \in Users /\ n = balance[u]
    BY <1>0, <1>4 DEF RecordSettlement, RequestsRefer, SnapshotsFresh
  <2>2. /\ UNCHANGED <<donations, balance>>
        /\ frame'[s].at = "reset" /\ frame'[s].user = u /\ frame'[s].amount = n
        /\ settled' = [settled EXCEPT ![u] = @ + n]
    BY <1>0, <1>4 DEF RecordSettlement, GoTo, Request
  <2>3. \A v \in Users : /\ Recorded(s, v) = 0 /\ Pending(s, v) = 0 /\ Pending(s, v)' = 0
                         /\ Recorded(s, v)' = IF v = u THEN n ELSE 0
    BY <2>1, <2>2 DEF Pending, Recorded
  <2>4. Owed = [v \in Users |-> balance[v]]
    BY <1>0, <1>t, <2>3 DEF Owed
  <2>5. Owed' = [v \in Users |-> IF v = u THEN 0 ELSE balance[v]]
    BY <1>0, <1>t, <2>1, <2>2, <2>3 DEF Owed
  <2>6. Owed[u] = n /\ Owed' = [Owed EXCEPT ![u] = 0]
    BY <2>1, <2>4, <2>5
  <2>7. Accounts!Settle(u)
    BY <2>2, <2>6 DEF Accounts!Settle
  <2> QED
    BY <2>1, <2>7 DEF Accounts!Next
<1>5. CASE ResetFeeBalance(w)
  <2>1. frame[s].at = "reset" /\ u \in Users /\ n = balance[u]
    BY <1>0, <1>5 DEF ResetFeeBalance, RequestsRefer, SnapshotsFresh
  <2>2. /\ UNCHANGED <<donations, settled>> /\ frame'[s] = Idle
        /\ balance' = [balance EXCEPT ![u] = 0]
    BY <1>0, <1>5 DEF ResetFeeBalance, Return
  <2>3. \A v \in Users : /\ Pending(s, v) = 0 /\ Pending(s, v)' = 0 /\ Recorded(s, v)' = 0
                         /\ Recorded(s, v) = IF v = u THEN n ELSE 0
    BY <2>1, <2>2 DEF Pending, Recorded, Idle, Request
  <2>4. \A v \in Users : balance'[v] = IF v = u THEN 0 ELSE balance[v]
    BY <2>1, <2>2
  <2>5. \A v \in Users : balance'[v] + Pending(s, v)' - Recorded(s, v)'
                          = balance[v] + Pending(s, v) - Recorded(s, v)
    BY <1>t, <2>1, <2>3, <2>4
  <2> QED
    BY <1>0, <2>2, <2>5, InvisibleStep
<1> QED
  BY <1>1, <1>2, <1>3, <1>4, <1>5 DEF Continue

\* Every step maps to a step of FeeAccounts or to a stutter.
LEMMA NextRefines ==
    ASSUME IInv, [Next]_vars, MaxAborts = 0, NEW s, Workers = {s}
    PROVE  [Accounts!Next]_(Accounts!vars)
<1> USE DEF IInv, TypeOK
<1>0. Server = s
  BY ServerIs
<1>1. ASSUME NEW w \in Workers, NEW d \in Donations, NEW u \in Users, NEW f \in Fees,
             CreateInvoice(w, d, u, f)
      PROVE  Accounts!Open(d, u, f)
  <2>1. Owed' = Owed
    BY <1>1 DEF CreateInvoice, Owed, Pending, Recorded
  <2> QED
    BY <1>1, <2>1 DEF CreateInvoice, Accounts!Open
<1>2. ASSUME NEW w \in Workers, NEW d \in Donations, CheckBegin(w, d)
      PROVE  UNCHANGED Accounts!vars
  <2>1. frame[s].at = "idle" /\ frame'[s].at = "query" /\ UNCHANGED <<donations, balance, settled>>
    BY <1>2 DEF CheckBegin, GoTo, Idle, Request, dbVars
  <2> QED
    BY <1>0, <2>1, InvisibleStep DEF Pending, Recorded
<1>3. ASSUME NEW w \in Workers, NEW u \in Users, SettlePage(w, u)
      PROVE  UNCHANGED Accounts!vars
  BY <1>3, InvisibleStep DEF SettlePage, dbVars, Pending, Recorded
<1>4. ASSUME NEW u \in Users, UserPays(u)
      PROVE  UNCHANGED Accounts!vars
  BY <1>4, InvisibleStep DEF UserPays, dbVars, Pending, Recorded
<1>5. ASSUME NEW w \in Workers, NEW u \in Users, SettleBegin(w, u)
      PROVE  UNCHANGED Accounts!vars
  <2>1. frame[s].at = "idle" /\ frame'[s].at = "record" /\ UNCHANGED <<donations, balance, settled>>
    BY <1>5 DEF SettleBegin, GoTo, Idle, Request, dbVars
  <2> QED
    BY <1>0, <2>1, InvisibleStep DEF Pending, Recorded
<1>6. ASSUME NEW w \in Workers, Continue(w)
      PROVE  [Accounts!Next]_(Accounts!vars)
  BY <1>6, ContinueRefines
<1>7. ASSUME NEW w \in Workers, Abort(w)
      PROVE  FALSE
  BY <1>7 DEF Abort
<1>8. CASE UNCHANGED vars
  BY <1>8, InvisibleStep DEF vars, Pending, Recorded
<1> QED
  BY <1>1, <1>2, <1>3, <1>4, <1>5, <1>6, <1>7, <1>8 DEF Next, Accounts!Next

\* One worker whose requests do not die implements the atomic bookkeeping of
\* FeeAccounts.
THEOREM Refinement ==
    ASSUME NEW s, Workers = {s}, MaxAborts = 0
    PROVE  Spec => ImplementsFeeAccounts
<1>1. Init => Accounts!Init
  <2> SUFFICES ASSUME Init PROVE Owed = [u \in Users |-> 0]
    BY DEF Init, Accounts!Init
  <2>1. \A u \in Users : balance[u] = 0 /\ Pending(s, u) = 0 /\ Recorded(s, u) = 0
    BY DEF Init, Pending, Recorded, Idle, Request
  <2> QED
    BY <2>1, ServerIs DEF Owed
<1>2. IInv /\ [Next]_vars => [Accounts!Next]_(Accounts!vars)
  BY NextRefines
<1> QED
  BY <1>1, <1>2, InductiveInvariant, PTL DEF Spec, ImplementsFeeAccounts, Accounts!Spec

=============================================================================
