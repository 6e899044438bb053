---------------------------- MODULE FeeAccounts ----------------------------
(***************************************************************************)
(* What the platform-fee bookkeeping promises a user, with every request   *)
(* reduced to one atomic step: a donation is opened with a fee fixed at    *)
(* that moment, its fee becomes owed exactly once, when the donation is    *)
(* confirmed, and a settlement moves all that is owed to what is settled.  *)
(* FeeLedger implements it statement by statement, Invoices handler by     *)
(* handler.                                                                *)
(***************************************************************************)
EXTENDS Integers

CONSTANTS Users,        \* creators who owe platform fees
          Donations,    \* donation ids
          Fees,         \* fees a donation may carry
          None          \* the value of a row that does not exist

VARIABLES donations,    \* donation id -> its row, or None
          owed,         \* user -> fees confirmed and not yet settled
          settled       \* user -> fees settled so far

vars == <<donations, owed, settled>>

Init ==
    /\ donations = [d \in Donations |-> None]
    /\ owed = [u \in Users |-> 0]
    /\ settled = [u \in Users |-> 0]

Open(d, u, f) ==
    /\ donations[d] = None
    /\ donations' = [donations EXCEPT ![d] = [user |-> u, fee |-> f, confirmed |-> FALSE]]
    /\ UNCHANGED <<owed, settled>>

Confirm(d) ==
    /\ donations[d] # None
    /\ ~donations[d].confirmed
    /\ donations' = [donations EXCEPT ![d].confirmed = TRUE]
    /\ owed' = [owed EXCEPT ![donations[d].user] = @ + donations[d].fee]
    /\ UNCHANGED settled

Settle(u) ==
    /\ settled' = [settled EXCEPT ![u] = @ + owed[u]]
    /\ owed' = [owed EXCEPT ![u] = 0]
    /\ UNCHANGED donations

Next ==
    \/ \E d \in Donations, u \in Users, f \in Fees : Open(d, u, f)
    \/ \E d \in Donations : Confirm(d)
    \/ \E u \in Users : Settle(u)

Spec == Init /\ [][Next]_vars

=============================================================================
