--------------------------- MODULE PaymentStatus ---------------------------
(***************************************************************************)
(* The status a watch-only backend gives an invoice from what its address  *)
(* has received, and which statuses stop the polling.  The Bitcoin backend *)
(* (public_api.py) and both Monero backends classify with the same         *)
(* comparisons; both base.py files define is_final the same way.           *)
(***************************************************************************)
EXTENDS Integers

Statuses == {"not_found", "underpaid", "overpaid", "pending", "confirmed"}

\* Mutant: the comparison for an underpaid address is missing.
ClassifyAnyPayment(received, expected, confirmations, minConfirmations) ==
    CASE received = 0 -> "not_found"
      [] received # 0 /\ received # expected -> "overpaid"
      [] received # 0 /\ received = expected ->
            IF confirmations >= minConfirmations THEN "confirmed" ELSE "pending"

\* The comparisons come in the code's order; the guards below are disjoint.
Classify(received, expected, confirmations, minConfirmations) ==
    CASE received = 0 -> "not_found"
      [] received # 0 /\ received < expected -> "underpaid"
      [] received # 0 /\ received > expected -> "overpaid"
      [] received # 0 /\ received = expected ->
            IF confirmations >= minConfirmations THEN "confirmed" ELSE "pending"

\* An overpaid address is final whatever its confirmations are.
IsFinal(status) == status \in {"confirmed", "overpaid"}

=============================================================================
