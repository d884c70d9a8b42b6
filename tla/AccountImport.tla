---------------------------- MODULE AccountImport ----------------------------
(***************************************************************************)
(* What the import of an account promises whoever asked for it, whatever   *)
(* happens to the processes and jobs that carry it out.                    *)
(*                                                                         *)
(* A row of the source that is wanted is copied once, while the import is  *)
(* active, and an import that is completed has copied all of them.  One    *)
(* that failed may be asked for again, and goes on from what was copied;   *)
(* only if it is asked for with another selection may it complete without  *)
(* some.  Nothing is promised once two processes have run it at once.      *)
(***************************************************************************)
EXTENDS Naturals

CONSTANTS
    Rows,   \* what the source has
    Kinds,  \* the steps a selection is made of
    KindOf  \* the step of each row

VARIABLES
    status,     \* "none", "active", "completed" or "failed"
    selected,   \* the steps that are selected
    copies,     \* for each row, how often the account has it
    reselected, \* it failed with one selection and was resumed with another
    overlapped  \* two processes have run it at once

promise == <<status, selected, copies, reselected, overlapped>>

wanted == {r \in Rows : KindOf[r] \in selected}

Init ==
    /\ status = "none"
    /\ selected \subseteq Kinds
    /\ copies = [r \in Rows |-> 0]
    /\ reselected = FALSE /\ overlapped = FALSE

\* A first import, another one, or a failed one resumed.
Ask ==
    /\ status # "active"
    /\ status' = "active"
    /\ selected' \subseteq Kinds
    /\ reselected' = (status = "failed" /\ (reselected \/ selected' # selected))
    /\ UNCHANGED <<copies, overlapped>>

Copy ==
    /\ status = "active"
    /\ copies' \in [Rows -> Nat]
    /\ \A r \in Rows : \/ copies'[r] = copies[r]
                       \/ r \in wanted /\ copies[r] = 0 /\ copies'[r] = 1
    /\ UNCHANGED <<status, selected, reselected, overlapped>>

Complete ==
    /\ status = "active"
    /\ reselected \/ \A r \in wanted : copies[r] = 1
    /\ status' = "completed"
    /\ UNCHANGED <<selected, copies, reselected, overlapped>>

Fail ==
    /\ status = "active"
    /\ status' = "failed"
    /\ UNCHANGED <<selected, copies, reselected, overlapped>>

\* A failed import starts again by itself, when its job is delivered once more.
Restart ==
    /\ status = "failed"
    /\ status' = "active"
    /\ UNCHANGED <<selected, copies, reselected, overlapped>>

Next == Ask \/ Copy \/ Complete \/ Fail \/ Restart \/ overlapped'

Spec == Init /\ [][Next]_promise
=============================================================================
