--------------------------- MODULE AnchorLifecycle ---------------------------
(***************************************************************************)
(* What the system promises about one log table with an anchor_status: a   *)
(* stored row is pending until it is settled once and for all, and it is   *)
(* confirmed only if its entry is recorded on the chain.                   *)
(***************************************************************************)
CONSTANT Logs

VARIABLES status,    \* the anchor_status of each entry's row
          recorded   \* the entries recorded on the chain

vars == <<status, recorded>>

Init == /\ status = [l \in Logs |-> "absent"]
        /\ recorded = {}

Moves(l, from, to) == /\ status[l] = from
                      /\ status' = [status EXCEPT ![l] = to]
                      /\ UNCHANGED recorded

Store(l)   == Moves(l, "absent", "pending")
Confirm(l) == l \in recorded /\ Moves(l, "pending", "confirmed")
Fail(l)    == Moves(l, "pending", "failed")

Record(l)  == /\ status[l] # "absent"
              /\ recorded' = recorded \cup {l}
              /\ UNCHANGED status

Next == \E l \in Logs : Store(l) \/ Confirm(l) \/ Fail(l) \/ Record(l)

Spec == Init /\ [][Next]_vars
=============================================================================
