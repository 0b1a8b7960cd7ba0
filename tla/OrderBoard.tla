----------------------------- MODULE OrderBoard -----------------------------
(***************************************************************************)
(* What the work-order table promises to everyone who reads it: an order   *)
(* appears as a draft or already assigned, and from then on its status     *)
(* moves one entry of WORK_ORDER_TRANSITIONS at a time, each move atomic.  *)
(* The handlers of ActLifecycle implement this as long as no two requests  *)
(* in flight are for the same order.                                       *)
(***************************************************************************)
EXTENDS AskkStatus

CONSTANT Orders

VARIABLE board

\* Every order has a status of the enumeration, or does not exist.
TypeOK == board \in [Orders -> WorkOrderStatus \cup {Absent}]

Init == board \in [Orders -> SeedStatus \cup {Absent}]

Create(o) ==
    /\ board[o] = Absent
    /\ \E status \in {"draft", "assigned"} :
           board' = [board EXCEPT ![o] = status]

Move(o) ==
    \E status \in WorkOrderStatus :
        /\ <<board[o], status>> \in WORK_ORDER_TRANSITIONS
        /\ board' = [board EXCEPT ![o] = status]

Next == \E o \in Orders : Create(o) \/ Move(o)

Spec == Init /\ [][Next]_board
=============================================================================
