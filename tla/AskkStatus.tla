----------------------------- MODULE AskkStatus -----------------------------
(***************************************************************************)
(* The two status enumerations of the backend and the tables of permitted  *)
(* transitions every handler consults before it writes a status: work      *)
(* orders (app/models/order.py) and acts (app/models/act.py).  A table is  *)
(* a set of <<from, to>> pairs.                                            *)
(***************************************************************************)

WorkOrderStatus == {"draft", "assigned", "in_progress", "submitted",
                    "auto_confirmed", "confirmed", "rejected",
                    "delayed_verification", "verified", "issue_found",
                    "cancelled"}

WORK_ORDER_TRANSITIONS ==
    ({"draft"} \X {"assigned", "cancelled"})
        \cup ({"assigned"} \X {"in_progress", "cancelled"})
        \cup ({"in_progress"} \X {"submitted", "auto_confirmed",
                                  "delayed_verification", "cancelled"})
        \cup ({"submitted"} \X {"auto_confirmed", "delayed_verification",
                                "cancelled"})
        \cup ({"auto_confirmed"} \X {"confirmed", "issue_found", "cancelled"})
        \cup ({"delayed_verification"} \X {"verified", "issue_found"})
        \cup ({"issue_found"} \X {"assigned", "cancelled"})
        \cup ({"rejected"} \X {"draft", "cancelled"})

\* Mutated: a status written without the check.
AnyTransition(from, to) == TRUE

\* A no-op is always permitted.
can_transition(from, to) ==
    from = to \/ <<from, to>> \in WORK_ORDER_TRANSITIONS

ActStatus == {"draft", "submitted", "auto_confirmed", "confirmed", "rejected",
              "delayed_verification", "verified", "issue_found"}

ACT_TRANSITIONS ==
    ({"draft"} \X {"submitted", "rejected"})
        \cup ({"submitted"} \X {"auto_confirmed", "delayed_verification",
                                "rejected"})
        \cup ({"auto_confirmed"} \X {"confirmed", "issue_found", "rejected"})
        \cup ({"delayed_verification"} \X {"verified", "issue_found",
                                           "rejected"})
        \cup ({"issue_found"} \X {"draft", "rejected"})
        \cup ({"rejected"} \X {"draft"})

\* Mutated: an act's status written without the check.
AnyActTransition(from, to) == TRUE

can_act_transition(from, to) ==
    from = to \/ <<from, to>> \in ACT_TRANSITIONS

\* A row that has not been inserted yet.
Absent == "absent"

\* The statuses of the orders app/mocks/generators/seed.py leaves; it leaves no
\* act (Seed).
SeedStatus == {"assigned", "in_progress"}
=============================================================================
