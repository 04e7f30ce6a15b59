---------------------------- MODULE OrderManager ----------------------------
(***************************************************************************)
(* The order state machine of execution/order_manager.py, as operators on  *)
(* one tracked order.  An order is its status, the cumulative filled       *)
(* quantity it reports, and the part of that quantity already applied to   *)
(* the position (Order.applied_cumulative_qty).  Every module that tracks  *)
(* orders uses these operators; none of them keeps state of its own.       *)
(***************************************************************************)
EXTENDS Naturals

Terminal == {"FILLED", "CANCELED", "REJECTED", "EXPIRED"}

Open == {"CREATED", "SUBMITTING", "NEW", "PARTIALLY_FILLED", "UNKNOWN"}

Status == Open \cup Terminal

\* A client order id that the map does not hold.
NoOrder == [status |-> "NONE", filled |-> 0, applied |-> 0]

Order == [status : Status, filled : Nat, applied : Nat]

\* Where each status may go; a status with no entry is absorbing.
ValidTransitions ==
    [s \in Status |->
        CASE s = "CREATED" ->
               {"SUBMITTING", "NEW", "PARTIALLY_FILLED", "FILLED", "REJECTED", "CANCELED"}
          [] s = "SUBMITTING" ->
               {"NEW", "FILLED", "PARTIALLY_FILLED", "REJECTED", "CANCELED", "UNKNOWN"}
          [] s = "NEW" ->
               {"PARTIALLY_FILLED", "FILLED", "CANCELED", "EXPIRED", "REJECTED", "UNKNOWN"}
          [] s = "PARTIALLY_FILLED" ->
               {"PARTIALLY_FILLED", "FILLED", "CANCELED", "EXPIRED", "UNKNOWN"}
          [] s = "UNKNOWN" ->
               {"NEW", "PARTIALLY_FILLED", "FILLED", "CANCELED", "REJECTED", "EXPIRED"}
          [] OTHER -> {}]

Larger(m, n) == IF m >= n THEN m ELSE n

Smaller(m, n) == IF m <= n THEN m ELSE n

\* Mutant of Accepts: any status.
AcceptsAny(o, status) == TRUE

Accepts(o, status) == status = o.status \/ status \in ValidTransitions[o.status]

(* transition_status: a refused transition changes nothing at all, an      *)
(* accepted one also raises the cumulative filled quantity, never lowers   *)
(* it.  A caller that passes no filled_qty is cum = 0.                     *)
TransitionStatus(o, status, cum) ==
    IF Accepts(o, status)
    THEN [o EXCEPT !.status = status, !.filled = Larger(@, cum)]
    ELSE o

(* upsert_order: the given object itself when the id is new, a transition  *)
(* of the tracked one otherwise (applied_cumulative_qty is not merged).    *)
UpsertOrder(o, given) ==
    IF o = NoOrder THEN given ELSE TransitionStatus(o, given.status, given.filled)
=============================================================================
