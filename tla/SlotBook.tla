------------------------------ MODULE SlotBook ------------------------------
(***************************************************************************)
(* The slots of a portfolio strategy: logical lots, one per entry signal,  *)
(* each with its own stop, target and expiry, over one aggregate position. *)
(* The engine opens a slot when an entry's fill is booked and closes it    *)
(* when its exit's fill is; nothing but these bookkeeping steps keeps the  *)
(* slots equal to the position.                                            *)
(*                                                                         *)
(* A signal has one entry order and one exit order, whose client ids are   *)
(* both made from the entry's candle.  The fill path is taken at what      *)
(* FillLedger shows of it: a report books, in one step, the lots of its    *)
(* cumulative quantity that were not applied before, a sell no more than   *)
(* the position, and a restart finds them applied.  The slot is changed    *)
(* after the booking, in a commit of its own, so that Crash falls between. *)
(* Stop, target and expiry are abstracted to "some barrier of an open slot *)
(* is hit, at any time"; prices, fees and equity are left out.             *)
(***************************************************************************)
EXTENDS OrderManager, FiniteSets, Functions

CONSTANTS
    Signals,    \* entry signals
    Lots,       \* the quantity each signal buys
    Limit,      \* slots of the manifest, and the guard's max_open_trades
    Faults,     \* the environment's misdeeds of this instance
    MaxFaults   \* bound on them, each at most once

ASSUME SignalsAssumption == IsFiniteSet(Signals)
ASSUME LotsAssumption == Lots \in [Signals -> Nat \ {0}]
ASSUME LimitAssumption == Limit \in Nat \ {0}
ASSUME FaultsAssumption == Faults \subseteq {"unknown", "ended", "audit", "crash"}
ASSUME MaxAssumption == MaxFaults \in Nat

VARIABLES
    xchg,       \* external: the last exchange order under each client id
    xpos,       \* external: the account's long position
    events,     \* external: every event the private stream pushed
    orders,     \* OrderManager._orders_by_client_id
    stored,     \* what the orders table and the ledger restore of an order
    pos,        \* PositionManager.quantity: long, or flat
    slots,      \* SlotBook.slots, saved at every change
    mapped,     \* signals whose exit is in _pending_slot_exits_by_cid
    unknown,    \* health.unknown_orders
    task,       \* the step the event loop is at
    causes      \* what has happened that may part slots and position

exchange == <<xchg, xpos, events>>
ledger == <<orders, stored, pos>>
slotVars == <<exchange, ledger, slots, mapped, unknown, task, causes>>

\* Misdeed f may still happen.
May(f) == f \in Faults \ causes /\ Cardinality(causes \cap Faults) < MaxFaults

-----------------------------------------------------------------------------
Entry(s) == <<s, "BUY">>

Exit(s) == <<s, "SELL">>

Ids == Signals \X {"BUY", "SELL"}

IsEntry(c) == c[2] = "BUY"

ReportStatus == {"NEW", "PARTIALLY_FILLED", "FILLED", "CANCELED", "EXPIRED"}

Executing == {"FILLED", "PARTIALLY_FILLED"}

NoSlot == [state |-> "NONE", lots |-> 0]

\* The slots the book holds; an open one is watched for its barriers.
Held == {s \in Signals : slots[s] # NoSlot}

Pending == {s \in Held : slots[s].state = "EXIT_PENDING"}

Watched == {s \in Held : slots[s].state = "OPEN"}

\* open_quantity
Total == SumFunctionOnSet([s \in Signals |-> slots[s].lots], Signals)

-----------------------------------------------------------------------------
(* The event loop: idle, down, or inside a handler that works on order cid. *)
(* lots is what a report just booked, by the stream or by the handler that *)
(* sent the order; taken says that the exchange took the order sent.       *)

NoId == <<"none", "NONE">>

Idle == [at |-> "idle", cid |-> NoId, lots |-> 0, stream |-> FALSE, taken |-> FALSE]

Down == [Idle EXCEPT !.at = "down"]

At(step, c) == [Idle EXCEPT !.at = step, !.cid = c]

Slotting(c, q, stream) == [At("slotting", c) EXCEPT !.lots = q, !.stream = stream]

SlotInit ==
    /\ xchg = [c \in Ids |-> [status |-> "NONE", cum |-> 0, qty |-> 0]]
    /\ xpos = 0 /\ events = {}
    /\ orders = [c \in Ids |-> NoOrder]
    /\ stored = [c \in Ids |-> NoOrder]
    /\ pos = 0
    /\ slots = [s \in Signals |-> NoSlot]
    /\ mapped = {} /\ unknown = {}
    /\ task = Idle
    /\ causes = {}

-----------------------------------------------------------------------------
(* The exchange (external).  It takes an order when it is sent or never    *)
(* has it.  A client id is unique among open orders: one that has ended    *)
(* may be sent again.                                                      *)

Push(c, status, cum) ==
    /\ xchg' = [xchg EXCEPT ![c].status = status, ![c].cum = cum]
    /\ events' = events \cup {[cid |-> c, status |-> status, cum |-> cum]}
    /\ UNCHANGED <<ledger, slots, mapped, unknown, task>>

\* One lot trades; an exit is reduce-only.
Trade(c) ==
    /\ xchg[c].status \in {"NEW", "PARTIALLY_FILLED"}
    /\ ~IsEntry(c) => xpos > 0
    /\ LET cum == xchg[c].cum + 1
       IN  Push(c, IF cum = xchg[c].qty THEN "FILLED" ELSE "PARTIALLY_FILLED", cum)
    /\ xpos' = IF IsEntry(c) THEN xpos + 1 ELSE xpos - 1
    /\ UNCHANGED causes

\* What is left of order c is cancelled or expires.
End(c, status) ==
    /\ May("ended")
    /\ xchg[c].status \in {"NEW", "PARTIALLY_FILLED"}
    /\ Push(c, status, xchg[c].cum)
    /\ causes' = causes \cup {"ended"}
    /\ UNCHANGED xpos

-----------------------------------------------------------------------------
(* Booking a report through FillApplier.                                   *)

\* The tracked order, the stored one adopted, or one made up.
Tracked(c) ==
    CASE orders[c] # NoOrder                          -> orders[c]
      [] orders[c] = NoOrder /\ stored[c] # NoOrder -> stored[c]
      [] OTHER -> [status |-> "UNKNOWN", filled |-> 0, applied |-> 0]

Merge(o, status, cum) ==
    [TransitionStatus([o EXCEPT !.applied = Larger(@, cum)], status, cum)
        EXCEPT !.filled = Larger(@, cum)]

\* The exchange's own order object, saved; the ledger still has what was applied.
Resaved(c, applied) == [status |-> xchg[c].status, filled |-> xchg[c].cum, applied |-> applied]

\* The lots by which a report of order c moves the position.
Moved(c, cum) ==
    LET o == Tracked(c)
        fresh == IF cum > o.applied THEN cum - o.applied ELSE 0
    IN  IF IsEntry(c) THEN fresh ELSE Smaller(fresh, pos)

Book(c, status, cum) ==
    /\ orders' = [orders EXCEPT ![c] = Merge(Tracked(c), status, cum)]
    /\ stored' = [stored EXCEPT ![c] = Merge(Tracked(c), status, cum)]
    /\ pos' = IF IsEntry(c) THEN pos + Moved(c, cum) ELSE pos - Moved(c, cum)

-----------------------------------------------------------------------------
(* slot_book.py.                                                           *)

\* Mutant of CloseFill: more is taken than the slot has.
CloseFillUncut(slot, q) == [state |-> "OPEN", lots |-> slot.lots - q]

(* close_fill: no more than the slot has; nothing booked reopens it, an    *)
(* emptied slot is removed, any other goes on being watched.               *)
CloseFill(slot, q) ==
    LET left == slot.lots - Smaller(q, slot.lots)
    IN  IF q > 0 /\ slot.lots > 0 /\ left = 0 THEN NoSlot ELSE [state |-> "OPEN", lots |-> left]

\* The exit's slot, watched again.
Reopened(s) ==
    IF slots[s].state = "EXIT_PENDING" THEN [slots EXCEPT ![s].state = "OPEN"] ELSE slots

\* Mutant of NoOrderSent: the slot stays as it is.
NoOrderSentSilently(c) ==
    /\ slots' = slots
    /\ task' = Idle

\* Where a handler without an order ends: the exit's slot is watched again.
NoOrderSent(c) ==
    /\ slots' = IF IsEntry(c) THEN slots ELSE Reopened(c[1])
    /\ task' = Idle

-----------------------------------------------------------------------------
(* Sending an order.                                                       *)

\* The intent is stored and the order sent; it is not taken while the exchange
\* holds an open order under its id.
Send(c, q) ==
    LET intent == [status |-> "SUBMITTING", filled |-> 0, applied |-> 0]
    IN  /\ orders' = [orders EXCEPT ![c] = UpsertOrder(@, intent)]
        /\ stored' = [stored EXCEPT ![c] = [intent EXCEPT !.applied = stored[c].applied]]
        /\ \/ /\ xchg[c].status \notin {"NEW", "PARTIALLY_FILLED"}
              /\ xchg' = [xchg EXCEPT ![c] = [status |-> "NEW", cum |-> 0, qty |-> q]]
              /\ events' = events \cup {[cid |-> c, status |-> "NEW", cum |-> 0]}
              /\ task' = [At("placing", c) EXCEPT !.taken = TRUE]
           \/ /\ task' = At("placing", c)
              /\ UNCHANGED <<xchg, events>>

(* A signal enters once.  An order in doubt blocks it, and so do as many   *)
(* slots as the manifest and the risk guard allow.                         *)
Enter(s) ==
    /\ task.at = "idle"
    /\ unknown = {} /\ Cardinality(Held) < Limit
    /\ orders[Entry(s)] = NoOrder /\ stored[Entry(s)] = NoOrder
    /\ Send(Entry(s), Lots[s])
    /\ UNCHANGED <<xpos, pos, slots, mapped, unknown, causes>>

\* A barrier or the expiry of an open slot is hit.
Trigger(s) ==
    /\ task.at = "idle" /\ s \in Watched
    /\ slots' = [slots EXCEPT ![s].state = "EXIT_PENDING"]
    /\ task' = At("exiting", Exit(s))
    /\ UNCHANGED <<exchange, ledger, mapped, unknown, causes>>

(* The quantity of a slot's exit: the slot's, or the whole position when   *)
(* the slot has none, cut to what the exchange reports.                    *)
ExitQty(s) == Smaller(IF slots[s].lots = 0 THEN pos ELSE slots[s].lots, xpos)

MayExit(s) == ExitQty(s) > 0 /\ pos > 0 /\ ExitQty(s) <= pos

\* The position is unreadable, flat or too small.
ExitBlocked ==
    /\ task.at = "exiting"
    /\ NoOrderSent(task.cid)
    /\ UNCHANGED <<exchange, ledger, mapped, unknown, causes>>

\* An exit that is tracked as sent, working or filled is not sent again.
IsSent(c) == orders[c].status \in {"SUBMITTING", "NEW", "PARTIALLY_FILLED", "FILLED"}

ExitTracked ==
    /\ task.at = "exiting"
    /\ MayExit(task.cid[1]) /\ IsSent(task.cid)
    /\ task' = Idle
    /\ UNCHANGED <<exchange, ledger, slots, mapped, unknown, causes>>

SendExit ==
    /\ task.at = "exiting"
    /\ MayExit(task.cid[1]) /\ ~IsSent(task.cid)
    /\ Send(task.cid, ExitQty(task.cid[1]))
    /\ mapped' = mapped \cup {task.cid[1]}
    /\ UNCHANGED <<xpos, pos, slots, unknown, causes>>

-----------------------------------------------------------------------------
(* The outcome of a POST.                                                  *)

\* The answer reports fills of an order that is filled or working.
RespondFilled ==
    LET c == task.cid
        x == xchg[c]
    IN  /\ task.at = "placing" /\ task.taken
        /\ x.status \in Executing /\ x.cum > 0
        /\ Book(c, x.status, x.cum)
        /\ task' = Slotting(c, Moved(c, x.cum), FALSE)
        /\ UNCHANGED <<exchange, slots, mapped, unknown, causes>>

\* Any other answer is merged, with whatever it has filled; only a cancelled
\* exit reopens its slot.
RespondOpen ==
    LET c == task.cid
        x == xchg[c]
        answer == Resaved(c, 0)
    IN  /\ task.at = "placing" /\ task.taken
        /\ x.status \in ReportStatus \ Executing
        /\ orders' = [orders EXCEPT ![c] = UpsertOrder(@, answer)]
        /\ stored' = [stored EXCEPT ![c] = Resaved(c, stored[c].applied)]
        /\ IF x.status = "CANCELED" THEN NoOrderSent(c) ELSE task' = Idle /\ UNCHANGED slots
        /\ UNCHANGED <<exchange, pos, mapped, unknown, causes>>

\* Refused, or the id is in use: REJECTED in memory, still SUBMITTING in store.
PlacementFails ==
    LET c == task.cid
    IN  /\ task.at = "placing"
        /\ ~task.taken
        /\ orders' = [orders EXCEPT ![c] = TransitionStatus(@, "REJECTED", 0)]
        /\ NoOrderSent(c)
        /\ causes' = causes \cup (IF IsEntry(c) THEN {} ELSE {"refused"})
        /\ UNCHANGED <<exchange, stored, pos, mapped, unknown>>

\* The outcome is not known: the order is UNKNOWN and gets queried.
PlacementUnknown ==
    LET c == task.cid
        o == TransitionStatus(orders[c], "UNKNOWN", 0)
    IN  /\ May("unknown")
        /\ task.at = "placing"
        /\ orders' = [orders EXCEPT ![c] = o]
        /\ stored' = [stored EXCEPT ![c] = o]
        /\ unknown' = unknown \cup {c}
        /\ task' = At("resolving", c)
        /\ causes' = causes \cup {"unknown"}
        /\ UNCHANGED <<exchange, pos, slots, mapped>>

(* Found by a query.  A fill is booked there and then; the handler applies *)
(* the order it gets back once more, which is a duplicate of no lots.      *)
ResolveFound ==
    LET c == task.cid
        x == xchg[c]
    IN  /\ task.at = "resolving" /\ x.status \in ReportStatus
        /\ orders' = [orders EXCEPT ![c] = Merge(@, x.status, x.cum)]
        /\ stored' = [stored EXCEPT ![c] = Resaved(c, orders'[c].applied)]
        /\ pos' = IF IsEntry(c) THEN pos + Moved(c, x.cum) ELSE pos - Moved(c, x.cum)
        /\ unknown' = unknown \ {c}
        /\ IF orders'[c].status \in Executing /\ orders'[c].filled > 0
           THEN task' = Slotting(c, 0, FALSE) /\ UNCHANGED slots
           ELSE IF orders'[c].status \in {"REJECTED", "CANCELED"} THEN NoOrderSent(c)
                ELSE task' = Idle /\ UNCHANGED slots
        /\ UNCHANGED <<exchange, mapped, causes>>

\* Taken for absent after queries that found nothing, and no trade of it.
ResolveAbsent ==
    LET c == task.cid
    IN  /\ task.at = "resolving"
        /\ orders' = [orders EXCEPT ![c] = TransitionStatus(@, "REJECTED", 0)]
        /\ unknown' = unknown \ {c}
        /\ NoOrderSent(c)
        /\ UNCHANGED <<exchange, stored, pos, mapped, causes>>

\* Still in doubt, and still on the list that blocks entries.
ResolveUnresolved ==
    /\ task.at = "resolving"
    /\ NoOrderSent(task.cid)
    /\ UNCHANGED <<exchange, ledger, mapped, unknown, causes>>

-----------------------------------------------------------------------------
(* The private stream, and the slot after a booking.                       *)

Stream(e) ==
    /\ task.at = "idle" /\ e \in events
    /\ Book(e.cid, e.status, e.cum)
    /\ task' = IF Moved(e.cid, e.cum) > 0
               THEN Slotting(e.cid, Moved(e.cid, e.cum), TRUE) ELSE Idle
    /\ UNCHANGED <<exchange, slots, mapped, unknown, causes>>

\* Mutant of AddSlot: a later fill grows the slot by all that was applied.
AddSlotGrows ==
    LET s == task.cid[1]
    IN  /\ task.at = "slotting" /\ IsEntry(task.cid)
        /\ slots' = [slots EXCEPT
                        ![s] = [state |-> "OPEN", lots |-> @.lots + orders[task.cid].applied]]
        /\ task' = Idle
        /\ UNCHANGED <<exchange, ledger, mapped, unknown, causes>>

(* An entry's fill opens its slot.  A later fill of the same order does    *)
(* not grow it, and a full book raises: both leave lots without a slot.    *)
AddSlot ==
    LET s == task.cid[1]
        full == Cardinality(Held) >= Limit
    IN  /\ task.at = "slotting" /\ IsEntry(task.cid)
        /\ slots' = IF s \in Held \/ full THEN slots
                    ELSE [slots EXCEPT ![s] = [state |-> "OPEN", lots |-> task.lots]]
        /\ causes' = causes \cup (IF task.lots < Lots[s] THEN {"part"} ELSE {})
                            \cup (IF s \notin Held /\ full THEN {"full"} ELSE {})
        /\ task' = Idle
        /\ UNCHANGED <<exchange, ledger, mapped, unknown>>

(* The slot an exit's fill is charged to: its own when this process sent   *)
(* the exit, else the only one with an exit pending, else the only one.    *)
Charged(s) ==
    IF ~task.stream \/ s \in mapped THEN {s} \cap Held
    ELSE IF Cardinality(Pending) = 1 THEN Pending
    ELSE IF Cardinality(Held) = 1 THEN Held ELSE {}

CloseSlot ==
    /\ task.at = "slotting" /\ ~IsEntry(task.cid)
    /\ slots' = [s \in Signals |->
                    IF s \in Charged(task.cid[1]) THEN CloseFill(slots[s], task.lots)
                    ELSE slots[s]]
    /\ task' = Idle
    /\ causes' = causes \cup
           (IF \E s \in Charged(task.cid[1]) : task.lots <= slots[s].lots THEN {} ELSE {"stray"})
    /\ UNCHANGED <<exchange, ledger, mapped, unknown>>

-----------------------------------------------------------------------------
(* Audits, death and start.                                                *)

(* reconcile_position finds a difference: the executions of some orders it *)
(* can name are recovered, and the position becomes the exchange's.  No    *)
(* slot is touched.                                                        *)
Audit ==
    /\ May("audit")
    /\ task.at = "idle" /\ pos # xpos
    /\ \E got \in SUBSET {c \in Ids : orders[c].status \in ReportStatus /\ xchg[c].cum > 0} :
          LET seen(c, o) == IF c \in got THEN Merge(o, "PARTIALLY_FILLED", xchg[c].cum) ELSE o
          IN  /\ orders' = [c \in Ids |-> seen(c, orders[c])]
              /\ stored' = [c \in Ids |-> IF c \in got THEN orders'[c] ELSE stored[c]]
    /\ pos' = xpos
    /\ causes' = causes \cup {"audit"}
    /\ UNCHANGED <<exchange, slots, mapped, unknown, task>>

Crash ==
    /\ May("crash")
    /\ task.at # "down"
    /\ orders' = [c \in Ids |-> NoOrder]
    /\ pos' = 0
    /\ mapped' = {} /\ unknown' = {}
    /\ task' = Down
    /\ causes' = causes \cup {"crash"}
    /\ UNCHANGED <<exchange, stored, slots>>

Restored(c) ==
    IF stored[c].status \in Open \/ stored[c].applied > 0 THEN stored[c] ELSE NoOrder

\* Mutant of Restart: the slots are not compared.
RestartUncompared ==
    /\ task.at = "down"
    /\ orders' = [c \in Ids |-> Restored(c)]
    /\ pos' = xpos
    /\ task' = Idle
    /\ UNCHANGED <<exchange, stored, slots, mapped, unknown, causes>>

(* The open orders are asked for, their fills booked, the position made    *)
(* the exchange's and the slots compared with it.  The gates let an engine *)
(* trade whose audit found every order and whose slots are the position;   *)
(* any other one ends, for the operator to see to.                         *)
Restart ==
    /\ task.at = "down"
    /\ LET open == {c \in Ids : Restored(c).status \in Open}
       IN  \E found \in SUBSET {c \in open : xchg[c].status \in ReportStatus} :
              LET audited(c, o) ==
                      IF c \in found THEN Merge(o, xchg[c].status, xchg[c].cum) ELSE o
                  clean == found = open /\ Total = xpos
              IN  /\ stored' = [c \in Ids |->
                        IF c \in found THEN Resaved(c, audited(c, stored[c]).applied)
                        ELSE stored[c]]
                  /\ orders' = [c \in Ids |->
                                   IF clean THEN audited(c, Restored(c)) ELSE NoOrder]
                  /\ pos' = IF clean THEN xpos ELSE 0
                  /\ task' = IF clean THEN Idle ELSE Down
    /\ UNCHANGED <<exchange, slots, mapped, unknown, causes>>

-----------------------------------------------------------------------------
Exchange ==
    \E c \in Ids :
        \/ Trade(c)
        \/ \E status \in {"CANCELED", "EXPIRED"} : End(c, status)

Engine ==
    \/ \E s \in Signals : Enter(s) \/ Trigger(s)
    \/ ExitBlocked \/ ExitTracked \/ SendExit
    \/ RespondFilled \/ RespondOpen \/ PlacementFails \/ PlacementUnknown
    \/ ResolveFound \/ ResolveAbsent \/ ResolveUnresolved
    \/ \E e \in events : Stream(e)
    \/ AddSlot \/ CloseSlot \/ Audit \/ Restart

SlotNext == Exchange \/ Engine \/ Crash

SlotSpec == SlotInit /\ [][SlotNext]_slotVars

-----------------------------------------------------------------------------
(* Properties.                                                             *)

\* The shape of every variable.
SlotTypeOK ==
    /\ xchg \in [Ids -> [status : ReportStatus \cup {"NONE"}, cum : Nat, qty : Nat]]
    /\ events \subseteq [cid : Ids, status : ReportStatus, cum : Nat]
    /\ orders \in [Ids -> Order \cup {NoOrder}] /\ stored \in [Ids -> Order \cup {NoOrder}]
    /\ xpos \in Nat /\ pos \in Nat
    /\ slots \in [Signals -> [state : {"NONE", "OPEN", "EXIT_PENDING"}, lots : Nat]]
    /\ mapped \subseteq Signals /\ unknown \subseteq Ids
    /\ task \in [at : {"idle", "down", "exiting", "placing", "resolving", "slotting"},
                 cid : Ids \cup {NoId}, lots : Nat, stream : BOOLEAN, taken : BOOLEAN]
    /\ causes \subseteq Faults \cup {"part", "full", "refused", "stray"}

(* A slot never claims more lots than its own entry has booked, whatever   *)
(* is lost, repeated, audited, resent or died in between: add_fill takes   *)
(* what was applied, and fills charged to the wrong slot only shrink it.   *)
SlotHoldsItsEntry == \A s \in Signals : slots[s].lots <= Tracked(Entry(s)).applied

(* Between handlers the slots are the position, lot for lot, also across a *)
(* death and a start and when orders are refused or end early.  The other  *)
(* causes are the only ways to part them: an entry booked in parts, a full *)
(* book, a submission in doubt, an audit that moved the position, and a    *)
(* sale that no slot is charged with, or one that has less than it sold:   *)
(* after a start, the sale of a slot may be charged to another one.        *)
SlotsArePosition ==
    task.at = "idle" /\ causes \subseteq {"ended", "refused", "crash"} => Total = pos

(* A slot whose barriers are no longer watched has an exit that is on its  *)
(* way, working, or filled and not yet booked, unless a cause is on record. *)
PendingIsWorking ==
    task.at = "idle" /\ causes = {} =>
        \A s \in Pending :
            \/ xchg[Exit(s)].status \in {"NEW", "PARTIALLY_FILLED"}
            \/ orders[Exit(s)].applied < xchg[Exit(s)].cum

(* Refuted.  _submit_slot_exit closes "one logical lot": the exit of a     *)
(* slot never sells more than its signal bought.                           *)
ExitSellsOneLot == \A s \in Signals : xchg[Exit(s)].qty <= Lots[s]
=============================================================================
