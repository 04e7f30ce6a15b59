----------------------------- MODULE FillLedger -----------------------------
(***************************************************************************)
(* The shared fill path: FillApplier over OrderManager, PositionManager    *)
(* and the event store's orders and fills tables, fed by REST answers and  *)
(* by ORDER_TRADE_UPDATE events, with a process that may die between any   *)
(* two commits and rebuild itself from the store.                          *)
(*                                                                         *)
(* The exchange (external) executes each order in trades and pushes one    *)
(* event per change.  A pushed event may reach the engine late, twice, out *)
(* of order or never: any event of the log may be delivered at any time.   *)
(*                                                                         *)
(* The engine is one asyncio loop and every handler here runs without an   *)
(* await, so handlers do not interleave; but each commit is a step of its  *)
(* own, so that Crash falls between any two of them.  task says where the  *)
(* running handler is.  Entries are plain BUYs, exits reduce-only SELLs,   *)
(* and each client order id is used for one exchange order.                *)
(***************************************************************************)
EXTENDS OrderManager, PositionManager, Sequences, Functions

CONSTANTS
    Entries,        \* client order ids of entries (BUY)
    Exits,          \* client order ids of exits (SELL, reduce-only)
    Qty,            \* the quantity of each order, in lots
    Ends,           \* how the exchange may end an order that is not filled
    MaxCrashes      \* bound on process deaths

Ids == Entries \cup Exits

ASSUME IdsAssumption == Entries \cap Exits = {}
ASSUME QtyAssumption == Qty \in [Ids -> Nat \ {0}]
ASSUME EndsAssumption == Ends \subseteq {"CANCELED", "EXPIRED"}
ASSUME CrashAssumption == MaxCrashes \in Nat

VARIABLES
    xchg,       \* external: status and executed quantity of each order
    xpos,       \* external: the account's long position
    events,     \* external: every event the private stream pushed
    orders,     \* OrderManager._orders_by_client_id
    pos,        \* PositionManager
    fills,      \* table fills, in insertion order
    dbOrders,   \* table orders
    clamped,    \* a FILL_OVERSIZE_CLAMPED incident is on record
    task,       \* the step the event loop is at
    crashes     \* process deaths so far

exchange == <<xchg, xpos, events>>
engine == <<orders, pos, fills, dbOrders, clamped>>
vars == <<exchange, engine, task, crashes>>

-----------------------------------------------------------------------------
(* Execution reports.  trade is the exchange's trade id, 0 in a REST answer *)
(* or a status-only event, which carry none.                               *)

ReportStatus == {"NEW", "PARTIALLY_FILLED", "FILLED", "CANCELED", "EXPIRED"}

Report == [cid : Ids, status : ReportStatus, cum : Nat, trade : Nat]

NoReport == [cid |-> "none", status |-> "NONE", cum |-> 0, trade |-> 0]

\* The order object a REST answer carries; it knows nothing of what was applied.
AsOrder(r) == [status |-> r.status, filled |-> r.cum, applied |-> 0]

\* What a query of order c returns now.
Answer(c) == [cid |-> c, status |-> xchg[c].status, cum |-> xchg[c].cum, trade |-> 0]

\* Mutant of SameKey: the trade id is not part of the key.
SameKeyByCum(r, s) == r.cid = s.cid /\ r.cum = s.cum /\ r.status = s.status

(* The ledger is unique on (client id, key): the trade id when there is    *)
(* one, else the cumulative quantity with the status.                      *)
SameKey(r, s) ==
    /\ r.cid = s.cid /\ r.trade = s.trade
    /\ r.trade = 0 => r.cum = s.cum /\ r.status = s.status

Recorded(r) == \E i \in 1 .. Len(fills) : SameKey(fills[i], r)

-----------------------------------------------------------------------------
(* The event loop: idle, down, or inside a handler.  report is what the    *)
(* handler works on, resave says that it ends by saving the exchange's own *)
(* order object, todo are the open orders the startup audit has left, row  *)
(* is the ledger row the replay is at.                                     *)

Steps == {"idle", "down", "placing", "resolving", "applying", "settling",
          "resaving", "replaying", "auditing"}

Task == [at : Steps, report : Report \cup {NoReport}, resave : BOOLEAN,
         todo : SUBSET Ids, row : Nat]

Idle == [at |-> "idle", report |-> NoReport, resave |-> FALSE, todo |-> {}, row |-> 0]

Down == [Idle EXCEPT !.at = "down"]

\* Waiting for the exchange's word on order c.
Asking(step, c) ==
    [Idle EXCEPT !.at = step,
                 !.report = [cid |-> c, status |-> "NEW", cum |-> 0, trade |-> 0]]

Working(step, r, resave, todo) ==
    [at |-> step, report |-> r, resave |-> resave, todo |-> todo, row |-> 0]

Auditing(todo) == IF todo = {} THEN Idle ELSE [Idle EXCEPT !.at = "auditing", !.todo = todo]

Replaying(i) == [Idle EXCEPT !.at = "replaying", !.row = i]

-----------------------------------------------------------------------------
Init ==
    /\ xchg = [c \in Ids |-> [status |-> "NONE", cum |-> 0]]
    /\ xpos = 0
    /\ events = {}
    /\ orders = [c \in Ids |-> NoOrder]
    /\ pos = Flat
    /\ fills = <<>>
    /\ dbOrders = [c \in Ids |-> NoOrder]
    /\ clamped = FALSE
    /\ task = Idle
    /\ crashes = 0

-----------------------------------------------------------------------------
(* The exchange (external).                                                *)

Push(c, status, cum, trade) ==
    /\ xchg' = [xchg EXCEPT ![c] = [status |-> status, cum |-> cum]]
    /\ events' = events \cup {[cid |-> c, status |-> status, cum |-> cum, trade |-> trade]}

\* The submitted order c reaches the book.
ExchangeAccept(c) ==
    /\ dbOrders[c] # NoOrder /\ xchg[c].status = "NONE"
    /\ Push(c, "NEW", 0, 0)
    /\ UNCHANGED <<xpos, engine, task, crashes>>

\* The exchange turns order c down: it will never exist.
ExchangeRefuse(c) ==
    /\ dbOrders[c] # NoOrder /\ xchg[c].status = "NONE"
    /\ xchg' = [xchg EXCEPT ![c].status = "REFUSED"]
    /\ UNCHANGED <<xpos, events, engine, task, crashes>>

(* q lots of order c trade; a reduce-only sell takes what the account      *)
(* holds.  An order's trades are told apart by where they leave it.        *)
ExchangeTrade(c, q) ==
    /\ xchg[c].status \in {"NEW", "PARTIALLY_FILLED"}
    /\ xchg[c].cum + q <= Qty[c]
    /\ c \in Exits => q <= xpos
    /\ Push(c, IF xchg[c].cum + q = Qty[c] THEN "FILLED" ELSE "PARTIALLY_FILLED",
            xchg[c].cum + q, xchg[c].cum + q)
    /\ xpos' = IF c \in Exits THEN xpos - q ELSE xpos + q
    /\ UNCHANGED <<engine, task, crashes>>

\* What is left of order c is cancelled or expires.
ExchangeEnd(c, status) ==
    /\ xchg[c].status \in {"NEW", "PARTIALLY_FILLED"}
    /\ Push(c, status, xchg[c].cum, 0)
    /\ UNCHANGED <<xpos, engine, task, crashes>>

-----------------------------------------------------------------------------
(* Applying one report: the ledger row first, then the order and position. *)

\* The tracked order, the stored one adopted, or one made up from the report.
Held(c) ==
    CASE orders[c] # NoOrder                          -> orders[c]
      [] orders[c] = NoOrder /\ dbOrders[c] # NoOrder -> dbOrders[c]
      [] OTHER -> [status |-> "UNKNOWN", filled |-> 0, applied |-> 0]

\* Mutants of Fresh: a stale report is not ignored; the cumulative quantity is
\* taken for new.
FreshSigned(r) == r.cum - Held(r.cid).applied

FreshIsAll(r) == r.cum

\* The lots of a report that were not applied before.
Fresh(r) == IF r.cum > Held(r.cid).applied THEN r.cum - Held(r.cid).applied ELSE 0

\* Those of them that move the position: a reduce-only fill is capped to it.
Capped(r) ==
    IF r.cid \in Exits
    THEN IF IsFlat(pos) THEN 0 ELSE Smaller(Fresh(r), pos.qty)
    ELSE Fresh(r)

\* Mutants of OrderAfter: a stale report takes the applied quantity back; a
\* report adds its cumulative quantity to it.
OrderAfterStale(r) ==
    [TransitionStatus([Held(r.cid) EXCEPT !.applied = r.cum], r.status, r.cum)
        EXCEPT !.filled = Larger(@, r.cum)]

OrderAfterAdding(r) ==
    [TransitionStatus([Held(r.cid) EXCEPT !.applied = @ + r.cum], r.status, r.cum)
        EXCEPT !.filled = Larger(@, r.cum)]

(* The order after a report.  The applied quantity is the report's even    *)
(* when the position took less; the filled quantity is kept truthful even  *)
(* when the transition is refused.                                         *)
OrderAfter(r) ==
    LET booked == [Held(r.cid) EXCEPT !.applied = Larger(@, r.cum)]
    IN  [TransitionStatus(booked, r.status, r.cum) EXCEPT !.filled = Larger(@, r.cum)]

\* Mutant of ApplyReport: a sell is worked at the reported quantity.
ApplyReportUncapped(r) ==
    /\ pos' = OnFill(pos, IF r.cid \in Entries THEN "BUY" ELSE "SELL", Fresh(r), FALSE)
    /\ orders' = [orders EXCEPT ![r.cid] = OrderAfter(r)]
    /\ dbOrders' = [dbOrders EXCEPT ![r.cid] = OrderAfter(r)]
    /\ UNCHANGED clamped

ApplyReport(r) ==
    /\ pos' = OnFill(pos, IF r.cid \in Entries THEN "BUY" ELSE "SELL",
                     Capped(r), r.cid \in Exits)
    /\ orders' = [orders EXCEPT ![r.cid] = OrderAfter(r)]
    /\ dbOrders' = [dbOrders EXCEPT ![r.cid] = OrderAfter(r)]
    /\ clamped' = (clamped \/ Capped(r) < Fresh(r))

\* Mutant of RecordFill: a report without a trade id is applied unrecorded.
RecordFillTrades(r, resave, todo) ==
    IF Recorded(r)
    THEN /\ task' = IF resave THEN Working("resaving", r, resave, todo) ELSE Idle
         /\ UNCHANGED engine
    ELSE /\ fills' = IF r.trade > 0 THEN Append(fills, r) ELSE fills
         /\ task' = Working("settling", r, resave, todo)
         /\ UNCHANGED <<orders, pos, dbOrders, clamped>>

\* Insert-or-ignore of the ledger row; a row already there ends the apply.
RecordFill(r, resave, todo) ==
    IF Recorded(r)
    THEN /\ task' = IF resave THEN Working("resaving", r, resave, todo) ELSE Idle
         /\ UNCHANGED engine
    ELSE /\ fills' = Append(fills, r)
         /\ task' = Working("settling", r, resave, todo)
         /\ UNCHANGED <<orders, pos, dbOrders, clamped>>

Record ==
    /\ task.at = "applying"
    /\ RecordFill(task.report, task.resave, task.todo)
    /\ UNCHANGED <<exchange, crashes>>

Settle ==
    /\ task.at = "settling"
    /\ ApplyReport(task.report)
    /\ task' = IF task.resave
               THEN Working("resaving", task.report, TRUE, task.todo) ELSE Idle
    /\ UNCHANGED <<exchange, fills, crashes>>

\* Reconciliation ends by saving the object the exchange returned.
Resave ==
    /\ task.at = "resaving"
    /\ dbOrders' = [dbOrders EXCEPT ![task.report.cid] = AsOrder(task.report)]
    /\ task' = Auditing(task.todo)
    /\ UNCHANGED <<exchange, orders, pos, fills, clamped, crashes>>

\* An ORDER_TRADE_UPDATE arrives.
Deliver(e) ==
    /\ task.at = "idle" /\ e \in events
    /\ RecordFill(e, FALSE, {})
    /\ UNCHANGED <<exchange, crashes>>

-----------------------------------------------------------------------------
(* Submitting an order: the SUBMITTING intent is stored before the POST,   *)
(* and the POST keeps the event loop until its outcome is known.           *)

Submit(c) ==
    /\ task.at = "idle"
    /\ orders[c] = NoOrder /\ dbOrders[c] = NoOrder
    /\ c \in Exits => ~IsFlat(pos) /\ Qty[c] <= pos.qty /\ Qty[c] <= xpos
    /\ LET intent == [status |-> "SUBMITTING", filled |-> 0, applied |-> 0]
       IN  /\ orders' = [orders EXCEPT ![c] = intent]
           /\ dbOrders' = [dbOrders EXCEPT ![c] = intent]
    /\ task' = Asking("placing", c)
    /\ UNCHANGED <<exchange, pos, fills, clamped, crashes>>

(* The POST is answered with a state the order has been in.  The answer is *)
(* merged and stored; it is applied when it reports a fill and the order   *)
(* is filled or still working.                                             *)
Respond(e) ==
    /\ task.at = "placing" /\ e \in events /\ e.cid = task.report.cid
    /\ LET r == [e EXCEPT !.trade = 0]
       IN  /\ orders' = [orders EXCEPT ![r.cid] = UpsertOrder(@, AsOrder(r))]
           /\ dbOrders' = [dbOrders EXCEPT ![r.cid] = AsOrder(r)]
           /\ task' = IF r.status \in {"FILLED", "PARTIALLY_FILLED"} /\ r.cum > 0
                      THEN Working("applying", r, FALSE, {}) ELSE Idle
    /\ UNCHANGED <<exchange, pos, fills, clamped, crashes>>

\* The POST is refused: the tracked order is REJECTED, the stored one is not.
PlacementFails ==
    /\ task.at = "placing" /\ xchg[task.report.cid].status = "REFUSED"
    /\ orders' = [orders EXCEPT ![task.report.cid] = TransitionStatus(@, "REJECTED", 0)]
    /\ task' = Idle
    /\ UNCHANGED <<exchange, pos, fills, dbOrders, clamped, crashes>>

\* The POST's outcome is not known: the order is UNKNOWN and gets queried.
PlacementUnknown ==
    /\ task.at = "placing"
    /\ LET c == task.report.cid
           o == TransitionStatus(orders[c], "UNKNOWN", 0)
       IN  /\ orders' = [orders EXCEPT ![c] = o]
           /\ dbOrders' = [dbOrders EXCEPT ![c] = o]
           /\ task' = Asking("resolving", c)
    /\ UNCHANGED <<exchange, pos, fills, clamped, crashes>>

\* A query of order c is answered: a fill is applied, anything else merged.
Found(c, todo) ==
    /\ xchg[c].status \in ReportStatus
    /\ IF xchg[c].cum > 0
       THEN /\ task' = Working("applying", Answer(c), TRUE, todo)
            /\ UNCHANGED orders
       ELSE /\ orders' = [orders EXCEPT ![c] = UpsertOrder(@, AsOrder(Answer(c)))]
            /\ task' = Working("resaving", Answer(c), TRUE, todo)
    /\ UNCHANGED <<exchange, pos, fills, dbOrders, clamped, crashes>>

ResolveFound ==
    /\ task.at = "resolving"
    /\ Found(task.report.cid, {})

(* Absent after the bounded queries: REJECTED in memory.  A query that     *)
(* fails counts as not found, so the exchange may hold the order.          *)
ResolveAbsent ==
    /\ task.at = "resolving"
    /\ orders' = [orders EXCEPT ![task.report.cid] = TransitionStatus(@, "REJECTED", 0)]
    /\ task' = Idle
    /\ UNCHANGED <<exchange, pos, fills, dbOrders, clamped, crashes>>

ResolveUnresolved ==
    /\ task.at = "resolving"
    /\ task' = Idle
    /\ UNCHANGED <<exchange, engine, crashes>>

-----------------------------------------------------------------------------
(* Death and rebirth of the process.                                       *)

Crash ==
    /\ task.at # "down" /\ crashes < MaxCrashes
    /\ orders' = [c \in Ids |-> NoOrder]
    /\ pos' = Flat
    /\ task' = Down
    /\ crashes' = crashes + 1
    /\ UNCHANGED <<exchange, fills, dbOrders, clamped>>

(* Open orders are restored as stored; then each order of the ledger is    *)
(* upserted at its pre-fill intent, which a restored order refuses.        *)
Restored(c) == IF dbOrders[c].status \in Open THEN dbOrders[c] ELSE NoOrder

Reseeded(c) ==
    IF dbOrders[c] # NoOrder /\ \E i \in 1 .. Len(fills) : fills[i].cid = c
    THEN UpsertOrder(Restored(c), [status |-> "SUBMITTING", filled |-> 0, applied |-> 0])
    ELSE Restored(c)

\* Mutant of Restart: the ledger is not replayed.
RestartWithoutReplay ==
    /\ task.at = "down"
    /\ orders' = [c \in Ids |-> Restored(c)]
    /\ task' = Auditing({c \in Ids : Restored(c) # NoOrder})
    /\ UNCHANGED <<exchange, pos, fills, dbOrders, clamped, crashes>>

Restart ==
    /\ task.at = "down"
    /\ orders' = [c \in Ids |-> Reseeded(c)]
    /\ task' = Replaying(1)
    /\ UNCHANGED <<exchange, pos, fills, dbOrders, clamped, crashes>>

\* The ledger is applied row by row, without recording.
Replay ==
    /\ task.at = "replaying" /\ task.row <= Len(fills)
    /\ ApplyReport(fills[task.row])
    /\ task' = Replaying(task.row + 1)
    /\ UNCHANGED <<exchange, fills, crashes>>

\* Mutant of ReplayDone: the last row is left out.
ReplayDoneEarly ==
    /\ task.at = "replaying" /\ task.row >= Len(fills)
    /\ task' = Auditing({c \in Ids : orders[c].status \in Open})
    /\ UNCHANGED <<exchange, engine, crashes>>

\* Startup reconciliation audits the orders that are open by then.
ReplayDone ==
    /\ task.at = "replaying" /\ task.row > Len(fills)
    /\ task' = Auditing({c \in Ids : orders[c].status \in Open})
    /\ UNCHANGED <<exchange, engine, crashes>>

AuditFound(c) ==
    /\ task.at = "auditing" /\ c \in task.todo
    /\ Found(c, task.todo \ {c})

\* Not found, or the query failed: the order stays as it is.
AuditMissing(c) ==
    /\ task.at = "auditing" /\ c \in task.todo
    /\ task' = Auditing(task.todo \ {c})
    /\ UNCHANGED <<exchange, engine, crashes>>

-----------------------------------------------------------------------------
Exchange ==
    \E c \in Ids :
        \/ ExchangeAccept(c) \/ ExchangeRefuse(c)
        \/ \E q \in 1 .. Qty[c] : ExchangeTrade(c, q)
        \/ \E s \in Ends : ExchangeEnd(c, s)

Handler ==
    \/ \E c \in Ids : Submit(c) \/ AuditFound(c) \/ AuditMissing(c)
    \/ \E e \in events : Deliver(e) \/ Respond(e)
    \/ Record \/ Settle \/ Resave
    \/ PlacementFails \/ PlacementUnknown
    \/ ResolveFound \/ ResolveAbsent \/ ResolveUnresolved
    \/ Restart \/ Replay \/ ReplayDone

Next == Exchange \/ Handler \/ Crash

Spec == Init /\ [][Next]_vars

-----------------------------------------------------------------------------
(* Properties.                                                             *)

\* The shape of every variable.
TypeOK ==
    /\ xchg \in [Ids -> [status : ReportStatus \cup {"NONE", "REFUSED"}, cum : Nat]]
    /\ xpos \in Nat
    /\ events \in SUBSET Report
    /\ orders \in [Ids -> Order \cup {NoOrder}]
    /\ pos \in Position
    /\ fills \in Seq(Report)
    /\ dbOrders \in [Ids -> Order \cup {NoOrder}]
    /\ clamped \in BOOLEAN
    /\ task \in Task
    /\ crashes \in Nat

(* No order is ever applied beyond what the exchange executed of it, in    *)
(* memory or in the store, however its REST answers, its events, the audit *)
(* and the replay repeat each other.                                       *)
NeverOverApplied ==
    \A c \in Ids : /\ orders[c].applied <= xchg[c].cum
                   /\ dbOrders[c].applied <= xchg[c].cum

(* No sequence of reduce-only fills, late, repeated or replayed, turns the *)
(* long position into a short one.                                         *)
NeverReversed == pos.side # "SELL"

Total(f, ids) == SumFunctionOnSet(f, ids)

(* While the process lives and no fill was cut, the position is what the   *)
(* orders applied: the two sides of an apply never part.                   *)
PositionIsWhatOrdersApplied ==
    LET applied == [c \in Ids |-> orders[c].applied]
    IN  ~clamped => pos.qty = Total(applied, Entries) - Total(applied, Exits)

(* Write-ahead: whatever an order accounts for stands in the ledger, at    *)
(* exactly that cumulative quantity, so a replay can find it.              *)
AppliedStandsInLedger ==
    \A c \in Ids : orders[c].applied > 0 =>
        \E i \in 1 .. Len(fills) : fills[i].cid = c /\ fills[i].cum = orders[c].applied

(* Whenever the engine has finished a handler or its startup, every ledger *)
(* row is applied: a death between the row and its application is made     *)
(* good by the replay.                                                     *)
LedgerIsApplied ==
    task.at \in {"idle", "auditing"} =>
        \A i \in 1 .. Len(fills) : fills[i].cum <= orders[fills[i].cid].applied

(* A tracked order never regresses while the process lives: a terminal     *)
(* status is final and neither quantity goes down, so a stale report       *)
(* cannot reopen an order or hand out its lots again.                      *)
OrdersNeverRegress ==
    [][task.at # "down" /\ task'.at # "down" =>
        \A c \in Ids :
            /\ orders[c].status \in Terminal => orders'[c].status = orders[c].status
            /\ orders[c].filled <= orders'[c].filled
            /\ orders[c].applied <= orders'[c].applied]_vars

(* While the process lives, the fill path is an exactly-once booking of    *)
(* what the exchange executed.                                             *)
Once == INSTANCE FillOnce WITH
    executed <- [c \in Ids |-> xchg[c].cum],
    booked <- [c \in Ids |-> orders[c].applied],
    long <- pos.qty

BooksOnce == Once!Spec

-----------------------------------------------------------------------------
(* Liveness.  A handler that was started runs to its end, since the event  *)
(* loop gives no other handler a turn before; a dead engine is restarted.  *)
(* Nothing is assumed of the exchange or of the delivery of events.        *)

Running ==
    /\ task.at # "idle"
    /\ Handler

FairSpec == Spec /\ WF_vars(Running)

(* What reached the ledger reaches its order: a row is never left behind   *)
(* for good, even by deaths in the middle of its application.              *)
RecordedIsApplied ==
    \A c \in Ids :
        \A n \in 1 .. Qty[c] :
            (\E i \in 1 .. Len(fills) : fills[i].cid = c /\ fills[i].cum = n)
                ~> (orders[c].applied >= n)
=============================================================================
