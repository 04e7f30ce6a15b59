--------------------------- MODULE FillLedgerProofs ---------------------------
(***************************************************************************)
(* Proofs about FillLedger for every set of orders, every order quantity   *)
(* and every number of deaths: types, no over-application, no reversal, no *)
(* regression of an order, a ledger written ahead of which no row is       *)
(* forgotten, and (while the process lives) that the fill path implements  *)
(* FillOnce and that the position is what the orders applied.              *)
(***************************************************************************)
EXTENDS FillLedger, SumProofs

-----------------------------------------------------------------------------
(* The order state machine.                                                *)

\* A terminal status has no successor.
LEMMA TerminalIsFinal ==
    ASSUME NEW s \in Terminal, NEW t \in Status, t \in ValidTransitions[s]
    PROVE  FALSE
BY DEF Terminal, Open, Status, ValidTransitions

(* A report moves a tracked order only forward: its applied part is left   *)
(* alone, its filled quantity does not drop, a terminal status stays.      *)
LEMMA TransitionMovesForward ==
    ASSUME NEW o \in Order, NEW s \in Status, NEW n \in Nat
    PROVE  /\ TransitionStatus(o, s, n) \in Order
           /\ TransitionStatus(o, s, n).applied = o.applied
           /\ TransitionStatus(o, s, n).filled >= o.filled
           /\ o.status \in Terminal => TransitionStatus(o, s, n).status = o.status
<1>1. CASE Accepts(o, s)
  <2>1. TransitionStatus(o, s, n) = [o EXCEPT !.status = s, !.filled = Larger(@, n)]
    BY <1>1 DEF TransitionStatus
  <2>2. Larger(o.filled, n) \in Nat /\ Larger(o.filled, n) >= o.filled
    BY DEF Order, Larger
  <2>3. o.status \in Terminal => s = o.status
    BY <1>1, TerminalIsFinal DEF Accepts
  <2> QED BY <2>1, <2>2, <2>3 DEF Order
<1>2. CASE ~Accepts(o, s)
  BY <1>2 DEF TransitionStatus, Order
<1> QED BY <1>1, <1>2

\* A merged order is an order, and merging applies nothing.
LEMMA UpsertMovesForward ==
    ASSUME NEW o \in Order \cup {NoOrder}, NEW given \in Order, given.applied = 0
    PROVE  /\ UpsertOrder(o, given) \in Order
           /\ UpsertOrder(o, given).applied = o.applied
           /\ UpsertOrder(o, given).filled >= o.filled
           /\ o.status \in Terminal => UpsertOrder(o, given).status = o.status
<1>1. CASE o = NoOrder
  BY <1>1 DEF UpsertOrder, NoOrder, Order, Terminal
<1>2. CASE o # NoOrder
  <2>1. o \in Order /\ given.status \in Status /\ given.filled \in Nat
    BY <1>2 DEF Order
  <2> QED BY <1>2, <2>1, TransitionMovesForward DEF UpsertOrder
<1> QED BY <1>1, <1>2

-----------------------------------------------------------------------------
(* The position arithmetic.                                                *)

\* A long or flat position; flat means that nothing is held.
LongOnly(p) == p.side # "SELL" /\ (p.side = "FLAT" => p.qty = 0)

LEMMA FillKeepsType ==
    ASSUME NEW p \in Position, NEW s \in Side, NEW q \in Nat, NEW r \in BOOLEAN
    PROVE  OnFill(p, s, q, r) \in Position
<1>1. EffectiveQty(p, s, q, r) \in Nat
  BY DEF EffectiveQty, Position
<1> QED BY <1>1 DEF OnFill, Added, Taken, Position, Side, Flat

\* A buy adds all of its lots to a long or flat position.
LEMMA BuyAdds ==
    ASSUME NEW p \in Position, LongOnly(p), NEW q \in Nat
    PROVE  /\ OnFill(p, "BUY", q, FALSE).qty = p.qty + q
           /\ LongOnly(OnFill(p, "BUY", q, FALSE))
BY DEF OnFill, EffectiveQty, Added, Taken, Position, Side, IsFlat, LongOnly

\* A reduce-only sell takes what there is and leaves nothing short.
LEMMA SellReduces ==
    ASSUME NEW p \in Position, LongOnly(p), NEW q \in Nat
    PROVE  /\ OnFill(p, "SELL", q, TRUE).qty = IF q <= p.qty THEN p.qty - q ELSE 0
           /\ LongOnly(OnFill(p, "SELL", q, TRUE))
BY DEF OnFill, EffectiveQty, Added, Taken, Position, Side, Flat, IsFlat, LongOnly

-----------------------------------------------------------------------------
(* Applying one report.                                                    *)

LEMMA HeldIsOrder ==
    ASSUME TypeOK, NEW c \in Ids
    PROVE  Held(c) \in Order
<1>1. orders[c] \in Order \cup {NoOrder} /\ dbOrders[c] \in Order \cup {NoOrder}
  BY DEF TypeOK
<1>2. [status |-> "UNKNOWN", filled |-> 0, applied |-> 0] \in Order
  BY DEF Order, Status, Open
<1> QED BY <1>1, <1>2 DEF Held

\* A report raises the applied and the filled quantity and never reopens.
LEMMA ReportMovesForward ==
    ASSUME TypeOK, NEW r \in Report
    PROVE  /\ OrderAfter(r) \in Order
           /\ OrderAfter(r).applied = Larger(Held(r.cid).applied, r.cum)
           /\ OrderAfter(r).filled >= Held(r.cid).filled
           /\ Held(r.cid).status \in Terminal => OrderAfter(r).status = Held(r.cid).status
<1> DEFINE h == Held(r.cid)
           booked == [h EXCEPT !.applied = Larger(@, r.cum)]
           moved == TransitionStatus(booked, r.status, r.cum)
<1>1. r.cid \in Ids /\ r.cum \in Nat /\ r.status \in Status
  BY DEF Report, ReportStatus, Status, Open, Terminal
<1>2. h \in Order
  BY <1>1, HeldIsOrder
<1>3. /\ booked \in Order /\ booked.applied = Larger(h.applied, r.cum)
      /\ booked.filled = h.filled /\ booked.status = h.status
  BY <1>1, <1>2 DEF Order, Larger
<1>4. /\ moved \in Order /\ moved.applied = booked.applied /\ moved.filled >= h.filled
      /\ h.status \in Terminal => moved.status = h.status
  <2> HIDE DEF h, booked
  <2> QED BY <1>1, <1>3, TransitionMovesForward
<1>5. OrderAfter(r) = [moved EXCEPT !.filled = Larger(@, r.cum)]
  BY DEF OrderAfter
<1> HIDE DEF moved, booked, h
<1>6. /\ OrderAfter(r) \in Order /\ OrderAfter(r).applied = moved.applied
      /\ OrderAfter(r).status = moved.status /\ OrderAfter(r).filled >= moved.filled
  BY <1>1, <1>4, <1>5 DEF Order, Larger
<1>7. OrderAfter(r).filled >= h.filled
  BY <1>2, <1>4, <1>6 DEF Order
<1> QED BY <1>3, <1>4, <1>6, <1>7 DEF h

LEMMA FreshIsNat ==
    ASSUME TypeOK, NEW r \in Report
    PROVE  Fresh(r) \in Nat /\ Capped(r) \in Nat
<1>1. Held(r.cid) \in Order /\ r.cum \in Nat /\ pos \in Position
  BY HeldIsOrder DEF Report, TypeOK
<1>2. Fresh(r) \in Nat
  BY <1>1 DEF Fresh, Order
<1> QED BY <1>1, <1>2 DEF Capped, Smaller, Position

LEMMA ApplyKeepsTypes ==
    ASSUME TypeOK, NEW r \in Report, ApplyReport(r)
    PROVE  /\ orders' \in [Ids -> Order \cup {NoOrder}]
           /\ dbOrders' \in [Ids -> Order \cup {NoOrder}]
           /\ pos' \in Position
           /\ clamped' \in BOOLEAN
<1>1. OrderAfter(r) \in Order /\ r.cid \in Ids
  BY ReportMovesForward DEF Report
<1>2. pos' \in Position
  <2>1. Capped(r) \in Nat /\ pos \in Position
    BY FreshIsNat DEF TypeOK
  <2>2. (IF r.cid \in Entries THEN "BUY" ELSE "SELL") \in Side /\ (r.cid \in Exits) \in BOOLEAN
    BY DEF Side
  <2> QED BY <2>1, <2>2, FillKeepsType DEF ApplyReport
<1>3. clamped' \in BOOLEAN
  BY DEF ApplyReport, TypeOK
<1> QED BY <1>1, <1>2, <1>3 DEF ApplyReport, TypeOK

-----------------------------------------------------------------------------
(* Types.                                                                  *)

(* A handler that waits for an answer or works on a report has one, and    *)
(* the order it asks about is tracked.                                     *)
TaskFits(t, tracked) ==
    /\ t \in Task
    /\ t.at \in {"placing", "resolving", "applying", "settling", "resaving"} =>
          t.report \in Report
    /\ t.at \in {"placing", "resolving"} => tracked[t.report.cid] \in Order
    /\ t.at = "replaying" => t.row >= 1

TypeInv == TypeOK /\ TaskFits(task, orders)

LEMMA TaskTypes ==
    ASSUME NEW tracked
    PROVE  /\ TaskFits(Idle, tracked) /\ TaskFits(Down, tracked)
           /\ \A n \in Nat \ {0} : TaskFits(Replaying(n), tracked)
           /\ \A todo \in SUBSET Ids : TaskFits(Auditing(todo), tracked)
           /\ \A step \in {"placing", "resolving"}, c \in Ids :
                 tracked[c] \in Order => TaskFits(Asking(step, c), tracked)
           /\ \A step \in {"applying", "settling", "resaving"}, r \in Report,
                 resave \in BOOLEAN, todo \in SUBSET Ids :
                    TaskFits(Working(step, r, resave, todo), tracked)
<1> USE DEF TaskFits
<1>1. TaskFits(Idle, tracked)
  BY DEF Idle, Task, Steps
<1>2. ASSUME NEW step \in {"placing", "resolving"}, NEW c \in Ids, tracked[c] \in Order
      PROVE  TaskFits(Asking(step, c), tracked)
  <2>1. [cid |-> c, status |-> "NEW", cum |-> 0, trade |-> 0] \in Report
    BY DEF Report, ReportStatus
  <2> QED BY <1>2, <2>1 DEF Asking, Idle, Task, Steps
<1>3. ASSUME NEW step \in {"applying", "settling", "resaving"}, NEW r \in Report,
             NEW resave \in BOOLEAN, NEW todo \in SUBSET Ids
      PROVE  TaskFits(Working(step, r, resave, todo), tracked)
  BY DEF Working, Task, Steps
<1>4. \A todo \in SUBSET Ids : TaskFits(Auditing(todo), tracked)
  BY DEF Auditing, Idle, Task, Steps
<1>5. TaskFits(Down, tracked)
  BY DEF Down, Idle, Task, Steps
<1>6. ASSUME NEW n \in Nat \ {0}
      PROVE  TaskFits(Replaying(n), tracked)
  <2>1. n \in Nat /\ n >= 1
    OBVIOUS
  <2>2. Replaying(n).at = "replaying" /\ Replaying(n).row = n
    BY DEF Replaying, Idle
  <2>3. Replaying(n) \in Task
    BY <2>1 DEF Replaying, Idle, Task, Steps
  <2> QED BY <2>1, <2>2, <2>3
<1> HIDE DEF TaskFits
<1> QED BY <1>1, <1>2, <1>3, <1>4, <1>5, <1>6

LEMMA RecordKeepsTypes ==
    ASSUME TypeOK, NEW r \in Report, NEW resave \in BOOLEAN, NEW todo \in SUBSET Ids,
           RecordFill(r, resave, todo)
    PROVE  /\ fills' \in Seq(Report)
           /\ TaskFits(task', orders')
           /\ UNCHANGED <<orders, pos, dbOrders, clamped>>
<1>1. fills \in Seq(Report)
  BY DEF TypeOK
<1>2. /\ TaskFits(Idle, orders') /\ TaskFits(Working("resaving", r, resave, todo), orders')
      /\ TaskFits(Working("settling", r, resave, todo), orders')
  BY TaskTypes
<1>3. CASE Recorded(r)
  BY <1>1, <1>2, <1>3 DEF RecordFill, engine
<1>4. CASE ~Recorded(r)
  BY <1>1, <1>2, <1>4 DEF RecordFill
<1> QED BY <1>3, <1>4

\* Pushing an event keeps the types of what it touches.
LEMMA PushTypes ==
    ASSUME TypeOK, NEW c \in Ids, NEW s \in ReportStatus, NEW n \in Nat, NEW t \in Nat,
           Push(c, s, n, t)
    PROVE  /\ xchg' \in [Ids -> [status : ReportStatus \cup {"NONE", "REFUSED"}, cum : Nat]]
           /\ events' \in SUBSET Report
<1>1. [cid |-> c, status |-> s, cum |-> n, trade |-> t] \in Report
  BY DEF Report
<1>2. [status |-> s, cum |-> n] \in [status : ReportStatus \cup {"NONE", "REFUSED"}, cum : Nat]
  OBVIOUS
<1> QED BY <1>1, <1>2 DEF Push, TypeOK

\* What stays when only the exchange moves.
EngineStays == UNCHANGED <<orders, pos, fills, dbOrders, clamped, task, crashes>>

\* The steps of the exchange keep the types.
LEMMA ExchangeTypes ==
    ASSUME TypeOK, Exchange
    PROVE  TypeOK' /\ EngineStays
<1> USE DEF EngineStays, engine
<1>1. ASSUME NEW c \in Ids, ExchangeAccept(c)
      PROVE  TypeOK' /\ EngineStays
  <2>1. "NEW" \in ReportStatus /\ 0 \in Nat /\ Push(c, "NEW", 0, 0)
    BY <1>1 DEF ExchangeAccept, ReportStatus
  <2>2. EngineStays /\ xpos' = xpos
    BY <1>1 DEF ExchangeAccept
  <2> QED BY <2>1, <2>2, PushTypes DEF TypeOK
<1>2. ASSUME NEW c \in Ids, ExchangeRefuse(c)
      PROVE  TypeOK' /\ EngineStays
  BY <1>2 DEF ExchangeRefuse, TypeOK
<1>3. ASSUME NEW c \in Ids, NEW q \in 1 .. Qty[c], ExchangeTrade(c, q)
      PROVE  TypeOK' /\ EngineStays
  <2> DEFINE s == IF xchg[c].cum + q = Qty[c] THEN "FILLED" ELSE "PARTIALLY_FILLED"
  <2>1. q \in Nat /\ Qty[c] \in Nat
    BY QtyAssumption
  <2>2. xchg[c].cum + q \in Nat /\ s \in ReportStatus
    BY <2>1 DEF TypeOK, ReportStatus
  <2>3. Push(c, s, xchg[c].cum + q, xchg[c].cum + q)
    BY <1>3 DEF ExchangeTrade
  <2>4. EngineStays
    BY <1>3 DEF ExchangeTrade
  <2>5. xpos' \in Nat
    <3>1. (c \in Exits => q <= xpos) /\ xpos' = IF c \in Exits THEN xpos - q ELSE xpos + q
      BY <1>3 DEF ExchangeTrade
    <3> QED BY <2>1, <3>1 DEF TypeOK
  <2> HIDE DEF s
  <2> QED BY <2>2, <2>3, <2>4, <2>5, PushTypes DEF TypeOK
<1>4. ASSUME NEW c \in Ids, NEW s \in Ends, ExchangeEnd(c, s)
      PROVE  TypeOK' /\ EngineStays
  <2>1. s \in ReportStatus /\ xchg[c].cum \in Nat
    BY EndsAssumption DEF ReportStatus, TypeOK
  <2>2. Push(c, s, xchg[c].cum, 0)
    BY <1>4 DEF ExchangeEnd
  <2>3. EngineStays /\ xpos' = xpos
    BY <1>4 DEF ExchangeEnd
  <2> QED BY <2>1, <2>2, <2>3, PushTypes DEF TypeOK
<1> QED BY <1>1, <1>2, <1>3, <1>4 DEF Exchange

\* The reports that REST answers carry.
LEMMA AnswerTypes ==
    ASSUME TypeOK
    PROVE  /\ \A c \in Ids : xchg[c].status \in ReportStatus => Answer(c) \in Report
           /\ \A r \in Report : AsOrder(r) \in Order /\ AsOrder(r).applied = 0
<1>1. ASSUME NEW c \in Ids, xchg[c].status \in ReportStatus
      PROVE  Answer(c) \in Report
  BY <1>1 DEF TypeOK, Answer, Report
<1>2. ASSUME NEW r \in Report
      PROVE  AsOrder(r) \in Order /\ AsOrder(r).applied = 0
  <2>1. r.status \in Status /\ r.cum \in Nat
    BY DEF Report, ReportStatus, Status, Open, Terminal
  <2> QED BY <2>1 DEF AsOrder, Order
<1> QED BY <1>1, <1>2

\* An answered query keeps the types.
LEMMA FoundTypes ==
    ASSUME TypeOK, NEW c \in Ids, NEW todo \in SUBSET Ids, Found(c, todo)
    PROVE  TypeInv'
<1>1. Answer(c) \in Report
  BY AnswerTypes DEF Found
<1>2. TaskFits(task', orders')
  <2>1. \A step \in {"applying", "resaving"} :
           TaskFits(Working(step, Answer(c), TRUE, todo), orders')
    BY <1>1, TaskTypes
  <2> QED BY <2>1 DEF Found
<1>3. orders' \in [Ids -> Order \cup {NoOrder}]
  <2>1. UpsertOrder(orders[c], AsOrder(Answer(c))) \in Order
    <3>1. AsOrder(Answer(c)) \in Order /\ AsOrder(Answer(c)).applied = 0
      BY <1>1, AnswerTypes
    <3> QED BY <3>1, UpsertMovesForward DEF TypeOK
  <2> QED BY <2>1 DEF Found, TypeOK
<1>4. UNCHANGED <<exchange, pos, fills, dbOrders, clamped, crashes>>
  BY DEF Found
<1> QED BY <1>2, <1>3, <1>4 DEF TypeOK, TypeInv, TaskFits, exchange

\* And so does the replay of an order's intent.
LEMMA ReseededTypes ==
    ASSUME TypeOK, NEW c \in Ids
    PROVE  /\ Reseeded(c) \in Order \cup {NoOrder}
           /\ Reseeded(c).applied <= dbOrders[c].applied
<1>1. Restored(c) \in Order \cup {NoOrder} /\ dbOrders[c] \in Order \cup {NoOrder}
  BY DEF Restored, TypeOK
<1>2. LET intent == [status |-> "SUBMITTING", filled |-> 0, applied |-> 0]
      IN  intent \in Order /\ intent.applied = 0
  BY DEF Order, Status, Open
<1>3. Restored(c).applied <= dbOrders[c].applied
  BY <1>1 DEF Restored, NoOrder, Order
<1> QED BY <1>1, <1>2, <1>3, UpsertMovesForward DEF Reseeded

\* The steps by which an order is submitted, answered and asked about.
LEMMA PlacingTypes ==
    ASSUME TypeInv,
           \/ \E c \in Ids : Submit(c)
           \/ \E e \in events : Respond(e)
           \/ PlacementFails \/ PlacementUnknown
           \/ ResolveFound \/ ResolveAbsent \/ ResolveUnresolved
    PROVE  TypeInv'
<1> USE DEF TypeInv
<1>1. ASSUME NEW c \in Ids, Submit(c)
      PROVE  TypeInv'
  <2>1. [status |-> "SUBMITTING", filled |-> 0, applied |-> 0] \in Order
    BY DEF Order, Status, Open
  <2>2. orders'[c] \in Order
    BY <1>1, <2>1 DEF Submit, TypeOK
  <2>3. TaskFits(task', orders')
    BY <1>1, <2>2, TaskTypes DEF Submit, Steps
  <2> QED BY <1>1, <2>1, <2>3 DEF Submit, TypeOK, TaskFits, exchange
<1>2. ASSUME NEW e \in events, Respond(e)
      PROVE  TypeInv'
  <2> DEFINE r == [e EXCEPT !.trade = 0]
  <2>1. r \in Report /\ r.cid \in Ids
    BY DEF Report, TypeOK
  <2>2. AsOrder(r) \in Order /\ UpsertOrder(orders[r.cid], AsOrder(r)) \in Order
    BY <2>1, AnswerTypes, UpsertMovesForward DEF TypeOK
  <2>3. TaskFits(task', orders')
    <3>1. TaskFits(Working("applying", r, FALSE, {}), orders') /\ TaskFits(Idle, orders')
      BY <2>1, TaskTypes
    <3> QED BY <1>2, <3>1 DEF Respond
  <2>4. /\ orders' = [orders EXCEPT ![r.cid] = UpsertOrder(orders[r.cid], AsOrder(r))]
        /\ dbOrders' = [dbOrders EXCEPT ![r.cid] = AsOrder(r)]
        /\ UNCHANGED <<exchange, pos, fills, clamped, crashes>>
    BY <1>2 DEF Respond
  <2> HIDE DEF r
  <2> QED BY <2>1, <2>2, <2>3, <2>4 DEF TypeOK, TaskFits, exchange
<1>3. ASSUME task.at \in {"placing", "resolving"}, NEW s \in Status
      PROVE  LET c == task.report.cid
                 o == TransitionStatus(orders[c], s, 0)
             IN  /\ c \in Ids /\ o \in Order
                 /\ [orders EXCEPT ![c] = o] \in [Ids -> Order \cup {NoOrder}]
                 /\ [dbOrders EXCEPT ![c] = o] \in [Ids -> Order \cup {NoOrder}]
  <2>1. task.report.cid \in Ids /\ orders[task.report.cid] \in Order
    BY <1>3 DEF TaskFits, Report
  <2>2. TransitionStatus(orders[task.report.cid], s, 0) \in Order
    BY <2>1, TransitionMovesForward
  <2> QED BY <2>1, <2>2 DEF TypeOK
<1>4. CASE PlacementFails \/ ResolveAbsent
  <2>1. "REJECTED" \in Status /\ task.at \in {"placing", "resolving"}
    BY <1>4 DEF PlacementFails, ResolveAbsent, Status, Terminal
  <2>2. /\ orders' = [orders EXCEPT ![task.report.cid] =
                        TransitionStatus(orders[task.report.cid], "REJECTED", 0)]
        /\ task' = Idle
        /\ UNCHANGED <<exchange, pos, fills, dbOrders, clamped, crashes>>
    BY <1>4 DEF PlacementFails, ResolveAbsent
  <2> QED BY <1>3, <2>1, <2>2, TaskTypes DEF TypeOK, TaskFits, exchange
<1>5. CASE PlacementUnknown
  <2> DEFINE c == task.report.cid
             o == TransitionStatus(orders[c], "UNKNOWN", 0)
  <2>1. "UNKNOWN" \in Status /\ task.at \in {"placing", "resolving"}
    BY <1>5 DEF PlacementUnknown, Status, Open
  <2>2. /\ orders' = [orders EXCEPT ![c] = o] /\ dbOrders' = [dbOrders EXCEPT ![c] = o]
        /\ task' = Asking("resolving", c)
        /\ UNCHANGED <<exchange, pos, fills, clamped, crashes>>
    BY <1>5 DEF PlacementUnknown
  <2>3. c \in Ids /\ o \in Order
    BY <1>3, <2>1
  <2>4. orders'[c] \in Order
    BY <2>2, <2>3 DEF TypeOK
  <2>5. TaskFits(task', orders')
    BY <2>2, <2>3, <2>4, TaskTypes DEF Steps
  <2> QED BY <1>3, <2>1, <2>2, <2>5 DEF TypeOK, TaskFits, exchange
<1>6. CASE ResolveFound
  <2>1. task.report.cid \in Ids /\ {} \in SUBSET Ids /\ Found(task.report.cid, {})
    BY <1>6 DEF ResolveFound, TaskFits, Report
  <2> QED BY <2>1, FoundTypes
<1>7. CASE ResolveUnresolved
  BY <1>7, TaskTypes DEF ResolveUnresolved, TypeOK, TaskFits, exchange, engine
<1> QED BY <1>1, <1>2, <1>4, <1>5, <1>6, <1>7

\* The steps by which reports are recorded and applied.
LEMMA ApplyingTypes ==
    ASSUME TypeInv, (\E e \in events : Deliver(e)) \/ Record \/ Settle \/ Resave
    PROVE  TypeInv'
<1> USE DEF TypeInv
<1>1. ASSUME NEW e \in events, Deliver(e)
      PROVE  TypeInv'
  <2>1. e \in Report /\ FALSE \in BOOLEAN /\ {} \in SUBSET Ids /\ RecordFill(e, FALSE, {})
    BY <1>1 DEF Deliver, TypeOK
  <2>2. UNCHANGED <<exchange, crashes>>
    BY <1>1 DEF Deliver
  <2> QED BY <2>1, <2>2, RecordKeepsTypes DEF TypeOK, TaskFits, exchange
<1>2. CASE Record
  <2>1. /\ task.report \in Report /\ task.resave \in BOOLEAN /\ task.todo \in SUBSET Ids
        /\ RecordFill(task.report, task.resave, task.todo)
    BY <1>2 DEF Record, Task, TaskFits
  <2>2. UNCHANGED <<exchange, crashes>>
    BY <1>2 DEF Record
  <2> QED BY <2>1, <2>2, RecordKeepsTypes DEF TypeOK, TaskFits, exchange
<1>3. CASE Settle
  <2>1. /\ task.report \in Report /\ task.todo \in SUBSET Ids /\ ApplyReport(task.report)
        /\ UNCHANGED <<exchange, fills, crashes>>
    BY <1>3 DEF Settle, Task, TaskFits
  <2>2. TaskFits(task', orders')
    BY <1>3, <2>1, TaskTypes DEF Settle
  <2> QED BY <2>1, <2>2, ApplyKeepsTypes DEF TypeOK, TaskFits, exchange
<1>4. CASE Resave
  <2>1. /\ task.report \in Report /\ task.todo \in SUBSET Ids
        /\ AsOrder(task.report) \in Order
    BY <1>4, AnswerTypes DEF Resave, Task, TaskFits
  <2>2. TaskFits(task', orders')
    BY <1>4, <2>1, TaskTypes DEF Resave
  <2> QED BY <1>4, <2>1, <2>2 DEF Resave, TypeOK, TaskFits, exchange
<1> QED BY <1>1, <1>2, <1>3, <1>4

\* The steps of death, replay and startup audit.
LEMMA RestartingTypes ==
    ASSUME TypeInv,
           \/ Crash \/ Restart \/ Replay \/ ReplayDone
           \/ \E c \in Ids : AuditFound(c) \/ AuditMissing(c)
    PROVE  TypeInv'
<1> USE DEF TypeInv
<1>1. CASE Crash
  BY <1>1, TaskTypes DEF Crash, TypeOK, TaskFits, exchange, Position, Flat
<1>2. CASE Restart
  <2>1. [c \in Ids |-> Reseeded(c)] \in [Ids -> Order \cup {NoOrder}]
    BY ReseededTypes
  <2> QED BY <1>2, <2>1, TaskTypes DEF Restart, TypeOK, TaskFits, exchange
<1>3. CASE Replay
  <2>1. task.row \in 1 .. Len(fills)
    BY <1>3 DEF Replay, Task, TaskFits
  <2>2. fills[task.row] \in Report /\ task.row + 1 \in Nat \ {0}
    BY <2>1 DEF TypeOK
  <2>3. /\ ApplyReport(fills[task.row]) /\ task' = Replaying(task.row + 1)
        /\ UNCHANGED <<exchange, fills, crashes>>
    BY <1>3 DEF Replay
  <2>4. TaskFits(task', orders')
    BY <2>2, <2>3, TaskTypes
  <2> QED BY <2>2, <2>3, <2>4, ApplyKeepsTypes DEF TypeOK, TaskFits, exchange
<1>4. CASE ReplayDone
  BY <1>4, TaskTypes DEF ReplayDone, TypeOK, TaskFits, exchange, engine
<1>5. ASSUME NEW c \in Ids, AuditFound(c) \/ AuditMissing(c)
      PROVE  TypeInv'
  <2>1. task.todo \ {c} \in SUBSET Ids
    BY DEF Task, TaskFits
  <2>2. CASE AuditFound(c)
    BY <2>1, <2>2, FoundTypes DEF AuditFound
  <2>3. CASE AuditMissing(c)
    BY <2>1, <2>3, TaskTypes DEF AuditMissing, TypeOK, TaskFits, exchange, engine
  <2> QED BY <1>5, <2>2, <2>3
<1> QED BY <1>1, <1>2, <1>3, <1>4, <1>5

LEMMA InitTypes == Init => TypeInv
<1> SUFFICES ASSUME Init PROVE TypeInv
  OBVIOUS
<1>1. Flat \in Position /\ <<>> \in Seq(Report)
  BY DEF Flat, Position
<1> QED BY <1>1, TaskTypes DEF Init, TypeInv, TypeOK, TaskFits

LEMMA NextTypes == TypeInv /\ [Next]_vars => TypeInv'
<1> SUFFICES ASSUME TypeInv, [Next]_vars PROVE TypeInv'
  OBVIOUS
<1>1. CASE Exchange
  BY <1>1, ExchangeTypes DEF TypeInv, TypeOK, TaskFits, EngineStays
<1>2. CASE Handler
  <2>1. CASE \/ \E c \in Ids : Submit(c)
             \/ \E e \in events : Respond(e)
             \/ PlacementFails \/ PlacementUnknown
             \/ ResolveFound \/ ResolveAbsent \/ ResolveUnresolved
    BY <2>1, PlacingTypes
  <2>2. CASE (\E e \in events : Deliver(e)) \/ Record \/ Settle \/ Resave
    BY <2>2, ApplyingTypes
  <2>3. CASE \/ Restart \/ Replay \/ ReplayDone
             \/ \E c \in Ids : AuditFound(c) \/ AuditMissing(c)
    BY <2>3, RestartingTypes
  <2> QED BY <1>2, <2>1, <2>2, <2>3 DEF Handler
<1>3. CASE Crash
  BY <1>3, RestartingTypes
<1>4. CASE UNCHANGED vars
  BY <1>4 DEF vars, exchange, engine, TypeInv, TypeOK, TaskFits
<1> QED BY <1>1, <1>2, <1>3, <1>4 DEF Next

(* Every variable has its type, and a handler that works on a report has   *)
(* one, in every reachable state.                                          *)
THEOREM TypeCorrect == Spec => []TypeInv
<1>1. Init => TypeInv
  BY InitTypes
<1>2. TypeInv /\ [Next]_vars => TypeInv'
  BY NextTypes
<1> QED BY <1>1, <1>2, PTL DEF Spec

THEOREM TypesHold == Spec => []TypeOK
<1>1. TypeInv => TypeOK
  BY DEF TypeInv
<1> QED BY <1>1, TypeCorrect, PTL

-----------------------------------------------------------------------------
(* No order is applied beyond what the exchange executed of it.            *)

\* A report is true when the exchange has executed at least what it says.
TrueReport(r) == r.cum <= xchg[r.cid].cum

ReportsAreTrue ==
    /\ \A e \in events : TrueReport(e)
    /\ \A i \in 1 .. Len(fills) : TrueReport(fills[i])
    /\ task.at \in {"applying", "settling"} => TrueReport(task.report)
    /\ \A c \in Ids : xchg[c].status = "NONE" => xchg[c].cum = 0

AppliedInv == ReportsAreTrue /\ NeverOverApplied

\* A true report applies no lot that was not executed.
LEMMA TrueReportApplies ==
    ASSUME TypeOK, NeverOverApplied, NEW r \in Report, TrueReport(r), ApplyReport(r),
           UNCHANGED exchange
    PROVE  NeverOverApplied'
<1>1. Held(r.cid) \in Order /\ r.cid \in Ids /\ r.cum \in Nat
  BY HeldIsOrder DEF Report
<1>2. xchg[r.cid].cum \in Nat /\ xchg' = xchg
  BY <1>1 DEF TypeOK, exchange
<1>3. Held(r.cid).applied <= xchg[r.cid].cum
  BY <1>1, <1>2 DEF Held, NeverOverApplied
<1>4. OrderAfter(r).applied <= xchg[r.cid].cum
  BY <1>1, <1>2, <1>3, ReportMovesForward DEF TrueReport, Larger, Order
<1>5. /\ orders' = [orders EXCEPT ![r.cid] = OrderAfter(r)]
      /\ dbOrders' = [dbOrders EXCEPT ![r.cid] = OrderAfter(r)]
  BY DEF ApplyReport
<1> QED BY <1>1, <1>2, <1>4, <1>5 DEF NeverOverApplied, TypeOK

\* Its events say no more than the exchange executed, which is nothing at first.
ExchangeIsHeard ==
    /\ \A e \in events : TrueReport(e)
    /\ \A c \in Ids : xchg[c].status = "NONE" => xchg[c].cum = 0

\* What the exchange executed only grows, and its events say no more.
LEMMA ExchangeGrows ==
    ASSUME TypeOK, Exchange, ExchangeIsHeard
    PROVE  /\ \A c \in Ids : xchg[c].cum <= xchg'[c].cum
           /\ \A c \in Ids : xchg'[c].status = "NONE" => xchg'[c].cum = 0
           /\ \A e \in events' : TrueReport(e)'
<1> DEFINE Grown ==
             /\ \A c \in Ids : xchg[c].cum <= xchg'[c].cum
             /\ \A c \in Ids : xchg'[c].status = "NONE" => xchg'[c].cum = 0
             /\ \A e \in events' : TrueReport(e)'
<1> USE DEF ExchangeIsHeard
<1>1. ASSUME NEW c \in Ids, NEW s \in ReportStatus, NEW n \in Nat, NEW t \in Nat,
             Push(c, s, n, t), n >= xchg[c].cum
      PROVE  Grown
  <2>1. \A d \in Ids : xchg[d].cum \in Nat
    BY DEF TypeOK
  <2>2. xchg' = [xchg EXCEPT ![c] = [status |-> s, cum |-> n]] /\ s # "NONE"
    BY <1>1 DEF Push, ReportStatus
  <2>3. \A d \in Ids : xchg[d].cum <= xchg'[d].cum /\ xchg'[d].cum \in Nat
    BY <1>1, <2>1, <2>2 DEF TypeOK
  <2>4. ASSUME NEW e \in events
        PROVE  TrueReport(e)'
    <3>1. e.cid \in Ids /\ e.cum \in Nat /\ e.cum <= xchg[e.cid].cum
      BY DEF TypeOK, Report, TrueReport
    <3> QED BY <2>1, <2>3, <3>1 DEF TrueReport
  <2>5. TrueReport([cid |-> c, status |-> s, cum |-> n, trade |-> t])'
    BY <2>2 DEF TrueReport, TypeOK
  <2>6. \A d \in Ids : xchg'[d].status = "NONE" => xchg'[d].cum = 0
    BY <2>2 DEF TypeOK
  <2> QED BY <1>1, <2>3, <2>4, <2>5, <2>6 DEF Push
<1> HIDE DEF Grown
<1>2. ASSUME NEW c \in Ids, ExchangeAccept(c)
      PROVE  Grown
  <2>1. /\ "NEW" \in ReportStatus /\ 0 \in Nat /\ Push(c, "NEW", 0, 0)
        /\ xchg[c].cum = 0
    BY <1>2 DEF ExchangeAccept, ReportStatus
  <2>2. 0 >= xchg[c].cum
    BY <2>1
  <2> QED BY <1>1, <2>1, <2>2
<1>3. ASSUME NEW c \in Ids, ExchangeRefuse(c)
      PROVE  Grown
  <2>1. /\ xchg' = [xchg EXCEPT ![c].status = "REFUSED"] /\ events' = events
    BY <1>3 DEF ExchangeRefuse
  <2>2. \A d \in Ids : xchg'[d].cum = xchg[d].cum /\ xchg[d].cum \in Nat
    BY <2>1 DEF TypeOK
  <2>3. \A e \in events : e.cid \in Ids
    BY DEF TypeOK, Report
  <2>4. \A d \in Ids : xchg'[d].status = "NONE" => xchg[d].status = "NONE"
    BY <2>1 DEF TypeOK
  <2> QED BY <2>1, <2>2, <2>3, <2>4 DEF Grown, TrueReport
<1>4. ASSUME NEW c \in Ids, NEW q \in 1 .. Qty[c], ExchangeTrade(c, q)
      PROVE  Grown
  <2> DEFINE s == IF xchg[c].cum + q = Qty[c] THEN "FILLED" ELSE "PARTIALLY_FILLED"
  <2>1. s \in ReportStatus /\ Push(c, s, xchg[c].cum + q, xchg[c].cum + q)
    BY <1>4 DEF ExchangeTrade, ReportStatus
  <2>2. q \in Nat /\ xchg[c].cum \in Nat
    BY QtyAssumption DEF TypeOK
  <2>3. xchg[c].cum + q \in Nat /\ xchg[c].cum + q >= xchg[c].cum
    BY <2>2
  <2> HIDE DEF s
  <2> QED BY <1>1, <2>1, <2>3
<1>5. ASSUME NEW c \in Ids, NEW s \in Ends, ExchangeEnd(c, s)
      PROVE  Grown
  <2>1. /\ s \in ReportStatus /\ Push(c, s, xchg[c].cum, 0)
        /\ xchg[c].cum \in Nat
    BY <1>5, EndsAssumption DEF ExchangeEnd, ReportStatus, TypeOK
  <2>2. xchg[c].cum >= xchg[c].cum
    BY <2>1
  <2> QED BY <1>1, <2>1, <2>2
<1> QED BY <1>2, <1>3, <1>4, <1>5 DEF Exchange, Grown

\* Recording a true report keeps the ledger true and hands on a true report.
LEMMA RecordKeepsTruth ==
    ASSUME TypeOK, AppliedInv, NEW r \in Report, TrueReport(r),
           NEW resave, NEW todo, RecordFill(r, resave, todo), UNCHANGED exchange
    PROVE  AppliedInv'
<1> USE DEF AppliedInv, ReportsAreTrue, NeverOverApplied, TrueReport, exchange
<1>1. CASE Recorded(r)
  BY <1>1 DEF RecordFill, Working, Idle, engine
<1>2. CASE ~Recorded(r)
  <2>1. /\ fills' = Append(fills, r) /\ UNCHANGED <<orders, pos, dbOrders, clamped>>
        /\ task' = Working("settling", r, resave, todo)
    BY <1>2 DEF RecordFill
  <2>2. fills \in Seq(Report)
    BY DEF TypeOK
  <2>3. \A i \in 1 .. Len(fills') : TrueReport(fills'[i])
    BY <2>1, <2>2
  <2> QED BY <2>1, <2>3 DEF Working
<1> QED BY <1>1, <1>2

\* The steps of the handlers, of death and of replay keep the invariant.
LEMMA HandlerAppliesTruly ==
    ASSUME TypeInv, AppliedInv, Handler \/ Crash
    PROVE  AppliedInv'
<1> USE DEF TypeInv
<1>1. ASSUME NEW c \in Ids, Submit(c)
      PROVE  AppliedInv'
  BY <1>1 DEF Submit, Asking, Idle, AppliedInv, ReportsAreTrue, TrueReport,
              NeverOverApplied, TypeOK, exchange
<1>2. ASSUME NEW e \in events, Deliver(e)
      PROVE  AppliedInv'
  <2>1. e \in Report /\ TrueReport(e) /\ RecordFill(e, FALSE, {}) /\ UNCHANGED exchange
    BY <1>2 DEF Deliver, TypeOK, AppliedInv, ReportsAreTrue
  <2> QED BY <2>1, RecordKeepsTruth
<1>3. CASE Record
  <2>1. /\ task.report \in Report /\ TrueReport(task.report) /\ UNCHANGED exchange
        /\ RecordFill(task.report, task.resave, task.todo)
    BY <1>3 DEF Record, TaskFits, AppliedInv, ReportsAreTrue
  <2> QED BY <2>1, RecordKeepsTruth
<1>4. CASE Settle
  <2>1. /\ task.report \in Report /\ TrueReport(task.report) /\ ApplyReport(task.report)
        /\ UNCHANGED <<exchange, fills, crashes>>
    BY <1>4 DEF Settle, TaskFits, AppliedInv, ReportsAreTrue
  <2>2. UNCHANGED exchange /\ NeverOverApplied
    BY <2>1 DEF AppliedInv
  <2>3. NeverOverApplied'
    BY <2>1, <2>2, TrueReportApplies
  <2>4. task'.at \notin {"applying", "settling"}
    BY <1>4 DEF Settle, Working, Idle
  <2> QED BY <2>1, <2>3, <2>4 DEF AppliedInv, ReportsAreTrue, TrueReport, exchange
<1>5. CASE Replay
  <2>1. /\ task.row \in 1 .. Len(fills) /\ ApplyReport(fills[task.row])
        /\ UNCHANGED <<exchange, fills, crashes>> /\ task'.at = "replaying"
    BY <1>5 DEF Replay, Task, TaskFits, Replaying, Idle
  <2>2. fills[task.row] \in Report /\ TrueReport(fills[task.row])
    BY <2>1 DEF TypeOK, AppliedInv, ReportsAreTrue
  <2>3. UNCHANGED exchange /\ NeverOverApplied
    BY <2>1 DEF AppliedInv
  <2>4. NeverOverApplied'
    BY <2>1, <2>2, <2>3, TrueReportApplies
  <2> QED BY <2>1, <2>4 DEF AppliedInv, ReportsAreTrue, TrueReport, exchange
<1>6. ASSUME NEW c \in Ids, NEW todo, Found(c, todo)
      PROVE  AppliedInv'
  <2>1. AsOrder(Answer(c)) \in Order /\ AsOrder(Answer(c)).applied = 0
    BY <1>6, AnswerTypes DEF Found
  <2>2. UpsertOrder(orders[c], AsOrder(Answer(c))).applied = orders[c].applied
    BY <2>1, UpsertMovesForward DEF TypeOK
  <2>3. NeverOverApplied'
    BY <1>6, <2>2 DEF Found, NeverOverApplied, AppliedInv, TypeOK, exchange
  <2>4. TrueReport(Answer(c))
    BY DEF TrueReport, Answer, TypeOK
  <2>5. task'.at = "applying" => task'.report = Answer(c)
    BY <1>6 DEF Found, Working
  <2>6. task'.at \in {"applying", "resaving"} /\ UNCHANGED <<exchange, fills>>
    BY <1>6 DEF Found, Working
  <2> QED BY <2>3, <2>4, <2>5, <2>6 DEF AppliedInv, ReportsAreTrue, TrueReport, exchange
<1>7. ASSUME NEW e \in events, Respond(e)
      PROVE  AppliedInv'
  <2> DEFINE r == [e EXCEPT !.trade = 0]
  <2>1. r \in Report /\ r.cid \in Ids /\ TrueReport(r)
    BY DEF Report, TypeOK, AppliedInv, ReportsAreTrue, TrueReport
  <2>2. /\ AsOrder(r).applied = 0
        /\ UpsertOrder(orders[r.cid], AsOrder(r)).applied = orders[r.cid].applied
    BY <2>1, AnswerTypes, UpsertMovesForward DEF TypeOK
  <2>3. /\ orders' = [orders EXCEPT ![r.cid] = UpsertOrder(orders[r.cid], AsOrder(r))]
        /\ dbOrders' = [dbOrders EXCEPT ![r.cid] = AsOrder(r)]
        /\ UNCHANGED <<exchange, fills>>
        /\ task' = Working("applying", r, FALSE, {}) \/ task' = Idle
    BY <1>7 DEF Respond
  <2> HIDE DEF r
  <2>4. \A c \in Ids : xchg[c].cum \in Nat
    BY DEF TypeOK
  <2>5. NeverOverApplied'
    BY <2>1, <2>2, <2>3, <2>4 DEF NeverOverApplied, AppliedInv, TypeOK, exchange
  <2>6. task'.at = "applying" => task'.report = r
    BY <2>3 DEF Working, Idle
  <2>7. task'.at # "settling"
    BY <2>3 DEF Working, Idle
  <2> QED BY <2>1, <2>3, <2>5, <2>6, <2>7 DEF AppliedInv, ReportsAreTrue, TrueReport, exchange
<1>8. CASE Resave
  <2>1. task.report \in Report /\ AsOrder(task.report).applied = 0
    BY <1>8 DEF Resave, TaskFits, AsOrder
  <2>2. \A c \in Ids : xchg[c].cum \in Nat
    BY DEF TypeOK
  <2>3. NeverOverApplied'
    BY <1>8, <2>1, <2>2 DEF Resave, NeverOverApplied, AppliedInv, TypeOK, exchange
  <2>4. task'.at \notin {"applying", "settling"}
    BY <1>8 DEF Resave, Auditing, Idle
  <2> QED BY <1>8, <2>3, <2>4 DEF Resave, AppliedInv, ReportsAreTrue, TrueReport, exchange
<1>9. ASSUME task.at \in {"placing", "resolving"}, NEW s \in Status
      PROVE  LET c == task.report.cid
             IN  c \in Ids /\ TransitionStatus(orders[c], s, 0).applied = orders[c].applied
  <2>1. task.report.cid \in Ids /\ orders[task.report.cid] \in Order
    BY <1>9 DEF TaskFits, Report
  <2> QED BY <2>1, TransitionMovesForward
<1>10. CASE PlacementFails \/ ResolveAbsent
  <2>1. "REJECTED" \in Status /\ task.at \in {"placing", "resolving"}
    BY <1>10 DEF PlacementFails, ResolveAbsent, Status, Terminal
  <2>2. NeverOverApplied'
    BY <1>9, <1>10, <2>1 DEF PlacementFails, ResolveAbsent, NeverOverApplied, AppliedInv,
                             TypeOK, exchange
  <2> QED BY <1>10, <2>2 DEF PlacementFails, ResolveAbsent, Idle, AppliedInv,
                             ReportsAreTrue, TrueReport, exchange
<1>11. CASE PlacementUnknown
  <2>1. "UNKNOWN" \in Status /\ task.at \in {"placing", "resolving"}
    BY <1>11 DEF PlacementUnknown, Status, Open
  <2>2. NeverOverApplied'
    BY <1>9, <1>11, <2>1 DEF PlacementUnknown, NeverOverApplied, AppliedInv, TypeOK, exchange
  <2> QED BY <1>11, <2>2 DEF PlacementUnknown, Asking, Idle, AppliedInv,
                             ReportsAreTrue, TrueReport, exchange
<1>12. CASE ResolveFound
  BY <1>6, <1>12 DEF ResolveFound, TaskFits, Report
<1>13. CASE ResolveUnresolved
  BY <1>13 DEF ResolveUnresolved, Idle, AppliedInv, ReportsAreTrue, TrueReport,
               NeverOverApplied, exchange, engine
<1>14. CASE Crash
  <2>1. \A c \in Ids : NoOrder.applied <= xchg[c].cum
    BY DEF NoOrder, TypeOK
  <2> QED BY <1>14, <2>1 DEF Crash, Down, Idle, AppliedInv, ReportsAreTrue, TrueReport,
                             NeverOverApplied, exchange
<1>15. CASE Restart
  <2>1. \A c \in Ids : Reseeded(c).applied <= xchg[c].cum
    <3>1. ASSUME NEW c \in Ids
          PROVE  Reseeded(c).applied <= xchg[c].cum
      <4>1. /\ Reseeded(c).applied \in Nat /\ dbOrders[c].applied \in Nat
            /\ xchg[c].cum \in Nat
        BY ReseededTypes DEF TypeOK, Order, NoOrder
      <4>2. Reseeded(c).applied <= dbOrders[c].applied /\ dbOrders[c].applied <= xchg[c].cum
        BY ReseededTypes DEF AppliedInv, NeverOverApplied
      <4> QED BY <4>1, <4>2
    <3> QED BY <3>1
  <2> QED BY <1>15, <2>1 DEF Restart, Replaying, Idle, AppliedInv, ReportsAreTrue,
                             TrueReport, NeverOverApplied, exchange
<1>16. CASE ReplayDone
  BY <1>16 DEF ReplayDone, Auditing, Idle, AppliedInv, ReportsAreTrue, TrueReport,
               NeverOverApplied, exchange, engine
<1>17. ASSUME NEW c \in Ids, AuditFound(c)
       PROVE  AppliedInv'
  BY <1>6, <1>17 DEF AuditFound
<1>18. ASSUME NEW c \in Ids, AuditMissing(c)
       PROVE  AppliedInv'
  BY <1>18 DEF AuditMissing, Auditing, Idle, AppliedInv, ReportsAreTrue, TrueReport,
               NeverOverApplied, exchange, engine
<1> QED BY <1>1, <1>2, <1>3, <1>4, <1>5, <1>7, <1>8, <1>10, <1>11, <1>12, <1>13,
           <1>14, <1>15, <1>16, <1>17, <1>18 DEF Handler

(* Every report the engine holds or has recorded is true, and no order is  *)
(* applied beyond what the exchange executed: the inductive invariant.     *)
THEOREM ReportsStayTrue == Spec => []AppliedInv
<1>1. Init => AppliedInv
  BY DEF Init, AppliedInv, ReportsAreTrue, NeverOverApplied, NoOrder, Idle
<1>2. TypeInv /\ AppliedInv /\ [Next]_vars => AppliedInv'
  <2> SUFFICES ASSUME TypeInv, AppliedInv, [Next]_vars PROVE AppliedInv'
    OBVIOUS
  <2>1. CASE Exchange
    <3>1. TypeOK /\ ReportsAreTrue
      BY DEF TypeInv, AppliedInv
    <3>2. /\ \A c \in Ids : xchg[c].cum <= xchg'[c].cum
          /\ \A c \in Ids : xchg'[c].status = "NONE" => xchg'[c].cum = 0
          /\ \A e \in events' : TrueReport(e)'
      BY <2>1, <3>1, ExchangeGrows DEF ReportsAreTrue, ExchangeIsHeard
    <3>3. EngineStays /\ TypeOK'
      BY <2>1, <3>1, ExchangeTypes
    <3>4. ASSUME NEW r \in Report, TrueReport(r)
          PROVE  r.cum <= xchg'[r.cid].cum
      <4>1. r.cid \in Ids /\ r.cum \in Nat
        BY DEF Report
      <4>2. xchg[r.cid].cum \in Nat /\ xchg'[r.cid].cum \in Nat
        BY <3>1, <3>3, <4>1 DEF TypeOK
      <4> QED BY <3>2, <3>4, <4>1, <4>2 DEF TrueReport
    <3>5. (\A i \in 1 .. Len(fills) : TrueReport(fills[i]))'
      <4>1. \A i \in 1 .. Len(fills) : fills[i] \in Report /\ TrueReport(fills[i])
        BY <3>1 DEF TypeOK, ReportsAreTrue
      <4>2. \A i \in 1 .. Len(fills) : fills[i].cum <= xchg'[fills[i].cid].cum
        BY <3>4, <4>1
      <4> QED BY <3>3, <4>2 DEF EngineStays, TrueReport
    <3>6. (task.at \in {"applying", "settling"} => TrueReport(task.report))'
      <4>1. task.at \in {"applying", "settling"} =>
               task.report \in Report /\ TrueReport(task.report)
        BY <3>1 DEF TypeInv, TaskFits, ReportsAreTrue
      <4>2. task.at \in {"applying", "settling"} =>
               task.report.cum <= xchg'[task.report.cid].cum
        BY <3>4, <4>1
      <4> QED BY <3>3, <4>2 DEF EngineStays, TrueReport
    <3>7. NeverOverApplied'
      <4>1. ASSUME NEW c \in Ids
            PROVE  orders[c].applied <= xchg'[c].cum /\ dbOrders[c].applied <= xchg'[c].cum
        <5>1. /\ orders[c].applied \in Nat /\ dbOrders[c].applied \in Nat
              /\ xchg[c].cum \in Nat /\ xchg'[c].cum \in Nat
          BY <3>1, <3>3 DEF TypeOK, Order, NoOrder
        <5>2. /\ orders[c].applied <= xchg[c].cum /\ dbOrders[c].applied <= xchg[c].cum
              /\ xchg[c].cum <= xchg'[c].cum
          BY <3>2 DEF NeverOverApplied, AppliedInv
        <5> QED BY <5>1, <5>2
      <4> QED BY <3>3, <4>1 DEF NeverOverApplied, EngineStays
    <3> QED BY <3>2, <3>5, <3>6, <3>7 DEF AppliedInv, ReportsAreTrue, TrueReport
  <2>2. CASE Handler \/ Crash
    BY <2>2, HandlerAppliesTruly
  <2>3. CASE UNCHANGED vars
    BY <2>3 DEF vars, exchange, engine, AppliedInv, ReportsAreTrue, TrueReport, NeverOverApplied
  <2> QED BY <2>1, <2>2, <2>3 DEF Next
<1> QED BY <1>1, <1>2, TypeCorrect, PTL DEF Spec

(* Whatever the exchange reports, in whatever order, however often and     *)
(* with whatever deaths in between: no order's applied quantity exceeds    *)
(* what the exchange executed of it, in memory or in the store.            *)
THEOREM NoOverApplication == Spec => []NeverOverApplied
<1>1. AppliedInv => NeverOverApplied
  BY DEF AppliedInv
<1> QED BY <1>1, ReportsStayTrue, PTL

-----------------------------------------------------------------------------
(* The position is never short.                                            *)

\* Where the position comes from in a step: a report, a death, or nothing.
PositionMoves == UNCHANGED pos \/ Crash \/ Settle \/ Replay

LEMMA AppliesAReport ==
    ASSUME TypeInv, Settle \/ Replay
    PROVE  \E r \in Report : ApplyReport(r)
<1>1. CASE Settle
  BY <1>1 DEF Settle, TypeInv, TaskFits
<1>2. CASE Replay
  <2>1. task.row \in 1 .. Len(fills) /\ ApplyReport(fills[task.row])
    BY <1>2 DEF Replay, TypeInv, TaskFits, Task
  <2>2. fills[task.row] \in Report
    BY <2>1 DEF TypeInv, TypeOK
  <2> QED BY <2>1, <2>2
<1> QED BY <1>1, <1>2

LEMMA NextMovesPosition ==
    ASSUME TypeInv, [Next]_vars
    PROVE  PositionMoves
<1> USE DEF PositionMoves
<1>1. CASE Exchange
  BY <1>1, ExchangeTypes DEF TypeInv, EngineStays
<1>2. CASE Handler
  <2>1. CASE Settle \/ Replay
    BY <2>1
  <2>3. CASE Record \/ \E e \in events : Deliver(e)
    BY <2>3 DEF Record, Deliver, RecordFill, engine
  <2>4. CASE \/ \E c \in Ids : Submit(c) \/ AuditFound(c) \/ AuditMissing(c)
             \/ \E e \in events : Respond(e)
             \/ Resave \/ PlacementFails \/ PlacementUnknown
             \/ ResolveFound \/ ResolveAbsent \/ ResolveUnresolved
             \/ Restart \/ ReplayDone
    BY <2>4 DEF Submit, AuditFound, AuditMissing, Respond, Resave, PlacementFails,
                PlacementUnknown, ResolveFound, ResolveAbsent, ResolveUnresolved,
                Restart, ReplayDone, Found, engine
  <2> QED BY <1>2, <2>1, <2>3, <2>4 DEF Handler
<1>3. CASE Crash
  BY <1>3
<1>4. CASE UNCHANGED vars
  BY <1>4 DEF vars, engine
<1> QED BY <1>1, <1>2, <1>3, <1>4 DEF Next

\* A report leaves a long or flat position long or flat.
LEMMA ReportKeepsLong ==
    ASSUME TypeOK, LongOnly(pos), NEW r \in Report, ApplyReport(r)
    PROVE  LongOnly(pos')
<1>1. Capped(r) \in Nat /\ pos \in Position
  BY FreshIsNat DEF TypeOK
<1>2. CASE r.cid \in Entries
  <2>1. (r.cid \in Exits) = FALSE
    BY <1>2, IdsAssumption
  <2>2. pos' = OnFill(pos, "BUY", Capped(r), FALSE)
    BY <1>2, <2>1 DEF ApplyReport
  <2> QED BY <1>1, <2>2, BuyAdds
<1>3. CASE r.cid \notin Entries
  <2>1. (r.cid \in Exits) = TRUE
    BY <1>3 DEF Report, Ids
  <2>2. pos' = OnFill(pos, "SELL", Capped(r), TRUE)
    BY <1>3, <2>1 DEF ApplyReport
  <2> QED BY <1>1, <2>2, SellReduces
<1> QED BY <1>2, <1>3

(* Reduce-only fills never reverse the position, for any number of orders, *)
(* any order of reports and any deaths.                                    *)
THEOREM NoReversal == Spec => []NeverReversed
<1>1. Init => LongOnly(pos)
  BY DEF Init, LongOnly, Flat
<1>2. TypeInv /\ LongOnly(pos) /\ [Next]_vars => LongOnly(pos)'
  <2> SUFFICES ASSUME TypeInv, LongOnly(pos), [Next]_vars PROVE LongOnly(pos')
    BY DEF LongOnly
  <2>1. PositionMoves /\ TypeOK
    BY NextMovesPosition DEF TypeInv
  <2>2. CASE UNCHANGED pos \/ Crash
    BY <2>2 DEF LongOnly, Flat, Crash
  <2>3. CASE Settle \/ Replay
    BY <2>1, <2>3, AppliesAReport, ReportKeepsLong
  <2> QED BY <2>1, <2>2, <2>3 DEF PositionMoves
<1>3. LongOnly(pos) => NeverReversed
  BY DEF LongOnly, NeverReversed
<1> QED BY <1>1, <1>2, <1>3, TypeCorrect, PTL DEF Spec

-----------------------------------------------------------------------------
(* A tracked order never regresses.                                        *)

Forward(o, p) ==
    /\ o.status \in Terminal => p.status = o.status
    /\ o.filled <= p.filled

\* An order may be merged with what an answer says of it; nothing is applied.
Merges ==
    \E c \in Ids, o \in Order :
        /\ orders' = [orders EXCEPT ![c] = o]
        /\ Forward(orders[c], o) /\ o.applied = orders[c].applied

\* What a step does to the tracked orders.
OrdersMove ==
    \/ UNCHANGED orders
    \/ Merges
    \/ Settle \/ Replay
    \/ task'.at = "down" \/ task.at = "down"

LEMMA UpsertMerges ==
    ASSUME TypeOK, NEW c \in Ids, NEW given \in Order, given.applied = 0,
           orders' = [orders EXCEPT ![c] = UpsertOrder(@, given)]
    PROVE  Merges
<1>1. orders[c] \in Order \cup {NoOrder} /\ orders[c].filled \in Nat
  BY DEF TypeOK, Order, NoOrder
<1>2. UpsertOrder(orders[c], given) \in Order
  BY <1>1, UpsertMovesForward
<1>3. UpsertOrder(orders[c], given).filled \in Nat
  BY <1>2 DEF Order
<1>4. /\ Forward(orders[c], UpsertOrder(orders[c], given))
      /\ UpsertOrder(orders[c], given).applied = orders[c].applied
  BY <1>1, <1>3, UpsertMovesForward DEF Forward
<1> QED BY <1>2, <1>4 DEF Merges

LEMMA TransitionMerges ==
    ASSUME TypeInv, task.at \in {"placing", "resolving"}, NEW s \in Status,
           orders' = [orders EXCEPT ![task.report.cid] = TransitionStatus(@, s, 0)]
    PROVE  Merges
<1> DEFINE c == task.report.cid
<1>1. c \in Ids /\ orders[c] \in Order
  BY DEF TypeInv, TaskFits, Report
<1>2. TransitionStatus(orders[c], s, 0) \in Order
  BY <1>1, TransitionMovesForward
<1>3. /\ Forward(orders[c], TransitionStatus(orders[c], s, 0))
      /\ TransitionStatus(orders[c], s, 0).applied = orders[c].applied
  <2>1. orders[c].filled \in Nat /\ TransitionStatus(orders[c], s, 0).filled \in Nat
    BY <1>1, <1>2 DEF Order
  <2> QED BY <1>1, <2>1, TransitionMovesForward DEF Forward
<1> QED BY <1>1, <1>2, <1>3 DEF Merges

LEMMA NextMovesOrders ==
    ASSUME TypeInv, [Next]_vars
    PROVE  OrdersMove
<1> USE DEF OrdersMove
<1>1. CASE Exchange
  BY <1>1, ExchangeTypes DEF TypeInv, EngineStays
<1>2. ASSUME NEW c \in Ids, Submit(c)
      PROVE  Merges
  <2> DEFINE o == [status |-> "SUBMITTING", filled |-> 0, applied |-> 0]
  <2>1. o \in Order /\ orders[c] = NoOrder /\ orders' = [orders EXCEPT ![c] = o]
    BY <1>2 DEF Submit, Order, Status, Open
  <2>2. Forward(NoOrder, o) /\ o.applied = NoOrder.applied
    BY DEF Forward, NoOrder, Terminal
  <2> HIDE DEF o
  <2> QED BY <2>1, <2>2 DEF Merges
<1>3. ASSUME NEW e \in events, Respond(e)
      PROVE  Merges
  <2> DEFINE r == [e EXCEPT !.trade = 0]
  <2>1. r \in Report /\ r.cid \in Ids
    BY DEF Report, TypeInv, TypeOK
  <2>2. AsOrder(r) \in Order /\ AsOrder(r).applied = 0
    BY <2>1, AnswerTypes DEF TypeInv
  <2>3. orders' = [orders EXCEPT ![r.cid] = UpsertOrder(@, AsOrder(r))]
    BY <1>3 DEF Respond
  <2> HIDE DEF r
  <2> QED BY <2>1, <2>2, <2>3, UpsertMerges DEF TypeInv
<1>4. ASSUME NEW c \in Ids, NEW todo, Found(c, todo)
      PROVE  UNCHANGED orders \/ Merges
  <2>1. AsOrder(Answer(c)) \in Order /\ AsOrder(Answer(c)).applied = 0
    BY <1>4, AnswerTypes DEF Found, TypeInv
  <2> QED BY <1>4, <2>1, UpsertMerges DEF Found, TypeInv
<1>5. CASE PlacementFails \/ ResolveAbsent
  <2>1. "REJECTED" \in Status
    BY DEF Status, Terminal
  <2> QED BY <1>5, <2>1, TransitionMerges DEF PlacementFails, ResolveAbsent
<1>6. CASE PlacementUnknown
  <2>1. /\ "UNKNOWN" \in Status /\ task.at \in {"placing", "resolving"}
        /\ orders' = [orders EXCEPT ![task.report.cid] = TransitionStatus(@, "UNKNOWN", 0)]
    BY <1>6 DEF Status, Open, PlacementUnknown
  <2> QED BY <2>1, TransitionMerges
<1>7. CASE ResolveFound
  BY <1>4, <1>7 DEF ResolveFound, TypeInv, TaskFits, Report
<1>8. ASSUME NEW c \in Ids, AuditFound(c)
      PROVE  OrdersMove
  BY <1>4, <1>8 DEF AuditFound
<1>9. CASE Record \/ \E e \in events : Deliver(e)
  BY <1>9 DEF Record, Deliver, RecordFill, engine
<1>10. CASE Resave \/ ResolveUnresolved \/ ReplayDone \/ \E c \in Ids : AuditMissing(c)
  BY <1>10 DEF Resave, ResolveUnresolved, ReplayDone, AuditMissing, engine
<1>11. CASE Restart \/ Crash
  BY <1>11 DEF Restart, Crash, Down, Idle
<1>12. CASE UNCHANGED vars
  BY <1>12 DEF vars, engine
<1> QED BY <1>1, <1>2, <1>3, <1>5, <1>6, <1>7, <1>8, <1>9, <1>10, <1>11, <1>12
        DEF Next, Handler

\* While the process lives a step takes no tracked order back.
LEMMA OrdersGrow ==
    ASSUME TypeInv, [Next]_vars, task.at # "down", task'.at # "down", NEW c \in Ids
    PROVE  /\ Forward(orders[c], orders'[c])
           /\ orders[c].applied <= orders'[c].applied
<1>1. OrdersMove
  BY NextMovesOrders
<1>2. orders[c] \in Order \cup {NoOrder} /\ orders[c].applied \in Nat /\ orders[c].filled \in Nat
  BY DEF TypeInv, TypeOK, Order, NoOrder
<1>3. CASE UNCHANGED orders
  BY <1>2, <1>3 DEF Forward
<1>4. CASE Merges
  <2>1. PICK d \in Ids, o \in Order :
          /\ orders' = [orders EXCEPT ![d] = o]
          /\ Forward(orders[d], o) /\ o.applied = orders[d].applied
    BY <1>4 DEF Merges
  <2>2. CASE c = d
    BY <1>2, <2>1, <2>2 DEF TypeInv, TypeOK
  <2>3. CASE c # d
    BY <1>2, <2>1, <2>3 DEF TypeInv, TypeOK, Forward
  <2> QED BY <2>2, <2>3
<1>5. ASSUME NEW r \in Report, ApplyReport(r)
      PROVE  /\ Forward(orders[c], orders'[c])
             /\ orders[c].applied <= orders'[c].applied
  <2>1. orders' = [orders EXCEPT ![r.cid] = OrderAfter(r)]
    BY <1>5 DEF ApplyReport
  <2>2. CASE c # r.cid
    BY <1>2, <2>1, <2>2 DEF TypeInv, TypeOK, Forward
  <2>3. CASE c = r.cid
    <3>1. orders'[c] = OrderAfter(r)
      BY <2>1, <2>3 DEF TypeInv, TypeOK
    <3>2. Held(c) \in Order /\ OrderAfter(r) \in Order /\ r.cum \in Nat
      BY HeldIsOrder, ReportMovesForward DEF TypeInv, Report
    <3>3. /\ orders[c].filled <= Held(c).filled /\ orders[c].applied <= Held(c).applied
          /\ orders[c].status \in Terminal => Held(c) = orders[c]
      BY <1>2, <3>2 DEF Held, NoOrder, Order, Terminal
    <3>4. /\ Held(c).filled <= OrderAfter(r).filled
          /\ Held(c).applied <= OrderAfter(r).applied
          /\ Held(c).status \in Terminal => OrderAfter(r).status = Held(c).status
      <4>1. Held(c).filled \in Nat /\ OrderAfter(r).filled \in Nat /\ Held(c).applied \in Nat
        BY <3>2 DEF Order
      <4> QED BY <2>3, <3>2, <4>1, ReportMovesForward DEF TypeInv, Larger
    <3>5. OrderAfter(r).filled \in Nat /\ OrderAfter(r).applied \in Nat
          /\ Held(c).filled \in Nat /\ Held(c).applied \in Nat
      BY <3>2 DEF Order
    <3> QED BY <1>2, <3>1, <3>3, <3>4, <3>5 DEF Forward
  <2> QED BY <2>2, <2>3
<1>6. CASE Settle \/ Replay
  BY <1>5, <1>6, AppliesAReport
<1> QED BY <1>1, <1>3, <1>4, <1>6 DEF OrdersMove

(* While the process lives no step takes a tracked order back: a terminal  *)
(* status is final, and the filled and the applied quantity only grow.     *)
THEOREM NoRegression == Spec => OrdersNeverRegress
<1>1. TypeInv /\ [Next]_vars =>
        [task.at # "down" /\ task'.at # "down" =>
            \A c \in Ids :
                /\ orders[c].status \in Terminal => orders'[c].status = orders[c].status
                /\ orders[c].filled <= orders'[c].filled
                /\ orders[c].applied <= orders'[c].applied]_vars
  BY OrdersGrow DEF Forward
<1> QED BY <1>1, TypeCorrect, PTL DEF Spec, OrdersNeverRegress

-----------------------------------------------------------------------------
(* The ledger and the orders.                                              *)

\* The row report r of a handler or of the replay, when one is applied now.
AtHand(r) ==
    \/ task.at = "settling" /\ r = task.report
    \/ task.at = "replaying" /\ \E i \in 1 .. Len(fills) : r = fills[i]

(* Where the applied quantity of an order may come from in a step: it was  *)
(* there, in memory or in the store, or a report brings it.                *)
AppliedFrom(n, c) ==
    \/ n \in {orders[c].applied, dbOrders[c].applied, 0}
    \/ \E r \in Report : r.cid = c /\ r.cum = n /\ AtHand(r)

\* A report that is applied brings its quantity, or leaves what there was.
LEMMA ApplyMovesApplied ==
    ASSUME TypeInv, NEW r \in Report, AtHand(r), ApplyReport(r), NEW c \in Ids
    PROVE  AppliedFrom(orders'[c].applied, c) /\ AppliedFrom(dbOrders'[c].applied, c)
<1>1. /\ orders' = [orders EXCEPT ![r.cid] = OrderAfter(r)]
      /\ dbOrders' = [dbOrders EXCEPT ![r.cid] = OrderAfter(r)]
      /\ orders \in [Ids -> Order \cup {NoOrder}] /\ dbOrders \in [Ids -> Order \cup {NoOrder}]
      /\ r.cid \in Ids
  BY DEF ApplyReport, TypeInv, TypeOK, Report
<1>2. CASE c # r.cid
  BY <1>1, <1>2 DEF AppliedFrom
<1>3. CASE c = r.cid
  <2>1. orders'[c] = OrderAfter(r) /\ dbOrders'[c] = OrderAfter(r)
    BY <1>1, <1>3
  <2>2. OrderAfter(r).applied = Held(c).applied \/ OrderAfter(r).applied = r.cum
    BY <1>3, ReportMovesForward DEF TypeInv, Larger
  <2>3. Held(c).applied \in {orders[c].applied, dbOrders[c].applied, 0}
    BY DEF Held
  <2> QED BY <1>3, <2>1, <2>2, <2>3 DEF AppliedFrom
<1> QED BY <1>2, <1>3

(* Wherever an order's applied quantity comes from in a step, it was there  *)
(* before or a report brings it that the handler or the replay is at.      *)
LEMMA AppliedMoves ==
    ASSUME TypeInv, [Next]_vars, NEW c \in Ids
    PROVE  AppliedFrom(orders'[c].applied, c) /\ AppliedFrom(dbOrders'[c].applied, c)
<1> DEFINE Stays(n) == n \in {orders[c].applied, dbOrders[c].applied, 0}
           Goal == Stays(orders'[c].applied) /\ Stays(dbOrders'[c].applied)
<1> SUFFICES \/ Goal
             \/ AppliedFrom(orders'[c].applied, c) /\ AppliedFrom(dbOrders'[c].applied, c)
  BY DEF AppliedFrom
<1>0. orders \in [Ids -> Order \cup {NoOrder}] /\ dbOrders \in [Ids -> Order \cup {NoOrder}]
  BY DEF TypeInv, TypeOK
<1>1. CASE Exchange
  BY <1>1, ExchangeTypes DEF TypeInv, EngineStays
<1>2. ASSUME NEW d \in Ids, Submit(d)
      PROVE  Goal
  <2> DEFINE o == [status |-> "SUBMITTING", filled |-> 0, applied |-> 0]
  <2>1. o.applied = 0 /\ orders' = [orders EXCEPT ![d] = o] /\ dbOrders' = [dbOrders EXCEPT ![d] = o]
    BY <1>2 DEF Submit
  <2> HIDE DEF o
  <2> QED BY <1>0, <2>1
<1>3. ASSUME NEW e \in events, Respond(e)
      PROVE  Goal
  <2> DEFINE r == [e EXCEPT !.trade = 0]
  <2>1. r \in Report /\ r.cid \in Ids
    BY DEF Report, TypeInv, TypeOK
  <2>2. /\ AsOrder(r) \in Order /\ AsOrder(r).applied = 0
        /\ UpsertOrder(orders[r.cid], AsOrder(r)).applied = orders[r.cid].applied
    BY <1>0, <2>1, AnswerTypes, UpsertMovesForward DEF TypeInv
  <2>3. /\ orders' = [orders EXCEPT ![r.cid] = UpsertOrder(@, AsOrder(r))]
        /\ dbOrders' = [dbOrders EXCEPT ![r.cid] = AsOrder(r)]
    BY <1>3 DEF Respond
  <2> HIDE DEF r
  <2> QED BY <1>0, <2>1, <2>2, <2>3
<1>4. ASSUME NEW d \in Ids, NEW todo, Found(d, todo)
      PROVE  Goal
  <2>1. AsOrder(Answer(d)) \in Order /\ AsOrder(Answer(d)).applied = 0
    BY <1>4, AnswerTypes DEF Found, TypeInv
  <2>2. UpsertOrder(orders[d], AsOrder(Answer(d))).applied = orders[d].applied
    BY <1>0, <2>1, UpsertMovesForward
  <2> QED BY <1>0, <1>4, <2>2 DEF Found
<1>5. ASSUME task.at \in {"placing", "resolving"}, NEW s \in Status
      PROVE  /\ task.report.cid \in Ids
             /\ TransitionStatus(orders[task.report.cid], s, 0).applied = orders[task.report.cid].applied
  <2>1. task.report.cid \in Ids /\ orders[task.report.cid] \in Order
    BY <1>5 DEF TypeInv, TaskFits, Report
  <2> QED BY <2>1, TransitionMovesForward
<1>6. CASE PlacementFails \/ ResolveAbsent
  <2>1. "REJECTED" \in Status
    BY DEF Status, Terminal
  <2> QED BY <1>0, <1>5, <1>6, <2>1 DEF PlacementFails, ResolveAbsent
<1>7. CASE PlacementUnknown
  <2>1. "UNKNOWN" \in Status
    BY DEF Status, Open
  <2> QED BY <1>0, <1>5, <1>7, <2>1 DEF PlacementUnknown
<1>8. CASE ResolveFound
  BY <1>4, <1>8 DEF ResolveFound, TypeInv, TaskFits, Report
<1>9. ASSUME NEW d \in Ids, AuditFound(d)
      PROVE  Goal
  BY <1>4, <1>9 DEF AuditFound
<1>10. CASE Record \/ \E e \in events : Deliver(e)
  BY <1>10 DEF Record, Deliver, RecordFill, engine
<1>11. CASE Resave
  BY <1>0, <1>11 DEF Resave, AsOrder
<1>12. CASE ResolveUnresolved \/ ReplayDone \/ \E d \in Ids : AuditMissing(d)
  BY <1>12 DEF ResolveUnresolved, ReplayDone, AuditMissing, engine
<1>13. CASE Settle
  <2>1. task.report \in Report /\ AtHand(task.report) /\ ApplyReport(task.report)
    BY <1>13 DEF Settle, TypeInv, TaskFits, AtHand
  <2> QED BY <2>1, ApplyMovesApplied
<1>14. CASE Replay
  <2>1. task.row \in 1 .. Len(fills) /\ task.at = "replaying" /\ ApplyReport(fills[task.row])
    BY <1>14 DEF Replay, TypeInv, TaskFits, Task
  <2>2. fills[task.row] \in Report /\ AtHand(fills[task.row])
    BY <2>1 DEF TypeInv, TypeOK, AtHand
  <2> QED BY <2>1, <2>2, ApplyMovesApplied
<1>15. CASE Restart
  <2>1. Reseeded(c).applied \in {dbOrders[c].applied, 0}
    <3>1. LET intent == [status |-> "SUBMITTING", filled |-> 0, applied |-> 0]
          IN  intent \in Order /\ intent.applied = 0
      BY DEF Order, Status, Open
    <3>2. Restored(c) \in Order \cup {NoOrder} /\ Restored(c).applied \in {dbOrders[c].applied, 0}
      BY <1>0 DEF Restored, NoOrder
    <3> QED BY <3>1, <3>2, UpsertMovesForward DEF Reseeded
  <2> QED BY <1>15, <2>1 DEF Restart
<1>16. CASE Crash
  BY <1>16 DEF Crash, NoOrder
<1>17. CASE UNCHANGED vars
  BY <1>17 DEF vars, engine
<1> QED BY <1>1, <1>2, <1>3, <1>6, <1>7, <1>8, <1>9, <1>10, <1>11, <1>12, <1>13, <1>14,
           <1>15, <1>16, <1>17 DEF Next, Handler

\* Row r is being added, or the ledger stays and its replay goes on or has ended.
RowsMove ==
    \/ UNCHANGED <<fills, task>>
    \/ \E r \in Report :
          /\ fills' = Append(fills, r)
          /\ task'.at = "settling" /\ task'.report = r
          /\ task.at \notin {"down", "replaying", "settling"}
    \/ UNCHANGED fills /\ (Settle \/ Replay \/ Restart \/ Crash)
    \/ /\ UNCHANGED fills
       /\ task.at \notin {"down", "settling"} /\ task'.at \notin {"settling", "replaying"}
       /\ task.at = "replaying" => task.row > Len(fills)

\* What a step does to the ledger, and where the handler is before and after.
LEMMA NextMovesRows ==
    ASSUME TypeInv, [Next]_vars
    PROVE  RowsMove
<1>1. CASE Exchange
  BY <1>1, ExchangeTypes DEF TypeInv, EngineStays, RowsMove
<1>2. ASSUME NEW r \in Report, NEW resave, NEW todo, RecordFill(r, resave, todo),
             task.at \in {"idle", "applying"}
      PROVE  RowsMove
  <2>1. CASE Recorded(r)
    BY <1>2, <2>1 DEF RecordFill, Working, Idle, engine, RowsMove
  <2>2. CASE ~Recorded(r)
    BY <1>2, <2>2 DEF RecordFill, Working, RowsMove
  <2> QED BY <2>1, <2>2
<1>3. CASE Record \/ \E e \in events : Deliver(e)
  BY <1>2, <1>3 DEF Record, Deliver, TypeInv, TypeOK, TaskFits
<1>4. CASE (\E c \in Ids : Submit(c)) \/ PlacementFails \/ PlacementUnknown
           \/ ResolveAbsent \/ ResolveUnresolved
  <2>1. /\ UNCHANGED fills /\ task.at \in {"idle", "placing", "resolving"}
        /\ task' = Idle \/ \E c : \E s \in {"placing", "resolving"} : task' = Asking(s, c)
    <3>1. ASSUME NEW c \in Ids, Submit(c)
          PROVE  UNCHANGED fills /\ task.at = "idle" /\ task' = Asking("placing", c)
      BY <3>1 DEF Submit
    <3>2. PlacementUnknown => \E c : task' = Asking("resolving", c)
      BY DEF PlacementUnknown
    <3> QED BY <1>4, <3>1, <3>2 DEF PlacementFails, PlacementUnknown, ResolveAbsent,
                                    ResolveUnresolved, engine
  <2>2. \A s, c : Asking(s, c).at = s
    BY DEF Asking, Idle
  <2> QED BY <2>1, <2>2 DEF Idle, RowsMove
<1>5. ASSUME NEW e \in events, Respond(e)
      PROVE  RowsMove
  <2>1. /\ task.at = "placing" /\ UNCHANGED fills
        /\ \E r : task' = Working("applying", r, FALSE, {}) \/ task' = Idle
    BY <1>5 DEF Respond
  <2> QED BY <2>1 DEF Working, Idle, RowsMove
<1>6. ASSUME NEW c, NEW todo, Found(c, todo), task.at \in {"resolving", "auditing"}
      PROVE  RowsMove
  BY <1>6 DEF Found, Working, RowsMove
<1>7. CASE ResolveFound
  BY <1>6, <1>7 DEF ResolveFound
<1>8. ASSUME NEW c \in Ids, AuditFound(c)
      PROVE  RowsMove
  BY <1>6, <1>8 DEF AuditFound
<1>9. CASE Resave \/ ReplayDone \/ \E c \in Ids : AuditMissing(c)
  <2>1. /\ UNCHANGED fills /\ task.at \in {"resaving", "replaying", "auditing"}
        /\ task.at = "replaying" => task.row > Len(fills)
        /\ \E todo : task' = Auditing(todo)
    BY <1>9 DEF Resave, ReplayDone, AuditMissing, engine
  <2> QED BY <2>1 DEF Auditing, Idle, RowsMove
<1>10. CASE Settle \/ Replay \/ Restart \/ Crash
  BY <1>10 DEF Settle, Replay, Restart, Crash, RowsMove
<1>11. CASE UNCHANGED vars
  BY <1>11 DEF vars, engine, RowsMove
<1> QED BY <1>1, <1>3, <1>4, <1>5, <1>7, <1>8, <1>9, <1>10, <1>11 DEF Next, Handler

\* Quantity n of order c is nothing, or stands in the ledger.
Stands(rows, c, n) ==
    n = 0 \/ \E i \in 1 .. Len(rows) : rows[i].cid = c /\ rows[i].cum = n

(* What an order accounts for stands in the ledger, in memory and in the   *)
(* store, and so does the report that is about to be applied.              *)
StandsInv ==
    /\ \A c \in Ids : /\ Stands(fills, c, orders[c].applied)
                      /\ Stands(fills, c, dbOrders[c].applied)
    /\ task.at = "settling" => Stands(fills, task.report.cid, task.report.cum)

\* A ledger that grows keeps what stood in it, and gains the new row.
LEMMA StandsStays ==
    ASSUME TypeInv, RowsMove, NEW c, NEW n, Stands(fills, c, n)
    PROVE  Stands(fills', c, n)
<1>1. fills \in Seq(Report)
  BY DEF TypeInv, TypeOK
<1>2. ASSUME NEW r \in Report, fills' = Append(fills, r)
      PROVE  Stands(fills', c, n)
  <2>1. \A i \in 1 .. Len(fills) : i \in 1 .. Len(fills') /\ fills'[i] = fills[i]
    BY <1>1, <1>2
  <2> QED BY <2>1 DEF Stands
<1> QED BY <1>2 DEF RowsMove

\* A step keeps the ledger ahead of the orders.
LEMMA StandsKept ==
    ASSUME TypeInv, StandsInv, [Next]_vars
    PROVE  StandsInv'
<1>1. RowsMove
  BY NextMovesRows
<1>2. ASSUME NEW r \in Report, AtHand(r)
      PROVE  Stands(fills, r.cid, r.cum)
  BY <1>2 DEF AtHand, StandsInv, Stands
<1>3. ASSUME NEW c \in Ids, NEW n, AppliedFrom(n, c)
      PROVE  Stands(fills', c, n)
  <2>1. Stands(fills, c, n)
    BY <1>2, <1>3 DEF AppliedFrom, StandsInv, Stands
  <2> QED BY <1>1, <2>1, StandsStays
<1>4. ASSUME NEW c \in Ids
      PROVE  /\ Stands(fills', c, orders'[c].applied)
             /\ Stands(fills', c, dbOrders'[c].applied)
  BY <1>3, AppliedMoves
<1>5. ASSUME task'.at = "settling"
      PROVE  Stands(fills', task'.report.cid, task'.report.cum)
  <2>1. CASE UNCHANGED <<fills, task>>
    BY <1>5, <2>1 DEF StandsInv
  <2>2. ASSUME NEW r \in Report, fills' = Append(fills, r), task'.report = r
        PROVE  Stands(fills', task'.report.cid, task'.report.cum)
    <3>1. Len(fills') \in 1 .. Len(fills') /\ fills'[Len(fills')] = r
      BY <2>2 DEF TypeInv, TypeOK
    <3> QED BY <2>2, <3>1 DEF Stands
  <2>3. ~(Settle \/ Replay \/ Restart \/ Crash)
    <3>1. CASE Settle
      BY <1>5, <3>1 DEF Settle, Working, Idle
    <3>2. CASE Replay \/ Restart \/ Crash
      BY <1>5, <3>2 DEF Replay, Restart, Crash, Replaying, Down, Idle
    <3> QED BY <3>1, <3>2
  <2> QED BY <1>1, <1>5, <2>1, <2>2, <2>3 DEF RowsMove
<1> QED BY <1>4, <1>5 DEF StandsInv

(* Write-ahead, for any orders, any reports and any deaths: whatever an    *)
(* order accounts for stands in the ledger at exactly that quantity.       *)
THEOREM WriteAhead == Spec => []AppliedStandsInLedger
<1>1. Init => StandsInv
  BY DEF Init, StandsInv, Stands, NoOrder, Idle
<1>2. TypeInv /\ StandsInv /\ [Next]_vars => StandsInv'
  BY StandsKept
<1>3. TypeInv /\ StandsInv => AppliedStandsInLedger
  <2> SUFFICES ASSUME StandsInv, NEW c \in Ids, orders[c].applied > 0
               PROVE  \E i \in 1 .. Len(fills) : fills[i].cid = c /\ fills[i].cum = orders[c].applied
    BY DEF AppliedStandsInLedger
  <2>1. orders[c].applied # 0
    OBVIOUS
  <2> QED BY <2>1 DEF StandsInv, Stands
<1> QED BY <1>1, <1>2, <1>3, TypeCorrect, PTL DEF Spec

\* Rows the engine still has to apply: the replay's, the one at hand, all when down.
Pending(i) ==
    \/ task.at = "down"
    \/ task.at = "replaying" /\ i >= task.row
    \/ task.at = "settling" /\ fills[i] = task.report

RowsInv ==
    \A i \in 1 .. Len(fills) : Pending(i) \/ fills[i].cum <= orders[fills[i].cid].applied

\* After its report is applied an order accounts for it.
LEMMA AppliedAtLeast ==
    ASSUME TypeInv, NEW r \in Report, ApplyReport(r)
    PROVE  r.cum <= orders'[r.cid].applied
<1>1. /\ orders'[r.cid] = OrderAfter(r) /\ Held(r.cid) \in Order /\ r.cum \in Nat
      /\ OrderAfter(r).applied = Larger(Held(r.cid).applied, r.cum)
  BY HeldIsOrder, ReportMovesForward DEF ApplyReport, TypeInv, TypeOK, Report
<1>2. Held(r.cid).applied \in Nat
  BY <1>1 DEF Order
<1> QED BY <1>1, <1>2 DEF Larger

\* A step keeps every row applied that is not still to come.
LEMMA RowsKept ==
    ASSUME TypeInv, TypeInv', RowsInv, [Next]_vars
    PROVE  RowsInv'
<1>1. RowsMove /\ fills \in Seq(Report) /\ fills' \in Seq(Report)
  BY NextMovesRows DEF TypeInv, TypeOK
<1>2. CASE task'.at = "down"
  BY <1>2 DEF RowsInv, Pending
<1>3. CASE Restart
  BY <1>3 DEF Restart, RowsInv, Pending, Replaying, Idle
<1>4. CASE task.at # "down" /\ task'.at # "down"
  <2>1. ASSUME NEW i \in 1 .. Len(fills), fills[i].cum <= orders[fills[i].cid].applied
        PROVE  fills[i].cum <= orders'[fills[i].cid].applied
    <3>1. fills[i].cid \in Ids /\ fills[i].cum \in Nat
      <4>1. fills[i] \in Report
        BY <1>1
      <4> QED BY <4>1 DEF Report
    <3>2. ASSUME NEW c \in Ids
          PROVE  /\ orders[c].applied \in Nat /\ orders'[c].applied \in Nat
                 /\ orders[c].applied <= orders'[c].applied
      <4>1. orders[c].applied \in Nat /\ orders'[c].applied \in Nat
        BY DEF TypeInv, TypeOK, Order, NoOrder
      <4> QED BY <1>4, <4>1, OrdersGrow
    <3> QED BY <2>1, <3>1, <3>2
  <2>2. CASE UNCHANGED <<fills, task>>
    BY <2>1, <2>2 DEF RowsInv, Pending
  <2>3. ASSUME NEW r \in Report, fills' = Append(fills, r),
               task'.at = "settling", task'.report = r,
               task.at \notin {"down", "replaying", "settling"}
        PROVE  RowsInv'
    <3>1. ASSUME NEW i \in 1 .. Len(fills')
          PROVE  Pending(i)' \/ fills'[i].cum <= orders'[fills'[i].cid].applied
      <4>1. CASE i \in 1 .. Len(fills)
        <5>1. fills'[i] = fills[i] /\ ~Pending(i)
          BY <1>1, <2>3, <4>1 DEF Pending
        <5> QED BY <2>1, <4>1, <5>1 DEF RowsInv
      <4>2. CASE i \notin 1 .. Len(fills)
        <5>1. fills'[i] = r
          BY <1>1, <2>3, <4>2
        <5> QED BY <2>3, <5>1 DEF Pending
      <4> QED BY <4>1, <4>2
    <3> QED BY <3>1 DEF RowsInv
  <2>4. CASE Settle
    <3>1. /\ task.report \in Report /\ ApplyReport(task.report) /\ UNCHANGED fills
          /\ task.at = "settling"
      BY <2>4 DEF Settle, TypeInv, TaskFits
    <3>2. task.report.cum <= orders'[task.report.cid].applied
      BY <3>1, AppliedAtLeast
    <3>3. ASSUME NEW i \in 1 .. Len(fills)
          PROVE  fills[i].cum <= orders'[fills[i].cid].applied
      <4>1. CASE fills[i] = task.report
        BY <3>2, <4>1
      <4>2. CASE fills[i] # task.report
        BY <2>1, <3>1, <4>2 DEF RowsInv, Pending
      <4> QED BY <4>1, <4>2
    <3> QED BY <3>1, <3>3 DEF RowsInv
  <2>5. CASE Replay
    <3>1. /\ task.row \in 1 .. Len(fills) /\ ApplyReport(fills[task.row]) /\ UNCHANGED fills
          /\ task.at = "replaying" /\ task'.at = "replaying" /\ task'.row = task.row + 1
      BY <2>5 DEF Replay, TypeInv, TaskFits, Task, Replaying, Idle
    <3>2. fills[task.row].cum <= orders'[fills[task.row].cid].applied
      BY <1>1, <3>1, AppliedAtLeast
    <3>3. ASSUME NEW i \in 1 .. Len(fills), i < task.row + 1
          PROVE  fills[i].cum <= orders'[fills[i].cid].applied
      <4>1. CASE i = task.row
        BY <3>2, <4>1
      <4>2. CASE i # task.row
        <5>1. ~Pending(i)
          BY <3>1, <3>3, <4>2 DEF Pending
        <5> QED BY <2>1, <5>1 DEF RowsInv
      <4> QED BY <4>1, <4>2
    <3>4. ASSUME NEW i \in 1 .. Len(fills)
          PROVE  i >= task.row + 1 \/ i < task.row + 1
      BY <3>1
    <3> QED BY <3>1, <3>3, <3>4 DEF RowsInv, Pending
  <2>6. CASE /\ UNCHANGED fills
             /\ task.at \notin {"down", "settling"} /\ task'.at \notin {"settling", "replaying"}
             /\ task.at = "replaying" => task.row > Len(fills)
    <3>1. ASSUME NEW i \in 1 .. Len(fills)
          PROVE  ~Pending(i)
      <4>1. task.row \in Nat
        BY DEF TypeInv, TaskFits, Task
      <4> QED BY <2>6, <4>1 DEF Pending
    <3> QED BY <2>1, <2>6, <3>1 DEF RowsInv
  <2>7. CASE Restart \/ Crash
    BY <1>4, <2>7 DEF Restart, Crash, Down, Idle
  <2> QED BY <1>1, <2>2, <2>3, <2>4, <2>5, <2>6, <2>7 DEF RowsMove
<1>5. CASE task.at = "down" /\ task'.at # "down"
  <2>1. Restart \/ UNCHANGED <<fills, task>>
    BY <1>1, <1>5 DEF RowsMove, Settle, Replay, Crash
  <2> QED BY <1>3, <1>5, <2>1
<1> QED BY <1>2, <1>4, <1>5

(* Once a handler or the startup has finished every ledger row is applied: *)
(* a death between a row and its application is made good by the replay.   *)
THEOREM NoRowForgotten == Spec => []LedgerIsApplied
<1>1. Init => RowsInv
  BY DEF Init, RowsInv
<1>2. TypeInv /\ TypeInv' /\ RowsInv /\ [Next]_vars => RowsInv'
  BY RowsKept
<1>3. RowsInv => LedgerIsApplied
  BY DEF RowsInv, Pending, LedgerIsApplied
<1> QED BY <1>1, <1>2, <1>3, TypeCorrect, PTL DEF Spec

-----------------------------------------------------------------------------
(* While the process lives, FillLedger implements FillOnce.                *)

(* Without a death there is no replay and no startup audit, the store      *)
(* knows of no application to an order the engine does not track, and the  *)
(* position is long or flat.                                               *)
LiveInv ==
    /\ crashes = 0
    /\ task.at \notin {"down", "replaying", "auditing"} /\ task.todo = {}
    /\ \A c \in Ids : orders[c] = NoOrder => dbOrders[c].applied = 0
    /\ LongOnly(pos)

LEMMA RecordStaysLive ==
    ASSUME LiveInv, NEW r, NEW resave, RecordFill(r, resave, {}), UNCHANGED crashes
    PROVE  LiveInv'
<1>1. UNCHANGED <<orders, pos, dbOrders>>
  BY DEF RecordFill, engine
<1>2. task'.at \in {"settling", "resaving", "idle"} /\ task'.todo = {}
  BY DEF RecordFill, Working, Idle
<1> QED BY <1>1, <1>2 DEF LiveInv, LongOnly

\* What a step does to one stored order while the process lives.
StoreMoves(c) ==
    \/ dbOrders'[c] = dbOrders[c]
    \/ dbOrders'[c].applied = 0
    \/ orders'[c] \in Order

LEMMA NextMovesStore ==
    ASSUME TypeInv, LiveInv, [Next]_vars, NEW c \in Ids
    PROVE  StoreMoves(c)
<1> USE DEF StoreMoves
<1>1. /\ orders \in [Ids -> Order \cup {NoOrder}] /\ dbOrders \in [Ids -> Order \cup {NoOrder}]
  BY DEF TypeInv, TypeOK
<1>2. CASE Exchange \/ UNCHANGED vars
  BY <1>2, ExchangeTypes DEF TypeInv, EngineStays, vars, engine
<1>3. ASSUME NEW d \in Ids, Submit(d)
      PROVE  StoreMoves(c)
  <2>1. dbOrders' = [dbOrders EXCEPT ![d] =
                       [status |-> "SUBMITTING", filled |-> 0, applied |-> 0]]
    BY <1>3 DEF Submit
  <2> QED BY <1>1, <2>1
<1>4. ASSUME NEW e \in events, Respond(e)
      PROVE  StoreMoves(c)
  <2>1. dbOrders' = [dbOrders EXCEPT ![e.cid] = AsOrder([e EXCEPT !.trade = 0])]
    BY <1>4 DEF Respond, TypeInv, TypeOK, Report
  <2> QED BY <1>1, <2>1 DEF AsOrder
<1>5. CASE Resave
  BY <1>1, <1>5 DEF Resave, AsOrder
<1>6. CASE Settle
  <2>1. /\ task.report \in Report /\ OrderAfter(task.report) \in Order
        /\ orders' = [orders EXCEPT ![task.report.cid] = OrderAfter(task.report)]
        /\ dbOrders' = [dbOrders EXCEPT ![task.report.cid] = OrderAfter(task.report)]
    BY <1>6, ReportMovesForward DEF Settle, ApplyReport, TypeInv, TaskFits
  <2> QED BY <1>1, <2>1
<1>7. CASE PlacementUnknown
  <2> DEFINE d == task.report.cid
             o == TransitionStatus(orders[d], "UNKNOWN", 0)
  <2>1. /\ d \in Ids /\ orders[d] \in Order
        /\ orders' = [orders EXCEPT ![d] = o] /\ dbOrders' = [dbOrders EXCEPT ![d] = o]
    BY <1>7 DEF PlacementUnknown, TypeInv, TaskFits, Report
  <2>2. o \in Order
    BY <2>1, TransitionMovesForward DEF Status, Open
  <2> QED BY <1>1, <2>1, <2>2
<1>8. CASE Record \/ (\E e \in events : Deliver(e)) \/ PlacementFails
           \/ ResolveFound \/ ResolveAbsent \/ ResolveUnresolved \/ Crash
  BY <1>8 DEF Record, Deliver, RecordFill, PlacementFails, ResolveFound, ResolveAbsent,
              ResolveUnresolved, Found, Crash, engine
<1>9. CASE \/ Restart \/ Replay \/ ReplayDone
           \/ \E d \in Ids : AuditFound(d) \/ AuditMissing(d)
  BY <1>9 DEF Restart, Replay, ReplayDone, AuditFound, AuditMissing, LiveInv
<1> QED BY <1>2, <1>3, <1>4, <1>5, <1>6, <1>7, <1>8, <1>9 DEF Next, Handler

LEMMA LiveStays ==
    ASSUME MaxCrashes = 0, TypeInv, LiveInv, [Next]_vars
    PROVE  LiveInv'
<1> USE DEF LiveInv
<1>1. CASE Exchange
  BY <1>1, ExchangeTypes DEF TypeInv, EngineStays, LongOnly
<1>2. LongOnly(pos')
  <2>1. PositionMoves /\ TypeOK
    BY NextMovesPosition DEF TypeInv
  <2>2. CASE UNCHANGED pos \/ Crash
    BY <2>2 DEF LongOnly, Flat, Crash
  <2>3. CASE Settle \/ Replay
    BY <2>1, <2>3, AppliesAReport, ReportKeepsLong
  <2> QED BY <2>1, <2>2, <2>3 DEF PositionMoves
<1>3. /\ crashes' = 0
      /\ task'.at \notin {"down", "replaying", "auditing"} /\ task'.todo = {}
  <2>1. CASE Handler
    <3>1. CASE (\E e \in events : Deliver(e)) \/ Record
      BY <3>1, RecordStaysLive DEF Deliver, Record
    <3>2. CASE (\E c \in Ids : Submit(c)) \/ PlacementFails \/ PlacementUnknown
      <4>1. \A step, c : Asking(step, c).at = step /\ Asking(step, c).todo = {}
        BY DEF Asking, Idle
      <4>2. Idle.at = "idle" /\ Idle.todo = {}
        BY DEF Idle
      <4> QED BY <3>2, <4>1, <4>2 DEF Submit, PlacementFails, PlacementUnknown
    <3>3. CASE \E e \in events : Respond(e)
      BY <3>3 DEF Respond, Working, Idle
    <3>4. CASE ResolveFound \/ ResolveAbsent \/ ResolveUnresolved
      BY <3>4 DEF ResolveFound, ResolveAbsent, ResolveUnresolved, Found, Working, Idle
    <3>5. CASE Settle \/ Resave
      BY <3>5 DEF Settle, Resave, Working, Auditing, Idle
    <3>6. CASE \/ Restart \/ Replay \/ ReplayDone
               \/ \E c \in Ids : AuditFound(c) \/ AuditMissing(c)
      BY <3>6 DEF Restart, Replay, ReplayDone, AuditFound, AuditMissing
    <3> QED BY <2>1, <3>1, <3>2, <3>3, <3>4, <3>5, <3>6 DEF Handler
  <2>2. CASE Crash
    <3>1. crashes = 0 /\ crashes < MaxCrashes /\ MaxCrashes = 0
      BY <2>2 DEF Crash
    <3> QED BY <3>1
  <2>3. CASE UNCHANGED vars
    BY <2>3 DEF vars
  <2> QED BY <1>1, <2>1, <2>2, <2>3 DEF Next
<1>4. ASSUME NEW c \in Ids, orders'[c] = NoOrder
      PROVE  dbOrders'[c].applied = 0
  <2>1. /\ orders \in [Ids -> Order \cup {NoOrder}] /\ dbOrders \in [Ids -> Order \cup {NoOrder}]
        /\ NoOrder \notin Order
    BY DEF TypeInv, TypeOK, NoOrder, Order, Status, Open, Terminal
  <2>2. CASE orders[c] # NoOrder
    <3>1. CASE Merges
      BY <1>4, <2>1, <2>2, <3>1 DEF Merges
    <3>2. ASSUME NEW r \in Report, ApplyReport(r)
          PROVE  FALSE
      <4>1. OrderAfter(r) \in Order
        BY ReportMovesForward DEF TypeInv
      <4> QED BY <1>4, <2>1, <2>2, <3>2, <4>1 DEF ApplyReport
    <3>3. CASE Settle
      BY <3>2, <3>3 DEF Settle, TypeInv, TaskFits
    <3>4. ~Replay /\ task.at # "down"
      BY DEF Replay
    <3>5. task'.at # "down"
      BY <1>3
    <3>6. CASE UNCHANGED orders
      BY <1>4, <2>2, <3>6
    <3> QED BY <3>1, <3>3, <3>4, <3>5, <3>6, NextMovesOrders DEF OrdersMove
  <2>3. CASE dbOrders'[c] # dbOrders[c]
    BY <1>4, <2>1, <2>3, NextMovesStore DEF StoreMoves
  <2> QED BY <2>2, <2>3
<1> QED BY <1>2, <1>3, <1>4

Executed == [c \in Ids |-> xchg[c].cum]

Booked == [c \in Ids |-> orders[c].applied]

LEMMA MappedTypes ==
    ASSUME TypeOK
    PROVE  /\ Executed \in [Ids -> Nat] /\ Booked \in [Ids -> Nat]
           /\ pos.qty \in Nat
BY DEF TypeOK, Executed, Booked, Order, NoOrder, Position

\* A step of the exchange executes lots of one order or changes no lot.
LEMMA ExchangeExecutes ==
    ASSUME TypeInv, TypeInv', ReportsAreTrue, Exchange
    PROVE  (\E c \in Ids : Once!Execute(c)) \/ UNCHANGED Executed
<1>1. Executed \in [Ids -> Nat] /\ Executed' \in [Ids -> Nat]
  BY MappedTypes DEF TypeInv, TypeOK, Executed
<1>2. UNCHANGED <<Booked, pos>>
  BY ExchangeTypes DEF TypeInv, EngineStays, Booked
<1>3. ASSUME NEW c \in Ids, NEW q \in 1 .. Qty[c], ExchangeTrade(c, q)
      PROVE  Once!Execute(c)
  <2>1. xchg'[c].cum = xchg[c].cum + q /\ \A d \in Ids \ {c} : xchg'[d] = xchg[d]
    BY <1>3 DEF ExchangeTrade, Push, TypeInv, TypeOK
  <2>2. Executed'[c] > Executed[c] /\ \A d \in Ids \ {c} : Executed'[d] = Executed[d]
    <3>1. q \in Nat /\ q > 0 /\ xchg[c].cum \in Nat
      BY QtyAssumption DEF TypeInv, TypeOK
    <3> QED BY <2>1, <3>1 DEF Executed
  <2> QED BY <1>1, <1>2, <2>2 DEF Once!Execute, Once!Raises, Once!Ids, Executed, Booked, Ids
<1>4. ASSUME NEW c \in Ids, ExchangeAccept(c)
      PROVE  UNCHANGED Executed
  <2>1. xchg' = [xchg EXCEPT ![c] = [status |-> "NEW", cum |-> 0]] /\ xchg[c].cum = 0
    BY <1>4 DEF ExchangeAccept, Push, ReportsAreTrue
  <2> QED BY <2>1 DEF Executed, TypeInv, TypeOK
<1>5. ASSUME NEW c \in Ids, ExchangeRefuse(c)
      PROVE  UNCHANGED Executed
  BY <1>5 DEF ExchangeRefuse, Executed, TypeInv, TypeOK
<1>6. ASSUME NEW c \in Ids, NEW s \in Ends, ExchangeEnd(c, s)
      PROVE  UNCHANGED Executed
  <2>1. xchg' = [xchg EXCEPT ![c] = [status |-> s, cum |-> xchg[c].cum]]
    BY <1>6 DEF ExchangeEnd, Push
  <2> QED BY <2>1 DEF Executed, TypeInv, TypeOK
<1> QED BY <1>3, <1>4, <1>5, <1>6 DEF Exchange

\* Applying a report books its fresh lots, or changes nothing that counts.
LEMMA SettleBooks ==
    ASSUME TypeInv, TypeInv', LiveInv, AppliedInv, Settle
    PROVE  (\E c \in Ids : Once!Book(c)) \/ UNCHANGED <<Executed, Booked, pos.qty>>
<1>1. PICK r \in Report, c \in Ids :
        r.cid = c /\ TrueReport(r) /\ ApplyReport(r) /\ UNCHANGED exchange
  BY DEF Settle, TypeInv, TaskFits, AppliedInv, ReportsAreTrue, Report
<1>2. c \in Ids /\ r.cum \in Nat /\ Held(c) \in Order /\ Held(c).applied = orders[c].applied
  <2>1. r.cid \in Ids /\ r.cum \in Nat /\ Held(r.cid) \in Order
    BY <1>1, HeldIsOrder DEF Report, TypeInv
  <2>2. Held(r.cid).applied = orders[r.cid].applied
    BY <2>1 DEF Held, LiveInv, NoOrder
  <2> QED BY <1>1, <2>1, <2>2
<1>3. orders' = [orders EXCEPT ![c] = OrderAfter(r)]
      /\ OrderAfter(r).applied = Larger(orders[c].applied, r.cum)
  BY <1>1, <1>2, ReportMovesForward DEF ApplyReport, TypeInv
<1>4. /\ Booked \in [Ids -> Nat] /\ Booked' \in [Ids -> Nat] /\ pos.qty \in Nat
      /\ \A d \in Ids \ {c} : Booked'[d] = Booked[d]
      /\ Booked[c] = orders[c].applied /\ Booked'[c] = Larger(orders[c].applied, r.cum)
  <2>1. Booked \in [Ids -> Nat] /\ pos.qty \in Nat
    BY MappedTypes DEF TypeInv
  <2>2. Booked' \in [Ids -> Nat]
    BY DEF TypeInv, TypeOK, Booked, Order, NoOrder
  <2> QED BY <1>2, <1>3, <2>1, <2>2 DEF Booked, TypeInv, TypeOK
<1>5. Fresh(r) = IF r.cum > Booked[c] THEN r.cum - Booked[c] ELSE 0
  BY <1>1, <1>2, <1>4 DEF Fresh
<1>6. UNCHANGED Executed /\ Executed[c] = xchg[c].cum
  BY <1>1, <1>2 DEF Executed, exchange
<1>7. Fresh(r) \in Nat /\ Capped(r) \in Nat /\ pos \in Position /\ LongOnly(pos)
  BY <1>1, FreshIsNat DEF TypeInv, TypeOK, LiveInv
<1>8. pos'.qty = IF c \in Entries THEN pos.qty + Fresh(r)
                 ELSE IF Fresh(r) <= pos.qty THEN pos.qty - Fresh(r) ELSE 0
  <2>1. CASE c \in Entries
    <3>1. (r.cid \in Exits) = FALSE
      BY <1>1, <2>1, IdsAssumption
    <3>2. Capped(r) = Fresh(r)
      BY <3>1 DEF Capped
    <3>3. pos' = OnFill(pos, "BUY", Capped(r), FALSE)
      BY <1>1, <2>1, <3>1 DEF ApplyReport
    <3> QED BY <1>7, <2>1, <3>2, <3>3, BuyAdds
  <2>2. CASE c \notin Entries
    <3>1. (r.cid \in Exits) = TRUE
      BY <1>1, <1>2, <2>2 DEF Ids
    <3>2. pos' = OnFill(pos, "SELL", Capped(r), TRUE)
      BY <1>1, <2>2, <3>1 DEF ApplyReport
    <3>3. Capped(r) = IF IsFlat(pos) THEN 0 ELSE IF Fresh(r) <= pos.qty THEN Fresh(r) ELSE pos.qty
      BY <3>1 DEF Capped, Smaller
    <3>4. IsFlat(pos) => pos.qty = 0
      BY <1>7 DEF IsFlat, LongOnly
    <3>5. pos'.qty = IF Capped(r) <= pos.qty THEN pos.qty - Capped(r) ELSE 0
      BY <1>7, <3>2, SellReduces
    <3> QED BY <1>4, <1>7, <2>2, <3>3, <3>4, <3>5
  <2> QED BY <2>1, <2>2
<1>9. CASE r.cum > Booked[c]
  <2>1. Booked'[c] = r.cum /\ Booked'[c] > Booked[c] /\ Fresh(r) = Booked'[c] - Booked[c]
    BY <1>2, <1>4, <1>5, <1>9 DEF Larger
  <2>2. Once!Raises(Booked, Booked', c)
    BY <1>4, <2>1 DEF Once!Raises, Once!Ids, Ids
  <2>3. Booked'[c] <= Executed[c]
    BY <1>1, <1>6, <2>1 DEF TrueReport
  <2>4. Once!Book(c)
    BY <1>6, <1>8, <2>1, <2>2, <2>3 DEF Once!Book, Booked, Executed
  <2>5. c \in Ids
    BY <1>2
  <2> QED BY <2>4, <2>5
<1>10. CASE ~(r.cum > Booked[c])
  <2>1. Booked'[c] = Booked[c] /\ Fresh(r) = 0
    BY <1>2, <1>4, <1>5, <1>10 DEF Larger
  <2>2. Booked' = Booked
    BY <1>4, <2>1
  <2>3. pos'.qty = pos.qty
    BY <1>4, <1>8, <2>1
  <2> QED BY <1>6, <2>2, <2>3
<1> QED BY <1>9, <1>10

LEMMA StartsOnce == Init => Once!Init
BY DEF Init, Once!Init, Once!Ids, Ids, NoOrder, Flat

\* Every step of a living process maps to a step of FillOnce or to a stutter.
LEMMA StepsOnce ==
    ASSUME MaxCrashes = 0, TypeInv, TypeInv', LiveInv, LiveInv', AppliedInv, [Next]_vars
    PROVE  [Once!Next]_(Once!vars)
<1> SUFFICES \/ \E c \in Ids : Once!Execute(c) \/ Once!Book(c)
             \/ UNCHANGED <<Executed, Booked, pos.qty>>
  BY DEF Once!Next, Once!vars, Once!Ids, Ids, Executed, Booked
<1>1. CASE Exchange
  <2>1. UNCHANGED <<Booked, pos.qty>>
    BY <1>1, ExchangeTypes DEF TypeInv, EngineStays, Booked
  <2> QED BY <1>1, <2>1, ExchangeExecutes DEF AppliedInv
<1>2. CASE Settle
  BY <1>2, SettleBooks
<1>3. CASE (Handler \/ Crash \/ UNCHANGED vars) /\ ~Settle
  <2>1. ~Crash /\ ~Replay /\ task.at # "down" /\ task'.at # "down"
    <3>1. Crash => 0 < 0
      BY DEF LiveInv, Crash
    <3> QED BY <3>1 DEF LiveInv, Replay
  <2>2. UNCHANGED exchange
    <3>1. ASSUME NEW c, NEW todo, Found(c, todo)
          PROVE  UNCHANGED exchange
      BY <3>1 DEF Found
    <3>2. CASE Handler
      BY <3>1, <3>2 DEF Handler, Submit, AuditFound, AuditMissing, Deliver, Respond,
           Record, Settle, Resave, PlacementFails, PlacementUnknown, ResolveFound,
           ResolveAbsent, ResolveUnresolved, Restart, Replay, ReplayDone
    <3> QED BY <1>3, <2>1, <3>2 DEF vars
  <2>3. UNCHANGED Booked
    <3>1. UNCHANGED orders \/ Merges
      BY <1>3, <2>1, NextMovesOrders DEF OrdersMove
    <3>2. CASE Merges
      BY <3>2 DEF Merges, Booked, TypeInv, TypeOK
    <3> QED BY <3>1, <3>2 DEF Booked
  <2>4. UNCHANGED pos
    BY <1>3, <2>1, NextMovesPosition DEF PositionMoves
  <2> QED BY <2>2, <2>3, <2>4 DEF Executed, exchange
<1> QED BY <1>1, <1>2, <1>3 DEF Next

(* While the process lives, the fill path books what the exchange          *)
(* executed, each lot at most once: FillLedger implements FillOnce.        *)
THEOREM ExactlyOnce ==
    ASSUME MaxCrashes = 0
    PROVE  Spec => BooksOnce
<1>1. Init => LiveInv
  BY DEF Init, LiveInv, LongOnly, Flat, Idle, NoOrder
<1>2. TypeInv /\ LiveInv /\ [Next]_vars => LiveInv'
  BY LiveStays
<1>3. TypeInv /\ TypeInv' /\ LiveInv /\ LiveInv' /\ AppliedInv /\ [Next]_vars =>
        [Once!Next]_(Once!vars)
  BY StepsOnce
<1> QED BY <1>1, <1>2, <1>3, StartsOnce, TypeCorrect, ReportsStayTrue, PTL
        DEF Spec, BooksOnce, Once!Spec

-----------------------------------------------------------------------------
(* While the process lives, the position is what the orders applied.       *)

\* Only the application of a report moves the position or an applied quantity.
LEMMA OnlySettleBooks ==
    ASSUME MaxCrashes = 0, TypeInv, LiveInv, LiveInv', [Next]_vars, ~Settle
    PROVE  UNCHANGED <<Booked, pos, clamped>>
<1>1. ~Crash /\ ~Replay /\ task.at # "down" /\ task'.at # "down"
  <2>1. Crash => 0 < 0
    BY DEF LiveInv, Crash
  <2> QED
    BY <2>1 DEF LiveInv, Replay
<1>2. UNCHANGED orders \/ Merges
  BY <1>1, NextMovesOrders DEF OrdersMove
<1>3. UNCHANGED Booked
  <2>1. CASE Merges
    BY <2>1 DEF Merges, Booked, TypeInv, TypeOK
  <2> QED
    BY <1>2, <2>1 DEF Booked
<1>4. UNCHANGED pos
  BY <1>1, NextMovesPosition DEF PositionMoves
<1>5. UNCHANGED clamped
  <2>1. ASSUME NEW c, NEW todo, Found(c, todo)
        PROVE  UNCHANGED clamped
    BY <2>1 DEF Found
  <2>2. CASE Handler
    BY <1>1, <2>1, <2>2 DEF Handler, Submit, AuditFound, AuditMissing, Deliver, Respond,
         Record, RecordFill, Resave, PlacementFails, PlacementUnknown, ResolveFound,
         ResolveAbsent, ResolveUnresolved, Restart, ReplayDone, engine
  <2>3. CASE Exchange
    BY <2>3, ExchangeTypes DEF TypeInv, EngineStays
  <2>4. CASE UNCHANGED vars
    BY <2>4 DEF vars, engine
  <2> QED
    BY <1>1, <2>2, <2>3, <2>4 DEF Next
<1> QED
  BY <1>3, <1>4, <1>5

\* Both sides of an application move by the fresh lots of the report, unless
\* the position takes fewer, which is a clamp.
LEMMA SettleMoves ==
    ASSUME TypeInv, TypeInv', LiveInv, Settle
    PROVE  \E c \in Ids :
              /\ Booked'[c] >= Booked[c]
              /\ \A d \in Ids \ {c} : Booked'[d] = Booked[d]
              /\ clamped => clamped'
              /\ ~clamped' => pos'.qty = IF c \in Entries
                                         THEN pos.qty + (Booked'[c] - Booked[c])
                                         ELSE pos.qty - (Booked'[c] - Booked[c])
<1>1. PICK r \in Report : ApplyReport(r)
  BY AppliesAReport
<1> DEFINE c == r.cid
<1>2. c \in Ids /\ r.cum \in Nat /\ Held(c) \in Order /\ Held(c).applied = orders[c].applied
  <2>1. c \in Ids /\ r.cum \in Nat /\ Held(c) \in Order
    BY HeldIsOrder DEF Report, TypeInv
  <2> QED
    BY <2>1 DEF Held, LiveInv, NoOrder
<1>3. /\ orders' = [orders EXCEPT ![c] = OrderAfter(r)]
      /\ OrderAfter(r).applied = Larger(orders[c].applied, r.cum)
  BY <1>1, <1>2, ReportMovesForward DEF ApplyReport, TypeInv
<1>4. /\ Booked \in [Ids -> Nat] /\ pos.qty \in Nat
      /\ \A d \in Ids \ {c} : Booked'[d] = Booked[d]
      /\ Booked[c] = orders[c].applied /\ Booked'[c] = Larger(orders[c].applied, r.cum)
  <2>1. Booked \in [Ids -> Nat] /\ pos.qty \in Nat
    BY MappedTypes DEF TypeInv
  <2> QED
    BY <1>2, <1>3, <2>1 DEF Booked, TypeInv, TypeOK
<1>5. Fresh(r) = IF r.cum > Booked[c] THEN r.cum - Booked[c] ELSE 0
  BY <1>2, <1>4 DEF Fresh
<1>6. Booked[c] \in Nat /\ Booked'[c] >= Booked[c] /\ Fresh(r) = Booked'[c] - Booked[c]
  <2>1. Booked[c] \in Nat
    BY <1>2, <1>4
  <2> HIDE DEF c
  <2> QED
    BY <1>2, <1>4, <1>5, <2>1 DEF Larger
<1>7. /\ Fresh(r) \in Nat /\ Capped(r) \in Nat /\ pos \in Position /\ LongOnly(pos)
      /\ clamped' = (clamped \/ Capped(r) < Fresh(r)) /\ clamped \in BOOLEAN
  BY <1>1, FreshIsNat DEF TypeInv, TypeOK, LiveInv, ApplyReport
<1>8. CASE c \in Entries
  <2>1. (r.cid \in Exits) = FALSE
    BY <1>8, IdsAssumption
  <2>2. Capped(r) = Fresh(r)
    BY <2>1 DEF Capped
  <2>3. pos' = OnFill(pos, "BUY", Capped(r), FALSE)
    BY <1>1, <1>8, <2>1 DEF ApplyReport
  <2>4. pos'.qty = pos.qty + Fresh(r)
    BY <1>7, <2>2, <2>3, BuyAdds
  <2> QED
    BY <1>2, <1>4, <1>6, <1>7, <1>8, <2>4
<1>9. CASE c \notin Entries
  <2>1. (r.cid \in Exits) = TRUE
    BY <1>2, <1>9 DEF Ids
  <2>2. pos' = OnFill(pos, "SELL", Capped(r), TRUE)
    BY <1>1, <1>9, <2>1 DEF ApplyReport
  <2>3. Capped(r) = IF IsFlat(pos) THEN 0 ELSE IF Fresh(r) <= pos.qty THEN Fresh(r) ELSE pos.qty
    BY <2>1 DEF Capped, Smaller
  <2>4. IsFlat(pos) => pos.qty = 0
    BY <1>7 DEF IsFlat, LongOnly
  <2>5. pos'.qty = IF Capped(r) <= pos.qty THEN pos.qty - Capped(r) ELSE 0
    BY <1>7, <2>2, SellReduces
  <2>6. ~clamped' => ~(Capped(r) < Fresh(r))
    BY <1>7, Zenon
  <2>7. ~(Capped(r) < Fresh(r)) => pos'.qty = pos.qty - Fresh(r)
    BY <1>4, <1>7, <2>3, <2>4, <2>5
  <2> QED
    BY <1>2, <1>4, <1>6, <1>7, <1>9, <2>6, <2>7
<1> QED
  BY <1>8, <1>9

PositionInv == ~clamped => pos.qty = Total(Booked, Entries) - Total(Booked, Exits)

LEMMA PositionStays ==
    ASSUME MaxCrashes = 0, IsFiniteSet(Entries), IsFiniteSet(Exits),
           TypeInv, TypeInv', LiveInv, LiveInv', PositionInv, [Next]_vars
    PROVE  PositionInv'
<1>1. CASE ~Settle
  BY <1>1, OnlySettleBooks DEF PositionInv
<1>2. CASE Settle
  <2>1. PICK c \in Ids :
           /\ Booked'[c] >= Booked[c]
           /\ \A d \in Ids \ {c} : Booked'[d] = Booked[d]
           /\ clamped => clamped'
           /\ ~clamped' => pos'.qty = IF c \in Entries
                                      THEN pos.qty + (Booked'[c] - Booked[c])
                                      ELSE pos.qty - (Booked'[c] - Booked[c])
    BY <1>2, SettleMoves
  <2>2. /\ Booked \in [Ids -> Nat] /\ Booked' \in [Ids -> Nat]
        /\ Entries \in SUBSET Ids /\ Exits \in SUBSET Ids
    <3>1. Booked \in [Ids -> Nat]
      BY MappedTypes DEF TypeInv
    <3>2. Booked' \in [Ids -> Nat]
      BY DEF TypeInv, TypeOK, Booked, Order, NoOrder
    <3> QED
      BY <3>1, <3>2 DEF Ids
  <2> DEFINE f == Booked
             g == Booked'
  <2>3. f \in [Ids -> Nat] /\ g \in [Ids -> Nat]
    BY <2>2
  <2>4. f[c] \in Nat /\ g[c] \in Nat /\ pos.qty \in Nat
    BY <2>2, MappedTypes DEF TypeInv
  <2>5. CASE c \in Entries
    <3>1. c \notin Exits
      BY <2>5, IdsAssumption
    <3> HIDE DEF f, g
    <3>2. /\ SumFunctionOnSet(f, Entries) \in Nat /\ SumFunctionOnSet(g, Entries) \in Nat
          /\ SumFunctionOnSet(g, Entries) - g[c] = SumFunctionOnSet(f, Entries) - f[c]
      <4>1. \A d \in Entries \ {c} : g[d] = f[d]
        BY <2>1, <2>2 DEF f, g
      <4>2. c \in Entries /\ Entries \in SUBSET Ids /\ IsFiniteSet(Entries)
        BY <2>2, <2>5, <3>1
      <4> QED
        BY <2>3, <4>1, <4>2, SumChanges
    <3>3. /\ SumFunctionOnSet(f, Exits) \in Nat
          /\ SumFunctionOnSet(g, Exits) = SumFunctionOnSet(f, Exits)
      <4>1. \A d \in Exits : g[d] = f[d]
        BY <2>1, <2>2, <2>5, <3>1 DEF f, g
      <4> QED
        BY <2>2, <2>3, <4>1, SumStays
    <3>4. ~clamped' => pos'.qty = pos.qty + (g[c] - f[c])
      BY <2>1, <2>5 DEF f, g
    <3>5. clamped => clamped'
      BY <2>1
    <3>6. ~clamped => pos.qty = SumFunctionOnSet(f, Entries) - SumFunctionOnSet(f, Exits)
      BY DEF PositionInv, Total, f
    <3>7. ~clamped' => pos'.qty = SumFunctionOnSet(g, Entries) - SumFunctionOnSet(g, Exits)
      <4>1. SUFFICES ASSUME ~clamped'
                     PROVE  pos'.qty = SumFunctionOnSet(g, Entries) - SumFunctionOnSet(g, Exits)
        OBVIOUS
      <4>2. pos'.qty = pos.qty + (g[c] - f[c])
        BY <3>4, <4>1
      <4>3. pos.qty = SumFunctionOnSet(f, Entries) - SumFunctionOnSet(f, Exits)
        BY <3>5, <3>6, <4>1
      <4> QED
        BY <2>4, <3>2, <3>3, <4>2, <4>3
    <3> QED
      BY <3>7 DEF PositionInv, Total, g
  <2>6. CASE c \notin Entries
    <3>1. c \in Exits
      BY <2>6 DEF Ids
    <3> HIDE DEF f, g
    <3>2. /\ SumFunctionOnSet(f, Exits) \in Nat /\ SumFunctionOnSet(g, Exits) \in Nat
          /\ SumFunctionOnSet(g, Exits) - g[c] = SumFunctionOnSet(f, Exits) - f[c]
      <4>1. \A d \in Exits \ {c} : g[d] = f[d]
        BY <2>1, <2>2 DEF f, g
      <4>2. c \in Exits /\ Exits \in SUBSET Ids /\ IsFiniteSet(Exits)
        BY <2>2, <2>6, <3>1
      <4> QED
        BY <2>3, <4>1, <4>2, SumChanges
    <3>3. /\ SumFunctionOnSet(f, Entries) \in Nat
          /\ SumFunctionOnSet(g, Entries) = SumFunctionOnSet(f, Entries)
      <4>1. \A d \in Entries : g[d] = f[d]
        BY <2>1, <2>2, <2>6, <3>1 DEF f, g
      <4> QED
        BY <2>2, <2>3, <4>1, SumStays
    <3>4. ~clamped' => pos'.qty = pos.qty - (g[c] - f[c])
      BY <2>1, <2>6 DEF f, g
    <3>5. clamped => clamped'
      BY <2>1
    <3>6. ~clamped => pos.qty = SumFunctionOnSet(f, Entries) - SumFunctionOnSet(f, Exits)
      BY DEF PositionInv, Total, f
    <3>7. ~clamped' => pos'.qty = SumFunctionOnSet(g, Entries) - SumFunctionOnSet(g, Exits)
      <4>1. SUFFICES ASSUME ~clamped'
                     PROVE  pos'.qty = SumFunctionOnSet(g, Entries) - SumFunctionOnSet(g, Exits)
        OBVIOUS
      <4>2. pos'.qty = pos.qty - (g[c] - f[c])
        BY <3>4, <4>1
      <4>3. pos.qty = SumFunctionOnSet(f, Entries) - SumFunctionOnSet(f, Exits)
        BY <3>5, <3>6, <4>1
      <4> QED
        BY <2>4, <3>2, <3>3, <4>2, <4>3
    <3> QED
      BY <3>7 DEF PositionInv, Total, g
  <2> QED
    BY <2>5, <2>6
<1> QED
  BY <1>1, <1>2

(* While the process lives and no fill was cut, the position is what the   *)
(* orders applied, for any number of orders: the two commits of an apply,  *)
(* and the reports that repeat each other, never part them.                *)
THEOREM PositionFollowsOrders ==
    ASSUME MaxCrashes = 0, IsFiniteSet(Entries), IsFiniteSet(Exits)
    PROVE  Spec => []PositionIsWhatOrdersApplied
<1>1. Init => LiveInv
  BY DEF Init, LiveInv, LongOnly, Flat, Idle, NoOrder
<1>2. TypeInv /\ LiveInv /\ [Next]_vars => LiveInv'
  BY LiveStays
<1>3. Init => PositionInv
  <2> SUFFICES ASSUME Init PROVE PositionInv
    OBVIOUS
  <2>1. /\ Booked \in [Ids -> Nat] /\ \A c \in Ids : Booked[c] = 0
        /\ Entries \in SUBSET Ids /\ Exits \in SUBSET Ids
    BY DEF Init, Booked, NoOrder, Ids
  <2> DEFINE f == Booked
  <2>2. SumFunctionOnSet(f, Entries) = 0 /\ SumFunctionOnSet(f, Exits) = 0
    <3>1. f \in [Ids -> Nat] /\ \A c \in Ids : f[c] = 0
      BY <2>1
    <3> HIDE DEF f
    <3> QED
      BY <2>1, <3>1, SumOfZeros
  <2> QED
    BY <2>2 DEF PositionInv, Total, Init, Flat
<1>4. TypeInv /\ TypeInv' /\ LiveInv /\ LiveInv' /\ PositionInv /\ [Next]_vars => PositionInv'
  BY PositionStays
<1>5. PositionInv => PositionIsWhatOrdersApplied
  BY DEF PositionInv, PositionIsWhatOrdersApplied, Booked
<1> QED
  BY <1>1, <1>2, <1>3, <1>4, <1>5, TypeCorrect, PTL DEF Spec
=============================================================================
