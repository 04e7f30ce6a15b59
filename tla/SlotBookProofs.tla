--------------------------- MODULE SlotBookProofs ---------------------------
(***************************************************************************)
(* What holds of the slot book for any signals, lots, slot limit and       *)
(* faults: the shape of the state, that no slot ever claims more lots than *)
(* its entry has booked, that the slots add up to the position, and that a *)
(* slot that is not watched has an exit at work.                           *)
(***************************************************************************)
EXTENDS SlotBook, SumProofs

-----------------------------------------------------------------------------
(* Orders.                                                                 *)

\* A client id of the book is an entry or an exit of a signal.
LEMMA IdsAre ==
    /\ \A s \in Signals : Entry(s) \in Ids /\ Exit(s) \in Ids
    /\ \A c \in Ids : c[1] \in Signals /\ (IsEntry(c) => c = Entry(c[1]))
    /\ \A s, t \in Signals : Entry(s) # Exit(t) /\ (Entry(s) = Entry(t) => s = t)
    /\ \A s \in Signals : IsEntry(Entry(s)) /\ ~IsEntry(Exit(s))
    /\ \A s \in Signals : Entry(s)[1] = s /\ Exit(s)[1] = s
BY DEF Ids, Entry, Exit, IsEntry

\* The statuses the exchange reports are statuses of orders.
LEMMA ReportsAreStatuses ==
    /\ ReportStatus \subseteq Status
    /\ {"SUBMITTING", "UNKNOWN", "REJECTED"} \subseteq Status
    /\ NoOrder \notin Order
BY DEF ReportStatus, Status, Open, Terminal, NoOrder, Order

\* A transition keeps an order an order and applies nothing.
LEMMA TransitionKeeps ==
    ASSUME NEW o \in Order, NEW status \in Status, NEW n \in Nat
    PROVE  /\ TransitionStatus(o, status, n) \in Order
           /\ TransitionStatus(o, status, n).applied = o.applied
<1>1. Larger(o.filled, n) \in Nat
  BY DEF Order, Larger
<1> QED
  BY <1>1 DEF TransitionStatus, Order

\* So does the merge of an order that applies nothing itself.
LEMMA UpsertKeeps ==
    ASSUME NEW o \in Order \cup {NoOrder}, NEW given \in Order, given.applied = 0
    PROVE  /\ UpsertOrder(o, given) \in Order
           /\ UpsertOrder(o, given).applied = o.applied
<1>1. CASE o = NoOrder
  BY <1>1 DEF UpsertOrder, NoOrder
<1>2. CASE o # NoOrder
  BY <1>2, TransitionKeeps DEF UpsertOrder, Order
<1> QED
  BY <1>1, <1>2

\* A report applies an order up to its cumulative quantity.
LEMMA MergeApplies ==
    ASSUME NEW o \in Order, NEW status \in Status, NEW cum \in Nat
    PROVE  /\ Merge(o, status, cum) \in Order
           /\ Merge(o, status, cum).applied = Larger(o.applied, cum)
           /\ Larger(o.applied, cum) \in Nat
           /\ Larger(o.applied, cum) >= o.applied
<1> DEFINE raised == [o EXCEPT !.applied = Larger(@, cum)]
<1>1. Larger(o.applied, cum) \in Nat /\ Larger(o.applied, cum) >= o.applied
  BY DEF Order, Larger
<1>2. raised \in Order /\ raised.applied = Larger(o.applied, cum)
  BY <1>1 DEF Order
<1>3. /\ TransitionStatus(raised, status, cum) \in Order
      /\ TransitionStatus(raised, status, cum).applied = raised.applied
  BY <1>2, TransitionKeeps
<1> HIDE DEF raised
<1>4. Larger(TransitionStatus(raised, status, cum).filled, cum) \in Nat
  BY <1>3 DEF Order, Larger
<1>5. Merge(o, status, cum) =
         [TransitionStatus(raised, status, cum) EXCEPT !.filled = Larger(@, cum)]
  BY DEF Merge, raised
<1> QED
  BY <1>1, <1>2, <1>3, <1>4, <1>5 DEF Order

\* The order a report is booked on.
LEMMA TrackedIsOrder ==
    ASSUME SlotTypeOK, NEW c \in Ids
    PROVE  /\ Tracked(c) \in Order
           /\ orders[c] # NoOrder => Tracked(c) = orders[c]
           /\ orders[c] = NoOrder => Tracked(c).applied = stored[c].applied
<1>1. orders[c] \in Order \cup {NoOrder} /\ stored[c] \in Order \cup {NoOrder}
  BY DEF SlotTypeOK
<1>2. [status |-> "UNKNOWN", filled |-> 0, applied |-> 0] \in Order
  BY ReportsAreStatuses DEF Order
<1>3. CASE orders[c] # NoOrder
  BY <1>1, <1>3 DEF Tracked
<1>4. CASE orders[c] = NoOrder /\ stored[c] # NoOrder
  BY <1>1, <1>4 DEF Tracked
<1>5. CASE orders[c] = NoOrder /\ stored[c] = NoOrder
  <2>1. Tracked(c) = [status |-> "UNKNOWN", filled |-> 0, applied |-> 0]
    BY <1>5 DEF Tracked
  <2> QED
    BY <1>2, <1>5, <2>1 DEF NoOrder
<1> QED
  BY <1>3, <1>4, <1>5

\* What a report moves is booked on its order, and a sale is in the position.
LEMMA MovedIsBooked ==
    ASSUME SlotTypeOK, NEW c \in Ids, NEW cum \in Nat
    PROVE  /\ Moved(c, cum) \in Nat
           /\ Moved(c, cum) <= Larger(Tracked(c).applied, cum)
           /\ ~IsEntry(c) => Moved(c, cum) <= pos
<1>1. Tracked(c).applied \in Nat /\ pos \in Nat
  BY TrackedIsOrder DEF SlotTypeOK, Order
<1> QED
  BY <1>1 DEF Moved, Larger, Smaller

\* Booking a report keeps the shapes and tracks and stores the same order.
LEMMA BookKeeps ==
    ASSUME SlotTypeOK, NEW c \in Ids, NEW status \in Status, NEW cum \in Nat,
           Book(c, status, cum)
    PROVE  /\ orders' \in [Ids -> Order \cup {NoOrder}]
           /\ stored' \in [Ids -> Order \cup {NoOrder}]
           /\ pos' \in Nat
           /\ orders'[c] \in Order /\ stored'[c] = orders'[c]
           /\ orders'[c].applied = Larger(Tracked(c).applied, cum)
           /\ \A d \in Ids \ {c} : orders'[d] = orders[d] /\ stored'[d] = stored[d]
<1>1. /\ Merge(Tracked(c), status, cum) \in Order
      /\ Merge(Tracked(c), status, cum).applied = Larger(Tracked(c).applied, cum)
  BY TrackedIsOrder, MergeApplies
<1>2. pos' \in Nat
  BY MovedIsBooked DEF Book, SlotTypeOK
<1>3. /\ orders' = [orders EXCEPT ![c] = Merge(Tracked(c), status, cum)]
      /\ stored' = [stored EXCEPT ![c] = Merge(Tracked(c), status, cum)]
      /\ orders \in [Ids -> Order \cup {NoOrder}]
      /\ stored \in [Ids -> Order \cup {NoOrder}]
  BY DEF Book, SlotTypeOK
<1> QED
  BY <1>1, <1>2, <1>3

-----------------------------------------------------------------------------
(* Types.                                                                  *)

Tasks == [at : {"idle", "down", "exiting", "placing", "resolving", "slotting"},
          cid : Ids \cup {NoId}, lots : Nat, stream : BOOLEAN, taken : BOOLEAN]

\* A handler works on an order of the book, which is tracked once it was sent.
TaskFits ==
    /\ task.at \notin {"idle", "down"} => task.cid \in Ids
    /\ task.at = "exiting" => ~IsEntry(task.cid)
    /\ task.at \in {"placing", "resolving", "slotting"} => orders[task.cid] # NoOrder

SlotTypeInv == SlotTypeOK /\ TaskFits

\* The steps of the event loop are tasks.
LEMMA TaskShapes ==
    ASSUME NEW c \in Ids
    PROVE  /\ Idle \in Tasks /\ Idle.at = "idle"
           /\ Down \in Tasks /\ Down.at = "down"
           /\ \A step \in {"exiting", "placing", "resolving"} :
                 /\ At(step, c) \in Tasks /\ At(step, c).at = step
                 /\ At(step, c).cid = c /\ At(step, c).lots = 0
                 /\ [At(step, c) EXCEPT !.taken = TRUE] \in Tasks
                 /\ [At(step, c) EXCEPT !.taken = TRUE].at = step
                 /\ [At(step, c) EXCEPT !.taken = TRUE].cid = c
BY DEF Idle, Down, At, Tasks

LEMMA SlottingShape ==
    ASSUME NEW c \in Ids, NEW q \in Nat, NEW b \in BOOLEAN
    PROVE  /\ Slotting(c, q, b) \in Tasks /\ Slotting(c, q, b).at = "slotting"
           /\ Slotting(c, q, b).cid = c /\ Slotting(c, q, b).lots = q
           /\ Slotting(c, q, b).stream = b
BY DEF Idle, At, Slotting, Tasks

\* A slot that is charged stays a slot, and does not grow.
LEMMA CloseFillShrinks ==
    ASSUME NEW slot \in [state : {"NONE", "OPEN", "EXIT_PENDING"}, lots : Nat], NEW q \in Nat
    PROVE  /\ CloseFill(slot, q) \in [state : {"NONE", "OPEN", "EXIT_PENDING"}, lots : Nat]
           /\ CloseFill(slot, q).lots <= slot.lots
BY DEF CloseFill, Smaller, NoSlot

\* The end of a handler without an order keeps slots and their lots.
LEMMA NoOrderSentKeeps ==
    ASSUME SlotTypeOK, NEW c \in Ids, NoOrderSent(c)
    PROVE  /\ slots' \in [Signals -> [state : {"NONE", "OPEN", "EXIT_PENDING"}, lots : Nat]]
           /\ \A s \in Signals : slots'[s].lots = slots[s].lots
           /\ task' = Idle
<1>1. c[1] \in Signals
  BY IdsAre
<1>2. slots \in [Signals -> [state : {"NONE", "OPEN", "EXIT_PENDING"}, lots : Nat]]
  BY DEF SlotTypeOK
<1> QED
  BY <1>1, <1>2 DEF NoOrderSent, Reopened

\* The exchange's own steps keep every shape, and touch no order of the engine.
LEMMA ExchangeTypes ==
    ASSUME SlotTypeInv, Exchange
    PROVE  SlotTypeInv' /\ UNCHANGED <<ledger, slots, task>>
<1>1. PICK c \in Ids : Trade(c) \/ \E status \in {"CANCELED", "EXPIRED"} : End(c, status)
  BY DEF Exchange
<1>2. xchg[c].cum \in Nat /\ xpos \in Nat /\ xchg[c].qty \in Nat
  BY DEF SlotTypeInv, SlotTypeOK
<1>3. ASSUME NEW status \in ReportStatus, NEW cum \in Nat, Push(c, status, cum),
             xpos' \in Nat, causes' \subseteq Faults \cup {"part", "full", "refused", "stray"}
      PROVE  SlotTypeInv' /\ UNCHANGED <<ledger, slots, task>>
  <2>1. xchg' \in [Ids -> [status : ReportStatus \cup {"NONE"}, cum : Nat, qty : Nat]]
    <3>1. xchg \in [Ids -> [status : ReportStatus \cup {"NONE"}, cum : Nat, qty : Nat]]
      BY DEF SlotTypeInv, SlotTypeOK
    <3>2. xchg' = [xchg EXCEPT ![c] = [xchg[c] EXCEPT !.status = status, !.cum = cum]]
      BY <1>3, <3>1 DEF Push
    <3>3. [xchg[c] EXCEPT !.status = status, !.cum = cum]
             \in [status : ReportStatus \cup {"NONE"}, cum : Nat, qty : Nat]
      BY <1>3, <3>1
    <3> QED
      BY <3>1, <3>2, <3>3
  <2>2. events' \subseteq [cid : Ids, status : ReportStatus, cum : Nat]
    BY <1>3 DEF Push, SlotTypeInv, SlotTypeOK
  <2>3. UNCHANGED <<ledger, slots, mapped, unknown, task>>
    BY <1>3 DEF Push
  <2>4. SlotTypeOK'
    BY <1>3, <2>1, <2>2, <2>3 DEF SlotTypeInv, SlotTypeOK, ledger
  <2> QED
    BY <2>3, <2>4 DEF SlotTypeInv, TaskFits, ledger, IsEntry
<1>4. CASE Trade(c)
  <2>1. xpos' \in Nat
    BY <1>2, <1>4 DEF Trade
  <2>2. PICK status \in ReportStatus : Push(c, status, xchg[c].cum + 1)
    BY <1>4 DEF Trade, ReportStatus
  <2> QED
    BY <1>2, <1>3, <1>4, <2>1, <2>2 DEF Trade, SlotTypeInv, SlotTypeOK
<1>5. CASE \E status \in {"CANCELED", "EXPIRED"} : End(c, status)
  <2>1. PICK status \in {"CANCELED", "EXPIRED"} : End(c, status)
    BY <1>5
  <2>2. status \in ReportStatus /\ "ended" \in Faults
    BY <2>1 DEF End, May, ReportStatus
  <2> QED
    BY <1>2, <1>3, <2>1, <2>2 DEF End, SlotTypeInv, SlotTypeOK
<1> QED
  BY <1>1, <1>4, <1>5

\* Sending an order tracks and stores its intent.
LEMMA SendKeeps ==
    ASSUME SlotTypeOK, NEW c \in Ids, NEW q \in Nat, Send(c, q)
    PROVE  /\ xchg' \in [Ids -> [status : ReportStatus \cup {"NONE"}, cum : Nat, qty : Nat]]
           /\ events' \subseteq [cid : Ids, status : ReportStatus, cum : Nat]
           /\ orders' \in [Ids -> Order \cup {NoOrder}]
           /\ stored' \in [Ids -> Order \cup {NoOrder}]
           /\ task' \in Tasks /\ task'.at = "placing" /\ task'.cid = c
           /\ orders'[c] # NoOrder
           /\ orders'[c].applied = orders[c].applied /\ stored'[c].applied = stored[c].applied
           /\ \A d \in Ids \ {c} : orders'[d] = orders[d] /\ stored'[d] = stored[d]
<1> DEFINE intent == [status |-> "SUBMITTING", filled |-> 0, applied |-> 0]
           kept == [intent EXCEPT !.applied = stored[c].applied]
<1>1. /\ xchg \in [Ids -> [status : ReportStatus \cup {"NONE"}, cum : Nat, qty : Nat]]
      /\ events \subseteq [cid : Ids, status : ReportStatus, cum : Nat]
      /\ orders \in [Ids -> Order \cup {NoOrder}] /\ stored \in [Ids -> Order \cup {NoOrder}]
  BY DEF SlotTypeOK
<1>2. intent \in Order /\ intent.applied = 0
  BY ReportsAreStatuses DEF Order
<1>3. stored[c].applied \in Nat
  BY <1>1 DEF Order, NoOrder
<1>4. kept \in Order /\ kept.applied = stored[c].applied
  BY <1>2, <1>3 DEF Order
<1>5. /\ UpsertOrder(orders[c], intent) \in Order
      /\ UpsertOrder(orders[c], intent).applied = orders[c].applied
  BY <1>1, <1>2, UpsertKeeps
<1>6. /\ orders' = [orders EXCEPT ![c] = UpsertOrder(orders[c], intent)]
      /\ stored' = [stored EXCEPT ![c] = kept]
  BY DEF Send
<1>7. \/ /\ xchg' = [xchg EXCEPT ![c] = [status |-> "NEW", cum |-> 0, qty |-> q]]
         /\ events' = events \cup {[cid |-> c, status |-> "NEW", cum |-> 0]}
         /\ task' = [At("placing", c) EXCEPT !.taken = TRUE]
      \/ task' = At("placing", c) /\ UNCHANGED <<xchg, events>>
  BY Zenon DEF Send
<1>12. task' \in Tasks /\ task'.at = "placing" /\ task'.cid = c
  <2> DEFINE a == At("placing", c)
             b == [At("placing", c) EXCEPT !.taken = TRUE]
  <2>1. a \in Tasks /\ a.at = "placing" /\ a.cid = c
    BY TaskShapes
  <2>2. b \in Tasks /\ b.at = "placing" /\ b.cid = c
    BY TaskShapes
  <2>3. task' = a \/ task' = b
    BY <1>7
  <2> HIDE DEF a, b
  <2> QED
    BY <2>1, <2>2, <2>3
<1>8. "NEW" \in ReportStatus
  BY DEF ReportStatus
<1> HIDE DEF intent, kept
<1>9. /\ xchg' \in [Ids -> [status : ReportStatus \cup {"NONE"}, cum : Nat, qty : Nat]]
      /\ events' \subseteq [cid : Ids, status : ReportStatus, cum : Nat]
  BY <1>1, <1>7, <1>8
<1>10. orders'[c] = UpsertOrder(orders[c], intent) /\ stored'[c] = kept
  BY <1>1, <1>6
<1>11. /\ orders' \in [Ids -> Order \cup {NoOrder}] /\ stored' \in [Ids -> Order \cup {NoOrder}]
       /\ \A d \in Ids \ {c} : orders'[d] = orders[d] /\ stored'[d] = stored[d]
  BY <1>1, <1>4, <1>5, <1>6
<1> QED
  BY <1>4, <1>5, <1>9, <1>10, <1>11, <1>12, ReportsAreStatuses

\* A step of the handler that sends or resolves an order: what it must leave.
LEMMA HandlerTypes ==
    ASSUME SlotTypeInv, UNCHANGED <<exchange, mapped>>,
           orders' \in [Ids -> Order \cup {NoOrder}],
           stored' \in [Ids -> Order \cup {NoOrder}],
           pos' \in Nat,
           slots' \in [Signals -> [state : {"NONE", "OPEN", "EXIT_PENDING"}, lots : Nat]],
           unknown' \subseteq Ids,
           task' \in Tasks,
           causes' \subseteq Faults \cup {"part", "full", "refused", "stray"},
           TaskFits'
    PROVE  SlotTypeInv'
BY DEF SlotTypeInv, SlotTypeOK, exchange, Tasks

\* The beginning of an entry or an exit.
LEMMA BeginningTypes ==
    ASSUME SlotTypeInv,
           \/ \E s \in Signals : Enter(s) \/ Trigger(s)
           \/ ExitBlocked \/ ExitTracked \/ SendExit
    PROVE  SlotTypeInv'
<1>1. ASSUME NEW s \in Signals, Enter(s) PROVE SlotTypeInv'
  <2>1. Entry(s) \in Ids /\ Lots[s] \in Nat
    BY IdsAre, LotsAssumption
  <2>2. Send(Entry(s), Lots[s])
    BY <1>1 DEF Enter
  <2>3. UNCHANGED <<xpos, pos, slots, mapped, unknown, causes>>
    BY <1>1 DEF Enter
  <2>4. SlotTypeOK
    BY DEF SlotTypeInv
  <2> QED
    BY <2>1, <2>2, <2>3, <2>4, SendKeeps DEF SlotTypeInv, SlotTypeOK, TaskFits, Tasks, IsEntry
<1>2. ASSUME NEW s \in Signals, Trigger(s) PROVE SlotTypeInv'
  <2>1. task' \in Tasks /\ task'.at = "exiting" /\ task'.cid \in Ids /\ ~IsEntry(task'.cid)
    <3>1. Exit(s) \in Ids /\ task' = At("exiting", Exit(s))
      BY <1>2, IdsAre DEF Trigger
    <3>2. At("exiting", Exit(s)) \in Tasks
          /\ At("exiting", Exit(s)).at = "exiting" /\ At("exiting", Exit(s)).cid = Exit(s)
      BY <3>1, TaskShapes
    <3> QED
      BY <3>1, <3>2, IdsAre
  <2>2. /\ slots' = [slots EXCEPT ![s].state = "EXIT_PENDING"]
        /\ UNCHANGED <<exchange, ledger, mapped, unknown, causes>>
    BY <1>2 DEF Trigger
  <2>3. slots' \in [Signals -> [state : {"NONE", "OPEN", "EXIT_PENDING"}, lots : Nat]]
    BY <2>2 DEF SlotTypeInv, SlotTypeOK
  <2> QED
    BY <2>1, <2>2, <2>3 DEF SlotTypeInv, SlotTypeOK, TaskFits, Tasks, exchange, ledger, IsEntry
<1>3. CASE ExitBlocked
  <2>1. task.cid \in Ids
    BY <1>3 DEF ExitBlocked, SlotTypeInv, TaskFits
  <2>2. /\ slots' \in [Signals -> [state : {"NONE", "OPEN", "EXIT_PENDING"}, lots : Nat]]
        /\ task' = Idle /\ task' \in Tasks /\ task'.at = "idle"
    <3>1. NoOrderSent(task.cid) /\ SlotTypeOK
      BY <1>3 DEF ExitBlocked, SlotTypeInv
    <3> QED
      BY <2>1, <3>1, NoOrderSentKeeps, TaskShapes
  <2>3. UNCHANGED <<exchange, ledger, mapped, unknown, causes>>
    BY <1>3 DEF ExitBlocked
  <2> QED
    BY <2>2, <2>3 DEF SlotTypeInv, SlotTypeOK, TaskFits, Tasks, exchange, ledger, IsEntry
<1>4. CASE ExitTracked
  <2>1. task' \in Tasks /\ task'.at = "idle"
    BY <1>4 DEF ExitTracked, Idle, Tasks
  <2>2. UNCHANGED <<exchange, ledger, slots, mapped, unknown, causes>>
    BY <1>4 DEF ExitTracked
  <2> QED
    BY <2>1, <2>2 DEF SlotTypeInv, SlotTypeOK, TaskFits, Tasks, exchange, ledger, IsEntry
<1>5. CASE SendExit
  <2>1. task.cid \in Ids /\ task.cid[1] \in Signals
    BY <1>5, IdsAre DEF SendExit, SlotTypeInv, TaskFits
  <2>2. ExitQty(task.cid[1]) \in Nat
    BY <2>1 DEF ExitQty, Smaller, SlotTypeInv, SlotTypeOK
  <2>3. /\ Send(task.cid, ExitQty(task.cid[1]))
        /\ mapped' = mapped \cup {task.cid[1]}
        /\ UNCHANGED <<xpos, pos, slots, unknown, causes>>
    BY <1>5 DEF SendExit
  <2>4. SlotTypeOK
    BY DEF SlotTypeInv
  <2> QED
    BY <2>1, <2>2, <2>3, <2>4, SendKeeps DEF SlotTypeInv, SlotTypeOK, TaskFits, Tasks, IsEntry
<1> QED
  BY <1>1, <1>2, <1>3, <1>4, <1>5

\* The exchange's order object in the store.
LEMMA ResavedIsOrder ==
    ASSUME SlotTypeOK, NEW c \in Ids, xchg[c].status \in ReportStatus, NEW n \in Nat
    PROVE  Resaved(c, n) \in Order /\ Resaved(c, n).applied = n
<1>1. xchg[c].cum \in Nat /\ xchg[c].status \in Status
  BY ReportsAreStatuses DEF SlotTypeOK
<1> QED
  BY <1>1 DEF Resaved, Order

(* What the outcome of a POST leaves of its order: it stays tracked, its   *)
(* applied part grows with the report that is booked and is the store's.   *)
Answered(c) ==
    /\ orders' \in [Ids -> Order \cup {NoOrder}] /\ stored' \in [Ids -> Order \cup {NoOrder}]
    /\ orders'[c] # NoOrder
    /\ \/ orders'[c].applied = orders[c].applied /\ stored'[c].applied = stored[c].applied
       \/ orders'[c].applied = stored'[c].applied /\ orders'[c].applied >= orders[c].applied
    /\ \A d \in Ids \ {c} : orders'[d] = orders[d] /\ stored'[d] = stored[d]
    /\ pos' \in Nat
    /\ slots' \in [Signals -> [state : {"NONE", "OPEN", "EXIT_PENDING"}, lots : Nat]]
    /\ \A s \in Signals : slots'[s].lots = slots[s].lots
    /\ task' \in Tasks
    /\ task'.at # "idle" => /\ task'.at \in {"resolving", "slotting"} /\ task'.cid = c
                            /\ task'.lots <= orders'[c].applied
    /\ unknown' \subseteq Ids /\ UNCHANGED <<exchange, mapped>>
    /\ causes' \subseteq Faults \cup {"part", "full", "refused", "stray"}

\* The six ways a POST, or the query after it, may end.
Outcome ==
    \/ RespondFilled \/ RespondOpen \/ PlacementFails \/ PlacementUnknown
    \/ ResolveFound \/ ResolveAbsent \/ ResolveUnresolved

\* Whatever the outcome, the order it is about is answered.
LEMMA OutcomeAnswers ==
    ASSUME SlotTypeInv, Outcome
    PROVE  task.cid \in Ids /\ orders[task.cid] # NoOrder /\ Answered(task.cid)
<1> DEFINE c == task.cid
           x == xchg[c]
<1>1. c \in Ids /\ orders[c] \in Order /\ orders[c] # NoOrder /\ SlotTypeOK
  <2>1. task.at \in {"placing", "resolving"}
    BY DEF Outcome, RespondFilled, RespondOpen, PlacementFails, PlacementUnknown,
           ResolveFound, ResolveAbsent, ResolveUnresolved
  <2> QED
    BY <2>1 DEF SlotTypeInv, SlotTypeOK, TaskFits
<1>2. /\ x.cum \in Nat /\ x.status \in ReportStatus \cup {"NONE"} /\ pos \in Nat
      /\ orders \in [Ids -> Order \cup {NoOrder}] /\ stored \in [Ids -> Order \cup {NoOrder}]
      /\ orders[c].applied \in Nat /\ stored[c].applied \in Nat
      /\ slots \in [Signals -> [state : {"NONE", "OPEN", "EXIT_PENDING"}, lots : Nat]]
      /\ causes \subseteq Faults \cup {"part", "full", "refused", "stray"}
      /\ unknown \subseteq Ids
  BY <1>1 DEF SlotTypeOK, Order, NoOrder
<1>3. /\ Idle \in Tasks /\ Idle.at = "idle"
      /\ At("resolving", c) \in Tasks /\ At("resolving", c).at = "resolving"
      /\ At("resolving", c).cid = c /\ At("resolving", c).lots = 0
  BY <1>1, TaskShapes
<1> HIDE DEF c, x
<1>4. CASE RespondFilled
  <2>1. /\ x.status \in Executing /\ Book(c, x.status, x.cum)
        /\ task' = Slotting(c, Moved(c, x.cum), FALSE)
        /\ UNCHANGED <<exchange, slots, mapped, unknown, causes>>
    BY <1>4 DEF RespondFilled, c, x
  <2>2. x.status \in Status
    BY <2>1 DEF Executing, Status, Open, Terminal
  <2>3. Moved(c, x.cum) \in Nat /\ Moved(c, x.cum) <= Larger(Tracked(c).applied, x.cum)
    BY <1>1, <1>2, MovedIsBooked
  <2>4. Larger(Tracked(c).applied, x.cum) >= orders[c].applied
    BY <1>1, <1>2, TrackedIsOrder DEF Larger
  <2>5. /\ orders' \in [Ids -> Order \cup {NoOrder}]
        /\ stored' \in [Ids -> Order \cup {NoOrder}]
        /\ pos' \in Nat
        /\ orders'[c] \in Order /\ stored'[c] = orders'[c]
        /\ orders'[c].applied = Larger(Tracked(c).applied, x.cum)
        /\ \A d \in Ids \ {c} : orders'[d] = orders[d] /\ stored'[d] = stored[d]
    BY <1>1, <1>2, <2>1, <2>2, BookKeeps
  <2>6. /\ task' \in Tasks /\ task'.at = "slotting" /\ task'.cid = c
        /\ task'.lots = Moved(c, x.cum)
    BY <1>1, <2>1, <2>3, SlottingShape
  <2> QED
    BY <1>1, <1>2, <2>1, <2>3, <2>4, <2>5, <2>6, ReportsAreStatuses DEF Answered, c
<1>5. CASE RespondOpen
  <2> DEFINE answer == Resaved(c, 0)
             kept == Resaved(c, stored[c].applied)
  <2>1. /\ x.status \in ReportStatus
        /\ orders' = [orders EXCEPT ![c] = UpsertOrder(orders[c], answer)]
        /\ stored' = [stored EXCEPT ![c] = kept]
        /\ NoOrderSent(c) \/ (task' = Idle /\ UNCHANGED slots)
        /\ UNCHANGED <<exchange, pos, mapped, unknown, causes>>
    BY <1>5 DEF RespondOpen, c, x
  <2>2. /\ answer \in Order /\ answer.applied = 0
        /\ kept \in Order /\ kept.applied = stored[c].applied
    BY <1>1, <1>2, <2>1, ResavedIsOrder DEF x
  <2> HIDE DEF answer, kept
  <2>3. /\ UpsertOrder(orders[c], answer) \in Order
        /\ UpsertOrder(orders[c], answer).applied = orders[c].applied
    BY <1>1, <2>2, UpsertKeeps
  <2>4. /\ slots' \in [Signals -> [state : {"NONE", "OPEN", "EXIT_PENDING"}, lots : Nat]]
        /\ \A s \in Signals : slots'[s].lots = slots[s].lots
        /\ task' = Idle
    BY <1>1, <1>2, <2>1, NoOrderSentKeeps
  <2> QED
    BY <1>1, <1>2, <1>3, <2>1, <2>2, <2>3, <2>4, ReportsAreStatuses DEF Answered, c
<1>6. ASSUME NEW status \in {"REJECTED", "UNKNOWN"}
      PROVE  /\ TransitionStatus(orders[c], status, 0) \in Order
             /\ TransitionStatus(orders[c], status, 0).applied = orders[c].applied
  BY <1>1, TransitionKeeps, ReportsAreStatuses
<1>7. CASE PlacementFails \/ ResolveAbsent
  <2>1. /\ orders' = [orders EXCEPT ![c] = TransitionStatus(orders[c], "REJECTED", 0)]
        /\ NoOrderSent(c)
        /\ UNCHANGED <<exchange, stored, pos, mapped>>
        /\ unknown' \subseteq unknown
        /\ causes' \subseteq causes \cup {"refused"}
    BY <1>7 DEF PlacementFails, ResolveAbsent, c
  <2>2. /\ slots' \in [Signals -> [state : {"NONE", "OPEN", "EXIT_PENDING"}, lots : Nat]]
        /\ \A s \in Signals : slots'[s].lots = slots[s].lots
        /\ task' = Idle
    BY <1>1, <2>1, NoOrderSentKeeps
  <2> DEFINE o == TransitionStatus(orders[c], "REJECTED", 0)
  <2>3. o \in Order /\ o.applied = orders[c].applied
    BY <1>6
  <2>4. orders' = [orders EXCEPT ![c] = o]
    BY <2>1
  <2> HIDE DEF o
  <2> QED
    BY <1>1, <1>2, <1>3, <2>1, <2>2, <2>3, <2>4, ReportsAreStatuses DEF Answered, c
<1>8. CASE PlacementUnknown
  <2> DEFINE o == TransitionStatus(orders[c], "UNKNOWN", 0)
  <2>1. /\ orders' = [orders EXCEPT ![c] = o] /\ stored' = [stored EXCEPT ![c] = o]
        /\ unknown' = unknown \cup {c}
        /\ task' = At("resolving", c)
        /\ causes' = causes \cup {"unknown"} /\ "unknown" \in Faults
        /\ UNCHANGED <<exchange, pos, slots, mapped>>
    BY <1>8 DEF PlacementUnknown, May, c
  <2>2. o \in Order /\ o.applied = orders[c].applied
    BY <1>6
  <2> HIDE DEF o
  <2> QED
    BY <1>1, <1>2, <1>3, <2>1, <2>2, ReportsAreStatuses DEF Answered, c
<1>9. CASE ResolveFound
  <2> DEFINE o == Merge(orders[c], x.status, x.cum)
             kept == Resaved(c, o.applied)
  <2>1. /\ x.status \in ReportStatus
        /\ orders' = [orders EXCEPT ![c] = o]
        /\ stored' = [stored EXCEPT ![c] = Resaved(c, orders'[c].applied)]
        /\ pos' = IF IsEntry(c) THEN pos + Moved(c, x.cum) ELSE pos - Moved(c, x.cum)
        /\ unknown' = unknown \ {c}
        /\ \/ task' = Slotting(c, 0, FALSE) /\ UNCHANGED slots
           \/ NoOrderSent(c)
           \/ task' = Idle /\ UNCHANGED slots
        /\ UNCHANGED <<exchange, mapped, causes>>
    BY <1>9 DEF ResolveFound, c, x
  <2>2. x.status \in Status
    BY <2>1, ReportsAreStatuses
  <2>3. /\ o \in Order /\ o.applied \in Nat /\ o.applied >= orders[c].applied
    BY <1>1, <1>2, <2>2, MergeApplies
  <2> HIDE DEF o
  <2>4. stored' = [stored EXCEPT ![c] = kept] /\ orders'[c] = o
    BY <1>1, <1>2, <2>1
  <2>5. kept \in Order /\ kept.applied = o.applied
    BY <1>1, <2>1, <2>3, ResavedIsOrder DEF x
  <2> HIDE DEF kept
  <2>6. pos' \in Nat
    BY <1>1, <1>2, <2>1, MovedIsBooked
  <2>7. /\ Slotting(c, 0, FALSE) \in Tasks /\ Slotting(c, 0, FALSE).at = "slotting"
        /\ Slotting(c, 0, FALSE).cid = c /\ Slotting(c, 0, FALSE).lots = 0
    BY <1>1 DEF Slotting, At, Idle, Tasks
  <2>8. /\ slots' \in [Signals -> [state : {"NONE", "OPEN", "EXIT_PENDING"}, lots : Nat]]
        /\ \A s \in Signals : slots'[s].lots = slots[s].lots
        /\ task' = Slotting(c, 0, FALSE) \/ task' = Idle
    BY <1>1, <1>2, <2>1, NoOrderSentKeeps
  <2>9. /\ orders' \in [Ids -> Order \cup {NoOrder}] /\ stored' \in [Ids -> Order \cup {NoOrder}]
        /\ stored'[c] = kept
        /\ \A d \in Ids \ {c} : orders'[d] = orders[d] /\ stored'[d] = stored[d]
    BY <1>1, <1>2, <2>1, <2>3, <2>4, <2>5
  <2>10. /\ task' \in Tasks
         /\ task'.at # "idle" => /\ task'.at \in {"resolving", "slotting"} /\ task'.cid = c
                                 /\ task'.lots = 0
    BY <1>3, <2>7, <2>8
  <2> QED
    BY <1>1, <1>2, <2>1, <2>3, <2>4, <2>5, <2>6, <2>8, <2>9, <2>10, ReportsAreStatuses
       DEF Answered, c
<1>10. CASE ResolveUnresolved
  <2>1. NoOrderSent(c) /\ UNCHANGED <<exchange, ledger, mapped, unknown, causes>>
    BY <1>10 DEF ResolveUnresolved, c
  <2>2. /\ slots' \in [Signals -> [state : {"NONE", "OPEN", "EXIT_PENDING"}, lots : Nat]]
        /\ \A s \in Signals : slots'[s].lots = slots[s].lots
        /\ task' = Idle
    BY <1>1, <2>1, NoOrderSentKeeps
  <2> QED
    BY <1>1, <1>2, <1>3, <2>1, <2>2 DEF Answered, ledger, c
<1> QED
  BY <1>4, <1>5, <1>7, <1>8, <1>9, <1>10 DEF Outcome

\* An outcome keeps the shapes.
LEMMA OutcomeTypes ==
    ASSUME SlotTypeInv, Outcome
    PROVE  SlotTypeInv'
<1>1. task.cid \in Ids /\ Answered(task.cid)
  BY OutcomeAnswers
<1>2. TaskFits'
  BY <1>1 DEF Answered, TaskFits
<1> QED
  BY <1>1, <1>2, HandlerTypes DEF Answered

\* A pushed event is booked.
LEMMA StreamTypes ==
    ASSUME SlotTypeInv, NEW e \in events, Stream(e)
    PROVE  /\ SlotTypeInv'
           /\ e.cid \in Ids /\ UNCHANGED slots
           /\ orders'[e.cid] = stored'[e.cid]
           /\ orders'[e.cid].applied = Larger(Tracked(e.cid).applied, e.cum)
           /\ Larger(Tracked(e.cid).applied, e.cum) >= Tracked(e.cid).applied
           /\ \A d \in Ids \ {e.cid} : orders'[d] = orders[d] /\ stored'[d] = stored[d]
           /\ task'.at = "slotting" => task'.cid = e.cid /\ task'.lots <= orders'[e.cid].applied
<1>1. /\ SlotTypeOK /\ e.cid \in Ids /\ e.status \in Status /\ e.cum \in Nat
  BY ReportsAreStatuses DEF SlotTypeInv, SlotTypeOK
<1>2. /\ Book(e.cid, e.status, e.cum)
      /\ \/ task' = Slotting(e.cid, Moved(e.cid, e.cum), TRUE)
         \/ task' = Idle
      /\ UNCHANGED <<exchange, slots, mapped, unknown, causes>>
  BY DEF Stream
<1>3. /\ orders' \in [Ids -> Order \cup {NoOrder}]
      /\ stored' \in [Ids -> Order \cup {NoOrder}]
      /\ pos' \in Nat
      /\ orders'[e.cid] \in Order /\ stored'[e.cid] = orders'[e.cid]
      /\ orders'[e.cid].applied = Larger(Tracked(e.cid).applied, e.cum)
      /\ \A d \in Ids \ {e.cid} : orders'[d] = orders[d] /\ stored'[d] = stored[d]
  BY <1>1, <1>2, BookKeeps
<1>4. Moved(e.cid, e.cum) \in Nat /\ Moved(e.cid, e.cum) <= Larger(Tracked(e.cid).applied, e.cum)
  BY <1>1, MovedIsBooked
<1>5. Larger(Tracked(e.cid).applied, e.cum) >= Tracked(e.cid).applied
  BY <1>1, TrackedIsOrder DEF Larger, Order
<1>6. /\ Slotting(e.cid, Moved(e.cid, e.cum), TRUE) \in Tasks
      /\ Slotting(e.cid, Moved(e.cid, e.cum), TRUE).at = "slotting"
      /\ Slotting(e.cid, Moved(e.cid, e.cum), TRUE).cid = e.cid
      /\ Slotting(e.cid, Moved(e.cid, e.cum), TRUE).lots = Moved(e.cid, e.cum)
      /\ Idle \in Tasks /\ Idle.at = "idle"
  BY <1>1, <1>4 DEF Slotting, At, Idle, Tasks
<1>7. task' \in Tasks /\ (task'.at = "idle" \/ /\ task'.at = "slotting" /\ task'.cid = e.cid
                                               /\ task'.lots = Moved(e.cid, e.cum))
  <2>1. CASE task' = Slotting(e.cid, Moved(e.cid, e.cum), TRUE)
    BY <1>6, <2>1, Zenon
  <2>2. CASE task' = Idle
    BY <1>6, <2>2, Zenon
  <2> QED
    BY <1>2, <2>1, <2>2, Zenon
<1>8. TaskFits'
  BY <1>1, <1>3, <1>7, ReportsAreStatuses DEF TaskFits
<1>9. SlotTypeInv'
  BY <1>2, <1>3, <1>7, <1>8, HandlerTypes DEF SlotTypeInv, SlotTypeOK
<1> QED
  BY <1>1, <1>2, <1>3, <1>4, <1>5, <1>7, <1>9

\* The slot after a booking: opened with the lots in hand, or not grown.
LEMMA SlotTypes ==
    ASSUME SlotTypeInv, AddSlot \/ CloseSlot
    PROVE  /\ SlotTypeInv' /\ UNCHANGED ledger
           /\ task'.at = "idle" /\ task.at = "slotting" /\ task.cid \in Ids
           /\ \A s \in Signals :
                 \/ slots'[s].lots <= slots[s].lots
                 \/ task.cid = Entry(s) /\ slots'[s].lots = task.lots
<1>1. /\ task \in Tasks /\ task.lots \in Nat /\ task.at = "slotting"
      /\ task.cid \in Ids /\ task.cid[1] \in Signals
      /\ slots \in [Signals -> [state : {"NONE", "OPEN", "EXIT_PENDING"}, lots : Nat]]
      /\ causes \subseteq Faults \cup {"part", "full", "refused", "stray"}
      /\ orders \in [Ids -> Order \cup {NoOrder}] /\ stored \in [Ids -> Order \cup {NoOrder}]
      /\ pos \in Nat /\ unknown \subseteq Ids
  BY IdsAre DEF AddSlot, CloseSlot, SlotTypeInv, SlotTypeOK, TaskFits, Tasks
<1>2. /\ task' = Idle /\ UNCHANGED <<exchange, ledger, mapped, unknown>>
      /\ causes' \subseteq causes \cup {"part", "full", "stray"}
  BY DEF AddSlot, CloseSlot
<1>3. /\ slots' \in [Signals -> [state : {"NONE", "OPEN", "EXIT_PENDING"}, lots : Nat]]
      /\ \A s \in Signals :
            \/ slots'[s].lots <= slots[s].lots
            \/ task.cid = Entry(s) /\ slots'[s].lots = task.lots
  <2>1. CASE AddSlot
    <3>1. /\ IsEntry(task.cid)
          /\ \/ slots' = slots
             \/ slots' = [slots EXCEPT
                             ![task.cid[1]] = [state |-> "OPEN", lots |-> task.lots]]
      BY <2>1 DEF AddSlot
    <3>2. task.cid = Entry(task.cid[1])
      BY <1>1, <3>1, IdsAre
    <3> QED
      BY <1>1, <3>1, <3>2
  <2>2. CASE CloseSlot
    <3>1. slots' = [s \in Signals |->
                       IF s \in Charged(task.cid[1]) THEN CloseFill(slots[s], task.lots)
                       ELSE slots[s]]
      BY <2>2 DEF CloseSlot
    <3>2. \A s \in Signals :
             /\ CloseFill(slots[s], task.lots)
                   \in [state : {"NONE", "OPEN", "EXIT_PENDING"}, lots : Nat]
             /\ CloseFill(slots[s], task.lots).lots <= slots[s].lots
      BY <1>1, CloseFillShrinks
    <3> QED
      BY <1>1, <3>1, <3>2
  <2> QED
    BY <2>1, <2>2
<1>4. task' \in Tasks /\ task'.at = "idle" /\ TaskFits'
  BY <1>2 DEF Idle, Tasks, TaskFits
<1>5. SlotTypeInv'
  BY <1>1, <1>2, <1>3, <1>4, HandlerTypes DEF ledger
<1> QED
  BY <1>1, <1>2, <1>3, <1>4, <1>5

\* An audit takes executions over into the orders and the store.
LEMMA AuditTypes ==
    ASSUME SlotTypeInv, Audit
    PROVE  /\ SlotTypeInv' /\ UNCHANGED <<slots, task>>
           /\ \A c \in Ids :
                 \/ orders'[c] = orders[c] /\ stored'[c] = stored[c]
                 \/ /\ orders[c] \in Order
                    /\ orders'[c] = stored'[c] /\ stored'[c].applied >= orders[c].applied
<1> DEFINE seen(got, c) ==
               IF c \in got THEN Merge(orders[c], "PARTIALLY_FILLED", xchg[c].cum) ELSE orders[c]
<1>1. PICK got \in SUBSET {c \in Ids : orders[c].status \in ReportStatus /\ xchg[c].cum > 0} :
         /\ orders' = [c \in Ids |-> seen(got, c)]
         /\ stored' = [c \in Ids |-> IF c \in got THEN orders'[c] ELSE stored[c]]
  BY DEF Audit
<1>2. /\ orders \in [Ids -> Order \cup {NoOrder}] /\ stored \in [Ids -> Order \cup {NoOrder}]
      /\ \A c \in Ids : xchg[c].cum \in Nat
      /\ xpos \in Nat
  BY DEF SlotTypeInv, SlotTypeOK
<1>3. "PARTIALLY_FILLED" \in Status /\ "NONE" \notin ReportStatus
  BY DEF Status, Open, ReportStatus
<1>4. \A c \in got : /\ orders[c] \in Order /\ c \in Ids
                     /\ seen(got, c) \in Order /\ seen(got, c).applied >= orders[c].applied
  <2> TAKE c \in got
  <2>1. orders[c] \in Order /\ c \in Ids
    BY <1>2, <1>3 DEF NoOrder
  <2> QED
    BY <1>2, <1>3, <2>1, MergeApplies
<1>5. \A c \in Ids \ got : seen(got, c) = orders[c]
  OBVIOUS
<1> HIDE DEF seen
<1>6. \A c \in Ids : /\ orders'[c] = seen(got, c)
                     /\ c \in got => stored'[c] = orders'[c]
                     /\ c \notin got => stored'[c] = stored[c]
  BY <1>1
<1>7. /\ orders' \in [Ids -> Order \cup {NoOrder}] /\ stored' \in [Ids -> Order \cup {NoOrder}]
  BY <1>1, <1>2, <1>4, <1>5, <1>6
<1>8. pos' = xpos /\ causes' = causes \cup {"audit"} /\ "audit" \in Faults
      /\ UNCHANGED <<exchange, slots, mapped, unknown, task>> /\ task.at = "idle"
  BY DEF Audit, May
<1>9. SlotTypeInv'
  BY <1>2, <1>7, <1>8 DEF SlotTypeInv, SlotTypeOK, TaskFits, exchange
<1>10. ASSUME NEW c \in Ids
       PROVE  \/ orders'[c] = orders[c] /\ stored'[c] = stored[c]
              \/ /\ orders[c] \in Order
                 /\ orders'[c] = stored'[c] /\ stored'[c].applied >= orders[c].applied
  <2>1. CASE c \in got
    BY <1>4, <1>6, <2>1
  <2>2. CASE c \notin got
    BY <1>5, <1>6, <2>2
  <2> QED
    BY <2>1, <2>2
<1> QED
  BY <1>8, <1>9, <1>10

\* A start restores orders as stored, and books what its audit finds in both.
LEMMA RestartTypes ==
    ASSUME SlotTypeInv, Restart
    PROVE  /\ SlotTypeInv' /\ UNCHANGED slots /\ task'.at \in {"idle", "down"}
           /\ \A c \in Ids :
                 /\ orders'[c] # NoOrder => orders'[c].applied = stored'[c].applied
                 /\ stored'[c].applied >= stored[c].applied
<1> DEFINE open == {c \in Ids : Restored(c).status \in Open}
           merged(found, c, o) == IF c \in found THEN Merge(o, xchg[c].status, xchg[c].cum) ELSE o
           clean(found) == found = open /\ Total = xpos
<1>1. PICK found \in SUBSET {c \in open : xchg[c].status \in ReportStatus} :
         /\ stored' = [c \in Ids |-> IF c \in found
                                     THEN Resaved(c, merged(found, c, stored[c]).applied)
                                     ELSE stored[c]]
         /\ orders' = [c \in Ids |-> IF clean(found) THEN merged(found, c, Restored(c)) ELSE NoOrder]
         /\ pos' = IF clean(found) THEN xpos ELSE 0
         /\ task' = IF clean(found) THEN Idle ELSE Down
  BY DEF Restart
<1>2. /\ stored \in [Ids -> Order \cup {NoOrder}]
      /\ \A c \in Ids : xchg[c].cum \in Nat
      /\ xpos \in Nat /\ SlotTypeOK
  BY DEF SlotTypeInv, SlotTypeOK
<1>3. UNCHANGED <<exchange, slots, mapped, unknown, causes>>
  BY DEF Restart
<1>4. \A c \in Ids : /\ Restored(c) \in {stored[c], NoOrder}
                     /\ stored[c].applied \in Nat
  BY <1>2 DEF Restored, Order, NoOrder
<1>5. ASSUME NEW c \in found
      PROVE  /\ c \in Ids /\ stored[c] \in Order /\ Restored(c) = stored[c]
             /\ merged(found, c, stored[c]) \in Order
             /\ merged(found, c, stored[c]).applied \in Nat
             /\ merged(found, c, stored[c]).applied >= stored[c].applied
             /\ Resaved(c, merged(found, c, stored[c]).applied) \in Order
             /\ Resaved(c, merged(found, c, stored[c]).applied).applied
                   = merged(found, c, stored[c]).applied
  <2>1. c \in Ids /\ Restored(c).status \in Open /\ xchg[c].status \in ReportStatus
    BY <1>1
  <2>2. Restored(c) # NoOrder
    BY <2>1 DEF NoOrder, Open
  <2>3. Restored(c) = stored[c] /\ stored[c] \in Order
    BY <1>2, <1>4, <2>1, <2>2
  <2>4. /\ Merge(stored[c], xchg[c].status, xchg[c].cum) \in Order
        /\ Merge(stored[c], xchg[c].status, xchg[c].cum).applied \in Nat
        /\ Merge(stored[c], xchg[c].status, xchg[c].cum).applied >= stored[c].applied
    BY <1>2, <2>1, <2>3, MergeApplies, ReportsAreStatuses
  <2> QED
    BY <1>2, <2>1, <2>3, <2>4, ResavedIsOrder
<1>6. \A c \in Ids \ found : \A o : merged(found, c, o) = o
  OBVIOUS
<1> HIDE DEF open, merged, clean
<1>7. ASSUME NEW c \in Ids
      PROVE  /\ orders'[c] \in Order \cup {NoOrder} /\ stored'[c] \in Order \cup {NoOrder}
             /\ orders'[c] # NoOrder => orders'[c].applied = stored'[c].applied
             /\ stored'[c].applied >= stored[c].applied
  <2>1. /\ stored'[c] = IF c \in found THEN Resaved(c, merged(found, c, stored[c]).applied)
                        ELSE stored[c]
        /\ orders'[c] = IF clean(found) THEN merged(found, c, Restored(c)) ELSE NoOrder
    BY <1>1
  <2>2. CASE c \in found
    BY <1>5, <2>1, <2>2
  <2>3. CASE c \notin found
    BY <1>2, <1>4, <1>6, <2>1, <2>3
  <2> QED
    BY <2>2, <2>3
<1>8. /\ orders' \in [Ids -> Order \cup {NoOrder}] /\ stored' \in [Ids -> Order \cup {NoOrder}]
  BY <1>1, <1>7
<1>9. pos' \in Nat /\ task' \in Tasks /\ task'.at \in {"idle", "down"}
  BY <1>1, <1>2 DEF Idle, Down, Tasks
<1>10. SlotTypeInv'
  BY <1>3, <1>8, <1>9, HandlerTypes DEF SlotTypeInv, SlotTypeOK, TaskFits
<1> QED
  BY <1>3, <1>7, <1>9, <1>10

\* Death forgets the orders and keeps the store and the slots.
LEMMA CrashTypes ==
    ASSUME SlotTypeInv, Crash
    PROVE  /\ SlotTypeInv' /\ UNCHANGED <<stored, slots>> /\ task'.at = "down"
           /\ \A c \in Ids : orders'[c] = NoOrder
<1>1. /\ orders' = [c \in Ids |-> NoOrder] /\ pos' = 0 /\ mapped' = {} /\ unknown' = {}
      /\ task' = Down /\ causes' = causes \cup {"crash"} /\ "crash" \in Faults
      /\ UNCHANGED <<exchange, stored, slots>>
  BY DEF Crash, May
<1>2. task' \in Tasks /\ task'.at = "down"
  BY <1>1 DEF Down, Idle, Tasks
<1> QED
  BY <1>1, <1>2 DEF SlotTypeInv, SlotTypeOK, TaskFits, Tasks, exchange

\* Every step keeps the shapes.
LEMMA NextTypes == SlotTypeInv /\ [SlotNext]_slotVars => SlotTypeInv'
<1> SUFFICES ASSUME SlotTypeInv, [SlotNext]_slotVars PROVE SlotTypeInv'
  OBVIOUS
<1>1. CASE Exchange
  BY <1>1, ExchangeTypes
<1>2. CASE Engine
  BY <1>2, BeginningTypes, OutcomeTypes, StreamTypes, SlotTypes, AuditTypes, RestartTypes
     DEF Engine, Outcome
<1>3. CASE Crash
  BY <1>3, CrashTypes
<1>4. CASE UNCHANGED slotVars
  BY <1>4 DEF slotVars, exchange, ledger, SlotTypeInv, SlotTypeOK, TaskFits, IsEntry
<1> QED
  BY <1>1, <1>2, <1>3, <1>4 DEF SlotNext

\* A book without slots has the shapes.
LEMMA InitTypes == SlotInit => SlotTypeInv
BY DEF SlotInit, SlotTypeInv, SlotTypeOK, TaskFits, Idle, NoSlot

(* Slots, orders and handlers keep their shape for any signals, lots,      *)
(* limit and faults, and a handler works on an order that is tracked.      *)
THEOREM SlotTypeCorrect == SlotSpec => []SlotTypeInv
<1> QED
  BY InitTypes, NextTypes, PTL DEF SlotSpec

\* The shape of every variable, as the runs check it.
THEOREM SlotTypesHold == SlotSpec => []SlotTypeOK
<1>1. SlotTypeInv => SlotTypeOK
  BY DEF SlotTypeInv
<1> QED
  BY <1>1, SlotTypeCorrect, PTL

-----------------------------------------------------------------------------
(* A slot holds no more than its entry has booked.  What an entry has      *)
(* booked is in memory and in the store, and death leaves the store alone: *)
(* slots are bounded by the store.  A slot opens with what a report moved, *)
(* which the order has booked by then.                                     *)

BookedInStore ==
    \A s \in Signals :
        orders[Entry(s)] # NoOrder => orders[Entry(s)].applied = stored[Entry(s)].applied

SlotsBacked == \A s \in Signals : slots[s].lots <= stored[Entry(s)].applied

BookedInHand == task.at = "slotting" => task.lots <= orders[task.cid].applied

HoldInv == BookedInStore /\ SlotsBacked /\ BookedInHand

\* Enough for a step: entries agree, the store only grows, slots only shrink.
LEMMA HoldStays ==
    ASSUME SlotTypeInv, SlotTypeInv', HoldInv, BookedInHand',
           \A s \in Signals :
              /\ orders'[Entry(s)] # NoOrder =>
                    orders'[Entry(s)].applied = stored'[Entry(s)].applied
              /\ stored'[Entry(s)].applied >= stored[Entry(s)].applied
              /\ slots'[s].lots <= slots[s].lots
    PROVE  HoldInv'
<1>1. \A s \in Signals : /\ slots[s].lots \in Nat /\ slots'[s].lots \in Nat
                         /\ stored[Entry(s)].applied \in Nat
                         /\ stored'[Entry(s)].applied \in Nat
  BY IdsAre DEF SlotTypeInv, SlotTypeOK, Order, NoOrder
<1>2. ASSUME NEW s \in Signals PROVE slots'[s].lots <= stored'[Entry(s)].applied
  <2>1. slots[s].lots <= stored[Entry(s)].applied
    BY DEF HoldInv, SlotsBacked
  <2>2. slots'[s].lots <= slots[s].lots /\ stored[Entry(s)].applied <= stored'[Entry(s)].applied
    BY <1>1
  <2> QED
    BY <1>1, <2>1, <2>2
<1>3. BookedInStore'
  BY DEF BookedInStore, Entry
<1> QED
  BY <1>2, <1>3 DEF HoldInv, SlotsBacked, Entry

\* A step that leaves orders, store and the lots of the slots alone.
LEMMA HoldUntouched ==
    ASSUME SlotTypeInv, SlotTypeInv', HoldInv, task'.at # "slotting", UNCHANGED ledger,
           \A s \in Signals : slots'[s].lots = slots[s].lots
    PROVE  HoldInv'
<1>1. BookedInHand'
  BY DEF BookedInHand
<1>2. \A s \in Signals : /\ slots[s].lots \in Nat /\ stored[Entry(s)].applied \in Nat
  BY IdsAre DEF SlotTypeInv, SlotTypeOK, Order, NoOrder
<1> QED
  BY <1>1, <1>2, HoldStays DEF HoldInv, BookedInStore, ledger

\* Entries and exits begin without booking anything.
LEMMA BeginningHolds ==
    ASSUME SlotTypeInv, HoldInv,
           \/ \E s \in Signals : Enter(s) \/ Trigger(s)
           \/ ExitBlocked \/ ExitTracked \/ SendExit
    PROVE  HoldInv'
<1> SlotTypeInv'
  BY BeginningTypes
<1>1. ASSUME NEW s \in Signals, Enter(s) PROVE HoldInv'
  <2>1. /\ Send(Entry(s), Lots[s]) /\ Entry(s) \in Ids /\ Lots[s] \in Nat /\ SlotTypeOK
        /\ orders[Entry(s)] = NoOrder /\ stored[Entry(s)] = NoOrder /\ UNCHANGED slots
    BY <1>1, IdsAre, LotsAssumption DEF Enter, SlotTypeInv
  <2>2. /\ task'.at = "placing"
        /\ orders'[Entry(s)].applied = 0 /\ stored'[Entry(s)].applied = 0
        /\ \A d \in Ids \ {Entry(s)} : orders'[d] = orders[d] /\ stored'[d] = stored[d]
    BY <2>1, SendKeeps DEF NoOrder
  <2>3. ASSUME NEW t \in Signals
        PROVE  /\ orders'[Entry(t)] # NoOrder =>
                     orders'[Entry(t)].applied = stored'[Entry(t)].applied
               /\ stored'[Entry(t)].applied >= stored[Entry(t)].applied
               /\ slots'[t].lots <= slots[t].lots
    <3>1. slots[t].lots \in Nat /\ stored[Entry(t)].applied \in Nat /\ Entry(t) \in Ids
      BY IdsAre DEF SlotTypeInv, SlotTypeOK, Order, NoOrder
    <3>2. CASE Entry(t) = Entry(s)
      BY <2>1, <2>2, <3>1, <3>2 DEF NoOrder
    <3>3. CASE Entry(t) # Entry(s)
      BY <2>1, <2>2, <3>1, <3>3 DEF HoldInv, BookedInStore
    <3> QED
      BY <3>2, <3>3
  <2> QED
    BY <2>2, <2>3, HoldStays DEF BookedInHand
<1>2. ASSUME NEW s \in Signals, Trigger(s) PROVE HoldInv'
  <2>1. /\ slots' = [slots EXCEPT ![s].state = "EXIT_PENDING"] /\ UNCHANGED ledger
        /\ task'.at = "exiting"
    BY <1>2 DEF Trigger, At, Idle
  <2>2. \A t \in Signals : slots'[t].lots = slots[t].lots
    BY <2>1 DEF SlotTypeInv, SlotTypeOK
  <2> QED
    BY <2>1, <2>2, HoldUntouched
<1>3. CASE ExitBlocked
  <2>1. NoOrderSent(task.cid) /\ task.cid \in Ids /\ SlotTypeOK /\ UNCHANGED ledger
    BY <1>3 DEF ExitBlocked, SlotTypeInv, TaskFits
  <2>2. task'.at # "slotting" /\ \A s \in Signals : slots'[s].lots = slots[s].lots
    BY <2>1, NoOrderSentKeeps DEF Idle
  <2> QED
    BY <2>1, <2>2, HoldUntouched
<1>4. CASE ExitTracked
  BY <1>4, HoldUntouched DEF ExitTracked, Idle
<1>5. CASE SendExit
  <2>1. /\ Send(task.cid, ExitQty(task.cid[1])) /\ UNCHANGED slots
        /\ task.cid \in Ids /\ task.cid[1] \in Signals /\ ~IsEntry(task.cid) /\ SlotTypeOK
    BY <1>5, IdsAre DEF SendExit, SlotTypeInv, TaskFits
  <2>2. ExitQty(task.cid[1]) \in Nat
    BY <2>1 DEF ExitQty, Smaller, SlotTypeOK
  <2>3. /\ task'.at = "placing"
        /\ \A d \in Ids \ {task.cid} : orders'[d] = orders[d] /\ stored'[d] = stored[d]
    BY <2>1, <2>2, SendKeeps
  <2>4. ASSUME NEW t \in Signals
        PROVE  /\ orders'[Entry(t)] # NoOrder =>
                     orders'[Entry(t)].applied = stored'[Entry(t)].applied
               /\ stored'[Entry(t)].applied >= stored[Entry(t)].applied
               /\ slots'[t].lots <= slots[t].lots
    <3>1. Entry(t) \in Ids \ {task.cid}
      BY <2>1, IdsAre
    <3>2. slots[t].lots \in Nat /\ stored[Entry(t)].applied \in Nat
      BY <3>1 DEF SlotTypeInv, SlotTypeOK, Order, NoOrder
    <3> QED
      BY <2>1, <2>3, <3>1, <3>2 DEF HoldInv, BookedInStore
  <2> QED
    BY <2>3, <2>4, HoldStays DEF BookedInHand
<1> QED
  BY <1>1, <1>2, <1>3, <1>4, <1>5

\* An outcome books the order it is about in memory and in the store alike.
LEMMA OutcomeHolds ==
    ASSUME SlotTypeInv, HoldInv, Outcome
    PROVE  HoldInv'
<1> SlotTypeInv'
  BY OutcomeTypes
<1> DEFINE c == task.cid
<1>1. c \in Ids /\ orders[c] # NoOrder /\ Answered(c)
  BY OutcomeAnswers
<1>2. BookedInHand'
  BY <1>1 DEF Answered, BookedInHand
<1> HIDE DEF c
<1>3. ASSUME NEW s \in Signals
      PROVE  /\ orders'[Entry(s)] # NoOrder =>
                   orders'[Entry(s)].applied = stored'[Entry(s)].applied
             /\ stored'[Entry(s)].applied >= stored[Entry(s)].applied
             /\ slots'[s].lots <= slots[s].lots
  <2>1. slots[s].lots \in Nat /\ stored[Entry(s)].applied \in Nat /\ Entry(s) \in Ids
    BY IdsAre DEF SlotTypeInv, SlotTypeOK, Order, NoOrder
  <2>2. slots'[s].lots = slots[s].lots
    BY <1>1 DEF Answered
  <2>3. orders[Entry(s)] # NoOrder => orders[Entry(s)].applied = stored[Entry(s)].applied
    BY DEF HoldInv, BookedInStore
  <2>4. CASE Entry(s) = c
    <3>1. \/ orders'[c].applied = orders[c].applied /\ stored'[c].applied = stored[c].applied
          \/ orders'[c].applied = stored'[c].applied /\ orders'[c].applied >= orders[c].applied
      BY <1>1 DEF Answered
    <3> QED
      BY <1>1, <2>1, <2>2, <2>3, <2>4, <3>1
  <2>5. CASE Entry(s) # c
    <3>1. orders'[Entry(s)] = orders[Entry(s)] /\ stored'[Entry(s)] = stored[Entry(s)]
      BY <1>1, <2>1, <2>5 DEF Answered
    <3> QED
      BY <2>1, <2>2, <2>3, <3>1
  <2> QED
    BY <2>4, <2>5
<1> QED
  BY <1>2, <1>3, HoldStays

\* An event is booked on top of what memory, or else the store, says.
LEMMA StreamHolds ==
    ASSUME SlotTypeInv, HoldInv, NEW e \in events, Stream(e)
    PROVE  HoldInv'
<1> SlotTypeInv'
  BY StreamTypes
<1> DEFINE c == e.cid
           o == Tracked(c)
<1>1. /\ c \in Ids /\ UNCHANGED slots
      /\ orders'[c] = stored'[c] /\ orders'[c].applied >= o.applied
      /\ \A d \in Ids \ {c} : orders'[d] = orders[d] /\ stored'[d] = stored[d]
      /\ task'.at = "slotting" => task'.cid = c /\ task'.lots <= orders'[c].applied
  BY StreamTypes
<1>2. /\ orders[c] # NoOrder => o = orders[c]
      /\ orders[c] = NoOrder => o.applied = stored[c].applied
  BY <1>1, TrackedIsOrder DEF SlotTypeInv
<1>3. BookedInHand'
  BY <1>1 DEF BookedInHand
<1> HIDE DEF c, o
<1>4. ASSUME NEW s \in Signals
      PROVE  /\ orders'[Entry(s)] # NoOrder =>
                   orders'[Entry(s)].applied = stored'[Entry(s)].applied
             /\ stored'[Entry(s)].applied >= stored[Entry(s)].applied
             /\ slots'[s].lots <= slots[s].lots
  <2>1. slots[s].lots \in Nat /\ stored[Entry(s)].applied \in Nat /\ Entry(s) \in Ids
    BY IdsAre DEF SlotTypeInv, SlotTypeOK, Order, NoOrder
  <2>2. orders[Entry(s)] # NoOrder => orders[Entry(s)].applied = stored[Entry(s)].applied
    BY DEF HoldInv, BookedInStore
  <2>3. CASE Entry(s) = c
    BY <1>1, <1>2, <2>1, <2>2, <2>3
  <2>4. CASE Entry(s) # c
    <3>1. orders'[Entry(s)] = orders[Entry(s)] /\ stored'[Entry(s)] = stored[Entry(s)]
      BY <1>1, <2>1, <2>4
    <3> QED
      BY <1>1, <2>1, <2>2, <3>1
  <2> QED
    BY <2>3, <2>4
<1> QED
  BY <1>3, <1>4, HoldStays

\* A slot opens with lots its entry has booked; a charged one shrinks.
LEMMA SlotHolds ==
    ASSUME SlotTypeInv, HoldInv, AddSlot \/ CloseSlot
    PROVE  HoldInv'
<1>1. /\ UNCHANGED ledger /\ task'.at = "idle" /\ task.at = "slotting"
      /\ \A s \in Signals : \/ slots'[s].lots <= slots[s].lots
                            \/ task.cid = Entry(s) /\ slots'[s].lots = task.lots
      /\ task.cid \in Ids /\ SlotTypeInv'
  BY SlotTypes
<1>2. orders[task.cid] # NoOrder /\ task.lots <= orders[task.cid].applied
  BY <1>1 DEF SlotTypeInv, TaskFits, HoldInv, BookedInHand
<1>3. ASSUME NEW s \in Signals PROVE slots'[s].lots <= stored[Entry(s)].applied
  <2>1. /\ slots[s].lots \in Nat /\ slots'[s].lots \in Nat
        /\ stored[Entry(s)].applied \in Nat
    BY <1>1, IdsAre DEF SlotTypeInv, SlotTypeOK, Order, NoOrder
  <2>2. slots[s].lots <= stored[Entry(s)].applied
    BY DEF HoldInv, SlotsBacked
  <2>3. orders[Entry(s)] # NoOrder => orders[Entry(s)].applied = stored[Entry(s)].applied
    BY DEF HoldInv, BookedInStore
  <2> QED
    BY <1>1, <1>2, <2>1, <2>2, <2>3
<1>4. UNCHANGED <<orders, stored>>
  BY <1>1 DEF ledger
<1>5. SlotsBacked'
  BY <1>3, <1>4 DEF SlotsBacked, Entry
<1>6. BookedInStore'
  BY <1>4 DEF HoldInv, BookedInStore, Entry
<1> QED
  BY <1>1, <1>5, <1>6 DEF HoldInv, BookedInHand

\* What an audit or a start takes over, it takes into memory and store.
LEMMA RepairHolds ==
    ASSUME SlotTypeInv, HoldInv, Audit \/ Restart \/ Crash
    PROVE  HoldInv'
<1> SlotTypeInv'
  BY AuditTypes, RestartTypes, CrashTypes
<1>1. task'.at # "slotting" /\ UNCHANGED slots
  BY AuditTypes, RestartTypes, CrashTypes DEF Audit
<1>2. ASSUME NEW s \in Signals
      PROVE  /\ orders'[Entry(s)] # NoOrder =>
                   orders'[Entry(s)].applied = stored'[Entry(s)].applied
             /\ stored'[Entry(s)].applied >= stored[Entry(s)].applied
             /\ slots'[s].lots <= slots[s].lots
  <2>1. slots[s].lots \in Nat /\ stored[Entry(s)].applied \in Nat /\ Entry(s) \in Ids
    BY IdsAre DEF SlotTypeInv, SlotTypeOK, Order, NoOrder
  <2>2. orders[Entry(s)] # NoOrder => orders[Entry(s)].applied = stored[Entry(s)].applied
    BY DEF HoldInv, BookedInStore
  <2>3. CASE Audit
    <3>1. \/ orders'[Entry(s)] = orders[Entry(s)] /\ stored'[Entry(s)] = stored[Entry(s)]
          \/ /\ orders[Entry(s)] \in Order
             /\ orders'[Entry(s)] = stored'[Entry(s)]
             /\ stored'[Entry(s)].applied >= orders[Entry(s)].applied
      BY <2>1, <2>3, AuditTypes
    <3> QED
      BY <1>1, <2>1, <2>2, <3>1, ReportsAreStatuses
  <2>4. CASE Restart
    BY <1>1, <2>1, <2>4, RestartTypes
  <2>5. CASE Crash
    BY <1>1, <2>1, <2>5, CrashTypes
  <2> QED
    BY <2>3, <2>4, <2>5
<1> QED
  BY <1>1, <1>2, HoldStays DEF BookedInHand

\* Every step keeps slots within what their entries have booked.
LEMMA NextHolds == SlotTypeInv /\ HoldInv /\ [SlotNext]_slotVars => HoldInv'
<1> SUFFICES ASSUME SlotTypeInv, HoldInv, [SlotNext]_slotVars PROVE HoldInv'
  OBVIOUS
<1>1. CASE Exchange
  <2>1. UNCHANGED <<ledger, slots, task>>
    BY <1>1, ExchangeTypes
  <2> QED
    BY <2>1 DEF HoldInv, BookedInStore, SlotsBacked, BookedInHand, ledger, Entry
<1>2. CASE Engine
  BY <1>2, BeginningHolds, OutcomeHolds, StreamHolds, SlotHolds, RepairHolds DEF Engine, Outcome
<1>3. CASE Crash
  BY <1>3, RepairHolds
<1>4. CASE UNCHANGED slotVars
  BY <1>4 DEF slotVars, ledger, HoldInv, BookedInStore, SlotsBacked, BookedInHand, Entry
<1> QED
  BY <1>1, <1>2, <1>3, <1>4 DEF SlotNext

\* A new book claims nothing.
LEMMA InitHolds == SlotInit => HoldInv
<1> SUFFICES ASSUME SlotInit PROVE HoldInv
  OBVIOUS
<1>1. \A s \in Signals : /\ orders[Entry(s)] = NoOrder /\ stored[Entry(s)] = NoOrder
                         /\ slots[s] = NoSlot
  BY IdsAre DEF SlotInit
<1> QED
  BY <1>1 DEF HoldInv, BookedInStore, SlotsBacked, BookedInHand, SlotInit, Idle, NoOrder, NoSlot

(* A slot never claims more lots than its own entry has booked, for any    *)
(* signals, lots, limit and faults: whatever is lost, repeated, audited or *)
(* resent, and wherever the engine dies.                                   *)
THEOREM SlotsHoldTheirEntries == SlotSpec => []SlotHoldsItsEntry
<1>1. SlotTypeInv /\ HoldInv => SlotHoldsItsEntry
  <2> SUFFICES ASSUME SlotTypeInv, HoldInv, NEW s \in Signals
               PROVE  slots[s].lots <= Tracked(Entry(s)).applied
    BY DEF SlotHoldsItsEntry
  <2>1. /\ Entry(s) \in Ids
        /\ orders[Entry(s)] # NoOrder => Tracked(Entry(s)) = orders[Entry(s)]
        /\ orders[Entry(s)] = NoOrder => Tracked(Entry(s)).applied = stored[Entry(s)].applied
    BY IdsAre, TrackedIsOrder DEF SlotTypeInv
  <2> QED
    BY <2>1 DEF HoldInv, BookedInStore, SlotsBacked
<1> QED
  BY <1>1, InitHolds, NextHolds, SlotTypeCorrect, PTL DEF SlotSpec
-----------------------------------------------------------------------------
(* The slots are the position.  Each handler that books a report leaves    *)
(* the lots it moved in hand, and the step after it puts them into a slot  *)
(* or takes them out of one: in between, slots and position differ by what *)
(* is in hand.                                                             *)

Harmless == {"ended", "refused", "crash"}

\* An entry's order is for the lots of its signal, and fills up to them.
EntriesFit ==
    \A s \in Signals :
        /\ xchg[Entry(s)].cum <= Lots[s] /\ xchg[Entry(s)].qty <= Lots[s]
        /\ xchg[Entry(s)].status \in {"NEW", "PARTIALLY_FILLED"} =>
               xchg[Entry(s)].cum < xchg[Entry(s)].qty

EventsFit == \A e \in events : IsEntry(e.cid) => e.cum <= Lots[e.cid[1]]

InDoubt == task.at = "resolving" => "unknown" \in causes

\* Nothing is put into a slot before its entry has booked it.
HeldAreBooked == \A s \in Held : stored[Entry(s)].applied > 0

\* So what a report of a slot's entry books is less than the whole entry.
HandIsNew ==
    \A s \in Held : task.at = "slotting" /\ task.cid = Entry(s) => task.lots < Lots[s]

Balanced ==
   /\ task.at \notin {"slotting", "down"} => Total = pos
   /\ task.at = "slotting" /\ IsEntry(task.cid) => Total + task.lots = pos
   /\ task.at = "slotting" /\ ~IsEntry(task.cid) => Total = pos + task.lots

PartInv ==
    /\ EntriesFit /\ EventsFit /\ InDoubt
    /\ causes \subseteq Harmless => HeldAreBooked /\ HandIsNew /\ Balanced

-----------------------------------------------------------------------------
(* The lots of the slots as a sum.                                         *)

SlotShapes == [Signals -> [state : {"NONE", "OPEN", "EXIT_PENDING"}, lots : Nat]]

\* Stated of two books of slots, for a step is from one to another.
LEMMA LotsMove ==
    ASSUME NEW a \in SlotShapes, NEW b \in SlotShapes, NEW s \in Signals,
           \A t \in Signals \ {s} : b[t].lots = a[t].lots
    PROVE  LET sum(k) == SumFunctionOnSet([t \in Signals |-> k[t].lots], Signals)
           IN  sum(a) \in Nat /\ sum(b) \in Nat /\ sum(b) - b[s].lots = sum(a) - a[s].lots
<1> DEFINE f == [t \in Signals |-> a[t].lots]
           g == [t \in Signals |-> b[t].lots]
<1>1. f \in [Signals -> Nat] /\ g \in [Signals -> Nat]
  BY DEF SlotShapes
<1>2. \A t \in Signals \ {s} : g[t] = f[t]
  OBVIOUS
<1>3. f[s] = a[s].lots /\ g[s] = b[s].lots
  OBVIOUS
<1> HIDE DEF f, g
<1>4. /\ SumFunctionOnSet(f, Signals) \in Nat /\ SumFunctionOnSet(g, Signals) \in Nat
      /\ SumFunctionOnSet(g, Signals) - g[s] = SumFunctionOnSet(f, Signals) - f[s]
  BY <1>1, <1>2, SumChanges, SignalsAssumption
<1> QED
  BY <1>3, <1>4 DEF f, g

LEMMA LotsStay ==
    ASSUME SlotTypeOK, SlotTypeOK', \A s \in Signals : slots'[s].lots = slots[s].lots
    PROVE  Total' = Total
<1>1. [s \in Signals |-> slots'[s].lots] = [s \in Signals |-> slots[s].lots]
  OBVIOUS
<1> QED
  BY <1>1 DEF Total

LEMMA OneSlotMoves ==
    ASSUME SlotTypeOK, SlotTypeOK', NEW s \in Signals,
           \A t \in Signals \ {s} : slots'[t].lots = slots[t].lots
    PROVE  /\ Total \in Nat /\ Total' \in Nat
           /\ Total' - slots'[s].lots = Total - slots[s].lots
<1>1. slots \in SlotShapes /\ slots' \in SlotShapes
  BY DEF SlotTypeOK, SlotShapes
<1> DEFINE sum(k) == SumFunctionOnSet([t \in Signals |-> k[t].lots], Signals)
<1>2. /\ sum(slots) \in Nat /\ sum(slots') \in Nat
      /\ sum(slots') - slots'[s].lots = sum(slots) - slots[s].lots
  BY <1>1, LotsMove
<1> QED
  BY <1>2 DEF Total

-----------------------------------------------------------------------------
(* What the exchange has of an entry.                                      *)

Fits == EntriesFit /\ EventsFit

LEMMA ExchangeFits ==
    ASSUME SlotTypeInv, Fits, Exchange
    PROVE  Fits' /\ causes \subseteq causes'
<1>1. /\ xchg \in [Ids -> [status : ReportStatus \cup {"NONE"}, cum : Nat, qty : Nat]]
      /\ events \subseteq [cid : Ids, status : ReportStatus, cum : Nat]
      /\ \A s \in Signals : Lots[s] \in Nat
  BY LotsAssumption DEF SlotTypeInv, SlotTypeOK
<1>2. PICK c \in Ids : Trade(c) \/ \E status \in {"CANCELED", "EXPIRED"} : End(c, status)
  BY DEF Exchange
<1>3. c[1] \in Signals /\ (IsEntry(c) => c = Entry(c[1]))
  BY IdsAre
<1>4. ASSUME NEW status \in ReportStatus, NEW cum \in Nat, Push(c, status, cum),
             IsEntry(c) => cum <= Lots[c[1]],
             IsEntry(c) /\ status \in {"NEW", "PARTIALLY_FILLED"} => cum < xchg[c].qty
      PROVE  Fits'
  <2>1. /\ xchg' = [xchg EXCEPT ![c] = [xchg[c] EXCEPT !.status = status, !.cum = cum]]
        /\ events' = events \cup {[cid |-> c, status |-> status, cum |-> cum]}
    BY <1>1, <1>4 DEF Push
  <2> DEFINE x == [xchg[c] EXCEPT !.status = status, !.cum = cum]
  <2>2. x.status = status /\ x.cum = cum /\ x.qty = xchg[c].qty
    BY <1>1
  <2>3. xchg'[c] = x /\ \A d \in Ids \ {c} : xchg'[d] = xchg[d]
    BY <1>1, <2>1
  <2> HIDE DEF x
  <2>4. ASSUME NEW s \in Signals
        PROVE  /\ xchg'[Entry(s)].cum <= Lots[s] /\ xchg'[Entry(s)].qty <= Lots[s]
               /\ xchg'[Entry(s)].status \in {"NEW", "PARTIALLY_FILLED"} =>
                      xchg'[Entry(s)].cum < xchg'[Entry(s)].qty
    <3>1. Entry(s) \in Ids /\ IsEntry(Entry(s)) /\ Entry(s)[1] = s
      BY IdsAre
    <3>2. CASE Entry(s) = c
      BY <1>4, <2>2, <2>3, <3>1, <3>2 DEF Fits, EntriesFit
    <3>3. CASE Entry(s) # c
      BY <2>3, <3>1, <3>3 DEF Fits, EntriesFit
    <3> QED
      BY <3>2, <3>3
  <2>5. EntriesFit'
    BY <2>4 DEF EntriesFit, Entry
  <2>6. EventsFit'
    BY <1>4, <2>1 DEF Fits, EventsFit, IsEntry
  <2> QED
    BY <2>5, <2>6 DEF Fits
<1>5. CASE Trade(c)
  <2> DEFINE cum == xchg[c].cum + 1
             status == IF cum = xchg[c].qty THEN "FILLED" ELSE "PARTIALLY_FILLED"
  <2>1. Push(c, status, cum) /\ xchg[c].status \in {"NEW", "PARTIALLY_FILLED"}
    BY <1>5 DEF Trade
  <2>2. cum \in Nat /\ status \in ReportStatus /\ xchg[c].qty \in Nat /\ xchg[c].cum \in Nat
    BY <1>1 DEF ReportStatus
  <2>3. ASSUME IsEntry(c)
        PROVE  cum <= Lots[c[1]] /\ (status # "FILLED" => cum < xchg[c].qty)
    <3>1. xchg[c].cum < xchg[c].qty /\ xchg[c].qty <= Lots[c[1]] /\ Lots[c[1]] \in Nat
      BY <1>1, <1>3, <2>1, <2>3 DEF Fits, EntriesFit
    <3> QED
      BY <2>2, <3>1
  <2>4. Fits'
    <3> HIDE DEF cum, status
    <3> QED
      BY <1>4, <2>1, <2>2, <2>3
  <2> QED
    BY <1>5, <2>4 DEF Trade
<1>6. CASE \E status \in {"CANCELED", "EXPIRED"} : End(c, status)
  <2>1. PICK status \in {"CANCELED", "EXPIRED"} : End(c, status)
    BY <1>6
  <2>2. status \in ReportStatus /\ Push(c, status, xchg[c].cum) /\ xchg[c].cum \in Nat
    BY <1>1, <2>1 DEF End, ReportStatus
  <2>3. IsEntry(c) => xchg[c].cum <= Lots[c[1]]
    BY <1>3 DEF Fits, EntriesFit
  <2>4. Fits'
    BY <1>4, <2>1, <2>2, <2>3
  <2> QED
    BY <2>1, <2>4 DEF End
<1> QED
  BY <1>2, <1>5, <1>6

\* Only an entry's own submission gives its id an order, for all its lots.
LEMMA SendFits ==
    ASSUME SlotTypeInv, Fits, NEW c \in Ids, NEW q \in Nat, Send(c, q),
           IsEntry(c) => q = Lots[c[1]]
    PROVE  Fits'
<1>1. /\ xchg \in [Ids -> [status : ReportStatus \cup {"NONE"}, cum : Nat, qty : Nat]]
      /\ events \subseteq [cid : Ids, status : ReportStatus, cum : Nat]
      /\ \A s \in Signals : Lots[s] \in Nat \ {0}
  BY LotsAssumption DEF SlotTypeInv, SlotTypeOK
<1>2. \/ /\ xchg' = [xchg EXCEPT ![c] = [status |-> "NEW", cum |-> 0, qty |-> q]]
         /\ events' = events \cup {[cid |-> c, status |-> "NEW", cum |-> 0]}
      \/ UNCHANGED <<xchg, events>>
  BY Zenon DEF Send
<1>3. ASSUME NEW s \in Signals
      PROVE  /\ xchg'[Entry(s)].cum <= Lots[s] /\ xchg'[Entry(s)].qty <= Lots[s]
             /\ xchg'[Entry(s)].status \in {"NEW", "PARTIALLY_FILLED"} =>
                    xchg'[Entry(s)].cum < xchg'[Entry(s)].qty
  <2>1. Entry(s) \in Ids /\ IsEntry(Entry(s)) /\ Entry(s)[1] = s
    BY IdsAre
  <2>2. CASE xchg'[Entry(s)] = xchg[Entry(s)]
    BY <2>2 DEF Fits, EntriesFit
  <2>3. CASE xchg'[Entry(s)] # xchg[Entry(s)]
    <3>1. Entry(s) = c /\ xchg'[Entry(s)] = [status |-> "NEW", cum |-> 0, qty |-> q]
      BY <1>1, <1>2, <2>1, <2>3
    <3> QED
      BY <1>1, <2>1, <3>1
  <2> QED
    BY <2>2, <2>3
<1>4. EntriesFit'
  BY <1>3 DEF EntriesFit, Entry
<1>5. EventsFit'
  <2> SUFFICES ASSUME NEW e \in events', IsEntry(e.cid) PROVE e.cum <= Lots[e.cid[1]]
    BY DEF EventsFit, IsEntry
  <2>1. CASE e \in events
    BY <2>1 DEF Fits, EventsFit
  <2>2. CASE e \notin events
    <3>1. e = [cid |-> c, status |-> "NEW", cum |-> 0]
      BY <1>2, <2>2
    <3> QED
      BY <1>1, <3>1, IdsAre
  <2> QED
    BY <2>1, <2>2
<1> QED
  BY <1>4, <1>5 DEF Fits

-----------------------------------------------------------------------------
(* Step by step.                                                           *)

Parted == causes \subseteq Harmless => HeldAreBooked /\ HandIsNew /\ Balanced

LEMMA StoredApplied ==
    ASSUME SlotTypeInv, NEW s \in Signals
    PROVE  /\ stored[Entry(s)].applied \in Nat /\ slots[s].lots \in Nat
           /\ Entry(s) \in Ids /\ IsEntry(Entry(s)) /\ Entry(s)[1] = s
BY IdsAre DEF SlotTypeInv, SlotTypeOK, Order, NoOrder

\* A step that moves no lots, between handlers that have none in hand.
LEMMA QuietStep ==
    ASSUME SlotTypeInv, SlotTypeInv', Parted, causes \subseteq causes', pos' = pos,
           task.at \notin {"slotting", "down"}, task'.at # "slotting",
           \A s \in Signals : /\ slots'[s].lots = slots[s].lots
                              /\ slots'[s] # NoSlot => slots[s] # NoSlot
                              /\ stored'[Entry(s)].applied >= stored[Entry(s)].applied
    PROVE  Parted'
<1> SUFFICES ASSUME causes' \subseteq Harmless
             PROVE  HeldAreBooked' /\ HandIsNew' /\ Balanced'
  BY DEF Parted, Harmless
<1>1. HeldAreBooked /\ HandIsNew /\ Balanced
  BY DEF Parted
<1>2. \A s \in Signals : stored[Entry(s)].applied \in Nat /\ stored'[Entry(s)].applied \in Nat
  BY IdsAre DEF SlotTypeInv, SlotTypeOK, Order, NoOrder
<1>3. ASSUME NEW s \in Signals, slots'[s] # NoSlot PROVE stored'[Entry(s)].applied > 0
  BY <1>1, <1>2, <1>3 DEF HeldAreBooked, Held
<1>4. HeldAreBooked'
  BY <1>3 DEF HeldAreBooked, Held, Entry, NoSlot
<1>5. Total' = Total
  BY LotsStay DEF SlotTypeInv
<1> QED
  BY <1>1, <1>4, <1>5 DEF HandIsNew, Balanced

\* A report that is booked leaves what it moves in hand.
LEMMA BookingStep ==
    ASSUME SlotTypeInv, SlotTypeInv', HoldInv, Parted, NEW c \in Ids, NEW status \in Status,
           NEW cum \in Nat, Book(c, status, cum), UNCHANGED <<slots, causes>>,
           task.at \notin {"slotting", "down"}, IsEntry(c) => cum <= Lots[c[1]],
           \/ task'.at = "slotting" /\ task'.cid = c /\ task'.lots = Moved(c, cum)
           \/ task'.at = "idle" /\ Moved(c, cum) = 0
    PROVE  Parted'
<1> SUFFICES ASSUME causes' \subseteq Harmless
             PROVE  HeldAreBooked' /\ HandIsNew' /\ Balanced'
  BY DEF Parted, Harmless
<1>1. HeldAreBooked /\ HandIsNew /\ Balanced /\ SlotTypeOK
  BY DEF Parted, SlotTypeInv
<1>2. /\ orders'[c].applied = Larger(Tracked(c).applied, cum)
      /\ stored'[c] = orders'[c]
      /\ \A d \in Ids \ {c} : orders'[d] = orders[d] /\ stored'[d] = stored[d]
  BY <1>1, BookKeeps
<1>3. /\ Moved(c, cum) \in Nat
      /\ ~IsEntry(c) => Moved(c, cum) <= pos
  BY <1>1, MovedIsBooked
<1>4. pos' = IF IsEntry(c) THEN pos + Moved(c, cum) ELSE pos - Moved(c, cum)
  BY DEF Book
<1>5. /\ Tracked(c) \in Order
      /\ orders[c] # NoOrder => Tracked(c) = orders[c]
      /\ orders[c] = NoOrder => Tracked(c).applied = stored[c].applied
  BY <1>1, TrackedIsOrder
<1>6. ASSUME NEW s \in Signals, Entry(s) = c
      PROVE  Tracked(c).applied = stored[Entry(s)].applied
  BY <1>5, <1>6 DEF HoldInv, BookedInStore
<1>7. Tracked(c).applied \in Nat
  BY <1>5 DEF Order
<1>8. ASSUME NEW s \in Signals, s \in Held PROVE stored'[Entry(s)].applied > 0
  <2>1. stored[Entry(s)].applied > 0 /\ stored[Entry(s)].applied \in Nat /\ Entry(s) \in Ids
    BY <1>1, <1>8, StoredApplied DEF HeldAreBooked
  <2>2. CASE Entry(s) = c
    <3>1. stored'[c].applied = Larger(stored[c].applied, cum)
      BY <1>2, <1>6, <2>2
    <3> QED
      BY <2>1, <2>2, <3>1 DEF Larger
  <2>3. CASE Entry(s) # c
    BY <1>2, <2>1, <2>3
  <2> QED
    BY <2>2, <2>3
<1>9. HeldAreBooked'
  BY <1>8 DEF HeldAreBooked, Held, Entry
<1>10. ASSUME NEW s \in Signals, s \in Held, Entry(s) = c PROVE Moved(c, cum) < Lots[s]
  <2>1. /\ stored[c].applied > 0 /\ IsEntry(c) /\ c[1] = s
        /\ Tracked(c).applied = stored[c].applied
    BY <1>1, <1>6, <1>10, StoredApplied DEF HeldAreBooked
  <2>2. Moved(c, cum) = IF cum > Tracked(c).applied THEN cum - Tracked(c).applied ELSE 0
    BY <2>1 DEF Moved
  <2>3. cum <= Lots[s] /\ Lots[s] \in Nat \ {0}
    BY <2>1, LotsAssumption
  <2> QED
    BY <1>7, <2>1, <2>2, <2>3
<1>11. HandIsNew'
  <2> SUFFICES ASSUME NEW s \in Signals, s \in Held,
                      task'.at = "slotting", task'.cid = Entry(s)
               PROVE  task'.lots < Lots[s]
    BY DEF HandIsNew, Held, Entry
  <2>1. Entry(s) = c /\ task'.lots = Moved(c, cum)
    OBVIOUS
  <2> QED
    BY <1>10, <2>1
<1>12. Total' = Total /\ Total = pos
  BY <1>1, LotsStay DEF SlotTypeInv, Balanced
<1>13. pos \in Nat
  BY <1>1 DEF SlotTypeOK
<1>14. Balanced'
  <2>1. CASE task'.at = "idle"
    BY <1>4, <1>12, <1>13, <2>1 DEF Balanced
  <2>2. CASE task'.at = "slotting" /\ IsEntry(c)
    BY <1>3, <1>4, <1>12, <1>13, <2>2 DEF Balanced, IsEntry
  <2>3. CASE task'.at = "slotting" /\ ~IsEntry(c)
    BY <1>3, <1>4, <1>12, <1>13, <2>3 DEF Balanced, IsEntry
  <2> QED
    BY <2>1, <2>2, <2>3
<1> QED
  BY <1>9, <1>11, <1>14

\* Entries and exits begin between bookings.
LEMMA BeginningParts ==
    ASSUME SlotTypeInv, HoldInv, PartInv,
           \/ \E s \in Signals : Enter(s) \/ Trigger(s)
           \/ ExitBlocked \/ ExitTracked \/ SendExit
    PROVE  PartInv'
<1> SlotTypeInv' /\ SlotTypeOK /\ Parted /\ Fits
  BY BeginningTypes DEF SlotTypeInv, PartInv, Parted, Fits
<1>1. ASSUME NEW s \in Signals, Enter(s) PROVE Fits' /\ Parted' /\ InDoubt'
  <2>1. /\ Send(Entry(s), Lots[s]) /\ Entry(s) \in Ids /\ Lots[s] \in Nat
        /\ IsEntry(Entry(s)) /\ Entry(s)[1] = s
        /\ UNCHANGED <<xpos, pos, slots, mapped, unknown, causes>>
        /\ task.at = "idle"
    BY <1>1, IdsAre, LotsAssumption DEF Enter
  <2>2. /\ task'.at = "placing"
        /\ stored'[Entry(s)].applied = stored[Entry(s)].applied
        /\ \A d \in Ids \ {Entry(s)} : stored'[d] = stored[d]
    BY <2>1, SendKeeps
  <2>3. \A t \in Signals : stored'[Entry(t)].applied >= stored[Entry(t)].applied
    BY <2>2, StoredApplied
  <2>4. Parted'
    BY <2>1, <2>2, <2>3, QuietStep
  <2> QED
    BY <2>1, <2>2, <2>4, SendFits DEF InDoubt
<1>2. ASSUME NEW s \in Signals, Trigger(s) PROVE Fits' /\ Parted' /\ InDoubt'
  <2>1. /\ slots' = [slots EXCEPT ![s].state = "EXIT_PENDING"]
        /\ UNCHANGED <<exchange, ledger, causes>>
        /\ task'.at = "exiting" /\ task.at = "idle" /\ s \in Held
    BY <1>2 DEF Trigger, Watched, At, Idle
  <2>2. \A t \in Signals : /\ slots'[t].lots = slots[t].lots
                           /\ slots'[t] # NoSlot => slots[t] # NoSlot
    BY <2>1 DEF SlotTypeOK, Held
  <2>3. \A t \in Signals : stored'[Entry(t)].applied >= stored[Entry(t)].applied
    BY <2>1, StoredApplied DEF ledger
  <2>4. Parted'
    BY <2>1, <2>2, <2>3, QuietStep DEF ledger
  <2> QED
    BY <2>1, <2>4 DEF InDoubt, Fits, EntriesFit, EventsFit, exchange, Entry, IsEntry
<1>3. ASSUME ExitBlocked PROVE Fits' /\ Parted' /\ InDoubt'
  <2>1. /\ NoOrderSent(task.cid) /\ task.cid \in Ids /\ task.at = "exiting"
        /\ UNCHANGED <<exchange, ledger, causes>>
    BY <1>3 DEF ExitBlocked, SlotTypeInv, TaskFits
  <2>2. task' = Idle /\ \A s \in Signals : slots'[s].lots = slots[s].lots
    BY <2>1, NoOrderSentKeeps
  <2>3. \A s \in Signals : slots'[s] # NoSlot => slots[s] # NoSlot
    BY <2>1, IdsAre DEF NoOrderSent, Reopened, SlotTypeOK, NoSlot
  <2>4. \A t \in Signals : stored'[Entry(t)].applied >= stored[Entry(t)].applied
    BY <2>1, StoredApplied DEF ledger
  <2>5. Parted'
    BY <2>1, <2>2, <2>3, <2>4, QuietStep DEF ledger, Idle
  <2> QED
    BY <2>1, <2>2, <2>5 DEF InDoubt, Idle, Fits, EntriesFit, EventsFit, exchange, Entry, IsEntry
<1>4. ASSUME ExitTracked PROVE Fits' /\ Parted' /\ InDoubt'
  <2>1. task' = Idle /\ task.at = "exiting" /\ UNCHANGED <<exchange, ledger, slots, causes>>
    BY <1>4 DEF ExitTracked
  <2>2. \A t \in Signals : stored'[Entry(t)].applied >= stored[Entry(t)].applied
    BY <2>1, StoredApplied DEF ledger
  <2>3. Parted'
    BY <2>1, <2>2, QuietStep DEF ledger, Idle
  <2> QED
    BY <2>1, <2>3 DEF InDoubt, Idle, Fits, EntriesFit, EventsFit, exchange, Entry, IsEntry
<1>5. ASSUME SendExit PROVE Fits' /\ Parted' /\ InDoubt'
  <2>1. /\ Send(task.cid, ExitQty(task.cid[1])) /\ UNCHANGED <<xpos, pos, slots, causes>>
        /\ task.cid \in Ids /\ task.cid[1] \in Signals /\ ~IsEntry(task.cid)
        /\ task.at = "exiting"
    BY <1>5, IdsAre DEF SendExit, SlotTypeInv, TaskFits
  <2>2. ExitQty(task.cid[1]) \in Nat
    BY <2>1 DEF ExitQty, Smaller, SlotTypeOK
  <2>3. /\ task'.at = "placing"
        /\ \A d \in Ids \ {task.cid} : stored'[d] = stored[d]
    BY <2>1, <2>2, SendKeeps
  <2>4. \A t \in Signals : stored'[Entry(t)].applied >= stored[Entry(t)].applied
    <3> TAKE t \in Signals
    <3>1. Entry(t) \in Ids \ {task.cid} /\ stored[Entry(t)].applied \in Nat
      BY <2>1, StoredApplied
    <3> QED
      BY <2>3, <3>1
  <2>5. Parted'
    BY <2>1, <2>3, <2>4, QuietStep
  <2> QED
    BY <2>1, <2>2, <2>3, <2>5, SendFits DEF InDoubt
<1> QED
  BY <1>1, <1>2, <1>3, <1>4, <1>5 DEF PartInv, Parted, Fits
\* An outcome's report is booked, or nothing moves; one in doubt is a cause.
LEMMA OutcomeParts ==
    ASSUME SlotTypeInv, HoldInv, PartInv, Outcome
    PROVE  PartInv'
<1> DEFINE c == task.cid
           x == xchg[c]
<1>1. c \in Ids /\ orders[c] # NoOrder /\ Answered(c) /\ SlotTypeInv' /\ SlotTypeOK
  BY OutcomeAnswers, OutcomeTypes DEF SlotTypeInv
<1>2. /\ Parted /\ Fits /\ InDoubt
      /\ x.cum \in Nat /\ x.status \in ReportStatus \cup {"NONE"}
  BY <1>1 DEF PartInv, Parted, Fits, SlotTypeOK
<1>3. /\ causes \subseteq causes' /\ UNCHANGED exchange
      /\ task.at \in {"placing", "resolving"}
  BY DEF Outcome, RespondFilled, RespondOpen, PlacementFails, PlacementUnknown,
         ResolveFound, ResolveAbsent, ResolveUnresolved
<1>4. Fits'
  BY <1>2, <1>3 DEF Fits, EntriesFit, EventsFit, exchange, Entry, IsEntry
<1>5. ASSUME NEW s \in Signals
      PROVE  stored'[Entry(s)].applied >= stored[Entry(s)].applied
  <2>1. /\ stored[Entry(s)].applied \in Nat /\ Entry(s) \in Ids
        /\ orders[Entry(s)] # NoOrder => orders[Entry(s)].applied = stored[Entry(s)].applied
    BY StoredApplied DEF HoldInv, BookedInStore
  <2> HIDE DEF c
  <2>2. CASE Entry(s) = c
    <3>1. \/ orders'[c].applied = orders[c].applied /\ stored'[c].applied = stored[c].applied
          \/ orders'[c].applied = stored'[c].applied /\ orders'[c].applied >= orders[c].applied
      BY <1>1 DEF Answered
    <3> QED
      BY <1>1, <2>1, <2>2, <3>1
  <2>3. CASE Entry(s) # c
    BY <1>1, <2>1, <2>3 DEF Answered
  <2> QED
    BY <2>2, <2>3
<1>6. ASSUME NoOrderSent(c) \/ (task' = Idle /\ UNCHANGED slots), pos' = pos
      PROVE  Parted' /\ task' = Idle
  <2>1. task' = Idle /\ \A s \in Signals : slots'[s].lots = slots[s].lots
    BY <1>1, <1>6, NoOrderSentKeeps
  <2>2. \A s \in Signals : slots'[s] # NoSlot => slots[s] # NoSlot
    <3>1. CASE UNCHANGED slots
      BY <3>1
    <3>2. CASE NoOrderSent(c)
      BY <1>1, <3>2, IdsAre DEF NoOrderSent, Reopened, SlotTypeOK, NoSlot
    <3> QED
      BY <1>6, <3>1, <3>2
  <2> QED
    BY <1>1, <1>2, <1>3, <1>5, <1>6, <2>1, <2>2, QuietStep DEF Idle
<1>7. ASSUME RespondFilled PROVE Parted' /\ InDoubt'
  <2>1. /\ x.status \in Executing /\ Book(c, x.status, x.cum)
        /\ task' = Slotting(c, Moved(c, x.cum), FALSE)
        /\ UNCHANGED <<slots, causes>> /\ task.at = "placing"
    BY <1>7 DEF RespondFilled
  <2>2. x.status \in Status
    BY <2>1 DEF Executing, Status, Open, Terminal
  <2>3. IsEntry(c) => x.cum <= Lots[c[1]]
    <3>1. IsEntry(c) => c = Entry(c[1]) /\ c[1] \in Signals
      BY <1>1, IdsAre
    <3> QED
      BY <1>2, <3>1 DEF Fits, EntriesFit
  <2>4. Moved(c, x.cum) \in Nat
    BY <1>1, <1>2, MovedIsBooked
  <2>5. task'.at = "slotting" /\ task'.cid = c /\ task'.lots = Moved(c, x.cum)
    BY <2>1 DEF Slotting, At, Idle
  <2> HIDE DEF c, x
  <2>6. Parted'
    BY <1>1, <1>2, <2>1, <2>2, <2>3, <2>5, BookingStep
  <2> QED
    BY <2>5, <2>6 DEF InDoubt
<1>8. ASSUME RespondOpen PROVE Parted' /\ InDoubt'
  <2>1. NoOrderSent(c) \/ (task' = Idle /\ UNCHANGED slots)
    BY <1>8 DEF RespondOpen
  <2>2. pos' = pos
    BY <1>8 DEF RespondOpen
  <2>3. Parted' /\ task' = Idle
    BY <1>6, <2>1, <2>2
  <2> QED
    BY <2>3 DEF InDoubt, Idle
<1>9. ASSUME PlacementFails PROVE Parted' /\ InDoubt'
  <2>1. NoOrderSent(c) /\ pos' = pos
    BY <1>9 DEF PlacementFails
  <2>2. Parted' /\ task' = Idle
    BY <1>6, <2>1
  <2> QED
    BY <2>2 DEF InDoubt, Idle
<1>10. ASSUME "unknown" \in causes' PROVE Parted' /\ InDoubt'
  BY <1>10 DEF Parted, Harmless, InDoubt
<1>11. ASSUME PlacementUnknown \/ ResolveFound \/ ResolveAbsent \/ ResolveUnresolved
       PROVE  Parted' /\ InDoubt'
  <2>1. "unknown" \in causes'
    BY <1>2, <1>3, <1>11
       DEF PlacementUnknown, ResolveFound, ResolveAbsent, ResolveUnresolved, InDoubt
  <2> QED
    BY <1>10, <2>1
<1>12. Parted' /\ InDoubt'
  BY <1>7, <1>8, <1>9, <1>11 DEF Outcome
<1> QED
  BY <1>4, <1>12 DEF PartInv, Parted, Fits

\* So is a pushed report.
LEMMA StreamParts ==
    ASSUME SlotTypeInv, HoldInv, PartInv, NEW e \in events, Stream(e)
    PROVE  PartInv'
<1>1. SlotTypeInv' /\ SlotTypeOK /\ Parted /\ Fits
  BY StreamTypes DEF SlotTypeInv, PartInv, Parted, Fits
<1>2. /\ e.cid \in Ids /\ e.status \in Status /\ e.cum \in Nat
  BY <1>1, ReportsAreStatuses DEF SlotTypeOK
<1>3. /\ Book(e.cid, e.status, e.cum) /\ task.at = "idle"
      /\ task' = IF Moved(e.cid, e.cum) > 0
                 THEN Slotting(e.cid, Moved(e.cid, e.cum), TRUE) ELSE Idle
      /\ UNCHANGED <<exchange, slots, causes>>
  BY DEF Stream
<1>4. Moved(e.cid, e.cum) \in Nat
  BY <1>1, <1>2, MovedIsBooked
<1>5. \/ /\ task'.at = "slotting" /\ task'.cid = e.cid
         /\ task'.lots = Moved(e.cid, e.cum)
      \/ task'.at = "idle" /\ Moved(e.cid, e.cum) = 0
  <2>1. CASE Moved(e.cid, e.cum) > 0
    <3>1. task' = Slotting(e.cid, Moved(e.cid, e.cum), TRUE)
      BY <1>3, <2>1
    <3>2. /\ Slotting(e.cid, Moved(e.cid, e.cum), TRUE).at = "slotting"
          /\ Slotting(e.cid, Moved(e.cid, e.cum), TRUE).cid = e.cid
          /\ Slotting(e.cid, Moved(e.cid, e.cum), TRUE).lots = Moved(e.cid, e.cum)
      BY DEF Slotting, At, Idle
    <3> QED
      BY <3>1, <3>2
  <2>2. CASE ~(Moved(e.cid, e.cum) > 0)
    BY <1>3, <1>4, <2>2 DEF Idle
  <2> QED
    BY <2>1, <2>2
<1>6. IsEntry(e.cid) => e.cum <= Lots[e.cid[1]]
  BY <1>1 DEF Fits, EventsFit
<1>7. Parted'
  BY <1>1, <1>2, <1>3, <1>5, <1>6, BookingStep
<1> QED
  BY <1>1, <1>3, <1>5, <1>7
     DEF PartInv, Parted, InDoubt, Fits, EntriesFit, EventsFit, exchange, Entry, IsEntry

\* An entry's lots go into its slot: all of them, into a slot it did not have.
LEMMA AddSlotParts ==
    ASSUME SlotTypeInv, HoldInv, PartInv, AddSlot
    PROVE  PartInv'
<1> DEFINE s == task.cid[1]
<1>1. /\ SlotTypeInv' /\ SlotTypeOK /\ SlotTypeOK' /\ UNCHANGED ledger
      /\ task'.at = "idle" /\ task.at = "slotting" /\ task.cid \in Ids
  BY SlotTypes DEF SlotTypeInv
<1>2. IsEntry(task.cid) /\ task.cid = Entry(s) /\ s \in Signals
  BY <1>1, IdsAre DEF AddSlot
<1>3. /\ UNCHANGED <<exchange, ledger>> /\ causes \subseteq causes'
      /\ slots' = IF s \in Held \/ Cardinality(Held) >= Limit THEN slots
                  ELSE [slots EXCEPT ![s] = [state |-> "OPEN", lots |-> task.lots]]
      /\ task.lots < Lots[s] => "part" \in causes'
      /\ s \notin Held /\ Cardinality(Held) >= Limit => "full" \in causes'
  BY DEF AddSlot
<1>4. Fits' /\ InDoubt'
  BY <1>1, <1>3 DEF PartInv, InDoubt, Fits, EntriesFit, EventsFit, exchange, Entry, IsEntry
<1> HIDE DEF s
<1>5. ASSUME causes' \subseteq Harmless PROVE HeldAreBooked' /\ HandIsNew' /\ Balanced'
  <2>1. HeldAreBooked /\ HandIsNew /\ Balanced
    BY <1>3, <1>5 DEF PartInv
  <2>2. /\ task.lots \in Nat /\ Lots[s] \in Nat \ {0} /\ pos \in Nat
        /\ slots \in [Signals -> [state : {"NONE", "OPEN", "EXIT_PENDING"}, lots : Nat]]
    BY <1>1, <1>2, LotsAssumption DEF SlotTypeOK
  <2>3. task.lots >= Lots[s]
    BY <1>3, <1>5, <2>2 DEF Harmless
  <2>4. s \notin Held
    BY <1>1, <1>2, <2>1, <2>2, <2>3 DEF HandIsNew
  <2>5. slots' = [slots EXCEPT ![s] = [state |-> "OPEN", lots |-> task.lots]]
    BY <1>3, <1>5, <2>4 DEF Harmless
  <2>6. /\ slots'[s].lots = task.lots /\ slots[s].lots = 0
        /\ \A t \in Signals \ {s} : slots'[t] = slots[t]
    BY <1>2, <2>2, <2>4, <2>5 DEF Held, NoSlot
  <2>7. Total \in Nat /\ Total' \in Nat /\ Total' - task.lots = Total
    BY <1>1, <1>2, <2>2, <2>6, OneSlotMoves
  <2>8. Balanced'
    <3>1. Total + task.lots = pos
      BY <1>1, <1>2, <2>1 DEF Balanced
    <3>2. Total' = pos'
      BY <1>1, <2>2, <2>7, <3>1 DEF ledger
    <3> QED
      BY <1>1, <3>2 DEF Balanced
  <2>9. ASSUME NEW t \in Signals, slots'[t] # NoSlot PROVE stored[Entry(t)].applied > 0
    <3>1. CASE t = s
      <4>1. /\ task.lots <= orders[Entry(s)].applied
            /\ orders[Entry(s)].applied = stored[Entry(s)].applied
        BY <1>1, <1>2 DEF HoldInv, BookedInHand, BookedInStore, SlotTypeInv, TaskFits
      <4>2. stored[Entry(s)].applied \in Nat
        BY <1>2, StoredApplied
      <4> QED
        BY <2>2, <2>3, <3>1, <4>1, <4>2
    <3>2. CASE t # s
      BY <2>1, <2>6, <2>9, <3>2 DEF HeldAreBooked, Held
    <3> QED
      BY <3>1, <3>2
  <2>10. HeldAreBooked'
    BY <1>1, <2>9 DEF HeldAreBooked, Held, ledger, Entry, NoSlot
  <2> QED
    BY <1>1, <2>8, <2>10 DEF HandIsNew
<1> QED
  BY <1>4, <1>5 DEF PartInv, Fits

\* A sale is charged to at most one slot, and takes its lots out of it.
LEMMA ChargedIsOne ==
    ASSUME NEW s \in Signals, NEW t \in Charged(s)
    PROVE  t \in Held /\ Charged(s) = {t}
<1>1. Held \subseteq Signals /\ Pending \subseteq Held
  BY DEF Held, Pending
<1>2. IsFiniteSet(Held) /\ IsFiniteSet(Pending)
  BY <1>1, FS_Subset, SignalsAssumption
<1>3. \A S : IsFiniteSet(S) /\ Cardinality(S) = 1 => \E z : S = {z}
  BY FS_Singleton
<1>4. \/ Charged(s) = {s} \cap Held
      \/ Charged(s) = Pending /\ Cardinality(Pending) = 1
      \/ Charged(s) = Held /\ Cardinality(Held) = 1
      \/ Charged(s) = {}
  BY DEF Charged
<1> QED
  BY <1>1, <1>2, <1>3, <1>4

LEMMA CloseSlotParts ==
    ASSUME SlotTypeInv, HoldInv, PartInv, CloseSlot
    PROVE  PartInv'
<1> DEFINE s == task.cid[1]
<1>1. /\ SlotTypeInv' /\ SlotTypeOK /\ SlotTypeOK' /\ UNCHANGED ledger
      /\ task'.at = "idle" /\ task.at = "slotting" /\ task.cid \in Ids /\ s \in Signals
  BY SlotTypes, IdsAre DEF SlotTypeInv
<1>2. /\ UNCHANGED <<exchange, ledger>> /\ causes \subseteq causes' /\ ~IsEntry(task.cid)
      /\ slots' = [t \in Signals |->
                      IF t \in Charged(s) THEN CloseFill(slots[t], task.lots) ELSE slots[t]]
      /\ \/ \E t \in Charged(s) : task.lots <= slots[t].lots
         \/ "stray" \in causes'
  BY DEF CloseSlot
<1>3. Fits' /\ InDoubt'
  BY <1>1, <1>2 DEF PartInv, InDoubt, Fits, EntriesFit, EventsFit, exchange, Entry, IsEntry
<1> HIDE DEF s
<1>4. ASSUME causes' \subseteq Harmless PROVE HeldAreBooked' /\ HandIsNew' /\ Balanced'
  <2>1. HeldAreBooked /\ HandIsNew /\ Balanced
    BY <1>2, <1>4 DEF PartInv
  <2>2. PICK t \in Charged(s) : task.lots <= slots[t].lots
    BY <1>2, <1>4 DEF Harmless
  <2>3. t \in Held /\ t \in Signals /\ Charged(s) = {t}
    BY <1>1, ChargedIsOne DEF Held
  <2>4. /\ task.lots \in Nat /\ pos \in Nat /\ slots[t].lots \in Nat
    BY <1>1, <2>3 DEF SlotTypeOK
  <2>5. /\ slots'[t] = CloseFill(slots[t], task.lots)
        /\ \A u \in Signals \ {t} : slots'[u] = slots[u]
    BY <1>2, <2>3
  <2>6. slots'[t].lots = slots[t].lots - task.lots
    BY <2>2, <2>4, <2>5 DEF CloseFill, Smaller, NoSlot
  <2>7. Total \in Nat /\ Total' \in Nat /\ Total' - slots'[t].lots = Total - slots[t].lots
    BY <1>1, <2>3, <2>5, OneSlotMoves
  <2>8. Balanced'
    <3>1. Total = pos + task.lots
      BY <1>1, <1>2, <2>1 DEF Balanced
    <3>2. Total' = pos'
      BY <1>1, <2>4, <2>6, <2>7, <3>1 DEF ledger
    <3> QED
      BY <1>1, <3>2 DEF Balanced
  <2>9. \A u \in Signals : slots'[u] # NoSlot => slots[u] # NoSlot
    BY <2>3, <2>5 DEF Held
  <2>10. HeldAreBooked'
    BY <1>1, <2>1, <2>9 DEF HeldAreBooked, Held, ledger, Entry, NoSlot
  <2> QED
    BY <1>1, <2>8, <2>10 DEF HandIsNew
<1> QED
  BY <1>3, <1>4 DEF PartInv, Fits

\* An engine that starts to trade found its slots to be the position.
LEMMA RepairParts ==
    ASSUME SlotTypeInv, HoldInv, PartInv, Audit \/ Restart \/ Crash
    PROVE  PartInv'
<1>1. SlotTypeInv' /\ SlotTypeOK /\ SlotTypeOK' /\ UNCHANGED <<slots, exchange>>
      /\ task'.at \notin {"slotting", "resolving"} /\ causes \subseteq causes'
  BY AuditTypes, RestartTypes, CrashTypes DEF SlotTypeInv, Audit, Restart, Crash
<1>2. Fits' /\ InDoubt'
  BY <1>1 DEF PartInv, InDoubt, Fits, EntriesFit, EventsFit, exchange, Entry, IsEntry
<1>3. Total' = Total
  BY <1>1, LotsStay
<1>4. CASE Audit
  <2>1. "audit" \in causes'
    BY <1>4 DEF Audit
  <2> QED
    BY <1>2, <2>1 DEF PartInv, Harmless, Fits
<1>5. ASSUME \A s \in Signals : stored'[Entry(s)].applied >= stored[Entry(s)].applied,
             HeldAreBooked
      PROVE  HeldAreBooked'
  <2> SUFFICES ASSUME NEW s \in Signals, slots'[s] # NoSlot PROVE stored'[Entry(s)].applied > 0
    BY DEF HeldAreBooked, Held, Entry, NoSlot
  <2>1. /\ stored[Entry(s)].applied > 0 /\ stored[Entry(s)].applied \in Nat
    BY <1>1, <1>5, StoredApplied DEF HeldAreBooked, Held
  <2>2. stored'[Entry(s)].applied \in Nat
    BY <1>1, IdsAre DEF SlotTypeOK, Order, NoOrder
  <2> QED
    BY <1>5, <2>1, <2>2
<1>6. ASSUME Restart, causes' \subseteq Harmless
      PROVE  HeldAreBooked' /\ HandIsNew' /\ Balanced'
  <2>1. HeldAreBooked
    BY <1>1, <1>6 DEF PartInv
  <2>2. \A s \in Signals : stored'[Entry(s)].applied >= stored[Entry(s)].applied
    BY <1>6, RestartTypes, IdsAre
  <2>3. task' = Down \/ (task' = Idle /\ pos' = xpos /\ Total = xpos)
    BY <1>6 DEF Restart
  <2>4. Balanced'
    BY <1>1, <1>3, <2>3 DEF Balanced, Down, Idle
  <2> QED
    BY <1>1, <1>5, <2>1, <2>2, <2>4 DEF HandIsNew
<1>7. ASSUME Crash, causes' \subseteq Harmless
      PROVE  HeldAreBooked' /\ HandIsNew' /\ Balanced'
  <2>1. HeldAreBooked /\ UNCHANGED stored /\ task'.at = "down"
    BY <1>1, <1>7, CrashTypes DEF PartInv
  <2>2. HeldAreBooked'
    BY <1>5, <2>1, StoredApplied
  <2> QED
    BY <2>1, <2>2 DEF HandIsNew, Balanced
<1> QED
  BY <1>2, <1>4, <1>6, <1>7 DEF PartInv, Fits

LEMMA NextParts == SlotTypeInv /\ HoldInv /\ PartInv /\ [SlotNext]_slotVars => PartInv'
<1> SUFFICES ASSUME SlotTypeInv, HoldInv, PartInv, [SlotNext]_slotVars PROVE PartInv'
  OBVIOUS
<1>1. CASE Exchange
  <2>1. UNCHANGED <<ledger, slots, task>> /\ SlotTypeInv'
    BY <1>1, ExchangeTypes
  <2>2. Fits' /\ causes \subseteq causes'
    BY <1>1, ExchangeFits DEF PartInv, Fits
  <2> QED
    BY <2>1, <2>2 DEF PartInv, Fits, InDoubt, Harmless, HeldAreBooked, HandIsNew, Balanced,
                      Total, Held, NoSlot, ledger, Entry, IsEntry
<1>2. CASE Engine
  BY <1>2, BeginningParts, OutcomeParts, StreamParts, AddSlotParts, CloseSlotParts, RepairParts
     DEF Engine, Outcome
<1>3. CASE Crash
  BY <1>3, RepairParts
<1>4. CASE UNCHANGED slotVars
  BY <1>4 DEF slotVars, ledger, exchange, PartInv, EntriesFit, EventsFit, InDoubt, HeldAreBooked,
              HandIsNew, Balanced, Total, Held, NoSlot, Entry, IsEntry
<1> QED
  BY <1>1, <1>2, <1>3, <1>4 DEF SlotNext

\* A new book is empty, and so is the position.
LEMMA InitParts == SlotInit => PartInv
<1> SUFFICES ASSUME SlotInit PROVE PartInv
  OBVIOUS
<1>1. /\ \A s \in Signals : /\ Entry(s) \in Ids /\ slots[s] = NoSlot
                            /\ xchg[Entry(s)] = [status |-> "NONE", cum |-> 0, qty |-> 0]
                            /\ Lots[s] \in Nat
      /\ events = {} /\ pos = 0 /\ task.at = "idle"
  BY IdsAre, LotsAssumption DEF SlotInit, Idle
<1>2. EntriesFit /\ EventsFit /\ InDoubt
  BY <1>1 DEF EntriesFit, EventsFit, InDoubt
<1> DEFINE f == [s \in Signals |-> slots[s].lots]
<1>3. f \in [Signals -> Nat] /\ \A s \in Signals : f[s] = 0
  BY <1>1 DEF NoSlot
<1>4. SumFunctionOnSet(f, Signals) = 0
  <2> HIDE DEF f
  <2> QED
    BY <1>3, SumOfZeros, SignalsAssumption
<1>5. Total = 0
  BY <1>4 DEF Total
<1> QED
  BY <1>1, <1>2, <1>5 DEF PartInv, HeldAreBooked, HandIsNew, Balanced, Held

(* Between handlers the slots are the position, lot for lot, for any       *)
(* signals, lots and limit, and however often the engine dies and starts,  *)
(* as long as no entry was booked in parts or found the book full, nothing *)
(* was in doubt, no audit moved the position, and no sale was charged to a *)
(* slot that has less.                                                     *)
THEOREM SlotsStayPosition == SlotSpec => []SlotsArePosition
<1>1. PartInv => SlotsArePosition
  BY DEF PartInv, Balanced, SlotsArePosition, Harmless
<1>2. SlotSpec => []HoldInv
  BY InitHolds, NextHolds, SlotTypeCorrect, PTL DEF SlotSpec
<1> QED
  BY <1>1, <1>2, InitParts, NextParts, SlotTypeCorrect, PTL DEF SlotSpec
-----------------------------------------------------------------------------
(* A slot whose barriers are not watched has an exit at work.  As long as  *)
(* no cause is on record every order is sent once and only fills, so that  *)
(* a slot holds the lots its exit has still to book: the exit is for all   *)
(* the lots of the entry, for the account holds them until it sells them.  *)

Live == {"NEW", "PARTIALLY_FILLED", "FILLED"}

Taken(c) == xchg[c].status # "NONE"

\* Orders fill up, and the engine books no more of one than it has filled.
OrderRuns(c) ==
    /\ xchg[c].status \in Live \cup {"NONE"}
    /\ ~Taken(c) => xchg[c].cum = 0
    /\ xchg[c].status = "FILLED" => xchg[c].cum = xchg[c].qty
    /\ xchg[c].status \in {"NEW", "PARTIALLY_FILLED"} => xchg[c].cum < xchg[c].qty
    /\ Taken(c) => orders[c] # NoOrder
    /\ orders[c].applied <= xchg[c].cum

OrdersRun == \A c \in Ids : OrderRuns(c)

EventsRun == \A e \in events : Taken(e.cid) /\ e.status \in Live /\ e.cum <= xchg[e.cid].cum

\* What the account has left of the lots of one signal.
Net(s) == xchg[Entry(s)].cum - xchg[Exit(s)].cum

Flow == SumFunctionOnSet([s \in Signals |-> Net(s)], Signals)

NetIsPosition == xpos = Flow

\* The exit of s is sent and the handler does not know yet that it was refused.
Unanswered(s) == task.at = "placing" /\ task.cid = Exit(s) /\ ~task.taken

\* An exit follows its whole entry, is for as many lots, and is on the map.
ExitRuns(s) ==
    /\ Taken(Exit(s)) => /\ IsSent(Exit(s)) /\ xchg[Exit(s)].qty = Lots[s]
                         /\ xchg[Entry(s)].cum = Lots[s]
    /\ orders[Exit(s)] # NoOrder => /\ s \in mapped /\ stored[Entry(s)].applied > 0
                                    /\ Taken(Exit(s)) \/ Unanswered(s)

ExitsRun == \A s \in Signals : ExitRuns(s)

InHand(s) == IF task.at = "slotting" /\ task.cid = Exit(s) THEN task.lots ELSE 0

\* A slot holds what its exit has not booked, and one with an exit has sent it.
SlotRuns(s) ==
    /\ slots[s].lots > 0 /\ xchg[Entry(s)].cum = Lots[s]
    /\ slots[s].lots + orders[Exit(s)].applied = Lots[s] + InHand(s)
    /\ slots[s].state = "EXIT_PENDING" =>
          orders[Exit(s)] # NoOrder \/ (task.at = "exiting" /\ task.cid = Exit(s))

SlotsRun == \A s \in Held : SlotRuns(s)

TaskRuns ==
    /\ task.at # "down"
    /\ task.at = "exiting" => task.cid[1] \in Held
    /\ task.at = "placing" /\ task.taken => Taken(task.cid)
    /\ \A s \in Signals :
          task.at = "slotting" /\ task.cid = Entry(s) /\ task.lots >= Lots[s] =>
             orders[Exit(s)] = NoOrder

Runs == OrdersRun /\ EventsRun /\ NetIsPosition /\ ExitsRun /\ SlotsRun /\ TaskRuns

RunInv == causes = {} => Runs

\* The other invariants, as they are before any cause.
Before == /\ SlotTypeInv /\ SlotTypeOK /\ HoldInv /\ EntriesFit /\ InDoubt
          /\ HeldAreBooked /\ HandIsNew /\ Balanced

\* They hold by the proofs above.
LEMMA BeforeHolds == SlotTypeInv /\ HoldInv /\ PartInv /\ causes = {} => Before
BY DEF Before, PartInv, Harmless, SlotTypeInv

\* An id that is not an entry's is an exit's.
LEMMA ExitIds == \A c \in Ids : ~IsEntry(c) => c = Exit(c[1])
BY DEF Ids, IsEntry, Exit

\* What the shapes say of one order and one slot.
LEMMA ShapesAre ==
    ASSUME SlotTypeOK
    PROVE  /\ \A c \in Ids : /\ xchg[c].cum \in Nat /\ xchg[c].qty \in Nat
                             /\ xchg[c].status \in ReportStatus \cup {"NONE"}
                             /\ orders[c] \in Order \cup {NoOrder}
                             /\ orders[c].applied \in Nat /\ stored[c].applied \in Nat
           /\ \A s \in Signals : slots[s].lots \in Nat
           /\ xpos \in Nat /\ pos \in Nat /\ task.lots \in Nat
BY DEF SlotTypeOK, Order, NoOrder

NetsFit == \A s \in Signals : Net(s) \in Nat

\* An exit sells no more than its entry bought.
LEMMA NetsAreLots == SlotTypeOK /\ OrdersRun /\ ExitsRun => NetsFit
<1> SUFFICES ASSUME SlotTypeOK, OrdersRun, ExitsRun, NEW s \in Signals PROVE Net(s) \in Nat
  BY DEF NetsFit
<1>1. /\ Entry(s) \in Ids /\ Exit(s) \in Ids /\ Lots[s] \in Nat
  BY IdsAre, LotsAssumption
<1>2. /\ xchg[Entry(s)].cum \in Nat /\ xchg[Exit(s)].cum \in Nat /\ xchg[Exit(s)].qty \in Nat
  BY <1>1, ShapesAre
<1>3. OrderRuns(Exit(s)) /\ ExitRuns(s)
  BY <1>1 DEF OrdersRun, ExitsRun
<1> QED
  BY <1>1, <1>2, <1>3 DEF Net, OrderRuns, ExitRuns, Live, Taken

\* The same after a step.
LEMMA NetsFitStill == (SlotTypeOK /\ OrdersRun /\ ExitsRun)' => NetsFit'
BY NetsAreLots, PTL

\* The account holds what is left of each signal.
LEMMA NetIsHeld ==
    ASSUME SlotTypeOK, OrdersRun, ExitsRun, NEW s \in Signals
    PROVE  Flow \in Nat /\ Net(s) \in Nat /\ Net(s) <= Flow
<1> DEFINE f == [t \in Signals |-> Net(t)]
           g == [f EXCEPT ![s] = 0]
<1>1. f \in [Signals -> Nat] /\ f[s] = Net(s)
  BY NetsAreLots DEF NetsFit
<1> HIDE DEF f
<1>2. g \in [Signals -> Nat] /\ g[s] = 0 /\ \A t \in Signals \ {s} : g[t] = f[t]
  BY <1>1
<1> HIDE DEF g
<1>3. /\ SumFunctionOnSet(f, Signals) \in Nat /\ SumFunctionOnSet(g, Signals) \in Nat
      /\ SumFunctionOnSet(g, Signals) - g[s] = SumFunctionOnSet(f, Signals) - f[s]
  BY <1>1, <1>2, SumChanges, SignalsAssumption
<1>4. Flow = SumFunctionOnSet(f, Signals)
  BY DEF Flow, f
<1>5. f[s] \in Nat
  BY <1>1
<1> QED
  BY <1>1, <1>2, <1>3, <1>4, <1>5

\* The slots' lots add up to at least those of one of them.
LEMMA SlotInTotal ==
    ASSUME SlotTypeOK, NEW s \in Signals
    PROVE  Total \in Nat /\ slots[s].lots \in Nat /\ slots[s].lots <= Total
<1> DEFINE f == [t \in Signals |-> slots[t].lots]
           g == [f EXCEPT ![s] = 0]
<1>1. f \in [Signals -> Nat] /\ f[s] = slots[s].lots
  BY ShapesAre
<1> HIDE DEF f
<1>2. g \in [Signals -> Nat] /\ g[s] = 0 /\ \A t \in Signals \ {s} : g[t] = f[t]
  BY <1>1
<1> HIDE DEF g
<1>3. /\ SumFunctionOnSet(f, Signals) \in Nat /\ SumFunctionOnSet(g, Signals) \in Nat
      /\ SumFunctionOnSet(g, Signals) - g[s] = SumFunctionOnSet(f, Signals) - f[s]
  BY <1>1, <1>2, SumChanges, SignalsAssumption
<1>4. Total = SumFunctionOnSet(f, Signals)
  BY DEF Total, f
<1>5. f[s] \in Nat
  BY <1>1
<1> QED
  BY <1>1, <1>2, <1>3, <1>4, <1>5

\* Lots traded of one signal.
LEMMA NetMoves ==
    ASSUME SlotTypeOK, OrdersRun, ExitsRun, SlotTypeOK', OrdersRun', ExitsRun',
           NEW s \in Signals, \A t \in Signals \ {s} : Net(t)' = Net(t)
    PROVE  Flow \in Nat /\ Flow' \in Nat /\ Flow' - Net(s)' = Flow - Net(s)
<1> DEFINE f == [t \in Signals |-> Net(t)]
           g == [t \in Signals |-> Net(t)']
<1>1. f \in [Signals -> Nat] /\ f[s] = Net(s)
  BY NetsAreLots DEF NetsFit
<1>2. NetsFit'
  BY NetsFitStill
<1>3. g \in [Signals -> Nat] /\ g[s] = Net(s)'
  BY <1>2 DEF NetsFit
<1>4. \A t \in Signals \ {s} : g[t] = f[t]
  OBVIOUS
<1>5. Flow = SumFunctionOnSet(f, Signals) /\ Flow' = SumFunctionOnSet(g, Signals)
  BY DEF Flow
<1> HIDE DEF f, g
<1>6. /\ SumFunctionOnSet(f, Signals) \in Nat /\ SumFunctionOnSet(g, Signals) \in Nat
      /\ SumFunctionOnSet(g, Signals) - g[s] = SumFunctionOnSet(f, Signals) - f[s]
  BY <1>1, <1>3, <1>4, SumChanges, SignalsAssumption
<1> QED
  BY <1>1, <1>3, <1>5, <1>6

\* A merge leaves the status or takes the report's.
LEMMA MergeStatus ==
    ASSUME NEW o \in Order, NEW status \in Status, NEW cum \in Nat
    PROVE  /\ Merge(o, status, cum).status \in {o.status, status}
           /\ TransitionStatus(o, status, cum).status \in {o.status, status}
BY DEF Merge, TransitionStatus, Order

-----------------------------------------------------------------------------
(* The steps, one by one, while no cause is on record.                     *)

\* A trade of an order.
LEMMA TradeOrders ==
    ASSUME Before, OrdersRun, NEW c \in Ids, Trade(c)
    PROVE  /\ OrdersRun' /\ Taken(c) /\ xchg[c].cum < xchg[c].qty
           /\ xchg'[c].cum = xchg[c].cum + 1 /\ xchg'[c].status \in Live
           /\ xchg'[c].qty = xchg[c].qty
           /\ \A d \in Ids \ {c} : xchg'[d] = xchg[d]
           /\ events' = events \cup
                 {[cid |-> c, status |-> xchg'[c].status, cum |-> xchg'[c].cum]}
<1> DEFINE n == xchg[c].cum + 1
           st == IF n = xchg[c].qty THEN "FILLED" ELSE "PARTIALLY_FILLED"
<1>1. xchg \in [Ids -> [status : ReportStatus \cup {"NONE"}, cum : Nat, qty : Nat]]
  BY DEF Before, SlotTypeOK
<1>2. /\ xchg[c].status \in {"NEW", "PARTIALLY_FILLED"} /\ Push(c, st, n)
  BY DEF Trade
<1>3. OrderRuns(c) /\ xchg[c].cum < xchg[c].qty /\ Taken(c)
  BY <1>2 DEF OrdersRun, OrderRuns, Taken
<1>4. xchg[c].cum \in Nat /\ xchg[c].qty \in Nat /\ orders[c].applied \in Nat
  BY ShapesAre DEF Before
<1>5. /\ xchg' = [xchg EXCEPT ![c] = [xchg[c] EXCEPT !.status = st, !.cum = n]]
      /\ events' = events \cup {[cid |-> c, status |-> st, cum |-> n]}
      /\ UNCHANGED orders
  BY <1>1, <1>2 DEF Push, ledger
<1>6. /\ xchg'[c].status = st /\ xchg'[c].cum = n /\ xchg'[c].qty = xchg[c].qty
      /\ \A d \in Ids \ {c} : xchg'[d] = xchg[d]
  BY <1>1, <1>5
<1>7. st \in Live
  BY DEF Live
<1>8. OrderRuns(c)'
  BY <1>3, <1>4, <1>5, <1>6 DEF OrderRuns, Taken, Live
<1>9. ASSUME NEW d \in Ids \ {c} PROVE OrderRuns(d)'
  BY <1>5, <1>6 DEF OrdersRun, OrderRuns, Taken
<1> QED
  BY <1>3, <1>5, <1>6, <1>7, <1>8, <1>9 DEF OrdersRun

\* It moves the account by a lot of its signal, and no order of the engine.
LEMMA TradeRuns ==
    ASSUME Before, Runs, SlotTypeOK', NEW c \in Ids, Trade(c)
    PROVE  Runs'
<1> DEFINE s == c[1]
<1>1. /\ SlotTypeOK /\ OrdersRun /\ ExitsRun /\ SlotsRun /\ TaskRuns /\ EventsRun
      /\ NetIsPosition /\ EntriesFit
  BY DEF Before, Runs
<1>2. /\ OrdersRun' /\ Taken(c) /\ xchg[c].cum < xchg[c].qty
      /\ xchg'[c].cum = xchg[c].cum + 1 /\ xchg'[c].status \in Live
      /\ xchg'[c].qty = xchg[c].qty
      /\ \A d \in Ids \ {c} : xchg'[d] = xchg[d]
      /\ events' = events \cup {[cid |-> c, status |-> xchg'[c].status, cum |-> xchg'[c].cum]}
  BY <1>1, TradeOrders
<1>3. /\ UNCHANGED <<orders, stored, pos, slots, mapped, unknown, task>>
      /\ ~IsEntry(c) => xpos > 0
      /\ xpos' = IF IsEntry(c) THEN xpos + 1 ELSE xpos - 1
  BY DEF Trade, Push, ledger
<1>4. /\ xchg[c].cum \in Nat /\ xchg[c].qty \in Nat /\ xpos \in Nat
      /\ \A e \in events : e.cid \in Ids /\ e.cum \in Nat
      /\ \A d \in Ids : xchg[d].cum \in Nat /\ xchg[d].qty \in Nat
  BY <1>1, ShapesAre DEF SlotTypeOK
<1>5. \A d \in Ids : Taken(d)' <=> Taken(d)
  BY <1>2 DEF Taken, Live
<1>6. EventsRun'
  <2>1. ASSUME NEW e \in events PROVE Taken(e.cid)' /\ e.status \in Live /\ e.cum <= xchg'[e.cid].cum
    BY <1>1, <1>2, <1>4, <1>5 DEF EventsRun
  <2>2. Taken(c)' /\ xchg'[c].cum <= xchg'[c].cum
    BY <1>2, <1>4, <1>5
  <2> QED
    BY <1>2, <2>1, <2>2 DEF EventsRun, Taken
<1>7. \A t \in Signals : xchg[Entry(t)].cum = Lots[t] => xchg'[Entry(t)].cum = Lots[t]
  <2> SUFFICES ASSUME NEW t \in Signals, xchg[Entry(t)].cum = Lots[t]
               PROVE  xchg'[Entry(t)] = xchg[Entry(t)]
    OBVIOUS
  <2>1. Entry(t) \in Ids /\ xchg[Entry(t)].qty <= Lots[t] /\ Lots[t] \in Nat
    BY <1>1, IdsAre, LotsAssumption DEF EntriesFit
  <2>2. Entry(t) # c
    BY <1>2, <1>4, <2>1
  <2> QED
    BY <1>2, <2>1, <2>2
<1>8. ExitsRun'
  <2> SUFFICES ASSUME NEW t \in Signals PROVE ExitRuns(t)'
    BY DEF ExitsRun
  <2>1. Exit(t) \in Ids /\ xchg'[Exit(t)].qty = xchg[Exit(t)].qty /\ ExitRuns(t)
    BY <1>1, <1>2, IdsAre DEF ExitsRun
  <2>2. Taken(Exit(t))' <=> Taken(Exit(t))
    BY <1>5, <2>1 DEF Exit
  <2> QED
    BY <1>3, <1>7, <2>1, <2>2 DEF ExitRuns, IsSent, Unanswered, Exit, Entry
<1>9. SlotsRun'
  <2> SUFFICES ASSUME NEW t \in Held PROVE SlotRuns(t)'
    BY <1>3 DEF SlotsRun, Held, NoSlot
  <2>1. SlotRuns(t) /\ t \in Signals
    BY <1>1 DEF SlotsRun, Held
  <2> QED
    BY <1>3, <1>7, <2>1 DEF SlotRuns, InHand, Exit, Entry
<1>10. TaskRuns'
  <2>1. task.at = "placing" => task.cid \in Ids
    BY DEF Before, SlotTypeInv, TaskFits
  <2> QED
    BY <1>1, <1>3, <1>5, <2>1 DEF TaskRuns, Held, NoSlot, Exit, Entry, Taken
<1>11. NetIsPosition'
  <2>1. s \in Signals /\ (c = Entry(s) \/ c = Exit(s)) /\ Entry(s) # Exit(s)
        /\ (IsEntry(c) <=> c = Entry(s)) /\ Entry(s) \in Ids /\ Exit(s) \in Ids
        /\ \A t \in Signals \ {s} : /\ Entry(t) \in Ids \ {c} /\ Exit(t) \in Ids \ {c}
    BY IdsAre, ExitIds DEF Entry, Exit, IsEntry
  <2> HIDE DEF s
  <2>2. \A t \in Signals \ {s} : Net(t)' = Net(t)
    BY <1>2, <2>1 DEF Net, Entry, Exit
  <2>3. /\ Flow \in Nat /\ Flow' \in Nat /\ Flow' - Net(s)' = Flow - Net(s)
    BY <1>1, <1>2, <1>8, <2>1, <2>2, NetMoves
  <2>4. Net(s)' = xchg'[Entry(s)].cum - xchg'[Exit(s)].cum
    BY DEF Net, Entry, Exit
  <2>5. Net(s) = xchg[Entry(s)].cum - xchg[Exit(s)].cum
    BY DEF Net
  <2>6. CASE c = Entry(s)
    <3>1. xchg'[Entry(s)].cum = xchg[Entry(s)].cum + 1 /\ xchg'[Exit(s)].cum = xchg[Exit(s)].cum
      BY <1>2, <2>1, <2>6
    <3>2. xpos' = xpos + 1
      BY <1>3, <2>1, <2>6
    <3> QED
      BY <1>1, <1>4, <2>1, <2>3, <2>4, <2>5, <3>1, <3>2 DEF NetIsPosition
  <2>7. CASE c = Exit(s)
    <3>1. xchg'[Exit(s)].cum = xchg[Exit(s)].cum + 1 /\ xchg'[Entry(s)].cum = xchg[Entry(s)].cum
      BY <1>2, <2>1, <2>7
    <3>2. xpos' = xpos - 1
      BY <1>3, <2>1, <2>7
    <3> QED
      BY <1>1, <1>4, <2>1, <2>3, <2>4, <2>5, <3>1, <3>2 DEF NetIsPosition
  <2> QED
    BY <2>1, <2>6, <2>7
<1> QED
  BY <1>2, <1>6, <1>8, <1>9, <1>10, <1>11 DEF Runs

\* An order that was never sent is sent.
LEMMA SendOrders ==
    ASSUME Before, OrdersRun, EventsRun, NEW c \in Ids, NEW q \in Nat \ {0}, Send(c, q),
           ~Taken(c), orders[c] = NoOrder
    PROVE  /\ OrdersRun' /\ EventsRun'
           /\ orders'[c].status = "SUBMITTING" /\ orders'[c].applied = 0
           /\ \A d \in Ids : stored'[d].applied = stored[d].applied /\ xchg'[d].cum = xchg[d].cum
           /\ \A d \in Ids \ {c} : orders'[d] = orders[d] /\ xchg'[d] = xchg[d]
           /\ task'.at = "placing" /\ task'.cid = c
           /\ (task'.taken /\ Taken(c)' /\ xchg'[c].qty = q) \/ (~task'.taken /\ ~Taken(c)')
<1> DEFINE intent == [status |-> "SUBMITTING", filled |-> 0, applied |-> 0]
<1>1. /\ xchg \in [Ids -> [status : ReportStatus \cup {"NONE"}, cum : Nat, qty : Nat]]
      /\ orders \in [Ids -> Order \cup {NoOrder}] /\ stored \in [Ids -> Order \cup {NoOrder}]
      /\ SlotTypeOK
      /\ \A e \in events : e.cid \in Ids /\ e.cum \in Nat
  BY DEF Before, SlotTypeOK
<1>2. /\ \A d \in Ids \ {c} : orders'[d] = orders[d] /\ stored'[d] = stored[d]
      /\ stored'[c].applied = stored[c].applied
      /\ task'.at = "placing" /\ task'.cid = c
  BY <1>1, SendKeeps
<1>3. orders' = [orders EXCEPT ![c] = intent]
  BY DEF Send, UpsertOrder
<1>4. orders'[c] = intent
  BY <1>1, <1>3
<1>5. orders'[c] # NoOrder /\ orders'[c].applied = 0 /\ orders'[c].status = "SUBMITTING"
  BY <1>4 DEF NoOrder
<1>6. OrderRuns(c) /\ xchg[c].cum = 0 /\ xchg[c].status = "NONE"
  BY DEF OrdersRun, OrderRuns, Taken
<1>7. \/ /\ xchg' = [xchg EXCEPT ![c] = [status |-> "NEW", cum |-> 0, qty |-> q]]
         /\ events' = events \cup {[cid |-> c, status |-> "NEW", cum |-> 0]}
         /\ task' = [At("placing", c) EXCEPT !.taken = TRUE]
      \/ task' = At("placing", c) /\ UNCHANGED <<xchg, events>>
  BY Zenon DEF Send
<1>8. [At("placing", c) EXCEPT !.taken = TRUE].taken /\ ~At("placing", c).taken
  BY DEF At, Idle
<1> HIDE DEF intent
<1>9. CASE /\ xchg' = [xchg EXCEPT ![c] = [status |-> "NEW", cum |-> 0, qty |-> q]]
           /\ events' = events \cup {[cid |-> c, status |-> "NEW", cum |-> 0]}
           /\ task' = [At("placing", c) EXCEPT !.taken = TRUE]
  <2>1. /\ xchg'[c].status = "NEW" /\ xchg'[c].cum = 0 /\ xchg'[c].qty = q
        /\ \A d \in Ids \ {c} : xchg'[d] = xchg[d]
    BY <1>1, <1>9
  <2>2. task'.taken /\ Taken(c)'
    BY <1>8, <1>9, <2>1, Zenon DEF Taken
  <2>3. OrderRuns(c)'
    BY <1>5, <2>1 DEF OrderRuns, Taken, Live
  <2>4. ASSUME NEW d \in Ids \ {c} PROVE OrderRuns(d)'
    BY <1>2, <2>1 DEF OrdersRun, OrderRuns, Taken
  <2>5. OrdersRun'
    BY <2>3, <2>4 DEF OrdersRun
  <2>6. ASSUME NEW e \in events
        PROVE  xchg'[e.cid].status # "NONE" /\ e.status \in Live /\ e.cum <= xchg'[e.cid].cum
    <3>1. Taken(e.cid) /\ e.cid \in Ids \ {c}
      BY <1>1 DEF EventsRun, Taken
    <3> QED
      BY <2>1, <3>1 DEF EventsRun, Taken
  <2>7. EventsRun'
    BY <1>9, <2>1, <2>6 DEF EventsRun, Taken, Live
  <2> QED
    BY <1>2, <1>5, <1>6, <2>1, <2>2, <2>5, <2>7
<1>10. CASE task' = At("placing", c) /\ UNCHANGED <<xchg, events>>
  <2>1. ~task'.taken /\ ~Taken(c)'
    BY <1>8, <1>10, Zenon DEF Taken
  <2>2. OrderRuns(c)'
    BY <1>5, <1>6, <1>10, <2>1 DEF OrderRuns, Taken
  <2>3. ASSUME NEW d \in Ids \ {c} PROVE OrderRuns(d)'
    BY <1>2, <1>10 DEF OrdersRun, OrderRuns, Taken
  <2>4. OrdersRun'
    BY <2>2, <2>3 DEF OrdersRun
  <2>5. EventsRun'
    BY <1>10 DEF EventsRun, Taken
  <2> QED
    BY <1>2, <1>5, <1>10, <2>1, <2>4, <2>5
<1> QED
  BY <1>7, <1>9, <1>10

\* No lot traded: the account still holds what it held.
LEMMA NetStays ==
    ASSUME NetIsPosition, xpos' = xpos,
           \A s \in Signals : /\ xchg'[Entry(s)].cum = xchg[Entry(s)].cum
                              /\ xchg'[Exit(s)].cum = xchg[Exit(s)].cum
    PROVE  NetIsPosition'
<1>1. [s \in Signals |-> xchg'[Entry(s)].cum - xchg'[Exit(s)].cum]
         = [s \in Signals |-> xchg[Entry(s)].cum - xchg[Exit(s)].cum]
  OBVIOUS
<1> QED
  BY <1>1 DEF NetIsPosition, Flow, Net, Entry, Exit

\* A signal that was never entered has no exit and no slot.
LEMMA EnterRuns ==
    ASSUME Before, Runs, SlotTypeOK', NEW s \in Signals, Enter(s)
    PROVE  Runs'
<1> DEFINE c == Entry(s)
<1>1. /\ SlotTypeOK /\ OrdersRun /\ ExitsRun /\ SlotsRun /\ TaskRuns /\ EventsRun
      /\ NetIsPosition /\ Lots[s] \in Nat \ {0} /\ c \in Ids
  BY IdsAre, LotsAssumption DEF Before, Runs
<1>2. /\ task.at = "idle" /\ orders[c] = NoOrder /\ Send(c, Lots[s])
      /\ UNCHANGED <<xpos, pos, slots, mapped, unknown, causes>>
  BY DEF Enter
<1>3. ~Taken(c) /\ xchg[c].cum = 0
  BY <1>1, <1>2 DEF OrdersRun, OrderRuns
<1> HIDE DEF c
<1>4. /\ OrdersRun' /\ EventsRun'
      /\ \A d \in Ids : stored'[d].applied = stored[d].applied /\ xchg'[d].cum = xchg[d].cum
      /\ \A d \in Ids \ {c} : orders'[d] = orders[d] /\ xchg'[d] = xchg[d]
      /\ task'.at = "placing" /\ task'.cid = c
      /\ (task'.taken /\ Taken(c)') \/ ~task'.taken
  BY <1>1, <1>2, <1>3, SendOrders
<1>5. \A t \in Signals : Entry(t) \in Ids /\ Exit(t) \in Ids \ {c} /\ (Entry(t) = c => t = s)
  BY IdsAre DEF c
<1>6. NetIsPosition'
  BY <1>1, <1>2, <1>4, <1>5, NetStays
<1>7. ExitsRun'
  <2> SUFFICES ASSUME NEW t \in Signals PROVE ExitRuns(t)'
    BY DEF ExitsRun
  <2>1. ExitRuns(t) /\ ~Unanswered(t) /\ orders'[Exit(t)] = orders[Exit(t)]
        /\ xchg'[Exit(t)] = xchg[Exit(t)] /\ xchg'[Entry(t)].cum = xchg[Entry(t)].cum
        /\ stored'[Entry(t)].applied = stored[Entry(t)].applied
    BY <1>1, <1>2, <1>4, <1>5 DEF ExitsRun, Unanswered
  <2> QED
    BY <1>2, <2>1 DEF ExitRuns, IsSent, Taken, Exit, Entry
<1>8. SlotsRun'
  <2> SUFFICES ASSUME NEW t \in Held PROVE SlotRuns(t)'
    BY <1>2 DEF SlotsRun, Held, NoSlot
  <2>1. SlotRuns(t) /\ t \in Signals /\ orders'[Exit(t)] = orders[Exit(t)]
        /\ xchg'[Entry(t)].cum = xchg[Entry(t)].cum
    BY <1>1, <1>4, <1>5 DEF SlotsRun, Held
  <2> QED
    BY <1>2, <1>4, <2>1 DEF SlotRuns, InHand, Exit, Entry
<1>9. TaskRuns'
  BY <1>4 DEF TaskRuns, Taken
<1> QED
  BY <1>4, <1>6, <1>7, <1>8, <1>9 DEF Runs

(* The exit of a slot that has none yet is for all of its lots: nobody     *)
(* sold them, so that the account holds them.                              *)
LEMMA SendExitRuns ==
    ASSUME Before, Runs, SlotTypeOK', SendExit
    PROVE  Runs'
<1>1. /\ SlotTypeOK /\ OrdersRun /\ ExitsRun /\ SlotsRun /\ TaskRuns /\ EventsRun
      /\ NetIsPosition /\ HeldAreBooked
  BY DEF Before, Runs
<1>2. task.at = "exiting" /\ task.cid \in Ids /\ ~IsEntry(task.cid)
  BY DEF Before, SlotTypeInv, TaskFits, SendExit
<1>0. PICK s \in Signals : s = task.cid[1] /\ s \in Held
  BY <1>1, <1>2 DEF TaskRuns, Held
<1>00. PICK c \in Ids : c = Exit(s) /\ c = task.cid
  BY <1>2, <1>0, ExitIds
<1>3. task.cid = c /\ s \in Held /\ s \in Signals /\ c \in Ids /\ Exit(s) = c
  BY <1>0, <1>00
<1>4. /\ ExitQty(s) > 0 /\ ~IsSent(c) /\ Send(c, ExitQty(s)) /\ mapped' = mapped \cup {s}
      /\ UNCHANGED <<xpos, pos, slots, unknown, causes>>
  BY <1>0, <1>00, Zenon DEF SendExit, MayExit
<1>5. /\ SlotRuns(s) /\ ExitRuns(s) /\ OrderRuns(c) /\ stored[Entry(s)].applied > 0
  BY <1>1, <1>3 DEF SlotsRun, ExitsRun, OrdersRun, HeldAreBooked
<1>6. ~Taken(c) /\ orders[c] = NoOrder /\ xchg[c].cum = 0
  BY <1>2, <1>3, <1>4, <1>5 DEF ExitRuns, OrderRuns, Unanswered
<1>7. slots[s].lots = Lots[s] /\ xchg[Entry(s)].cum = Lots[s] /\ Lots[s] \in Nat \ {0}
  <2>1. InHand(s) = 0 /\ orders[Exit(s)].applied = 0
    BY <1>2, <1>3, <1>6 DEF InHand, NoOrder
  <2>2. Lots[s] \in Nat \ {0} /\ slots[s].lots \in Nat
    BY <1>1, <1>3, LotsAssumption, ShapesAre
  <2> QED
    BY <1>5, <2>1, <2>2 DEF SlotRuns
<1>8. ExitQty(s) = Lots[s]
  <2>1. Net(s) = Lots[s]
    BY <1>3, <1>6, <1>7 DEF Net
  <2>2. Net(s) <= xpos /\ xpos \in Nat
    BY <1>1, <1>3, NetIsHeld DEF NetIsPosition
  <2> QED
    BY <1>7, <2>1, <2>2 DEF ExitQty, Smaller
<1>9. /\ OrdersRun' /\ EventsRun'
      /\ orders'[c].status = "SUBMITTING" /\ orders'[c].applied = 0
      /\ \A d \in Ids : stored'[d].applied = stored[d].applied /\ xchg'[d].cum = xchg[d].cum
      /\ \A d \in Ids \ {c} : orders'[d] = orders[d] /\ xchg'[d] = xchg[d]
      /\ task'.at = "placing" /\ task'.cid = c
      /\ (task'.taken /\ Taken(c)' /\ xchg'[c].qty = Lots[s]) \/ (~task'.taken /\ ~Taken(c)')
  BY <1>1, <1>3, <1>4, <1>6, <1>7, <1>8, SendOrders
<1>10. /\ \A t \in Signals : Entry(t) \in Ids \ {c} /\ Exit(t) \in Ids /\ (t # s => Exit(t) # c)
       /\ Exit(s) = c
  BY <1>3, IdsAre DEF Exit, Entry
<1>11. NetIsPosition'
  BY <1>1, <1>4, <1>9, <1>10, NetStays
<1>12. ExitsRun'
  <2> SUFFICES ASSUME NEW t \in Signals PROVE ExitRuns(t)'
    BY DEF ExitsRun
  <2>1. CASE t = s
    <3>1. xchg'[Entry(s)].cum = Lots[s] /\ stored'[Entry(s)].applied > 0 /\ s \in mapped'
      BY <1>3, <1>4, <1>5, <1>7, <1>9, <1>10
    <3>2. IsSent(c)'
      BY <1>9 DEF IsSent
    <3>3. Taken(c)' => xchg'[c].qty = Lots[s]
      BY <1>9
    <3>4. Taken(c)' \/ Unanswered(s)'
      BY <1>9, <1>10 DEF Unanswered, Exit
    <3> QED
      BY <2>1, <3>1, <3>2, <3>3, <3>4, <1>3, Zenon DEF ExitRuns, Exit, Entry
  <2>2. CASE t # s
    <3>1. ExitRuns(t) /\ ~Unanswered(t) /\ orders'[Exit(t)] = orders[Exit(t)]
          /\ xchg'[Exit(t)] = xchg[Exit(t)] /\ xchg'[Entry(t)].cum = xchg[Entry(t)].cum
          /\ stored'[Entry(t)].applied = stored[Entry(t)].applied
      BY <1>1, <1>2, <1>9, <1>10, <2>2 DEF ExitsRun, Unanswered
    <3> QED
      BY <1>4, <3>1 DEF ExitRuns, IsSent, Taken, Exit, Entry
  <2> QED
    BY <2>1, <2>2
<1>13. SlotsRun'
  <2> SUFFICES ASSUME NEW t \in Held PROVE SlotRuns(t)'
    BY <1>4 DEF SlotsRun, Held, NoSlot
  <2>1. SlotRuns(t) /\ t \in Signals /\ xchg'[Entry(t)].cum = xchg[Entry(t)].cum
        /\ orders'[Exit(t)].applied = orders[Exit(t)].applied
        /\ InHand(t) = 0 /\ InHand(t)' = 0
    BY <1>1, <1>2, <1>6, <1>9, <1>10 DEF SlotsRun, Held, InHand, NoOrder
  <2>2. slots[t].state = "EXIT_PENDING" => orders'[Exit(t)] # NoOrder
    <3>1. CASE t = s
      BY <1>9, <1>10, <3>1 DEF NoOrder
    <3>2. CASE t # s
      BY <1>3, <1>9, <1>10, <2>1, <3>2 DEF SlotRuns
    <3> QED
      BY <3>1, <3>2
  <2> QED
    BY <1>4, <2>1, <2>2 DEF SlotRuns, Exit, Entry
<1>14. TaskRuns'
  BY <1>9 DEF TaskRuns, Taken
<1> QED
  BY <1>9, <1>11, <1>12, <1>13, <1>14 DEF Runs

\* A step of a handler that leaves the exchange and the orders alone.
LEMMA QuietRuns ==
    ASSUME Before, Runs, SlotTypeOK', UNCHANGED <<exchange, ledger, mapped>>,
           task.at \in {"idle", "exiting"}, task'.at \in {"idle", "exiting"},
           task'.at = "exiting" => task'.cid[1] \in Held',
           \A t \in Signals :
              /\ slots'[t].lots = slots[t].lots /\ (slots'[t] # NoSlot => slots[t] # NoSlot)
              /\ slots'[t] # NoSlot /\ slots'[t].state = "EXIT_PENDING" =>
                    orders[Exit(t)] # NoOrder \/ (task'.at = "exiting" /\ task'.cid = Exit(t))
    PROVE  Runs'
<1>1. OrdersRun' /\ EventsRun'
  BY DEF Runs, OrdersRun, OrderRuns, EventsRun, exchange, ledger, Taken
<1>2. NetIsPosition'
  BY NetStays DEF Runs, exchange
<1>3. ExitsRun'
  BY DEF Runs, ExitsRun, ExitRuns, exchange, ledger, Taken, Exit, Entry, IsSent, Unanswered
<1>4. SlotsRun'
  <2> SUFFICES ASSUME NEW t \in Signals, slots'[t] # NoSlot PROVE SlotRuns(t)'
    BY DEF SlotsRun, Held, NoSlot
  <2>1. SlotRuns(t)
    BY DEF Runs, SlotsRun, Held
  <2> QED
    BY <2>1 DEF SlotRuns, exchange, ledger, InHand, Exit, Entry
<1>5. TaskRuns'
  BY DEF TaskRuns
<1> QED
  BY <1>1, <1>2, <1>3, <1>4, <1>5 DEF Runs

\* A barrier is hit; the exit is blocked, and watched again, or at work already.
LEMMA ExitingRuns ==
    ASSUME Before, Runs, SlotTypeOK',
           ExitBlocked \/ ExitTracked \/ \E s \in Signals : Trigger(s)
    PROVE  Runs'
<1>1. /\ SlotTypeOK /\ SlotsRun /\ ExitsRun
      /\ slots \in [Signals -> [state : {"NONE", "OPEN", "EXIT_PENDING"}, lots : Nat]]
      /\ \A t \in Signals : Exit(t) \in Ids
  BY IdsAre DEF Before, Runs, SlotTypeOK
<1>2. ASSUME NEW t \in Signals, slots[t] # NoSlot, slots[t].state = "EXIT_PENDING"
      PROVE  orders[Exit(t)] # NoOrder \/ (task.at = "exiting" /\ task.cid = Exit(t))
  BY <1>1, <1>2 DEF SlotsRun, SlotRuns, Held
<1>3. CASE ExitBlocked
  <2> DEFINE s == task.cid[1]
  <2>1. /\ task.at = "exiting" /\ NoOrderSent(task.cid) /\ task' = Idle
        /\ UNCHANGED <<exchange, ledger, mapped, unknown, causes>>
    BY <1>3 DEF ExitBlocked, NoOrderSent
  <2>2. task.cid \in Ids /\ ~IsEntry(task.cid) /\ task.cid = Exit(s) /\ s \in Signals
    BY <2>1, IdsAre, ExitIds DEF Before, SlotTypeInv, TaskFits
  <2>3. slots' = Reopened(s)
    BY <2>1, <2>2 DEF NoOrderSent
  <2>4. task'.at = "idle"
    BY <2>1 DEF Idle
  <2> HIDE DEF s
  <2>5. /\ slots'[s].state # "EXIT_PENDING" /\ slots'[s].lots = slots[s].lots
        /\ slots'[s] # NoSlot => slots[s] # NoSlot
        /\ \A t \in Signals \ {s} : slots'[t] = slots[t]
    BY <1>1, <2>2, <2>3 DEF Reopened, NoSlot
  <2>6. ASSUME NEW t \in Signals
        PROVE  /\ slots'[t].lots = slots[t].lots /\ (slots'[t] # NoSlot => slots[t] # NoSlot)
               /\ slots'[t] # NoSlot /\ slots'[t].state = "EXIT_PENDING" =>
                     orders[Exit(t)] # NoOrder \/ (task'.at = "exiting" /\ task'.cid = Exit(t))
    <3>1. CASE t = s
      BY <2>5, <3>1
    <3>2. CASE t # s
      <4>1. Exit(t) # Exit(s) /\ slots'[t] = slots[t]
        BY <2>5, <3>2 DEF Exit
      <4> QED
        BY <1>2, <2>2, <4>1
    <3> QED
      BY <3>1, <3>2
  <2> QED
    BY <2>1, <2>4, <2>6, QuietRuns
<1>4. CASE ExitTracked
  <2>1. /\ task.at = "exiting" /\ IsSent(task.cid) /\ task' = Idle
        /\ UNCHANGED <<exchange, ledger, slots, mapped, unknown, causes>>
    BY <1>4 DEF ExitTracked
  <2>2. task'.at = "idle"
    BY <2>1 DEF Idle
  <2>3. orders[task.cid] # NoOrder
    BY <2>1 DEF IsSent, NoOrder
  <2>4. \A t \in Signals : slots[t] # NoSlot /\ slots[t].state = "EXIT_PENDING" =>
                              orders[Exit(t)] # NoOrder
    BY <1>2, <2>3
  <2> QED
    BY <2>1, <2>2, <2>4, QuietRuns
<1>5. ASSUME NEW s \in Signals, Trigger(s) PROVE Runs'
  <2>1. /\ task.at = "idle" /\ slots[s] # NoSlot
        /\ slots' = [slots EXCEPT ![s] = [slots[s] EXCEPT !.state = "EXIT_PENDING"]]
        /\ task' = At("exiting", Exit(s))
        /\ UNCHANGED <<exchange, ledger, mapped, unknown, causes>>
    BY <1>1, <1>5 DEF Trigger, Watched, Held
  <2>2. task'.at = "exiting" /\ task'.cid = Exit(s) /\ Exit(s)[1] = s
    BY <2>1, IdsAre DEF At, Idle
  <2>3. /\ slots'[s].lots = slots[s].lots /\ slots'[s].state = "EXIT_PENDING"
        /\ \A t \in Signals \ {s} : slots'[t] = slots[t]
    BY <1>1, <2>1
  <2>4. slots'[s] # NoSlot
    BY <2>3 DEF NoSlot
  <2>5. ASSUME NEW t \in Signals
        PROVE  /\ slots'[t].lots = slots[t].lots /\ (slots'[t] # NoSlot => slots[t] # NoSlot)
               /\ slots'[t] # NoSlot /\ slots'[t].state = "EXIT_PENDING" =>
                     orders[Exit(t)] # NoOrder \/ (task'.at = "exiting" /\ task'.cid = Exit(t))
    <3>1. CASE t = s
      BY <2>1, <2>2, <2>3, <3>1
    <3>2. CASE t # s
      BY <1>2, <2>1, <2>3, <3>2
    <3> QED
      BY <3>1, <3>2
  <2>6. s \in Held'
    BY <2>4 DEF Held, NoSlot
  <2> QED
    BY <2>1, <2>2, <2>5, <2>6, QuietRuns
<1> QED
  BY <1>3, <1>4, <1>5

\* A report of an order the exchange took is booked, no more than it filled.
LEMMA BookingRuns ==
    ASSUME Before, Runs, SlotTypeOK', NEW c \in Ids, NEW status \in Live, NEW cum \in Nat,
           Book(c, status, cum), UNCHANGED <<exchange, slots, mapped>>,
           Taken(c), cum <= xchg[c].cum,
           task.at = "idle" \/ (task.at = "placing" /\ task.taken),
           \/ task'.at = "slotting" /\ task'.cid = c /\ task'.lots = Moved(c, cum)
           \/ task'.at = "idle" /\ Moved(c, cum) = 0
    PROVE  Runs'
<1>1. /\ SlotTypeOK /\ OrdersRun /\ ExitsRun /\ SlotsRun /\ TaskRuns /\ EventsRun
      /\ NetIsPosition /\ EntriesFit /\ Balanced /\ HoldInv
  BY DEF Before, Runs
<1>2. status \in Status
  BY DEF Live, Status, Open, Terminal
<1>3. /\ orders'[c] \in Order /\ stored'[c] = orders'[c]
      /\ orders'[c].applied = Larger(Tracked(c).applied, cum)
      /\ \A d \in Ids \ {c} : orders'[d] = orders[d] /\ stored'[d] = stored[d]
  BY <1>1, <1>2, BookKeeps
<1>4. OrderRuns(c) /\ orders[c] # NoOrder /\ Tracked(c) = orders[c] /\ orders[c] \in Order
  BY <1>1, TrackedIsOrder DEF OrdersRun, OrderRuns
<1>5. orders'[c].status \in {orders[c].status, status} /\ orders'[c] # NoOrder
  <2>1. orders'[c] = Merge(orders[c], status, cum)
    <3>1. orders \in [Ids -> Order \cup {NoOrder}]
      BY <1>1 DEF SlotTypeOK
    <3> QED
      BY <1>4, <3>1 DEF Book
  <2> QED
    BY <1>2, <1>3, <1>4, <2>1, MergeStatus, ReportsAreStatuses
<1>6. /\ orders[c].applied \in Nat /\ xchg[c].cum \in Nat /\ pos \in Nat
      /\ orders'[c].applied = Larger(orders[c].applied, cum)
      /\ \A d \in Ids : orders[d].applied \in Nat /\ stored[d].applied \in Nat
                        /\ xchg[d].cum \in Nat /\ xchg[d].qty \in Nat
      /\ UNCHANGED <<xchg, xpos, events>>
  BY <1>1, <1>3, <1>4, ShapesAre DEF exchange
<1>7. OrdersRun'
  <2>1. OrderRuns(c)'
    BY <1>4, <1>5, <1>6 DEF OrderRuns, Taken, Larger
  <2>2. ASSUME NEW d \in Ids \ {c} PROVE OrderRuns(d)'
    BY <1>1, <1>3, <1>6 DEF OrdersRun, OrderRuns, Taken
  <2> QED
    BY <2>1, <2>2 DEF OrdersRun
<1>8. EventsRun' /\ NetIsPosition'
  BY <1>1, <1>6, NetStays DEF EventsRun, Taken
<1>9. \A t \in Signals : /\ Entry(t) \in Ids /\ Exit(t) \in Ids /\ Lots[t] \in Nat \ {0}
                         /\ Entry(t) # Exit(t) /\ IsEntry(Entry(t)) /\ ~IsEntry(Exit(t))
  BY IdsAre, LotsAssumption
<1>10. ASSUME NEW t \in Signals PROVE ExitRuns(t) /\ ~Unanswered(t)
  BY <1>1 DEF ExitsRun, Unanswered
<1>11. ASSUME NEW t \in Signals, orders[Exit(t)] # NoOrder
       PROVE  stored'[Entry(t)].applied > 0
  <2>1. stored[Entry(t)].applied > 0 /\ stored[Entry(t)].applied \in Nat
    BY <1>6, <1>9, <1>10, <1>11 DEF ExitRuns
  <2>2. CASE Entry(t) = c
    <3>1. orders[c].applied = stored[c].applied
      BY <1>1, <1>4, <2>2 DEF HoldInv, BookedInStore
    <3> QED
      BY <1>3, <1>6, <2>1, <2>2, <3>1 DEF Larger
  <2>3. CASE Entry(t) # c
    BY <1>3, <1>9, <2>1, <2>3
  <2> QED
    BY <2>2, <2>3
<1>12. ExitsRun'
  <2> SUFFICES ASSUME NEW t \in Signals PROVE ExitRuns(t)'
    BY DEF ExitsRun
  <2>1. orders'[Exit(t)] # NoOrder => orders[Exit(t)] # NoOrder
    BY <1>3, <1>4, <1>9
  <2>2. IsSent(Exit(t)) => orders'[Exit(t)].status \in {"SUBMITTING", "NEW", "PARTIALLY_FILLED", "FILLED"}
    BY <1>3, <1>5, <1>9 DEF IsSent, Live
  <2>3. xchg' = xchg /\ mapped' = mapped
    BY <1>6
  <2> QED
    BY <1>10, <1>11, <2>1, <2>2, <2>3 DEF ExitRuns, IsSent, Taken, Exit, Entry
<1>13. SlotsRun'
  <2> SUFFICES ASSUME NEW t \in Held PROVE SlotRuns(t)'
    BY DEF SlotsRun, Held, NoSlot
  <2>1. SlotRuns(t) /\ t \in Signals /\ InHand(t) = 0 /\ slots[t].lots \in Nat
    BY <1>1, ShapesAre DEF SlotsRun, Held, InHand
  <2>2. orders[Exit(t)] # NoOrder => orders'[Exit(t)] # NoOrder
    BY <1>3, <1>5, <1>9, <2>1
  <2>3. slots'[t].state = "EXIT_PENDING" => orders'[Exit(t)] # NoOrder
    BY <2>1, <2>2 DEF SlotRuns
  <2>4. slots[t].lots + orders'[Exit(t)].applied = Lots[t] + InHand(t)'
    <3>1. CASE Exit(t) = c
      <4>1. ~IsEntry(c) /\ xchg[c].qty = Lots[t] /\ xchg[c].cum <= Lots[t]
        BY <1>4, <1>6, <1>9, <1>10, <2>1, <3>1 DEF ExitRuns, OrderRuns, Live, Taken
      <4>2. slots[t].lots <= pos
        BY <1>1, <2>1, SlotInTotal DEF Balanced
      <4>3. slots[t].lots + orders[c].applied = Lots[t] /\ Lots[t] \in Nat
        BY <1>6, <1>9, <2>1, <3>1 DEF SlotRuns
      <4>4. orders'[c].applied = orders[c].applied + Moved(c, cum)
        BY <1>4, <1>6, <2>1, <4>1, <4>2, <4>3 DEF Moved, Smaller, Larger
      <4>5. InHand(t)' = Moved(c, cum)
        BY <3>1 DEF InHand, Exit
      <4>6. Moved(c, cum) \in Nat
        BY <1>1, MovedIsBooked
      <4> QED
        BY <1>6, <2>1, <3>1, <4>3, <4>4, <4>5, <4>6
    <3>2. CASE Exit(t) # c
      <4>1. InHand(t)' = 0
        BY <3>2 DEF InHand, Exit
      <4> QED
        BY <1>3, <1>9, <2>1, <3>2, <4>1 DEF SlotRuns
    <3> QED
      BY <3>1, <3>2
  <2> QED
    BY <1>6, <2>1, <2>3, <2>4 DEF SlotRuns, Exit, Entry
<1>14. TaskRuns'
  <2>1. ASSUME NEW t \in Signals, task'.at = "slotting", task'.cid = Entry(t),
               task'.lots >= Lots[t]
        PROVE  orders'[Exit(t)] = NoOrder
    <3>1. c = Entry(t) /\ IsEntry(c) /\ task'.lots = Moved(c, cum) /\ Lots[t] \in Nat \ {0}
      BY <1>9, <2>1
    <3>2. xchg[c].cum <= Lots[t] /\ orders[c].applied = stored[c].applied
      BY <1>1, <1>4, <3>1 DEF EntriesFit, HoldInv, BookedInStore
    <3>3. Moved(c, cum) = IF cum > orders[c].applied THEN cum - orders[c].applied ELSE 0
      BY <1>4, <3>1 DEF Moved
    <3>4. ~(orders[c].applied > 0)
      BY <1>6, <2>1, <3>1, <3>2, <3>3
    <3>5. orders[Exit(t)] = NoOrder
      BY <1>10, <3>1, <3>2, <3>4 DEF ExitRuns
    <3> QED
      BY <1>3, <1>9, <3>1, <3>5
  <2> QED
    BY <2>1 DEF TaskRuns, Exit, Entry
<1> QED
  BY <1>7, <1>8, <1>12, <1>13, <1>14 DEF Runs

\* An answer without a fill, and the refusal of an entry: the order goes on.
LEMMA AnswerRuns ==
    ASSUME Before, Runs, SlotTypeOK', NEW c \in Ids,
           UNCHANGED <<exchange, slots, mapped>>, task.at = "placing", task.cid = c,
           task.taken \/ IsEntry(c), task'.at = "idle",
           orders'[c] # NoOrder, orders'[c].applied = orders[c].applied,
           ~IsEntry(c) /\ IsSent(c) => IsSent(c)', stored'[c].applied = stored[c].applied,
           \A d \in Ids \ {c} : orders'[d] = orders[d] /\ stored'[d] = stored[d]
    PROVE  Runs'
<1>1. /\ SlotTypeOK /\ OrdersRun /\ ExitsRun /\ SlotsRun /\ TaskRuns /\ EventsRun
      /\ NetIsPosition /\ UNCHANGED <<xchg, xpos, events>>
  BY DEF Before, Runs, exchange
<1>2. orders[c] # NoOrder
  BY DEF Before, SlotTypeInv, TaskFits
<1>3. \A t \in Signals : /\ Entry(t) \in Ids /\ Exit(t) \in Ids /\ ~IsEntry(Exit(t))
  BY IdsAre
<1>4. \A d \in Ids : /\ orders'[d].applied = orders[d].applied
                     /\ stored'[d].applied = stored[d].applied
                     /\ orders'[d] = NoOrder <=> orders[d] = NoOrder
  BY <1>2
<1>5. OrdersRun'
  BY <1>1, <1>4 DEF OrdersRun, OrderRuns, Taken
<1>6. EventsRun' /\ NetIsPosition'
  BY <1>1, NetStays DEF EventsRun, Taken
<1>7. ExitsRun'
  <2> SUFFICES ASSUME NEW t \in Signals PROVE ExitRuns(t)'
    BY DEF ExitsRun
  <2>1. ExitRuns(t) /\ ~Unanswered(t)
    BY <1>1, <1>3 DEF ExitsRun, Unanswered
  <2>2. IsSent(Exit(t)) => IsSent(Exit(t))'
    <3>1. CASE Exit(t) = c
      BY <1>3, <3>1 DEF IsSent, Exit
    <3>2. CASE Exit(t) # c
      BY <1>3, <3>2 DEF IsSent, Exit
    <3> QED
      BY <3>1, <3>2
  <2>3. /\ stored'[Entry(t)].applied = stored[Entry(t)].applied
        /\ orders'[Exit(t)] = NoOrder <=> orders[Exit(t)] = NoOrder
    BY <1>3, <1>4
  <2>4. IsSent(Exit(t))' <=> orders'[Exit(t)].status \in
                                {"SUBMITTING", "NEW", "PARTIALLY_FILLED", "FILLED"}
    BY DEF IsSent, Exit
  <2> QED
    BY <1>1, <2>1, <2>2, <2>3, <2>4 DEF ExitRuns, IsSent, Taken, Exit, Entry
<1>8. SlotsRun'
  <2> SUFFICES ASSUME NEW t \in Held PROVE SlotRuns(t)'
    BY DEF SlotsRun, Held, NoSlot
  <2>1. /\ SlotRuns(t) /\ t \in Signals /\ InHand(t) = 0
        /\ orders'[Exit(t)].applied = orders[Exit(t)].applied
        /\ orders'[Exit(t)] = NoOrder <=> orders[Exit(t)] = NoOrder
    BY <1>1, <1>3, <1>4 DEF SlotsRun, Held, InHand
  <2>2. InHand(t)' = 0
    BY DEF InHand
  <2>3. slots[t].state = "EXIT_PENDING" => orders'[Exit(t)] # NoOrder
    BY <2>1 DEF SlotRuns
  <2>4. slots[t].lots + orders'[Exit(t)].applied = Lots[t] + 0
    BY <2>1 DEF SlotRuns
  <2> QED
    BY <1>1, <2>1, <2>2, <2>3, <2>4 DEF SlotRuns, Exit, Entry
<1>9. TaskRuns'
  BY DEF TaskRuns
<1> QED
  BY <1>5, <1>6, <1>7, <1>8, <1>9 DEF Runs

\* Without doubts and refused exits an order is filled, working or refused as an entry.
LEMMA OutcomeRuns ==
    ASSUME Before, Runs, SlotTypeOK', Outcome, causes = {}, causes' = {}
    PROVE  Runs'
<1>1. ~PlacementUnknown
  BY DEF PlacementUnknown
<1>2. task.at # "resolving"
  BY DEF Before, InDoubt
<1>3. /\ SlotTypeOK /\ OrdersRun /\ TaskRuns /\ task.cid \in Ids /\ orders[task.cid] # NoOrder
  BY OutcomeAnswers DEF Before, Runs
<1> PICK c \in Ids : c = task.cid
  BY <1>3
<1>4. /\ orders[c] \in Order /\ xchg[c].cum \in Nat /\ OrderRuns(c)
      /\ xchg[c].status \in ReportStatus \cup {"NONE"} /\ stored[c].applied \in Nat
      /\ orders \in [Ids -> Order \cup {NoOrder}] /\ stored \in [Ids -> Order \cup {NoOrder}]
  BY <1>3, ShapesAre DEF OrdersRun, SlotTypeOK
<1>5. CASE RespondFilled
  <2>1. /\ task.at = "placing" /\ task.taken /\ xchg[c].status \in Executing
        /\ Book(c, xchg[c].status, xchg[c].cum)
        /\ task' = Slotting(c, Moved(c, xchg[c].cum), FALSE)
        /\ UNCHANGED <<exchange, slots, mapped>>
    BY <1>5 DEF RespondFilled
  <2>2. Moved(c, xchg[c].cum) \in Nat
    BY <1>3, <1>4, MovedIsBooked
  <2>3. /\ task'.at = "slotting" /\ task'.cid = c /\ task'.lots = Moved(c, xchg[c].cum)
    BY <2>1 DEF Slotting, At, Idle
  <2>4. Taken(c) /\ xchg[c].status \in Live /\ xchg[c].cum <= xchg[c].cum
    BY <1>4, <2>1 DEF Executing, Live, Taken
  <2> QED
    BY <1>4, <2>1, <2>3, <2>4, BookingRuns
<1>6. CASE RespondOpen
  <2> DEFINE answer == Resaved(c, 0)
             kept == Resaved(c, stored[c].applied)
  <2>1. /\ task.at = "placing" /\ task.taken /\ xchg[c].status \in ReportStatus \ Executing
        /\ orders' = [orders EXCEPT ![c] = UpsertOrder(orders[c], answer)]
        /\ stored' = [stored EXCEPT ![c] = kept]
        /\ xchg[c].status # "CANCELED" => task' = Idle /\ UNCHANGED slots
        /\ UNCHANGED <<exchange, pos, mapped>>
    BY <1>6 DEF RespondOpen
  <2>2. xchg[c].status = "NEW"
    BY <1>4, <2>1 DEF OrderRuns, Live, Executing, ReportStatus
  <2>3. /\ answer \in Order /\ answer.applied = 0 /\ answer.status = "NEW"
        /\ answer.filled = xchg[c].cum
        /\ kept \in Order /\ kept.applied = stored[c].applied
    BY <1>3, <1>4, <2>1, <2>2, ResavedIsOrder DEF Resaved
  <2> HIDE DEF answer, kept
  <2>4. /\ UpsertOrder(orders[c], answer) \in Order
        /\ UpsertOrder(orders[c], answer).applied = orders[c].applied
    BY <1>4, <2>3, UpsertKeeps
  <2>5. UpsertOrder(orders[c], answer).status \in {orders[c].status, "NEW"}
    <3>1. UpsertOrder(orders[c], answer) = TransitionStatus(orders[c], "NEW", xchg[c].cum)
      BY <1>3, <2>3 DEF UpsertOrder
    <3>2. "NEW" \in Status
      BY DEF Status, Open, Terminal
    <3> QED
      BY <1>4, <3>1, <3>2, MergeStatus
  <2>6. /\ orders'[c] = UpsertOrder(orders[c], answer) /\ stored'[c] = kept
        /\ \A d \in Ids \ {c} : orders'[d] = orders[d] /\ stored'[d] = stored[d]
    BY <1>4, <2>1
  <2>7. IsSent(c) => IsSent(c)'
    BY <2>5, <2>6 DEF IsSent
  <2>8. task'.at = "idle" /\ UNCHANGED slots
    BY <2>1, <2>2 DEF Idle
  <2>9. orders'[c] # NoOrder /\ orders'[c].applied = orders[c].applied
        /\ stored'[c].applied = stored[c].applied
    BY <2>3, <2>4, <2>6, ReportsAreStatuses
  <2> QED
    BY <2>1, <2>6, <2>7, <2>8, <2>9, AnswerRuns
<1>7. CASE PlacementFails
  <2> DEFINE o == TransitionStatus(orders[c], "REJECTED", 0)
  <2>1. /\ task.at = "placing"
        /\ orders' = [orders EXCEPT ![c] = o] /\ UNCHANGED <<exchange, stored, pos, mapped>>
        /\ NoOrderSent(c) /\ IsEntry(c)
    BY <1>7 DEF PlacementFails
  <2>2. o \in Order /\ o.applied = orders[c].applied
    <3>1. orders[c] \in Order /\ "REJECTED" \in Status /\ 0 \in Nat
      BY <1>4, ReportsAreStatuses
    <3> QED
      BY <3>1, TransitionKeeps, Zenon
  <2> HIDE DEF o
  <2>3. /\ orders'[c] = o
        /\ \A d \in Ids \ {c} : orders'[d] = orders[d] /\ stored'[d] = stored[d]
    BY <1>4, <2>1
  <2>4. task'.at = "idle" /\ UNCHANGED slots
    BY <2>1 DEF NoOrderSent, Idle
  <2>5. OrderRuns(c)
    BY <1>4
  <2> QED
    BY <2>1, <2>2, <2>3, <2>4, AnswerRuns, ReportsAreStatuses
<1> QED
  BY <1>1, <1>2, <1>5, <1>6, <1>7 DEF Outcome, ResolveFound, ResolveAbsent, ResolveUnresolved

\* What was pushed is booked in order or not, once or again.
LEMMA StreamRuns ==
    ASSUME Before, Runs, SlotTypeOK', NEW e \in events, Stream(e)
    PROVE  Runs'
<1>1. /\ SlotTypeOK /\ EventsRun /\ e.cid \in Ids /\ e.cum \in Nat
  BY DEF Before, Runs, SlotTypeOK
<1> PICK c \in Ids : c = e.cid
  BY <1>1
<1>2. /\ task.at = "idle" /\ Book(c, e.status, e.cum)
      /\ task' = IF Moved(c, e.cum) > 0 THEN Slotting(c, Moved(c, e.cum), TRUE) ELSE Idle
      /\ UNCHANGED <<exchange, slots, mapped>>
  BY DEF Stream
<1>3. Taken(c) /\ e.status \in Live /\ e.cum <= xchg[c].cum
  BY <1>1 DEF EventsRun
<1>4. Moved(c, e.cum) \in Nat
  BY <1>1, MovedIsBooked
<1>5. \/ /\ task'.at = "slotting" /\ task'.cid = c /\ task'.lots = Moved(c, e.cum)
      \/ task'.at = "idle" /\ Moved(c, e.cum) = 0
  <2>1. CASE Moved(c, e.cum) > 0
    <3>1. task' = Slotting(c, Moved(c, e.cum), TRUE)
      BY <1>2, <2>1
    <3> QED
      BY <3>1 DEF Slotting, At, Idle
  <2>2. CASE ~(Moved(c, e.cum) > 0)
    BY <1>2, <1>4, <2>2 DEF Idle
  <2> QED
    BY <2>1, <2>2
<1> QED
  BY <1>1, <1>2, <1>3, <1>5, BookingRuns

\* An entry in one piece opens its slot, and has no exit yet.
LEMMA AddSlotRuns ==
    ASSUME Before, Runs, SlotTypeOK', AddSlot, causes' = {}
    PROVE  Runs'
<1>1. /\ SlotTypeOK /\ OrdersRun /\ ExitsRun /\ SlotsRun /\ TaskRuns /\ EventsRun
      /\ NetIsPosition /\ EntriesFit /\ HandIsNew /\ HoldInv
  BY DEF Before, Runs
<1>2. /\ task.at = "slotting" /\ task.cid \in Ids /\ IsEntry(task.cid)
  BY DEF AddSlot, Before, SlotTypeInv, TaskFits
<1>3. PICK s \in Signals : s = task.cid[1] /\ task.cid = Entry(s)
  BY <1>2, IdsAre
<1>4. /\ Lots[s] \in Nat \ {0} /\ task.lots \in Nat
      /\ slots \in [Signals -> [state : {"NONE", "OPEN", "EXIT_PENDING"}, lots : Nat]]
      /\ Entry(s) \in Ids /\ Exit(s) \in Ids
      /\ \A t \in Signals : Exit(t) # Entry(s)
  BY <1>1, ShapesAre, LotsAssumption, IdsAre DEF SlotTypeOK
<1>5. /\ ~(task.lots < Lots[s])
      /\ ~(s \notin Held /\ Cardinality(Held) >= Limit)
      /\ slots' = IF s \in Held \/ Cardinality(Held) >= Limit THEN slots
                  ELSE [slots EXCEPT ![s] = [state |-> "OPEN", lots |-> task.lots]]
      /\ task' = Idle /\ UNCHANGED <<exchange, ledger, mapped>>
  BY <1>3 DEF AddSlot
<1>6. s \notin Held
  BY <1>1, <1>2, <1>3, <1>5 DEF HandIsNew
<1>7. /\ slots'[s] = [state |-> "OPEN", lots |-> task.lots]
      /\ \A t \in Signals \ {s} : slots'[t] = slots[t]
  BY <1>4, <1>5, <1>6
<1>8. orders[Exit(s)] = NoOrder
  BY <1>1, <1>2, <1>3, <1>4, <1>5 DEF TaskRuns
<1>9. task.lots = Lots[s] /\ xchg[Entry(s)].cum = Lots[s]
  <2>1. /\ task.lots <= orders[Entry(s)].applied /\ orders[Entry(s)].applied <= xchg[Entry(s)].cum
        /\ xchg[Entry(s)].cum <= Lots[s]
    BY <1>1, <1>2, <1>3, <1>4 DEF HoldInv, BookedInHand, OrdersRun, OrderRuns, EntriesFit
  <2>2. orders[Entry(s)].applied \in Nat /\ xchg[Entry(s)].cum \in Nat
    BY <1>1, <1>4, ShapesAre
  <2>3. task.lots >= Lots[s]
    BY <1>4, <1>5
  <2> QED
    BY <1>4, <2>1, <2>2, <2>3
<1>10. task'.at = "idle"
  BY <1>5 DEF Idle
<1>11. OrdersRun' /\ EventsRun' /\ NetIsPosition'
  BY <1>1, <1>5, NetStays DEF OrdersRun, OrderRuns, EventsRun, exchange, ledger, Taken
<1>12. ExitsRun'
  <2>1. \A t \in Signals : ~Unanswered(t)
    BY <1>2 DEF Unanswered
  <2> QED
    BY <1>1, <1>5, <2>1 DEF ExitsRun, ExitRuns, exchange, ledger, Taken, Exit, Entry, IsSent
<1>13. SlotsRun'
  <2> SUFFICES ASSUME NEW t \in Signals, slots'[t] # NoSlot PROVE SlotRuns(t)'
    BY DEF SlotsRun, Held, NoSlot
  <2>1. InHand(t)' = 0
    BY <1>10 DEF InHand
  <2>2. CASE t = s
    <3>1. slots'[t].lots = Lots[t] /\ slots'[t].state = "OPEN" /\ Lots[t] \in Nat \ {0}
      BY <1>4, <1>7, <1>9, <2>2
    <3>2. orders'[Exit(t)].applied = 0 /\ xchg'[Entry(t)].cum = Lots[t]
      BY <1>5, <1>8, <1>9, <2>2 DEF NoOrder, ledger, exchange
    <3> QED
      BY <2>1, <3>1, <3>2 DEF SlotRuns, Exit, Entry
  <2>3. CASE t # s
    <3>1. slots'[t] = slots[t] /\ SlotRuns(t)
      BY <1>1, <1>7, <2>3 DEF SlotsRun, Held
    <3>2. InHand(t) = 0
      BY <1>3, <1>4 DEF InHand
    <3> QED
      BY <1>2, <1>5, <2>1, <3>1, <3>2 DEF SlotRuns, exchange, ledger, Exit, Entry
  <2> QED
    BY <2>2, <2>3
<1>14. TaskRuns'
  BY <1>10 DEF TaskRuns
<1> QED
  BY <1>11, <1>12, <1>13, <1>14 DEF Runs

\* A sale is taken out of the slot whose exit it is, for the exit is mapped.
LEMMA CloseSlotRuns ==
    ASSUME Before, Runs, SlotTypeOK', CloseSlot, causes' = {}
    PROVE  Runs'
<1>1. /\ SlotTypeOK /\ OrdersRun /\ ExitsRun /\ SlotsRun /\ TaskRuns /\ EventsRun
      /\ NetIsPosition
  BY DEF Before, Runs
<1>2. /\ task.at = "slotting" /\ task.cid \in Ids /\ ~IsEntry(task.cid)
      /\ orders[task.cid] # NoOrder
  BY DEF CloseSlot, Before, SlotTypeInv, TaskFits
<1>3. PICK s \in Signals : s = task.cid[1] /\ task.cid = Exit(s)
  BY <1>2, IdsAre, ExitIds
<1>4. /\ task.lots \in Nat /\ Exit(s) \in Ids
      /\ slots \in [Signals -> [state : {"NONE", "OPEN", "EXIT_PENDING"}, lots : Nat]]
      /\ \A t \in Signals : Exit(t) = Exit(s) => t = s
      /\ slots[s].lots \in Nat /\ Lots[s] \in Nat /\ orders[Exit(s)].applied \in Nat
  BY <1>1, ShapesAre, IdsAre, LotsAssumption DEF SlotTypeOK, Exit
<1>5. s \in mapped
  BY <1>1, <1>2, <1>3 DEF ExitsRun, ExitRuns
<1>6. Charged(s) = {s} \cap Held
  BY <1>5 DEF Charged
<1>7. /\ slots' = [t \in Signals |->
                      IF t \in Charged(s) THEN CloseFill(slots[t], task.lots) ELSE slots[t]]
      /\ \E t \in Charged(s) : task.lots <= slots[t].lots
      /\ task' = Idle /\ UNCHANGED <<exchange, ledger, mapped>>
  BY <1>3 DEF CloseSlot
<1>8. s \in Held /\ task.lots <= slots[s].lots /\ SlotRuns(s)
  BY <1>1, <1>6, <1>7 DEF SlotsRun
<1>9. /\ slots'[s] = CloseFill(slots[s], task.lots)
      /\ \A t \in Signals \ {s} : slots'[t] = slots[t]
  BY <1>6, <1>7, <1>8
<1>10. slots'[s] # NoSlot =>
          slots'[s].lots = slots[s].lots - task.lots /\ slots'[s].lots > 0
          /\ slots'[s].state = "OPEN"
  BY <1>4, <1>8, <1>9 DEF CloseFill, Smaller, SlotRuns
<1>11. task'.at = "idle"
  BY <1>7 DEF Idle
<1>12. OrdersRun' /\ EventsRun' /\ NetIsPosition'
  BY <1>1, <1>7, NetStays DEF OrdersRun, OrderRuns, EventsRun, exchange, ledger, Taken
<1>13. ExitsRun'
  <2>1. \A t \in Signals : ~Unanswered(t)
    BY <1>2 DEF Unanswered
  <2> QED
    BY <1>1, <1>7, <2>1 DEF ExitsRun, ExitRuns, exchange, ledger, Taken, Exit, Entry, IsSent
<1>14. SlotsRun'
  <2> SUFFICES ASSUME NEW t \in Signals, slots'[t] # NoSlot PROVE SlotRuns(t)'
    BY DEF SlotsRun, Held, NoSlot
  <2>1. InHand(t)' = 0
    BY <1>11 DEF InHand
  <2>2. CASE t = s
    <3>1. slots[s].lots + orders[Exit(s)].applied = Lots[s] + task.lots
      BY <1>2, <1>3, <1>8 DEF SlotRuns, InHand
    <3>2. slots'[s].lots + orders[Exit(s)].applied = Lots[s] + 0
      BY <1>4, <1>8, <1>10, <2>2, <3>1
    <3>3. xchg'[Entry(s)].cum = Lots[s] /\ orders' = orders
      BY <1>7, <1>8 DEF SlotRuns, exchange, ledger
    <3> QED
      BY <1>10, <2>1, <2>2, <3>2, <3>3 DEF SlotRuns, Exit, Entry
  <2>3. CASE t # s
    <3>1. slots'[t] = slots[t] /\ SlotRuns(t)
      BY <1>1, <1>9, <2>3 DEF SlotsRun, Held
    <3>2. InHand(t) = 0
      BY <1>3, <1>4, <2>3 DEF InHand
    <3> QED
      BY <1>2, <1>7, <2>1, <3>1, <3>2 DEF SlotRuns, exchange, ledger, Exit, Entry
  <2> QED
    BY <2>2, <2>3
<1>15. TaskRuns'
  BY <1>11 DEF TaskRuns
<1> QED
  BY <1>12, <1>13, <1>14, <1>15 DEF Runs

\* Causes stay on record.
LEMMA CausesStay ==
    ASSUME SlotTypeInv, SlotNext
    PROVE  causes \subseteq causes'
BY DEF SlotNext, Exchange, Engine, Trade, End, Enter, Trigger, ExitBlocked, ExitTracked, SendExit,
       RespondFilled, RespondOpen, PlacementFails, PlacementUnknown, ResolveFound,
       ResolveAbsent, ResolveUnresolved, Stream, AddSlot, CloseSlot, Audit, Restart, Crash

\* Every step, for the causes that rule one out stay on record.
LEMMA NextRuns ==
    SlotTypeInv /\ HoldInv /\ PartInv /\ RunInv /\ [SlotNext]_slotVars => RunInv'
<1> SUFFICES ASSUME SlotTypeInv, HoldInv, PartInv, RunInv, [SlotNext]_slotVars, causes' = {}
             PROVE  Runs'
  BY DEF RunInv
<1>1. SlotTypeOK'
  BY NextTypes DEF SlotTypeInv
<1>2. CASE SlotNext
  <2>1. causes = {}
    BY <1>2, CausesStay
  <2>2. Before /\ Runs
    BY <2>1, BeforeHolds DEF RunInv
  <2>3. CASE Exchange
    <3>1. ASSUME NEW c \in Ids, NEW status, End(c, status) PROVE FALSE
      BY <3>1 DEF End
    <3>2. PICK c \in Ids : Trade(c)
      BY <2>3, <3>1 DEF Exchange
    <3> QED
      BY <1>1, <2>2, <3>2, TradeRuns
  <2>4. ~Audit /\ ~Crash
    BY DEF Audit, Crash
  <2>5. ~Restart
    BY <2>2 DEF Restart, Runs, TaskRuns
  <2>6. CASE Engine
    <3>1. CASE \E s \in Signals : Enter(s)
      BY <1>1, <2>2, <3>1, EnterRuns
    <3>2. CASE ExitBlocked \/ ExitTracked \/ \E s \in Signals : Trigger(s)
      BY <1>1, <2>2, <3>2, ExitingRuns
    <3>3. CASE SendExit
      BY <1>1, <2>2, <3>3, SendExitRuns
    <3>4. CASE Outcome
      BY <1>1, <2>1, <2>2, <3>4, OutcomeRuns
    <3>5. CASE \E e \in events : Stream(e)
      BY <1>1, <2>2, <3>5, StreamRuns
    <3>6. CASE AddSlot \/ CloseSlot
      BY <1>1, <2>2, <3>6, AddSlotRuns, CloseSlotRuns
    <3> QED
      BY <2>4, <2>5, <2>6, <3>1, <3>2, <3>3, <3>4, <3>5, <3>6 DEF Engine, Outcome
  <2> QED
    BY <1>2, <2>3, <2>4, <2>6 DEF SlotNext
<1>3. CASE UNCHANGED slotVars
  BY <1>3 DEF slotVars, exchange, ledger, RunInv, Runs, OrdersRun, OrderRuns, EventsRun, Taken,
              NetIsPosition, Flow, Net, ExitsRun, ExitRuns, IsSent, Unanswered, SlotsRun,
              SlotRuns, InHand, TaskRuns, Held, NoSlot, Exit, Entry
<1> QED
  BY <1>2, <1>3

\* Nothing was sent, and nothing is held.
LEMMA InitRuns == SlotInit => RunInv
<1> SUFFICES ASSUME SlotInit PROVE Runs
  BY DEF RunInv
<1>1. /\ \A c \in Ids : /\ xchg[c] = [status |-> "NONE", cum |-> 0, qty |-> 0]
                        /\ orders[c] = NoOrder
      /\ \A s \in Signals : Entry(s) \in Ids /\ Exit(s) \in Ids /\ slots[s] = NoSlot
      /\ xpos = 0 /\ events = {} /\ task.at = "idle"
  BY IdsAre DEF SlotInit, Idle
<1>2. OrdersRun /\ EventsRun /\ ExitsRun /\ TaskRuns
  BY <1>1 DEF OrdersRun, OrderRuns, Taken, Live, NoOrder, EventsRun, ExitsRun, ExitRuns, TaskRuns
<1>3. SlotsRun
  BY <1>1 DEF SlotsRun, Held
<1> DEFINE f == [s \in Signals |-> Net(s)]
<1>4. f \in [Signals -> Nat] /\ \A s \in Signals : f[s] = 0
  BY <1>1 DEF Net
<1>5. SumFunctionOnSet(f, Signals) = 0
  <2> HIDE DEF f
  <2> QED
    BY <1>4, SumOfZeros, SignalsAssumption
<1> QED
  BY <1>1, <1>2, <1>3, <1>5 DEF Runs, NetIsPosition, Flow

(* A slot whose barriers are no longer watched has an exit that is on its  *)
(* way, working, or filled and not yet booked, for any signals, lots and   *)
(* limit, until a fault or one of the four mishaps is on record.           *)
THEOREM PendingIsAtWork == SlotSpec => []PendingIsWorking
<1>1. ASSUME SlotTypeInv, RunInv PROVE PendingIsWorking
  <2> SUFFICES ASSUME task.at = "idle", causes = {}, NEW s \in Pending
               PROVE  \/ xchg[Exit(s)].status \in {"NEW", "PARTIALLY_FILLED"}
                      \/ orders[Exit(s)].applied < xchg[Exit(s)].cum
    BY DEF PendingIsWorking
  <2>1. /\ SlotTypeOK /\ s \in Signals /\ s \in Held /\ slots[s].state = "EXIT_PENDING"
        /\ Exit(s) \in Ids /\ Lots[s] \in Nat
    BY <1>1, IdsAre, LotsAssumption DEF SlotTypeInv, Pending, Held
  <2>2. SlotRuns(s) /\ ExitRuns(s) /\ OrderRuns(Exit(s))
    BY <1>1, <2>1 DEF RunInv, Runs, SlotsRun, ExitsRun, OrdersRun
  <2>3. Taken(Exit(s)) /\ xchg[Exit(s)].qty = Lots[s]
    BY <2>1, <2>2 DEF SlotRuns, ExitRuns, Unanswered
  <2>4. orders[Exit(s)].applied < Lots[s]
    <3>1. slots[s].lots \in Nat /\ orders[Exit(s)].applied \in Nat /\ slots[s].lots > 0
      BY <2>1, <2>2, ShapesAre DEF SlotRuns
    <3>2. slots[s].lots + orders[Exit(s)].applied = Lots[s] + 0
      BY <2>2 DEF SlotRuns, InHand
    <3> QED
      BY <2>1, <3>1, <3>2
  <2> QED
    BY <2>2, <2>3, <2>4 DEF OrderRuns, Taken, Live
<1>2. SlotTypeInv /\ RunInv => PendingIsWorking
  BY <1>1
<1>3. SlotSpec => []HoldInv
  BY InitHolds, NextHolds, SlotTypeCorrect, PTL DEF SlotSpec
<1>4. SlotSpec => []PartInv
  BY <1>3, InitParts, NextParts, SlotTypeCorrect, PTL DEF SlotSpec
<1> QED
  BY <1>2, <1>3, <1>4, InitRuns, NextRuns, SlotTypeCorrect, PTL DEF SlotSpec
=============================================================================
