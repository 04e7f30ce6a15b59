------------------------ MODULE PendingActionsProofs ------------------------
(***************************************************************************)
(* What holds of deferred decisions for any number of bars, queries,       *)
(* deaths and breaks: a decision is sent once and in its own bar, the      *)
(* account never holds two entries, and a row's resolution is true.        *)
(*                                                                         *)
(* A row is judged before its bar's trades come, so only the row of the    *)
(* last bar can fall due.  The comparison with the exchange that ends each *)
(* evaluation, and the one of each start, make the engine's position right *)
(* before the handler goes through the rows, and nothing but that row's    *)
(* own order can make it wrong until the next comparison: an order taken   *)
(* before a death is seen in the position, and the guards refuse it.       *)
(***************************************************************************)
EXTENDS PendingActions, TLAPS, WellFoundedInduction

\* Where the handler is when it is at a row.
Submitting == {"guards", "posting", "booking", "resolving", "EXECUTED", "BLOCKED"}

\* Behind the POST of the row the handler is at.
Behind == {"booking", "resolving", "EXECUTED", "BLOCKED"}

IsPending(b) == rows[b].state = "PENDING"

(* A row is of a bar that was judged; the handler goes through rows that   *)
(* are pending, and submits the one that is due now.                       *)
RowsInOrder ==
    /\ \A b \in Bars : rows[b].state # "NONE" => b <= judged
    /\ step.at \in {"rows"} \cup Submitting => \A b \in step.left : IsPending(b)
    /\ step.at \in Submitting =>
         step.row \in step.left /\ clock = Due(step.row)
    /\ step.at = "down" => pushed = {}
    /\ step.at = "down" => crashes > 0
    /\ step.at = "idle" => step.row = 0
    /\ step.at = "rows" => step.row = 0

(* What was sent was sent for a row, in its bar, and after it the account  *)
(* is as that order left it until the bar is over.                         *)
SentForItsRow ==
    \A b \in Bars :
        /\ taken[b] <= 1
        /\ b \in pushed => taken[b] = 1
        /\ taken[b] = 1 => rows[b].state # "NONE" /\ Due(b) <= clock
        /\ taken[b] = 1 /\ clock = Due(b) => xheld = IF IsEntry(b) THEN 1 ELSE 0

(* The order of the bar has been sent by this process, or its row is done. *)
Acted(b) == taken[b] = 1 /\ (~IsPending(b) \/ (step.row = b /\ step.at \in Behind))

(* Between the judgement of a bar and the order decided on it the engine   *)
(* knows its position.                                                     *)
PositionKnown ==
    step.at # "down" /\ judged = clock - 1 /\ (\A b \in Bars : Due(b) = clock => ~Acted(b))
        => held = xheld /\ pushed = {}

(* An order is posted for a decision that none was taken for, an entry     *)
(* with a flat account; what is booked was taken.                          *)
Posting ==
    /\ step.at = "posting" => taken[step.row] = 0 /\ (IsEntry(step.row) => xheld = 0)
    /\ step.at = "booking" => taken[step.row] = 1

(* Without a death, a pending row that is not being sent has no order, the *)
(* outcome the handler is about to write is true, and so are those written.*)
OutcomesTrue ==
    crashes = 0 =>
        /\ \A b \in Bars : rows[b].state # "RESOLVED" /\ ~(step.row = b /\ step.at \in Submitting \ {"guards"})
                => taken[b] = 0 /\ tracked[b] = NoOrder
        /\ step.at = "EXECUTED" => taken[step.row] = 1
        /\ step.at \in {"BLOCKED", "resolving"} /\ taken[step.row] = 1 => step.row \in doubts \cup misjudged

(* An intent is stored before its order is sent.                           *)
IntentStored ==
    /\ \A b \in Bars : taken[b] > 0 => saved[b] \in Order
    /\ step.at \in {"posting", "booking", "resolving"} =>
         tracked[step.row] \in Order /\ saved[step.row] \in Order

\* The part of the invariant that is about the shape of the state.
Shape == PendingTypeOK /\ RowsInOrder /\ IntentStored

\* The inductive invariant.
IInv ==
    /\ PendingTypeOK /\ RowsInOrder /\ IntentStored
    /\ SentForItsRow /\ PositionKnown /\ Posting /\ OutcomesTrue
    /\ OneEntryAtATime /\ ResolutionIsTrue

-----------------------------------------------------------------------------
\* A nonempty set of numbers has a least one: the induction of this proof.
LEMMA LeastNatural ==
    ASSUME NEW S \in SUBSET Nat, S # {}
    PROVE  \E m \in S : \A n \in S : m <= n
<1> DEFINE R == {ss \in Nat \X Nat : ss[1] < ss[2]}
<1>1. IsWellFoundedOn(R, Nat)
  BY NatLessThanWellFounded DEF OpToRel
<1>2. PICK m \in S : \A n \in S : ~(<<n, m>> \in R)
  <2> HIDE DEF R
  <2> QED BY <1>1, WFMin
<1>3. \A n \in S : ~(n < m)
  BY <1>2
<1> QED
  BY <1>3

\* So the handler's next row is one of those it has still to look at.
LEMMA NextRow ==
    ASSUME PendingTypeOK, step.left # {}
    PROVE  Next1 \in step.left
<1>1. step.left \in SUBSET Nat
  BY DEF PendingTypeOK, Bars
<1>2. \E b \in step.left : \A c \in step.left : b <= c
  BY <1>1, LeastNatural
<1> QED
  BY <1>2 DEF Next1

\* Transitions and bookings keep an order an order.
LEMMA Orders ==
    ASSUME NEW o \in Order, NEW status \in Status, NEW n \in Nat
    PROVE  /\ TransitionStatus(o, status, n) \in Order
           /\ TransitionStatus(o, status, n) # NoOrder
           /\ Booked(o) \in Order
           /\ Booked(o) # NoOrder
           /\ o # NoOrder
           /\ [o EXCEPT !.applied = n] \in Order
<1>0. Larger(o.filled, n) \in Nat /\ Larger(o.filled, 1) \in Nat
  BY DEF Order, Larger
<1>1. NoOrder \notin Order
  BY DEF NoOrder, Order, Status, Open, Terminal
<1>2. TransitionStatus(o, status, n) \in Order
  BY <1>0 DEF TransitionStatus, Order
<1>3. "FILLED" \in Status
  BY DEF Status, Terminal
<1>4. TransitionStatus(o, "FILLED", 1) \in Order
  BY <1>0, <1>3 DEF TransitionStatus, Order
<1>5. Booked(o) \in Order
  BY <1>4 DEF Booked, Order
<1>6. [o EXCEPT !.applied = n] \in Order
  BY DEF Order
<1> QED
  BY <1>1, <1>2, <1>5, <1>6

\* So does the merge of an order given to the map.
LEMMA Upserts ==
    ASSUME NEW o \in Order \cup {NoOrder}, NEW given \in Order
    PROVE  UpsertOrder(o, given) \in Order
<1>1. given.status \in Status /\ given.filled \in Nat
  BY DEF Order
<1> QED
  BY <1>1, Orders DEF UpsertOrder

\* The constants of an instance.
LEMMA Bounds ==
    /\ MaxBar \in Nat \ {0} /\ Queries \in Nat \ {0} /\ MaxCrashes \in Nat /\ MaxBreaks \in Nat
BY BarsAssumption, QueriesAssumption, BoundsAssumption

\* The places of the handler.
Places == {"idle", "down", "rows", "guards", "posting", "booking", "resolving",
           "EXECUTED", "BLOCKED"}

Steps == [at : Places, left : SUBSET Bars, row : Bars \cup {0}, asked : 0..Queries,
          closes : BOOLEAN]

\* The handler's places when it is not at work.
LEMMA IdleStep ==
    /\ Idle \in Steps /\ Down \in Steps
    /\ Idle.at = "idle" /\ Idle.left = {} /\ Idle.row = 0 /\ Down.at = "down"
<1>1. Idle \in Steps
  BY Bounds DEF Idle, Steps, Places
<1>2. Idle.at = "idle" /\ Idle.left = {} /\ Idle.row = 0
  BY DEF Idle
<1>3. \A s \in Steps : [s EXCEPT !.at = "down"] \in Steps /\ [s EXCEPT !.at = "down"].at = "down"
  BY DEF Steps, Places
<1> QED
  BY <1>1, <1>2, <1>3 DEF Down

\* The place a trade sets it to.
LEMMA FeedStep ==
    ASSUME NEW left \in SUBSET Bars, NEW closing \in BOOLEAN
    PROVE  LET s == [Idle EXCEPT !.at = "rows", !.left = left, !.closes = closing]
           IN  s \in Steps /\ s.at = "rows" /\ s.left = left /\ s.row = 0
<1>1. \A s \in Steps :
        LET n == [s EXCEPT !.at = "rows", !.left = left, !.closes = closing]
        IN  n \in Steps /\ n.at = "rows" /\ n.left = left /\ n.row = s.row
  BY DEF Steps, Places
<1> QED
  BY <1>1, IdleStep

\* The place after a row was looked at.
LEMMA LookedStep ==
    ASSUME NEW s \in Steps, NEW b \in Bars
    PROVE  LET n == [s EXCEPT !.at = "rows", !.left = @ \ {b}, !.asked = 0, !.row = 0]
           IN  /\ n \in Steps /\ n.at = "rows" /\ n.row = 0 /\ n.left = s.left \ {b}
<1>1. 0 \in 0..Queries /\ s.left \ {b} \in SUBSET Bars
  BY Bounds DEF Steps
<1> DEFINE left == s.left \ {b}
<1>2. [s EXCEPT !.at = "rows", !.left = @ \ {b}, !.asked = 0, !.row = 0]
        = [s EXCEPT !.at = "rows", !.left = left, !.asked = 0, !.row = 0]
  BY DEF Steps
<1>3. left \in SUBSET Bars
  BY <1>1
<1>4. LET n == [s EXCEPT !.at = "rows", !.left = left, !.asked = 0, !.row = 0]
      IN  /\ n \in Steps /\ n.at = "rows" /\ n.row = 0 /\ n.left = left
  <2> HIDE DEF left
  <2> QED
    BY ONLY <1>1, <1>3, s \in Steps, ZenonT(20) DEF Steps, Places
<1> QED
  BY <1>2, <1>4

\* The place after a query.
LEMMA AskedStep ==
    ASSUME NEW s \in Steps, ~(s.asked >= Queries)
    PROVE  LET n == [s EXCEPT !.asked = @ + 1]
           IN  /\ n \in Steps /\ n.at = s.at /\ n.row = s.row /\ n.left = s.left
BY Bounds DEF Steps, Places

\* The place is one of the handler's places.
LEMMA TypeIs == PendingTypeOK => step \in Steps
BY DEF PendingTypeOK, Steps, Places

\* The shape of the first state.
LEMMA InitShape == PendingInit => Shape
<1> SUFFICES ASSUME PendingInit PROVE Shape
  OBVIOUS
<1>1. step \in Steps /\ step.at = "idle" /\ step.row = 0
  BY IdleStep DEF PendingInit
<1>2. synced \in BOOLEAN /\ audit \in BOOLEAN
  BY DEF PendingInit
<1>3. PendingTypeOK
  BY <1>1, <1>2, Bounds DEF PendingInit, PendingTypeOK, Bars, Steps, Places
<1>4. RowsInOrder
  BY <1>1 DEF PendingInit, RowsInOrder, Submitting, NoRow
<1>5. IntentStored
  BY <1>1 DEF PendingInit, IntentStored
<1> QED
  BY <1>3, <1>4, <1>5 DEF Shape

\* A trade keeps the shape, and makes the pending rows the ones to look at.
LEMMA TradeShape ==
    ASSUME Shape, NEW b \in Bars, Trade(b)
    PROVE  Shape' /\ step'.at = "rows" /\ step'.left = Pending /\ step'.row = 0
<1> DEFINE closing == bar \in 1..(b - 1)
<1>1. closing \in BOOLEAN /\ Pending \in SUBSET Bars
  BY DEF Pending
<1>2. step' = [Idle EXCEPT !.at = "rows", !.left = Pending, !.closes = closing]
  BY DEF Trade
<1> HIDE DEF closing
<1>3. step' \in Steps /\ step'.at = "rows" /\ step'.left = Pending /\ step'.row = 0
  BY <1>1, <1>2, FeedStep
<1>0. /\ b >= clock /\ clock' = b /\ bar' = b
      /\ UNCHANGED <<judged, synced, rows, saved, tracked, held, doubts, audit, taken, xheld,
                    pushed, misjudged, crashes, breaks>>
  BY DEF Trade, store, engine, external, bounds
<1>4. PendingTypeOK'
  BY <1>0, <1>3 DEF Shape, PendingTypeOK, Steps, Places, Bars
<1>5. RowsInOrder'
  BY <1>0, <1>3 DEF Shape, RowsInOrder, Pending, Submitting, IsPending
<1>6. IntentStored'
  BY <1>0, <1>3 DEF Shape, IntentStored
<1> QED
  BY <1>3, <1>4, <1>5, <1>6 DEF Shape

\* So do the loss and the repair of continuity.
LEMMA BreakShape ==
    ASSUME Shape, Break \/ Heal
    PROVE  Shape'
<1>1. synced' \in BOOLEAN
  BY DEF Break, Heal
<1>2. PendingTypeOK'
  BY <1>1, Bounds DEF Shape, PendingTypeOK, Break, Heal, store, engine, external, bounds
<1>3. RowsInOrder'
  BY DEF Shape, RowsInOrder, Break, Heal, IsPending, store, engine, external, bounds, Due
<1>4. IntentStored'
  BY DEF Shape, IntentStored, Break, Heal, store, engine, external, bounds
<1> QED
  BY <1>2, <1>3, <1>4 DEF Shape

\* A resolution changes one pending row, and nothing of its decision.
LEMMA ResolveTypes ==
    ASSUME PendingTypeOK, NEW b \in Bars, rows[b].state = "PENDING",
           NEW resolution \in Resolutions, Resolve(b, resolution)
    PROVE  /\ rows' \in [Bars -> Row \cup {NoRow}]
           /\ \A c \in Bars : c # b => rows'[c] = rows[c]
           /\ rows'[b].state = "RESOLVED" /\ rows'[b].resolution = resolution
           /\ rows'[b].action = rows[b].action
<1>1. rows \in [Bars -> Row \cup {NoRow}]
  BY DEF PendingTypeOK
<1>2. rows[b] \in [action : Actions, state : {"PENDING"}, resolution : {"NONE"}]
  BY <1>1 DEF Row, NoRow
<1> DEFINE done == [rows[b] EXCEPT !.state = "RESOLVED", !.resolution = resolution]
<1>3. rows' = [rows EXCEPT ![b] = done]
  BY DEF Resolve
<1>4. /\ done \in Row /\ done.state = "RESOLVED" /\ done.resolution = resolution
      /\ done.action = rows[b].action
  BY <1>2 DEF Row
<1> HIDE DEF done
<1> QED
  BY <1>1, <1>3, <1>4

\* The handler goes to a place of a row.
LEMMA Goes ==
    ASSUME step \in Steps, NEW where \in Places, NEW b \in Bars, step' = At(where, b)
    PROVE  step' \in Steps /\ step'.at = where /\ step'.row = b /\ step'.left = step.left
<1>1. 0 \in 0..Queries
  BY Bounds
<1>2. step' = [step EXCEPT !.at = where, !.row = b, !.asked = 0]
  BY DEF At
<1>3. step' \in Steps
  BY ONLY <1>1, <1>2, step \in Steps, where \in Places, b \in Bars, ZenonT(20) DEF Steps
<1>4. step'.at = where /\ step'.row = b /\ step'.left = step.left
  BY <1>2 DEF Steps
<1> QED
  BY <1>3, <1>4

\* The handler goes on to the rows after one.
LEMMA LooksOn ==
    ASSUME step \in Steps, NEW b \in Bars, step' = Looked(b)
    PROVE  step' \in Steps /\ step'.at = "rows" /\ step'.row = 0 /\ step'.left = step.left \ {b}
<1> DEFINE n == [step EXCEPT !.at = "rows", !.left = @ \ {b}, !.asked = 0, !.row = 0]
<1>1. n \in Steps /\ n.at = "rows" /\ n.row = 0 /\ n.left = step.left \ {b}
  BY LookedStep
<1>2. step' = n
  BY DEF Looked
<1> HIDE DEF n
<1> QED
  BY <1>1, <1>2

\* The handler asks once more.
LEMMA Asks ==
    ASSUME step \in Steps, ~Asked, step' = [step EXCEPT !.asked = @ + 1]
    PROVE  step' \in Steps /\ step'.at = step.at /\ step'.row = step.row /\ step'.left = step.left
BY AskedStep DEF Asked

(* Everything but the handler's place.                                     *)
Else == <<clock, bar, judged, synced, rows, saved, tracked, held, doubts, audit, taken, xheld,
          pushed, misjudged, crashes, breaks>>

(* Where the handler can be: a row it submits is pending, was decided at  *)
(* the last bar judged, and falls due now; no other row does.              *)
LEMMA StepIs ==
    ASSUME IInv
    PROVE  /\ step \in Steps /\ step.at \in Places /\ step.left \subseteq Bars
           /\ step.at \in Submitting =>
                 step.row \in Bars /\ IsPending(step.row) /\ clock = step.row + 1
                 /\ step.row = judged /\ \A b \in Bars : clock = Due(b) => b = step.row
           /\ step.left # {} => Next1 \in step.left /\ Next1 \in Bars
           /\ \A b \in Bars : Due(b) \in Nat
<1>1. step \in Steps /\ step.at \in Places /\ step.left \subseteq Bars
  BY TypeIs DEF IInv, Steps
<1>2. step.left # {} => Next1 \in step.left /\ Next1 \in Bars
  BY <1>1, NextRow DEF IInv
<1>3. clock \in Nat /\ judged \in Nat /\ judged < clock /\ Bars \subseteq Nat
  BY Bounds DEF IInv, PendingTypeOK, Bars
<1>4. ASSUME step.at \in Submitting
      PROVE  step.row \in Bars /\ IsPending(step.row) /\ clock = step.row + 1 /\ step.row <= judged
  <2>1. step.row \in step.left /\ clock = Due(step.row)
    BY <1>4 DEF IInv, RowsInOrder
  <2>2. IsPending(step.row)
    BY <1>4, <2>1 DEF IInv, RowsInOrder, Submitting
  <2>3. step.row <= judged
    BY <1>1, <2>1, <2>2 DEF IInv, RowsInOrder, IsPending
  <2> QED
    BY <1>1, <2>1, <2>2, <2>3 DEF Due
<1>5. ASSUME step.at \in Submitting
      PROVE  step.row = judged /\ \A b \in Bars : clock = Due(b) => b = step.row
  <2>1. step.row \in Nat
    BY <1>3, <1>4, <1>5
  <2>2. step.row = judged
    BY <2>1, <1>3, <1>4, <1>5
  <2>3. ASSUME NEW b \in Bars, clock = Due(b) PROVE b = step.row
    <3>1. b \in Nat /\ clock = b + 1
      BY <1>3, <2>3 DEF Due
    <3> QED
      BY <3>1, <2>1, <1>4, <1>5
  <2> QED
    BY <2>2, <2>3
<1>6. \A b \in Bars : Due(b) \in Nat
  BY <1>3 DEF Due
<1> QED
  BY <1>1, <1>2, <1>4, <1>5, <1>6

(* A step that changes the handler's place alone.                          *)
LEMMA Quiet ==
    ASSUME IInv, UNCHANGED Else, step' \in Steps, step.at # "down",
           step'.at \in {"idle", "rows", "guards", "EXECUTED", "BLOCKED", "resolving"},
           RowsInOrder',
           step'.at = "resolving" => step.at = "resolving" /\ step'.row = step.row,
           \A b \in Bars : Acted(b) => Acted(b)',
           OutcomesTrue'
    PROVE  IInv'
<1>1. PendingTypeOK'
  BY DEF IInv, PendingTypeOK, Else, Steps, Places
<1>2. IntentStored'
  BY DEF IInv, IntentStored, Else
<1>3. SentForItsRow'
  BY DEF IInv, SentForItsRow, Else, IsEntry
<1>4. PositionKnown'
  BY DEF IInv, PositionKnown, Else
<1>5. Posting'
  BY DEF Posting
<1>6. OneEntryAtATime'
  BY DEF IInv, OneEntryAtATime, Else
<1>7. ResolutionIsTrue'
  BY DEF IInv, ResolutionIsTrue, Else
<1> QED
  BY <1>1, <1>2, <1>3, <1>4, <1>5, <1>6, <1>7 DEF IInv

\* A row is passed over or taken up, or the trade closes nothing.
LEMMA KeepHolds ==
    ASSUME IInv, Keep \/ Execute \/ NoEvaluation
    PROVE  IInv'
<1>1. UNCHANGED Else /\ step.at = "rows"
  BY DEF Keep, Execute, NoEvaluation, store, engine, external, bounds, Else
<1>2. CASE Keep
  <2>1. step' \in Steps /\ step'.at = "rows" /\ step'.row = 0 /\ step'.left \subseteq step.left
    BY <1>2, StepIs, LooksOn DEF Keep
  <2>2. RowsInOrder'
    BY <1>1, <2>1 DEF IInv, RowsInOrder, Submitting, IsPending, Else
  <2>3. OutcomesTrue'
    BY <1>1, <2>1 DEF IInv, OutcomesTrue, Submitting, Else
  <2>4. \A b \in Bars : Acted(b) => Acted(b)'
    BY <1>1 DEF Acted, Behind, IsPending, Else
  <2> QED
    BY <1>1, <2>1, <2>2, <2>3, <2>4, Quiet
<1>3. CASE Execute
  <2>0. Next1 \in step.left /\ Next1 \in Bars /\ "guards" \in Places /\ step' = At("guards", Next1)
    BY <1>3, StepIs DEF Execute, Places
  <2>1. step' \in Steps /\ step'.at = "guards" /\ step'.row = Next1 /\ step'.left = step.left
    BY <2>0, StepIs, Goes
  <2>2. ~(clock > Due(Next1)) /\ clock >= Due(Next1)
    BY <1>3 DEF Execute, Missed
  <2>3. clock = Due(Next1)
    BY <2>0, <2>2 DEF IInv, PendingTypeOK, Bars, Due
  <2>4. RowsInOrder'
    BY <1>1, <2>0, <2>1, <2>3 DEF IInv, RowsInOrder, Submitting, IsPending, Else, Due
  <2>5. OutcomesTrue'
    BY <1>1, <2>1 DEF IInv, OutcomesTrue, Submitting, Else
  <2>6. \A b \in Bars : Acted(b) => Acted(b)'
    BY <1>1 DEF Acted, Behind, IsPending, Else
  <2> QED
    BY <1>1, <2>1, <2>4, <2>5, <2>6, Quiet
<1>4. CASE NoEvaluation
  <2>1. step' \in Steps /\ step'.at = "idle" /\ step'.row = 0 /\ step'.left = {}
    BY <1>4, IdleStep DEF NoEvaluation
  <2>2. RowsInOrder'
    BY <1>1, <2>1 DEF IInv, RowsInOrder, Submitting, IsPending, Else
  <2>3. OutcomesTrue'
    BY <1>1, <2>1 DEF IInv, OutcomesTrue, Submitting, Else
  <2>4. \A b \in Bars : Acted(b) => Acted(b)'
    BY <1>1 DEF Acted, Behind, IsPending, Else
  <2> QED
    BY <1>1, <2>1, <2>2, <2>3, <2>4, Quiet
<1> QED
  BY <1>2, <1>3, <1>4


(* The other steps that change nothing but the handler's place.            *)
LEMMA RefuseHolds ==
    ASSUME IInv, Refuse \/ Skip \/ ConcludeNothing \/ QueryFails \/ QueryNotFound
    PROVE  IInv'
<1>1. UNCHANGED Else
  BY DEF Refuse, Skip, ConcludeNothing, QueryFails, QueryNotFound, store, engine, external, bounds, Else
<1>2. step.at \in {"guards", "resolving"} /\ step.at \in Submitting /\ step.row \in Bars
  BY StepIs DEF Refuse, Skip, ConcludeNothing, QueryFails, QueryNotFound, Submitting
<1>3. step' \in Steps /\ step'.row = step.row /\ step'.left = step.left
      /\ (step'.at \in {"EXECUTED", "BLOCKED"} \/ (step'.at = step.at /\ step.at = "resolving"))
  <2>1. CASE Refuse \/ ConcludeNothing
    BY <1>2, <2>1, StepIs, Goes DEF Refuse, ConcludeNothing, Note, Places
  <2>2. CASE Skip
    BY <1>2, <2>2, StepIs, Goes DEF Skip, Note, Places
  <2>3. CASE QueryFails
    BY <1>2, <2>3, StepIs, Asks DEF QueryFails
  <2>4. CASE QueryNotFound
    BY <1>2, <2>4, StepIs, Asks DEF QueryNotFound
  <2> QED
    BY <2>1, <2>2, <2>3, <2>4
<1>4. step'.at \in Submitting \ {"guards"}
  BY <1>3 DEF Submitting
<1>5. RowsInOrder'
  BY <1>1, <1>2, <1>3, <1>4 DEF IInv, RowsInOrder, Submitting, IsPending, Else, Due
<1>6. \A b \in Bars : Acted(b) => Acted(b)'
  BY <1>1, <1>3 DEF Acted, Behind, IsPending, Else
<1>7. OutcomesTrue'
  <2> SUFFICES ASSUME crashes = 0 PROVE OutcomesTrue'
    BY <1>1 DEF OutcomesTrue, Else
  <2>1. \A b \in Bars : rows[b].state # "RESOLVED" /\ b # step.row
            => taken[b] = 0 /\ tracked[b] = NoOrder
    BY <1>2 DEF IInv, OutcomesTrue
  <2>2. ASSUME step.at = "guards"
        PROVE  taken[step.row] = 0 /\ tracked[step.row] = NoOrder
    BY <1>2, <2>2, StepIs DEF IInv, OutcomesTrue, IsPending
  <2>3. step'.at # "EXECUTED"
    <3>1. CASE Skip
      BY <2>2, <3>1 DEF Skip, IsSent, NoOrder
    <3>2. CASE Refuse \/ ConcludeNothing
      BY <1>2, <3>2, StepIs, Goes DEF Refuse, ConcludeNothing, Note, Places
    <3>3. CASE QueryFails \/ QueryNotFound
      BY <1>2, <3>3, StepIs, Asks DEF QueryFails, QueryNotFound
    <3> QED
      BY <3>1, <3>2, <3>3
  <2>4. step.at = "resolving" /\ taken[step.row] = 1 => step.row \in doubts \cup misjudged
    BY DEF IInv, OutcomesTrue
  <2>5. taken[step.row] = 1 => step.row \in doubts \cup misjudged
    BY <1>2, <2>2, <2>4
  <2> QED
    BY <1>1, <1>2, <1>3, <1>4, <2>1, <2>3, <2>5 DEF OutcomesTrue, Else
<1> QED
  BY <1>1, <1>2, <1>3, <1>5, <1>6, <1>7, Quiet

(* A row gets its resolution.                                              *)
LEMMA ResolveHolds ==
    ASSUME IInv, Expire \/ Noted
    PROVE  IInv'
<1> DEFINE b == IF step.at = "rows" THEN Next1 ELSE step.row
           resolution == IF step.at = "rows" THEN "EXPIRED_MISSED_EXECUTION_WINDOW" ELSE step.at
<1>1. /\ UNCHANGED <<clock, bar, judged, synced, saved, tracked, held, doubts, audit, taken,
                     xheld, pushed, misjudged, crashes, breaks>>
      /\ Resolve(b, resolution) /\ step' = Looked(b)
      /\ step.at \in {"rows", "EXECUTED", "BLOCKED"}
      /\ step.at = "rows" => Expire /\ step.left # {}
  BY DEF Expire, Noted, engine, external, bounds
<1>2. b \in step.left /\ b \in Bars /\ resolution \in Resolutions /\ rows[b].state = "PENDING"
  BY <1>1, StepIs DEF IInv, RowsInOrder, Submitting, Resolutions, IsPending
<1>3. /\ rows' \in [Bars -> Row \cup {NoRow}]
      /\ \A c \in Bars : c # b => rows'[c] = rows[c]
      /\ rows'[b].state = "RESOLVED" /\ rows'[b].resolution = resolution
      /\ rows'[b].action = rows[b].action
  BY <1>1, <1>2, ResolveTypes DEF IInv
<1>4. step' \in Steps /\ step'.at = "rows" /\ step'.row = 0 /\ step'.left = step.left \ {b}
  BY <1>1, <1>2, StepIs, LooksOn
<1>5. /\ step.at = "rows" => clock # Due(b)
      /\ step.at # "rows" => b = step.row /\ step.at = resolution
  BY <1>1, <1>2, StepIs DEF Expire, Missed, IInv, PendingTypeOK, Bars
<1> HIDE DEF b, resolution
<1>6. PendingTypeOK'
  BY <1>1, <1>3, <1>4 DEF IInv, PendingTypeOK, Steps, Places
<1>7. RowsInOrder'
  BY <1>1, <1>2, <1>3, <1>4, StepIs DEF IInv, RowsInOrder, Submitting, IsPending
<1>8. IntentStored'
  BY <1>1, <1>4 DEF IInv, IntentStored
<1>9. SentForItsRow'
  BY <1>1, <1>2, <1>3 DEF IInv, SentForItsRow, IsEntry, Due
<1>10. PositionKnown'
  <2>1. ASSUME NEW c \in Bars, Due(c) = clock, Acted(c) PROVE Acted(c)'
    BY <1>1, <1>2, <1>3, <1>4, <1>5, <2>1 DEF Acted, IsPending, Behind
  <2> QED
    BY <1>1, <1>4, <2>1 DEF IInv, PositionKnown, Due
<1>11. Posting'
  BY <1>4 DEF Posting
<1>12. OneEntryAtATime'
  BY <1>1 DEF IInv, OneEntryAtATime
<1>13. OutcomesTrue'
  <2> SUFFICES ASSUME crashes = 0 PROVE OutcomesTrue'
    BY <1>1 DEF OutcomesTrue
  <2>1. ASSUME NEW c \in Bars, rows'[c].state # "RESOLVED"
        PROVE  taken[c] = 0 /\ tracked[c] = NoOrder
    <3>1. c # b /\ rows[c].state # "RESOLVED"
      BY <1>3, <2>1
    <3>2. ~(step.row = c /\ step.at \in Submitting \ {"guards"})
      BY <1>1, <1>5, <3>1 DEF Submitting
    <3> QED
      BY <3>1, <3>2 DEF IInv, OutcomesTrue
  <2> QED
    BY <1>1, <1>4, <2>1 DEF OutcomesTrue
<1>14. ResolutionIsTrue'
  <2> SUFFICES ASSUME crashes = 0, NEW c \in Bars
               PROVE  /\ rows'[c].resolution = "EXECUTED" => taken[c] = 1
                      /\ rows'[c].state = "RESOLVED" /\ rows'[c].resolution # "EXECUTED"
                            => (taken[c] = 1 => c \in doubts \cup misjudged)
    BY <1>1 DEF ResolutionIsTrue
  <2>1. CASE c # b
    BY <1>3, <2>1 DEF IInv, ResolutionIsTrue
  <2>2. CASE c = b /\ step.at = "rows"
    <3>1. taken[b] = 0
      BY <1>2, <2>2 DEF IInv, OutcomesTrue, Submitting
    <3>2. resolution # "EXECUTED"
      BY <2>2 DEF resolution
    <3> QED
      BY <1>3, <2>2, <3>1, <3>2
  <2>3. CASE c = b /\ step.at # "rows"
    <3>1. /\ step.at = "EXECUTED" => taken[b] = 1
          /\ step.at = "BLOCKED" /\ taken[b] = 1 => b \in doubts \cup misjudged
      BY <1>5, <2>3 DEF IInv, OutcomesTrue
    <3> QED
      BY <1>1, <1>3, <1>5, <2>3, <3>1
  <2> QED
    BY <2>1, <2>2, <2>3
<1> QED
  BY <1>6, <1>7, <1>8, <1>9, <1>10, <1>11, <1>12, <1>13, <1>14 DEF IInv

-----------------------------------------------------------------------------
\* A trade: no row decided in the bar before the new one exists yet.
LEMMA FeedHolds ==
    ASSUME IInv, Advance \/ Stay
    PROVE  IInv'
<1>1. PICK b \in Bars : Trade(b)
  BY DEF Advance, Stay, IInv, PendingTypeOK
<1>2. Shape' /\ step'.at = "rows" /\ step'.row = 0
  BY <1>1, TradeShape DEF IInv, Shape
<1>3. /\ b >= clock /\ clock' = b /\ step.at = "idle" /\ step.row = 0
      /\ UNCHANGED <<judged, synced, rows, saved, tracked, held, doubts, audit, taken, xheld,
                    pushed, misjudged, crashes, breaks>>
  BY <1>1 DEF Trade, store, engine, external, bounds, IInv, RowsInOrder
<1>4. clock \in Nat /\ judged \in Nat /\ judged < clock /\ b \in Nat /\ \A c \in Bars : c \in Nat
  BY DEF IInv, PendingTypeOK, Bars
<1>5. SentForItsRow'
  BY <1>3, <1>4 DEF IInv, SentForItsRow, IsEntry, Due
<1>6. PositionKnown'
  <2> SUFFICES ASSUME judged = b - 1, \A c \in Bars : Due(c) = b => ~Acted(c)'
               PROVE  held = xheld /\ pushed = {}
    BY <1>3 DEF PositionKnown
  <2>1. clock = b
    BY <1>3, <1>4
  <2>2. \A c \in Bars : Acted(c) => Acted(c)'
    BY <1>2, <1>3 DEF Acted, IsPending, Behind
  <2> QED
    BY <1>3, <2>1, <2>2 DEF IInv, PositionKnown
<1>7. Posting'
  BY <1>2 DEF Posting
<1>8. OutcomesTrue'
  BY <1>2, <1>3 DEF IInv, OutcomesTrue, Submitting
<1>9. OneEntryAtATime' /\ ResolutionIsTrue'
  BY <1>3 DEF IInv, OneEntryAtATime, ResolutionIsTrue
<1> QED
  BY <1>2, <1>5, <1>6, <1>7, <1>8, <1>9 DEF IInv, Shape

\* Continuity is lost or found again.
LEMMA BreakHolds ==
    ASSUME IInv, Break \/ Heal
    PROVE  IInv'
<1>1. Shape'
  BY BreakShape DEF IInv, Shape
<1>2. /\ UNCHANGED <<clock, bar, judged, rows, saved, tracked, held, doubts, audit, taken, xheld,
                     pushed, step, misjudged, crashes>>
  BY DEF Break, Heal, store, engine, external, bounds
<1>3. SentForItsRow' /\ Posting'
  BY <1>2 DEF IInv, SentForItsRow, Posting, IsEntry
<1>4. PositionKnown'
  <2>1. \A b \in Bars : Acted(b)' = Acted(b)
    BY <1>2 DEF Acted, IsPending
  <2> QED
    BY <1>2, <2>1 DEF IInv, PositionKnown
<1>5. OutcomesTrue'
  BY <1>2 DEF IInv, OutcomesTrue
<1>6. OneEntryAtATime' /\ ResolutionIsTrue'
  BY <1>2 DEF IInv, OneEntryAtATime, ResolutionIsTrue
<1> QED
  BY <1>1, <1>3, <1>4, <1>5, <1>6 DEF IInv, Shape

\* As long as the handler stays at a row, the rows stay in order.
LEMMA SubmissionStays ==
    ASSUME IInv, step.at \in Submitting,
           UNCHANGED <<clock, judged, rows>>,
           step' \in Steps, step'.at \in Submitting, step'.row = step.row, step'.left = step.left
    PROVE  RowsInOrder'
BY DEF IInv, RowsInOrder, Submitting, IsPending

(* The intent is stored: the guards have let through only an order that    *)
(* was not sent, because the engine knows its position here.               *)
LEMMA IntendHolds ==
    ASSUME IInv, Intend
    PROVE  IInv'
<1> DEFINE b == step.row
           intent == [status |-> "SUBMITTING", filled |-> 0, applied |-> 0]
<1>1. /\ UNCHANGED <<clock, bar, judged, synced, rows, held, doubts, audit, taken, xheld, pushed,
                     misjudged, crashes, breaks>>
      /\ tracked' = [tracked EXCEPT ![b] = UpsertOrder(@, intent)]
      /\ saved' = [saved EXCEPT ![b] = [intent EXCEPT !.applied = saved[b].applied]]
      /\ step.at = "guards" /\ Allowed(b) /\ step' = At("posting", b)
  BY DEF Intend, external, bounds
<1>2. b \in Bars /\ IsPending(b) /\ clock = Due(b) /\ b = judged
      /\ \A c \in Bars : Due(c) = clock => c = b
  BY <1>1, StepIs DEF Submitting, Due
<1>3. step' \in Steps /\ step'.at = "posting" /\ step'.row = b /\ step'.left = step.left
  BY <1>1, <1>2, StepIs, Goes DEF Places
<1>4. intent \in Order
  BY DEF Order, Status, Open
<1>5. tracked[b] \in Order \cup {NoOrder} /\ saved[b] \in Order \cup {NoOrder} /\ saved[b].applied \in Nat
  BY <1>2 DEF IInv, PendingTypeOK, Order, NoOrder
<1> HIDE DEF intent
<1>6. UpsertOrder(tracked[b], intent) \in Order
  BY <1>4, <1>5, Upserts
<1>7. [intent EXCEPT !.applied = saved[b].applied] \in Order
  BY <1>4, <1>5 DEF Order
<1>8. /\ tracked' \in [Bars -> Order \cup {NoOrder}] /\ saved' \in [Bars -> Order \cup {NoOrder}]
      /\ tracked'[b] \in Order /\ saved'[b] \in Order
      /\ \A c \in Bars : c # b => tracked'[c] = tracked[c] /\ saved'[c] = saved[c]
  BY <1>1, <1>2, <1>6, <1>7 DEF IInv, PendingTypeOK
<1>9. ~Acted(b) /\ held = xheld /\ pushed = {}
  <2>1. ~Acted(b)
    BY <1>1, <1>2 DEF Acted, Behind
  <2>2. judged = clock - 1
    BY <1>2 DEF IInv, PendingTypeOK, Bars, Due
  <2> QED
    BY <1>1, <1>2, <2>1, <2>2 DEF IInv, PositionKnown
<1>10. taken[b] = 0 /\ (IsEntry(b) => xheld = 0)
  <2>1. taken[b] \in Nat /\ taken[b] <= 1
        /\ (taken[b] = 1 => xheld = IF IsEntry(b) THEN 1 ELSE 0)
    BY <1>2 DEF IInv, SentForItsRow, PendingTypeOK
  <2>2. IF IsEntry(b) THEN xheld = 0 ELSE xheld > 0
    BY <1>1, <1>9 DEF Allowed
  <2> QED
    BY <2>1, <2>2
<1>11. PendingTypeOK'
  BY <1>1, <1>3, <1>8 DEF IInv, PendingTypeOK, Steps, Places
<1>12. RowsInOrder'
  BY <1>1, <1>3, SubmissionStays DEF Submitting
<1>13. IntentStored'
  BY <1>1, <1>3, <1>8 DEF IInv, IntentStored
<1>14. SentForItsRow' /\ OneEntryAtATime' /\ ResolutionIsTrue'
  BY <1>1 DEF IInv, SentForItsRow, IsEntry, OneEntryAtATime, ResolutionIsTrue
<1>15. PositionKnown'
  BY <1>1, <1>9 DEF PositionKnown
<1>16. Posting'
  BY <1>1, <1>3, <1>10 DEF Posting, IsEntry
<1>17. OutcomesTrue'
  BY <1>1, <1>3, <1>8 DEF IInv, OutcomesTrue, Submitting
<1> QED
  BY <1>11, <1>12, <1>13, <1>14, <1>15, <1>16, <1>17 DEF IInv

(* What an order does on the exchange when it is taken.                    *)
LEMMA TakeIs ==
    ASSUME IInv, step.at = "posting", Take(step.row)
    PROVE  /\ step.row \in Bars
           /\ taken[step.row] = 0
           /\ taken' = [taken EXCEPT ![step.row] = 1]
           /\ xheld' = IF IsEntry(step.row) THEN 1 ELSE 0
           /\ pushed' = pushed \cup {step.row}
<1>1. step.row \in Bars
  BY StepIs DEF Submitting
<1>2. taken[step.row] = 0 /\ (IsEntry(step.row) => xheld = 0) /\ xheld \in Nat /\ xheld <= 1
  BY DEF IInv, Posting, PendingTypeOK, OneEntryAtATime
<1> QED
  BY <1>1, <1>2 DEF Take

(* The exchange takes the order at hand, and the handler goes on.          *)
LEMMA TakenHolds ==
    ASSUME IInv, step.at = "posting", Take(step.row),
           UNCHANGED <<clock, bar, judged, synced, rows, held, audit, crashes, breaks>>,
           step' \in Steps, step'.at \in Behind, step'.row = step.row, step'.left = step.left,
           tracked' \in [Bars -> Order \cup {NoOrder}], tracked'[step.row] \in Order,
           saved' \in [Bars -> Order \cup {NoOrder}], saved'[step.row] \in Order,
           \A c \in Bars : c # step.row => tracked'[c] = tracked[c] /\ saved'[c] = saved[c],
           doubts' \subseteq Bars, doubts \subseteq doubts',
           misjudged' \subseteq Bars, misjudged \subseteq misjudged',
           step'.at \in {"BLOCKED", "resolving"} => step.row \in doubts' \cup misjudged'
    PROVE  IInv'
<1> DEFINE b == step.row
<1>1. /\ b \in Bars /\ taken[b] = 0 /\ taken' = [taken EXCEPT ![b] = 1]
      /\ xheld' = (IF IsEntry(b) THEN 1 ELSE 0) /\ pushed' = pushed \cup {b}
  BY TakeIs
<1>2. IsPending(b) /\ clock = Due(b) /\ \A c \in Bars : Due(c) = clock => c = b
  BY StepIs DEF Submitting, Due
<1>3. clock \in Nat /\ \A c \in Bars : Due(c) \in Nat
  BY StepIs DEF IInv, PendingTypeOK, Bars
<1>4. taken' \in [Bars -> Nat] /\ taken'[b] = 1 /\ \A c \in Bars : c # b => taken'[c] = taken[c]
  BY <1>1 DEF IInv, PendingTypeOK
<1>5. xheld' \in Nat /\ xheld' <= 1
  BY <1>1
<1>6. PendingTypeOK'
  BY <1>1, <1>4, <1>5 DEF IInv, PendingTypeOK, Steps, Places
<1>7. RowsInOrder'
  BY SubmissionStays DEF Submitting, Behind
<1>8. IntentStored'
  BY <1>1, <1>4 DEF IInv, IntentStored
<1>9. SentForItsRow'
  <2> SUFFICES ASSUME NEW c \in Bars
               PROVE  /\ taken'[c] <= 1
                      /\ c \in pushed' => taken'[c] = 1
                      /\ taken'[c] = 1 => rows[c].state # "NONE" /\ Due(c) <= clock
                      /\ taken'[c] = 1 /\ clock = Due(c) => xheld' = IF IsEntry(c) THEN 1 ELSE 0
    BY DEF SentForItsRow, IsEntry, Due
  <2>1. CASE c = b
    BY <1>1, <1>2, <1>3, <1>4, <2>1 DEF IsPending
  <2>2. CASE c # b
    BY <1>1, <1>2, <1>4, <2>2 DEF IInv, SentForItsRow
  <2> QED
    BY <2>1, <2>2
<1>10. PositionKnown'
  <2>1. Acted(b)'
    BY <1>4 DEF Acted
  <2> QED
    BY <1>1, <1>2, <2>1 DEF PositionKnown, Due
<1>11. Posting'
  BY <1>4 DEF Posting, Behind
<1>12. OutcomesTrue'
  BY <1>1, <1>4 DEF IInv, OutcomesTrue, Submitting, Behind
<1>13. OneEntryAtATime'
  BY <1>5 DEF OneEntryAtATime
<1>14. ResolutionIsTrue'
  <2>1. rows[b].state = "PENDING" /\ rows[b].resolution = "NONE"
    BY <1>1, <1>2 DEF IsPending, IInv, PendingTypeOK, Row, NoRow
  <2> SUFFICES ASSUME crashes = 0, NEW c \in Bars
               PROVE  /\ rows[c].resolution = "EXECUTED" => taken'[c] = 1
                      /\ rows[c].state = "RESOLVED" /\ rows[c].resolution # "EXECUTED"
                            => (taken'[c] = 1 => c \in doubts' \cup misjudged')
    BY DEF ResolutionIsTrue
  <2>2. CASE c # b
    BY <1>4, <2>2 DEF IInv, ResolutionIsTrue
  <2> QED
    BY <2>1, <2>2
<1> QED
  BY <1>6, <1>7, <1>8, <1>9, <1>10, <1>11, <1>12, <1>13, <1>14 DEF IInv

(* The exchange takes nothing, and the handler goes on: the order at hand  *)
(* may be rewritten, booked and settled.                                   *)
LEMMA UntakenHolds ==
    ASSUME IInv, step.at \in {"posting", "booking", "resolving"},
           UNCHANGED <<clock, bar, judged, synced, rows, audit, taken, xheld, pushed, crashes, breaks>>,
           step' \in Steps, step'.at \in {"EXECUTED", "BLOCKED", "resolving"},
           step'.row = step.row, step'.left = step.left,
           tracked' \in [Bars -> Order \cup {NoOrder}], tracked'[step.row] \in Order,
           saved' \in [Bars -> Order \cup {NoOrder}], saved'[step.row] \in Order,
           \A c \in Bars : c # step.row => tracked'[c] = tracked[c] /\ saved'[c] = saved[c],
           held' \in Nat, held' = held \/ taken[step.row] = 1,
           doubts' \subseteq Bars, doubts \subseteq doubts' \cup {step.row},
           misjudged' \subseteq Bars, misjudged \subseteq misjudged',
           step'.at = "EXECUTED" => taken[step.row] = 1,
           step'.at \in {"BLOCKED", "resolving"} /\ taken[step.row] = 1
              => step.row \in doubts' \cup misjudged'
    PROVE  IInv'
<1> DEFINE b == step.row
<1>2. /\ b \in Bars /\ IsPending(b) /\ clock = Due(b) /\ step.at \in Submitting
      /\ \A c \in Bars : Due(c) = clock => c = b
  BY StepIs DEF Submitting, Due
<1>6. PendingTypeOK'
  BY DEF IInv, PendingTypeOK, Steps, Places
<1>7. RowsInOrder'
  BY <1>2, SubmissionStays DEF Submitting
<1>8. IntentStored'
  BY <1>2 DEF IInv, IntentStored
<1>9. SentForItsRow' /\ OneEntryAtATime'
  BY DEF IInv, SentForItsRow, IsEntry, OneEntryAtATime
<1>10. PositionKnown'
  <2>1. CASE taken[b] = 1
    <3>1. Acted(b)'
      BY <2>1 DEF Acted, Behind
    <3> QED
      BY <1>2, <3>1 DEF PositionKnown, Due
  <2>2. CASE taken[b] # 1
    <3>1. ~Acted(b)
      BY <2>2 DEF Acted
    <3> QED
      BY <1>2, <2>2, <3>1 DEF IInv, PositionKnown, Submitting
  <2> QED
    BY <2>1, <2>2
<1>11. Posting'
  BY DEF Posting
<1>12. OutcomesTrue'
  BY <1>2 DEF IInv, OutcomesTrue, Submitting
<1>14. ResolutionIsTrue'
  <2>1. rows[b].state = "PENDING" /\ rows[b].resolution = "NONE"
    BY <1>2 DEF IsPending, IInv, PendingTypeOK, Row, NoRow
  <2> SUFFICES ASSUME crashes = 0, NEW c \in Bars
               PROVE  /\ rows[c].resolution = "EXECUTED" => taken[c] = 1
                      /\ rows[c].state = "RESOLVED" /\ rows[c].resolution # "EXECUTED"
                            => (taken[c] = 1 => c \in doubts' \cup misjudged')
    BY DEF ResolutionIsTrue
  <2>2. CASE c # b
    BY <2>2 DEF IInv, ResolutionIsTrue
  <2> QED
    BY <2>1, <2>2
<1> QED
  BY <1>6, <1>7, <1>8, <1>9, <1>10, <1>11, <1>12, <1>14 DEF IInv

\* Past the intent the order is in memory and in the store.
LEMMA Stored ==
    ASSUME IInv, step.at \in {"posting", "booking", "resolving"}
    PROVE  /\ step.row \in Bars
           /\ tracked[step.row] \in Order /\ saved[step.row] \in Order
           /\ saved[step.row].applied \in Nat
<1>1. step.row \in Bars
  BY StepIs DEF Submitting
<1> QED
  BY <1>1 DEF IInv, IntentStored, Order

\* The four ways a POST ends.
LEMMA PostHolds ==
    ASSUME IInv,
           \/ \E status \in {"FILLED", "NEW"} : PostAnswered(status)
           \/ PostRefused \/ PostMisread \/ PostLost
    PROVE  IInv'
<1> DEFINE b == step.row
<1>1. step.at = "posting"
  BY DEF PostAnswered, PostRefused, PostMisread, PostLost
<1>2. b \in Bars /\ tracked[b] \in Order /\ saved[b] \in Order /\ saved[b].applied \in Nat
  BY <1>1, Stored
<1>3. {"REJECTED", "UNKNOWN", "FILLED", "NEW"} \subseteq Status /\ 0 \in Nat
  BY DEF Status, Open, Terminal
<1>4. /\ TransitionStatus(tracked[b], "REJECTED", 0) \in Order
      /\ TransitionStatus(tracked[b], "UNKNOWN", 0) \in Order
  BY <1>2, <1>3, Orders
<1>5. doubts \subseteq Bars /\ misjudged \subseteq Bars /\ held \in Nat
  BY DEF IInv, PendingTypeOK
<1>6. tracked \in [Bars -> Order \cup {NoOrder}] /\ saved \in [Bars -> Order \cup {NoOrder}]
  BY DEF IInv, PendingTypeOK
<1>7. ASSUME NEW status \in {"FILLED", "NEW"}, PostAnswered(status)
      PROVE  IInv'
  <2> DEFINE cum == IF status = "FILLED" THEN 1 ELSE 0
             answer == [status |-> status, filled |-> cum, applied |-> 0]
             next == IF status = "FILLED" THEN "booking" ELSE "EXECUTED"
  <2>1. cum \in Nat /\ next \in {"booking", "EXECUTED"} /\ status \in Status
    BY <1>3
  <2>2. /\ Take(b)
        /\ tracked' = [tracked EXCEPT ![b] = UpsertOrder(@, answer)]
        /\ saved' = [saved EXCEPT ![b] = [answer EXCEPT !.applied = saved[b].applied]]
        /\ step' = At(next, b)
        /\ UNCHANGED <<clock, bar, judged, synced, rows, held, doubts, audit, misjudged, crashes,
                      breaks>>
    BY <1>7 DEF PostAnswered, bounds
  <2> HIDE DEF cum, next
  <2>3. answer \in Order
    BY <2>1 DEF Order
  <2> HIDE DEF answer
  <2>4. UpsertOrder(tracked[b], answer) \in Order /\ [answer EXCEPT !.applied = saved[b].applied] \in Order
    BY <1>2, <2>3, Upserts DEF Order
  <2>5. /\ tracked' \in [Bars -> Order \cup {NoOrder}] /\ saved' \in [Bars -> Order \cup {NoOrder}]
        /\ tracked'[b] \in Order /\ saved'[b] \in Order
        /\ \A c \in Bars : c # b => tracked'[c] = tracked[c] /\ saved'[c] = saved[c]
    BY <1>2, <1>6, <2>2, <2>4
  <2>6. step' \in Steps /\ step'.at = next /\ step'.row = b /\ step'.left = step.left
    BY <1>2, <2>1, <2>2, StepIs, Goes DEF Places
  <2>7. step'.at \in Behind /\ step'.at \notin {"BLOCKED", "resolving"}
    BY <2>1, <2>6 DEF Behind
  <2> QED
    BY <1>1, <1>5, <2>2, <2>5, <2>6, <2>7, TakenHolds
<1>8. CASE PostRefused
  <2>1. /\ tracked' = [tracked EXCEPT ![b] = TransitionStatus(@, "REJECTED", 0)]
        /\ step' = At("BLOCKED", b)
        /\ UNCHANGED <<clock, bar, judged, synced, rows, saved, held, doubts, audit, taken, xheld,
                      pushed, misjudged, crashes, breaks>>
    BY <1>8 DEF PostRefused, Note, store, external, bounds
  <2>2. step' \in Steps /\ step'.at = "BLOCKED" /\ step'.row = b /\ step'.left = step.left
    BY <1>2, <2>1, StepIs, Goes DEF Places
  <2>3. /\ tracked' \in [Bars -> Order \cup {NoOrder}] /\ tracked'[b] \in Order
        /\ \A c \in Bars : c # b => tracked'[c] = tracked[c]
    BY <1>2, <1>4, <1>6, <2>1
  <2>4. taken[b] = 0
    BY <1>1 DEF IInv, Posting
  <2> QED
    BY <1>1, <1>2, <1>5, <1>6, <2>1, <2>2, <2>3, <2>4, UntakenHolds
<1>9. CASE PostMisread
  <2>1. /\ Take(b)
        /\ tracked' = [tracked EXCEPT ![b] = TransitionStatus(@, "REJECTED", 0)]
        /\ misjudged' = misjudged \cup {b}
        /\ step' = At("BLOCKED", b)
        /\ UNCHANGED <<clock, bar, judged, synced, rows, saved, held, doubts, audit, crashes, breaks>>
    BY <1>9 DEF PostMisread, Note, store
  <2>2. step' \in Steps /\ step'.at = "BLOCKED" /\ step'.row = b /\ step'.left = step.left
    BY <1>2, <2>1, StepIs, Goes DEF Places
  <2>3. /\ tracked' \in [Bars -> Order \cup {NoOrder}] /\ tracked'[b] \in Order
        /\ \A c \in Bars : c # b => tracked'[c] = tracked[c]
    BY <1>2, <1>4, <1>6, <2>1
  <2>4. misjudged' \subseteq Bars /\ b \in misjudged' /\ step'.at \in Behind
    BY <1>2, <1>5, <2>1, <2>2 DEF Behind
  <2> QED
    BY <1>1, <1>2, <1>5, <1>6, <2>1, <2>2, <2>3, <2>4, TakenHolds
<1>10. CASE PostLost
  <2> DEFINE o == TransitionStatus(tracked[b], "UNKNOWN", 0)
  <2>1. /\ Take(b) \/ UNCHANGED <<taken, xheld, pushed>>
        /\ tracked' = [tracked EXCEPT ![b] = o]
        /\ saved' = [saved EXCEPT ![b] = [o EXCEPT !.applied = saved[b].applied]]
        /\ doubts' = doubts \cup {b}
        /\ step' = At("resolving", b)
        /\ UNCHANGED <<clock, bar, judged, synced, rows, held, audit, misjudged, crashes, breaks>>
    BY <1>10 DEF PostLost, external, bounds
  <2>2. step' \in Steps /\ step'.at = "resolving" /\ step'.row = b /\ step'.left = step.left
    BY <1>2, <2>1, StepIs, Goes DEF Places
  <2>3. o \in Order
    BY <1>4
  <2> HIDE DEF o
  <2>4. [o EXCEPT !.applied = saved[b].applied] \in Order
    BY <1>2, <2>3 DEF Order
  <2>5. /\ tracked' \in [Bars -> Order \cup {NoOrder}] /\ saved' \in [Bars -> Order \cup {NoOrder}]
        /\ tracked'[b] \in Order /\ saved'[b] \in Order
        /\ \A c \in Bars : c # b => tracked'[c] = tracked[c] /\ saved'[c] = saved[c]
    BY <1>2, <1>6, <2>1, <2>3, <2>4
  <2>6. doubts' \subseteq Bars /\ b \in doubts' /\ step'.at \in Behind
    BY <1>2, <1>5, <2>1, <2>2 DEF Behind
  <2>7. CASE Take(b)
    BY <1>1, <1>2, <1>5, <2>1, <2>2, <2>5, <2>6, <2>7, TakenHolds
  <2>8. CASE UNCHANGED <<taken, xheld, pushed>>
    BY <1>1, <1>2, <1>5, <2>1, <2>2, <2>5, <2>6, <2>8, UntakenHolds
  <2> QED
    BY <2>1, <2>7, <2>8
<1> QED
  BY <1>7, <1>8, <1>9, <1>10

(* The outcome of the order at hand is learned.                            *)
LEMMA SettleHolds ==
    ASSUME IInv, Book \/ QueryFound \/ ConcludeAbsent
    PROVE  IInv'
<1> DEFINE b == step.row
<1>1. step.at \in {"booking", "resolving"}
  BY DEF Book, QueryFound, ConcludeAbsent
<1>2. b \in Bars /\ tracked[b] \in Order /\ saved[b] \in Order
  BY <1>1, Stored
<1>3. "REJECTED" \in Status
  BY DEF Status, Open, Terminal
<1>4. /\ TransitionStatus(tracked[b], "REJECTED", 0) \in Order
      /\ Booked(tracked[b]) \in Order /\ Booked(saved[b]) \in Order
  BY <1>2, <1>3, Orders
<1>5. doubts \subseteq Bars /\ misjudged \subseteq Bars /\ held \in Nat /\ taken[b] \in Nat
  BY <1>2 DEF IInv, PendingTypeOK
<1>6. tracked \in [Bars -> Order \cup {NoOrder}] /\ saved \in [Bars -> Order \cup {NoOrder}]
  BY DEF IInv, PendingTypeOK
<1>7. taken[b] <= 1
  BY <1>2 DEF IInv, SentForItsRow
<1>8. CASE Book \/ QueryFound
  <2>1. /\ tracked' = [tracked EXCEPT ![b] = Booked(@)]
        /\ saved' = [saved EXCEPT ![b] = Booked(@)]
        /\ held' = Moved(b)
        /\ step' = At("EXECUTED", b)
        /\ doubts' = doubts \/ doubts' = doubts \ {b}
        /\ UNCHANGED <<clock, bar, judged, synced, rows, audit, taken, xheld, pushed, misjudged,
                      crashes, breaks>>
    BY <1>8 DEF Book, QueryFound, Note, external, bounds
  <2>2. taken[b] = 1
    BY <1>5, <1>7, <1>8 DEF Book, QueryFound, IInv, Posting
  <2>3. step' \in Steps /\ step'.at = "EXECUTED" /\ step'.row = b /\ step'.left = step.left
    BY <1>2, <2>1, StepIs, Goes DEF Places
  <2>4. /\ tracked' \in [Bars -> Order \cup {NoOrder}] /\ saved' \in [Bars -> Order \cup {NoOrder}]
        /\ tracked'[b] \in Order /\ saved'[b] \in Order
        /\ \A c \in Bars : c # b => tracked'[c] = tracked[c] /\ saved'[c] = saved[c]
    BY <1>2, <1>4, <1>6, <2>1
  <2>5. held' \in Nat
    BY <1>5, <2>1 DEF Moved
  <2>6. doubts' \subseteq Bars /\ doubts \subseteq doubts' \cup {b}
    BY <1>5, <2>1
  <2> QED
    BY <1>1, <1>5, <2>1, <2>2, <2>3, <2>4, <2>5, <2>6, UntakenHolds
<1>9. CASE ConcludeAbsent
  <2>1. /\ tracked' = [tracked EXCEPT ![b] = TransitionStatus(@, "REJECTED", 0)]
        /\ doubts' = doubts \ {b}
        /\ misjudged' = IF taken[b] > 0 THEN misjudged \cup {b} ELSE misjudged
        /\ step' = At("BLOCKED", b)
        /\ UNCHANGED <<clock, bar, judged, synced, rows, saved, held, audit, taken, xheld, pushed,
                      crashes, breaks>>
    BY <1>9 DEF ConcludeAbsent, Note, store, external
  <2>2. step' \in Steps /\ step'.at = "BLOCKED" /\ step'.row = b /\ step'.left = step.left
    BY <1>2, <2>1, StepIs, Goes DEF Places
  <2>3. /\ tracked' \in [Bars -> Order \cup {NoOrder}] /\ tracked'[b] \in Order
        /\ \A c \in Bars : c # b => tracked'[c] = tracked[c]
    BY <1>2, <1>4, <1>6, <2>1
  <2>4. misjudged' \subseteq Bars /\ misjudged \subseteq misjudged'
        /\ (taken[b] = 1 => b \in misjudged') /\ doubts' \subseteq Bars /\ doubts \subseteq doubts' \cup {b}
    BY <1>2, <1>5, <2>1
  <2> QED
    BY <1>1, <1>2, <1>5, <1>6, <2>1, <2>2, <2>3, <2>4, UntakenHolds
<1> QED
  BY <1>8, <1>9

(* The private stream delivers an execution.                               *)
LEMMA DeliverHolds ==
    ASSUME IInv, NEW b \in pushed, Deliver(b)
    PROVE  IInv'
<1>1. /\ step.at = "idle"
      /\ tracked' = [tracked EXCEPT ![b] = Booked(IF @ # NoOrder THEN @ ELSE saved[b])]
      /\ saved' = [saved EXCEPT ![b] = Booked(@)]
      /\ held' = Moved(b)
      /\ pushed' = pushed \ {b}
      /\ UNCHANGED <<clock, bar, judged, synced, rows, doubts, audit, step, taken, xheld, misjudged,
                    crashes, breaks>>
  BY DEF Deliver, bounds
<1>2. b \in Bars /\ taken[b] = 1
  BY DEF IInv, PendingTypeOK, SentForItsRow
<1>3. saved[b] \in Order /\ tracked[b] \in Order \cup {NoOrder}
  BY <1>2 DEF IInv, IntentStored, PendingTypeOK
<1>4. "NEW" \in Status /\ 0 \in Nat
  BY DEF Status, Open
<1> DEFINE o == IF tracked[b] # NoOrder THEN tracked[b] ELSE saved[b]
<1>5. o \in Order
  BY <1>3
<1>6. Booked(o) \in Order /\ Booked(saved[b]) \in Order
  BY <1>3, <1>4, <1>5, Orders
<1>7. tracked' = [tracked EXCEPT ![b] = Booked(o)]
  BY <1>1, <1>2 DEF IInv, PendingTypeOK
<1> HIDE DEF o
<1>8. /\ tracked' \in [Bars -> Order \cup {NoOrder}] /\ saved' \in [Bars -> Order \cup {NoOrder}]
      /\ saved'[b] \in Order
      /\ \A c \in Bars : c # b => tracked'[c] = tracked[c] /\ saved'[c] = saved[c]
  BY <1>1, <1>2, <1>6, <1>7 DEF IInv, PendingTypeOK
<1>9. held' \in Nat
  BY <1>1, <1>2 DEF Moved, IInv, PendingTypeOK
<1>10. PendingTypeOK'
  BY <1>1, <1>8, <1>9 DEF IInv, PendingTypeOK
<1>11. RowsInOrder'
  BY <1>1 DEF IInv, RowsInOrder, IsPending, Submitting, Due
<1>12. IntentStored'
  BY <1>1, <1>8 DEF IInv, IntentStored
<1>13. SentForItsRow'
  BY <1>1 DEF IInv, SentForItsRow, IsEntry, Due
<1>14. PositionKnown'
  <2>1. \A c \in Bars : Acted(c)' = Acted(c)
    BY <1>1 DEF Acted, IsPending
  <2> QED
    BY <1>1, <2>1 DEF IInv, PositionKnown, Due
<1>15. Posting' /\ OneEntryAtATime' /\ ResolutionIsTrue'
  BY <1>1 DEF IInv, Posting, OneEntryAtATime, ResolutionIsTrue, IsEntry
<1>16. OutcomesTrue'
  BY <1>1, <1>2, <1>8 DEF IInv, OutcomesTrue, Submitting
<1> QED
  BY <1>10, <1>11, <1>12, <1>13, <1>14, <1>15, <1>16 DEF IInv

(* The bars that have ended are evaluated.                                 *)
LEMMA EvaluateHolds ==
    ASSUME IInv, Evaluate
    PROVE  IInv'
<1>1. PICK decision \in [(judged + 1)..(clock - 1) -> Actions \cup {"NONE"}] :
          rows' = [b \in Bars |->
                        IF b \in DOMAIN decision /\ decision[b] # "NONE"
                        THEN NewRow(decision[b]) ELSE rows[b]]
  BY DEF Evaluate
<1>2. /\ step.at = "rows" /\ judged' = clock - 1 /\ held' = xheld /\ pushed' = {} /\ step' = Idle
      /\ UNCHANGED <<clock, bar, synced, saved, tracked, doubts, audit, taken, xheld, misjudged,
                    crashes, breaks>>
  BY DEF Evaluate, Audited, bounds
<1>3. clock \in Nat /\ judged \in Nat /\ judged < clock /\ \A b \in Bars : b \in Nat
  BY DEF IInv, PendingTypeOK, Bars
<1>4. \A b \in Bars : IF b \in (judged + 1)..(clock - 1) /\ decision[b] # "NONE"
                      THEN decision[b] \in Actions /\ rows'[b] = NewRow(decision[b])
                      ELSE rows'[b] = rows[b]
  BY <1>1
<1>5. \A b \in Bars : b <= judged => rows'[b] = rows[b]
  BY <1>3, <1>4
<1>6. \A b \in Bars : rows[b].state # "NONE" => rows'[b] = rows[b]
  BY <1>5 DEF IInv, RowsInOrder
<1>7. ASSUME NEW a \in Actions
      PROVE  NewRow(a) \in Row /\ NewRow(a).state = "PENDING" /\ NewRow(a).resolution = "NONE"
  BY DEF NewRow, Row
<1>8. rows' \in [Bars -> Row \cup {NoRow}]
  <2>1. \A b \in Bars : rows'[b] \in Row \cup {NoRow}
    BY <1>4, <1>7 DEF IInv, PendingTypeOK
  <2>2. rows' = [b \in Bars |-> rows'[b]]
    BY <1>1
  <2> QED
    BY <2>1, <2>2
<1>9. \A b \in Bars : rows'[b].state # "NONE" => b <= clock - 1
  BY <1>3, <1>4 DEF IInv, RowsInOrder
<1>10. step' \in Steps /\ step'.at = "idle" /\ step'.row = 0
  BY <1>2, IdleStep
<1>11. PendingTypeOK'
  BY <1>2, <1>3, <1>8, <1>10 DEF IInv, PendingTypeOK, Steps, Places
<1>12. RowsInOrder'
  BY <1>2, <1>9, <1>10 DEF RowsInOrder, Submitting
<1>13. IntentStored'
  BY <1>2, <1>10 DEF IInv, IntentStored
<1>14. SentForItsRow'
  BY <1>2, <1>6 DEF IInv, SentForItsRow, IsEntry, Due
<1>15. PositionKnown'
  BY <1>2 DEF PositionKnown
<1>16. Posting'
  BY <1>10 DEF Posting
<1>17. OneEntryAtATime'
  BY <1>2 DEF IInv, OneEntryAtATime
<1>18. OutcomesTrue'
  BY <1>2, <1>6, <1>10 DEF IInv, OutcomesTrue, Submitting
<1>19. ResolutionIsTrue'
  <2> SUFFICES ASSUME crashes = 0, NEW b \in Bars
               PROVE  /\ rows'[b].resolution = "EXECUTED" => taken[b] = 1
                      /\ rows'[b].state = "RESOLVED" /\ rows'[b].resolution # "EXECUTED"
                            => (taken[b] = 1 => b \in doubts \cup misjudged)
    BY <1>2 DEF ResolutionIsTrue
  <2>1. CASE rows'[b] = rows[b]
    BY <2>1 DEF IInv, ResolutionIsTrue
  <2>2. CASE rows'[b] # rows[b]
    BY <1>4, <1>7, <2>2
  <2> QED
    BY <2>1, <2>2
<1> QED
  BY <1>11, <1>12, <1>13, <1>14, <1>15, <1>16, <1>17, <1>18, <1>19 DEF IInv

\* Death keeps the store and what the exchange has.
LEMMA CrashHolds ==
    ASSUME IInv, Crash
    PROVE  IInv'
<1>1. /\ crashes' = crashes + 1 /\ crashes < MaxCrashes /\ bar' = 0
      /\ tracked' = [b \in Bars |-> NoOrder]
      /\ held' = 0 /\ doubts' = {} /\ audit' = FALSE /\ pushed' = {} /\ step' = Down
      /\ UNCHANGED <<clock, judged, synced, rows, saved, taken, xheld, misjudged, breaks>>
  BY DEF Crash, store
<1>2. step' \in Steps /\ step'.at = "down"
  BY <1>1, IdleStep
<1>3. crashes' \in 0..MaxCrashes /\ crashes' > 0
  BY <1>1, Bounds DEF IInv, PendingTypeOK
<1>4. audit' \in BOOLEAN
  BY <1>1
<1>5. PendingTypeOK'
  BY <1>1, <1>2, <1>3, <1>4 DEF IInv, PendingTypeOK, Steps, Places
<1>6. RowsInOrder'
  BY <1>1, <1>2, <1>3 DEF IInv, RowsInOrder, Submitting
<1>7. IntentStored'
  BY <1>1, <1>2 DEF IInv, IntentStored
<1>8. SentForItsRow' /\ OneEntryAtATime'
  BY <1>1 DEF IInv, SentForItsRow, IsEntry, Due, OneEntryAtATime
<1>9. PositionKnown' /\ Posting'
  BY <1>2 DEF PositionKnown, Posting
<1>10. OutcomesTrue' /\ ResolutionIsTrue'
  BY <1>3 DEF OutcomesTrue, ResolutionIsTrue
<1> QED
  BY <1>5, <1>6, <1>7, <1>8, <1>9, <1>10 DEF IInv

\* A start reads the store, and makes the position the exchange's.
LEMMA RestartHolds ==
    ASSUME IInv, Restart
    PROVE  IInv'
<1>1. PICK found \in SUBSET {b \in Bars : Restored(b).status \in Open /\ taken[b] > 0} :
          /\ tracked' = [b \in Bars |-> IF b \in found THEN Booked(Restored(b)) ELSE Restored(b)]
          /\ saved' = [b \in Bars |-> IF b \in found THEN Booked(saved[b]) ELSE saved[b]]
          /\ doubts' = {b \in Unsettled(found) : saved[b].status \in {"UNKNOWN", "SUBMITTING"}}
          /\ audit' = (Unsettled(found) # {})
  BY DEF Restart
<1>2. /\ step.at = "down" /\ held' = xheld /\ judged' = Larger(judged, clock - 1) /\ synced' = TRUE
      /\ step' = Idle
      /\ UNCHANGED <<clock, bar, rows, taken, xheld, pushed, misjudged, crashes, breaks>>
  BY DEF Restart, external, bounds
<1>3. clock \in Nat /\ judged \in Nat /\ judged < clock
  BY DEF IInv, PendingTypeOK, Bars
<1>4. judged' = clock - 1
  BY <1>2, <1>3 DEF Larger
<1>5. step' \in Steps /\ step'.at = "idle" /\ step'.row = 0
  BY <1>2, IdleStep
<1>6. pushed = {} /\ crashes > 0
  BY <1>2 DEF IInv, RowsInOrder
<1>7. audit' \in BOOLEAN /\ synced' \in BOOLEAN
  BY <1>1, <1>2
<1>8. "NEW" \in Status /\ 0 \in Nat
  BY DEF Status, Open
<1>9. ASSUME NEW b \in Bars
      PROVE  /\ Restored(b) \in {saved[b], NoOrder} /\ saved[b] \in Order \cup {NoOrder}
             /\ b \in found => saved[b] \in Order /\ Restored(b) = saved[b]
  <2>1. Restored(b) \in {saved[b], NoOrder}
    BY DEF Restored
  <2>2. saved[b] \in Order \cup {NoOrder}
    BY DEF IInv, PendingTypeOK
  <2>3. NoOrder.status \notin Open
    BY DEF NoOrder, Open
  <2>4. b \in found => Restored(b).status \in Open
    BY <1>1
  <2> QED
    BY <2>1, <2>2, <2>3, <2>4
<1>10. /\ \A b \in Bars : tracked'[b] \in Order \cup {NoOrder}
       /\ \A b \in Bars : saved'[b] \in Order \cup {NoOrder}
       /\ \A b \in Bars : saved[b] \in Order => saved'[b] \in Order
  <2> SUFFICES ASSUME NEW b \in Bars
               PROVE  /\ tracked'[b] \in Order \cup {NoOrder}
                      /\ saved'[b] \in Order \cup {NoOrder}
                      /\ saved[b] \in Order => saved'[b] \in Order
    OBVIOUS
  <2>1. CASE b \in found
    <3>1. Booked(saved[b]) \in Order
      BY <1>8, <1>9, <2>1, Orders
    <3> QED
      BY <1>1, <1>9, <2>1, <3>1
  <2>2. CASE b \notin found
    BY <1>1, <1>9, <2>2
  <2> QED
    BY <2>1, <2>2
<1>11. /\ tracked' \in [Bars -> Order \cup {NoOrder}] /\ saved' \in [Bars -> Order \cup {NoOrder}]
  <2>1. tracked' = [b \in Bars |-> tracked'[b]] /\ saved' = [b \in Bars |-> saved'[b]]
    BY <1>1
  <2> QED
    BY <1>10, <2>1
<1>12. doubts' \subseteq Bars
  BY <1>1 DEF Unsettled
<1>13. PendingTypeOK'
  BY <1>2, <1>3, <1>4, <1>5, <1>7, <1>11, <1>12 DEF IInv, PendingTypeOK, Steps, Places
<1>14. RowsInOrder'
  BY <1>2, <1>3, <1>4, <1>5 DEF IInv, PendingTypeOK, RowsInOrder, Submitting, Bars
<1>15. IntentStored'
  BY <1>2, <1>5, <1>10 DEF IInv, IntentStored
<1>16. SentForItsRow' /\ OneEntryAtATime'
  BY <1>2 DEF IInv, SentForItsRow, IsEntry, Due, OneEntryAtATime
<1>17. PositionKnown'
  BY <1>2, <1>6 DEF PositionKnown
<1>18. Posting'
  BY <1>5 DEF Posting
<1>19. OutcomesTrue' /\ ResolutionIsTrue'
  BY <1>2, <1>6 DEF OutcomesTrue, ResolutionIsTrue
<1> QED
  BY <1>13, <1>14, <1>15, <1>16, <1>17, <1>18, <1>19 DEF IInv

-----------------------------------------------------------------------------
\* The invariant holds at first.
LEMMA InitHolds == PendingInit => IInv
<1> SUFFICES ASSUME PendingInit PROVE IInv
  OBVIOUS
<1>1. Shape
  BY InitShape
<1>2. step.at = "idle" /\ step.row = 0
  BY IdleStep DEF PendingInit
<1>3. SentForItsRow /\ OneEntryAtATime
  BY DEF PendingInit, SentForItsRow, OneEntryAtATime
<1>4. PositionKnown /\ Posting
  BY <1>2 DEF PendingInit, PositionKnown, Posting
<1>5. OutcomesTrue /\ ResolutionIsTrue
  BY <1>2 DEF PendingInit, OutcomesTrue, ResolutionIsTrue, NoRow
<1> QED
  BY <1>1, <1>3, <1>4, <1>5 DEF IInv, Shape

\* It holds when nothing changes.
LEMMA StutterHolds ==
    ASSUME IInv, UNCHANGED pendingVars
    PROVE  IInv'
BY DEF pendingVars, store, engine, external, bounds, IInv, PendingTypeOK, RowsInOrder, IntentStored,
       SentForItsRow, PositionKnown, Posting, OutcomesTrue, OneEntryAtATime, ResolutionIsTrue,
       IsPending, IsEntry, Acted, Due

\* Every step keeps it.
LEMMA NextHolds == IInv /\ [PendingNext]_pendingVars => IInv'
<1> SUFFICES ASSUME IInv, [PendingNext]_pendingVars PROVE IInv'
  OBVIOUS
<1>1. CASE Advance \/ Stay
  BY <1>1, FeedHolds
<1>2. CASE Break \/ Heal
  BY <1>2, BreakHolds
<1>3. CASE Rows
  BY <1>3, KeepHolds, ResolveHolds DEF Rows
<1>4. CASE Submission
  BY <1>4, RefuseHolds, IntendHolds, PostHolds, SettleHolds DEF Submission
<1>5. CASE AbsenceProof
  BY <1>5, RefuseHolds, SettleHolds DEF AbsenceProof
<1>6. CASE Evaluate \/ NoEvaluation
  BY <1>6, EvaluateHolds, KeepHolds
<1>7. CASE Crash \/ Restart
  BY <1>7, CrashHolds, RestartHolds
<1>8. CASE \E b \in pushed : Deliver(b)
  BY <1>8, DeliverHolds
<1>9. CASE UNCHANGED pendingVars
  BY <1>9, StutterHolds
<1> QED
  BY <1>1, <1>2, <1>3, <1>4, <1>5, <1>6, <1>7, <1>8, <1>9 DEF PendingNext, Handler

(* The invariant from which the theorems below follow holds in every state *)
(* of the specification.                                                   *)
THEOREM PendingHolds == PendingSpec => []IInv
BY InitHolds, NextHolds, PTL DEF PendingSpec

\* The exchange takes an order only from a handler that is posting it.
LEMMA OnlyPostsTake ==
    ASSUME PendingNext
    PROVE  taken' = taken \/ (step.at = "posting" /\ Take(step.row))
<1>1. CASE Advance \/ Stay
  BY <1>1 DEF Advance, Stay, Trade, external
<1>2. CASE Break \/ Heal
  BY <1>2 DEF Break, Heal, external
<1>3. CASE Rows
  BY <1>3 DEF Rows, Keep, Expire, Execute, Noted, external
<1>4. CASE Submission
  BY <1>4 DEF Submission, Refuse, Skip, Intend, PostRefused, PostMisread, PostLost, Book,
              PostAnswered, external
<1>5. CASE AbsenceProof
  BY <1>5 DEF AbsenceProof, QueryFails, QueryNotFound, QueryFound, ConcludeAbsent,
              ConcludeNothing, external
<1>6. CASE Evaluate \/ NoEvaluation
  BY <1>6 DEF Evaluate, NoEvaluation, external
<1>7. CASE Crash \/ Restart
  BY <1>7 DEF Crash, Restart, external
<1>8. CASE \E b \in pushed : Deliver(b)
  BY <1>8 DEF Deliver
<1> QED
  BY <1>1, <1>2, <1>3, <1>4, <1>5, <1>6, <1>7, <1>8 DEF PendingNext, Handler

\* A step of the invariant's states sends at most the row at hand, once.
LEMMA SendsOnce ==
    ASSUME IInv, [PendingNext]_pendingVars
    PROVE  \A b \in Bars : taken'[b] # taken[b] => taken[b] = 0 /\ clock = Due(b)
<1>1. CASE UNCHANGED pendingVars
  BY <1>1 DEF pendingVars, external
<1>2. CASE taken' = taken
  BY <1>2
<1>3. CASE step.at = "posting" /\ Take(step.row)
  <2>1. taken[step.row] = 0 /\ taken' = [taken EXCEPT ![step.row] = 1]
    BY <1>3, TakeIs
  <2>2. step.row \in Bars /\ clock = Due(step.row)
    BY <1>3, StepIs DEF Submitting, Due
  <2> QED
    BY <2>1, <2>2 DEF IInv, PendingTypeOK
<1> QED
  BY <1>1, <1>2, <1>3, OnlyPostsTake

(* The shape of every variable, in every state of the specification.       *)
THEOREM PendingTypes == PendingSpec => []PendingTypeOK
<1>1. IInv => PendingTypeOK
  BY DEF IInv
<1> QED
  BY <1>1, PendingHolds, PTL

(* The account never holds the lots of two entries, whatever dies, is lost *)
(* or is taken for a refusal: after a lot of one entry, process_aggtrade   *)
(* submits nothing before the position was compared with the exchange's.   *)
THEOREM OneEntry == PendingSpec => []OneEntryAtATime
<1>1. IInv => OneEntryAtATime
  BY DEF IInv
<1> QED
  BY <1>1, PendingHolds, PTL

(* Unless the process died, a resolved row of pending_actions says what    *)
(* became of its order, or the order is in doubt or was misjudged.         *)
THEOREM RowsTellTheTruth == PendingSpec => []ResolutionIsTrue
<1>1. IInv => ResolutionIsTrue
  BY DEF IInv
<1> QED
  BY <1>1, PendingHolds, PTL

(* The exchange takes the order of a decision once at most, and only in    *)
(* the bar expected_execution_open_time names, across deaths and starts.   *)
THEOREM SentOnce == PendingSpec => SentOnceInItsBar
<1>1. IInv /\ [PendingNext]_pendingVars =>
        [\A b \in Bars : taken'[b] # taken[b] => taken[b] = 0 /\ clock = Due(b)]_pendingVars
  BY SendsOnce
<1> QED
  BY <1>1, PendingHolds, PTL DEF PendingSpec, SentOnceInItsBar
=============================================================================
