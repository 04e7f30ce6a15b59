--------------------------- MODULE PendingActions ---------------------------
(***************************************************************************)
(* Deferred decisions of a strategy whose fill model is next_open: the     *)
(* decision taken at the close of bar b is a row of the pending_actions    *)
(* table and is executed inside bar b + 1, once, or expires.               *)
(*                                                                         *)
(* Time is the bar of the latest trade.  One trade runs process_aggtrade:  *)
(* the pending rows first, and then, when it opens a new bar, the close    *)
(* and evaluation of the bar before.  A row is executed through            *)
(* _submit_entry or _submit_exit, whose steps between commits are steps of *)
(* this module, so that the process may die between any two of them; an    *)
(* outcome not known is resolved by the absence proof, query by query.     *)
(*                                                                         *)
(* One order is one lot, a single-slot strategy in an authenticated mode   *)
(* without the kill switch (LIVE only blocks more).  MARKET orders trade   *)
(* when the exchange takes them; the answer may still say NEW.  An event   *)
(* the private stream has not delivered when a bar is evaluated is lost.   *)
(***************************************************************************)
EXTENDS OrderManager, Integers

CONSTANTS
    MaxBar,         \* the last bar of the instance
    Queries,        \* ABSENCE_PROOF_QUERIES
    MaxCrashes,     \* bound on deaths of the process
    MaxBreaks       \* bound on losses of market data continuity

ASSUME BarsAssumption == MaxBar \in Nat \ {0}
ASSUME QueriesAssumption == Queries \in Nat \ {0}
ASSUME BoundsAssumption == MaxCrashes \in Nat /\ MaxBreaks \in Nat

VARIABLES
    clock,      \* the bar of the latest trade
    bar,        \* the bar being built, 0 after a start
    judged,     \* the last bar in the strategy's history
    synced,     \* no gap, desynchronisation or hole in the history
    rows,       \* the pending_actions table, by the bar of the signal
    tracked,    \* OrderManager._orders_by_client_id, by the bar of the signal
    saved,      \* the orders table with what the ledger has of each order
    held,       \* PositionManager.quantity
    doubts,     \* health.unknown_orders
    audit,      \* health.reconciliation_required
    step,       \* where process_aggtrade is
    taken,      \* external: how often the exchange took each order
    xheld,      \* external: the account's position
    pushed,     \* external: executions the private stream has still to deliver
    misjudged,  \* orders of the exchange that were taken for refused or absent
    crashes, breaks

store == <<rows, saved>>
engine == <<tracked, held, doubts, audit>>
external == <<taken, xheld, pushed>>
bounds == <<misjudged, crashes, breaks>>
pendingVars == <<clock, bar, judged, synced, store, engine, step, external, bounds>>

-----------------------------------------------------------------------------
Bars == 1..MaxBar

\* The bars whose decision can still fall due within the instance.
Decided == 1..(MaxBar - 2)

Actions == {"ENTER_LONG", "EXIT_LONG"}

Resolutions == {"EXECUTED", "BLOCKED", "EXPIRED_MISSED_EXECUTION_WINDOW"}

NoRow == [action |-> "NONE", state |-> "NONE", resolution |-> "NONE"]

NewRow(action) == [action |-> action, state |-> "PENDING", resolution |-> "NONE"]

Row == [action : Actions, state : {"PENDING"}, resolution : {"NONE"}]
          \cup [action : Actions, state : {"RESOLVED"}, resolution : Resolutions]

\* expected_execution_open_time
Due(b) == b + 1

Pending == {b \in Bars : rows[b].state = "PENDING"}

IsEntry(b) == rows[b].action = "ENTER_LONG"

(* process_aggtrade is idle, down, going through the rows still to be      *)
(* looked at, or at a step of the submission of the row of bar row.  asked *)
(* counts the queries of the absence proof; closes says that the trade     *)
(* opens a bar and so closes the one being built.                          *)
Idle == [at |-> "idle", left |-> {}, row |-> 0, asked |-> 0, closes |-> FALSE]

Down == [Idle EXCEPT !.at = "down"]

At(where, b) == [step EXCEPT !.at = where, !.row = b, !.asked = 0]

\* The next row in the order of its execution time.
Next1 == CHOOSE b \in step.left : \A c \in step.left : b <= c

PendingInit ==
    /\ clock = 1 /\ bar = 0 /\ judged = 0
    /\ synced = TRUE
    /\ rows = [b \in Bars |-> NoRow]
    /\ tracked = [b \in Bars |-> NoOrder]
    /\ saved = [b \in Bars |-> NoOrder]
    /\ held = 0
    /\ doubts = {} /\ audit = FALSE
    /\ step = Idle
    /\ taken = [b \in Bars |-> 0]
    /\ xheld = 0
    /\ pushed = {}
    /\ misjudged = {} /\ crashes = 0 /\ breaks = 0

-----------------------------------------------------------------------------
(* Trades, and the continuity of market data.                              *)

\* A trade of bar b is fed to the engine.
Trade(b) ==
    /\ step.at = "idle" /\ b >= clock
    /\ b > bar \/ Pending # {}
    /\ clock' = b /\ bar' = b
    /\ step' = [Idle EXCEPT !.at = "rows", !.left = Pending, !.closes = bar \in 1..(b - 1)]
    /\ UNCHANGED <<judged, synced, store, engine, external, bounds>>

\* A gap or a hole in the history is found, and closed.
Break ==
    /\ step.at = "idle" /\ synced /\ breaks < MaxBreaks
    /\ synced' = FALSE
    /\ breaks' = breaks + 1
    /\ UNCHANGED <<clock, bar, judged, store, engine, step, external, misjudged, crashes>>

Heal ==
    /\ step.at = "idle" /\ ~synced
    /\ synced' = TRUE
    /\ UNCHANGED <<clock, bar, judged, store, engine, step, external, bounds>>

-----------------------------------------------------------------------------
(* process_pending_actions: one row after the other.                       *)

Resolve(b, resolution) ==
    rows' = [rows EXCEPT ![b].state = "RESOLVED", ![b].resolution = resolution]

\* Where the handler goes on after row b.
Looked(b) == [step EXCEPT !.at = "rows", !.left = @ \ {b}, !.asked = 0, !.row = 0]

\* Mutant of Missed: a row is never too old to be executed.
MissedNever(b) == FALSE

Missed(b) == clock > Due(b)

\* Not due yet, or blocked by data that is not whole: the row stays.
Keep ==
    LET b == Next1
    IN  /\ step.at = "rows" /\ step.left # {}
        /\ ~Missed(b)
        /\ clock < Due(b) \/ ~synced
        /\ step' = Looked(b)
        /\ UNCHANGED <<clock, bar, judged, synced, store, engine, external, bounds>>

\* Mutant of Expire: the row is passed over and stays.
ExpireSilently ==
    /\ step.at = "rows" /\ step.left # {} /\ Missed(Next1)
    /\ step' = Looked(Next1)
    /\ UNCHANGED <<clock, bar, judged, synced, store, engine, external, bounds>>

Expire ==
    LET b == Next1
    IN  /\ step.at = "rows" /\ step.left # {}
        /\ Missed(b)
        /\ Resolve(b, "EXPIRED_MISSED_EXECUTION_WINDOW")
        /\ step' = Looked(b)
        /\ UNCHANGED <<clock, bar, judged, synced, saved, engine, external, bounds>>

Execute ==
    LET b == Next1
    IN  /\ step.at = "rows" /\ step.left # {}
        /\ ~Missed(b) /\ clock >= Due(b) /\ synced
        /\ step' = At("guards", b)
        /\ UNCHANGED <<clock, bar, judged, synced, store, engine, external, bounds>>

\* resolve_pending_action, the last commit of a row.
Note(resolution) == step' = At(resolution, step.row)

Noted ==
    /\ step.at \in {"EXECUTED", "BLOCKED"}
    /\ Resolve(step.row, step.at)
    /\ step' = Looked(step.row)
    /\ UNCHANGED <<clock, bar, judged, synced, saved, engine, external, bounds>>

-----------------------------------------------------------------------------
(* _submit_entry and _submit_exit.                                         *)

(* An entry needs an engine without doubt and a flat position; an exit a   *)
(* position, here and on the exchange.                                     *)
Allowed(b) ==
    IF IsEntry(b) THEN doubts = {} /\ ~audit /\ held = 0 ELSE held > 0 /\ xheld > 0

\* Refused by those checks, by another guard, or by an unreadable position.
Refuse ==
    /\ step.at = "guards"
    /\ Note("BLOCKED")
    /\ UNCHANGED <<clock, bar, judged, synced, store, engine, external, bounds>>

IsSent(o) == o.status \in {"SUBMITTING", "NEW", "PARTIALLY_FILLED", "FILLED"}

Skip ==
    /\ step.at = "guards" /\ Allowed(step.row)
    /\ IsSent(tracked[step.row])
    /\ Note("EXECUTED")
    /\ UNCHANGED <<clock, bar, judged, synced, store, engine, external, bounds>>

\* The intent is stored before anything is sent.
Intend ==
    LET b == step.row
        intent == [status |-> "SUBMITTING", filled |-> 0, applied |-> 0]
    IN  /\ step.at = "guards" /\ Allowed(b) /\ ~IsSent(tracked[b])
        /\ tracked' = [tracked EXCEPT ![b] = UpsertOrder(@, intent)]
        /\ saved' = [saved EXCEPT ![b] = [intent EXCEPT !.applied = saved[b].applied]]
        /\ step' = At("posting", b)
        /\ UNCHANGED <<clock, bar, judged, synced, rows, held, doubts, audit, external, bounds>>

\* External: the order is taken and trades at once; an exit is reduce-only.
Take(b) ==
    /\ IsEntry(b) \/ xheld > 0
    /\ taken' = [taken EXCEPT ![b] = @ + 1]
    /\ xheld' = IF IsEntry(b) THEN xheld + 1 ELSE xheld - 1
    /\ pushed' = pushed \cup {b}

\* The answer tells of the trade, or is NEW still.
PostAnswered(status) ==
    LET b == step.row
        answer == [status |-> status, filled |-> IF status = "FILLED" THEN 1 ELSE 0,
                   applied |-> 0]
    IN  /\ step.at = "posting"
        /\ Take(b)
        /\ tracked' = [tracked EXCEPT ![b] = UpsertOrder(@, answer)]
        /\ saved' = [saved EXCEPT ![b] = [answer EXCEPT !.applied = saved[b].applied]]
        /\ step' = At(IF status = "FILLED" THEN "booking" ELSE "EXECUTED", b)
        /\ UNCHANGED <<clock, bar, judged, synced, rows, held, doubts, audit, bounds>>

\* Refused: REJECTED in memory only.
PostRefused ==
    LET b == step.row
    IN  /\ step.at = "posting"
        /\ tracked' = [tracked EXCEPT ![b] = TransitionStatus(@, "REJECTED", 0)]
        /\ Note("BLOCKED")
        /\ UNCHANGED <<clock, bar, judged, synced, store, held, doubts, audit, external, bounds>>

(* The order is taken and the answer lost in a way that _request takes for *)
(* a refusal: a gateway's page that is not JSON, a connection closed.      *)
PostMisread ==
    LET b == step.row
    IN  /\ step.at = "posting"
        /\ Take(b)
        /\ tracked' = [tracked EXCEPT ![b] = TransitionStatus(@, "REJECTED", 0)]
        /\ misjudged' = misjudged \cup {b}
        /\ Note("BLOCKED")
        /\ UNCHANGED <<clock, bar, judged, synced, store, held, doubts, audit, crashes, breaks>>

\* The answer is lost, whether the order was taken or not.
PostLost ==
    LET b == step.row
        o == TransitionStatus(tracked[b], "UNKNOWN", 0)
    IN  /\ step.at = "posting"
        /\ Take(b) \/ UNCHANGED external
        /\ tracked' = [tracked EXCEPT ![b] = o]
        /\ saved' = [saved EXCEPT ![b] = [o EXCEPT !.applied = saved[b].applied]]
        /\ doubts' = doubts \cup {b}
        /\ step' = At("resolving", b)
        /\ UNCHANGED <<clock, bar, judged, synced, rows, held, audit, bounds>>

-----------------------------------------------------------------------------
(* Booking a fill, at the moment the ledger row and the order are saved.   *)

\* The position after the one lot of order b is booked, unless it was before.
Moved(b) ==
    IF tracked[b].applied > 0 THEN held
    ELSE IF IsEntry(b) THEN held + 1
    ELSE IF held > 0 THEN held - 1 ELSE 0

Booked(o) == [TransitionStatus(o, "FILLED", 1) EXCEPT !.filled = 1, !.applied = 1]

Book ==
    LET b == step.row
    IN  /\ step.at = "booking"
        /\ tracked' = [tracked EXCEPT ![b] = Booked(@)]
        /\ saved' = [saved EXCEPT ![b] = Booked(@)]
        /\ held' = Moved(b)
        /\ Note("EXECUTED")
        /\ UNCHANGED <<clock, bar, judged, synced, rows, doubts, audit, external, bounds>>

\* The private stream delivers an execution.
Deliver(b) ==
    /\ step.at = "idle" /\ b \in pushed
    /\ tracked' = [tracked EXCEPT
                     ![b] = Booked(IF @ # NoOrder THEN @ ELSE saved[b])]
    /\ saved' = [saved EXCEPT ![b] = Booked(@)]
    /\ held' = Moved(b)
    /\ pushed' = pushed \ {b}
    /\ UNCHANGED <<clock, bar, judged, synced, rows, doubts, audit, step, taken, xheld, bounds>>

-----------------------------------------------------------------------------
(* The absence proof of resolve_unknown_order.                             *)

\* Mutant of Asked: one query more.
AskedPast == step.asked > Queries

Asked == step.asked >= Queries

\* The query does not get through; it counts like an answer.
QueryFails ==
    /\ step.at = "resolving" /\ ~Asked
    /\ step' = [step EXCEPT !.asked = @ + 1]
    /\ UNCHANGED <<clock, bar, judged, synced, store, engine, external, bounds>>

\* The exchange, which the backoff gives time to index a new order, has none.
QueryNotFound ==
    /\ step.at = "resolving" /\ ~Asked /\ taken[step.row] = 0
    /\ step' = [step EXCEPT !.asked = @ + 1]
    /\ UNCHANGED <<clock, bar, judged, synced, store, engine, external, bounds>>

QueryFound ==
    LET b == step.row
    IN  /\ step.at = "resolving" /\ ~Asked /\ taken[b] > 0
        /\ tracked' = [tracked EXCEPT ![b] = Booked(@)]
        /\ saved' = [saved EXCEPT ![b] = Booked(@)]
        /\ held' = Moved(b)
        /\ doubts' = doubts \ {b}
        /\ Note("EXECUTED")
        /\ UNCHANGED <<clock, bar, judged, synced, rows, audit, external, bounds>>

(* No query found the order and no account trade names it.  A trade names  *)
(* the exchange's id of the order, which a lost answer did not bring.      *)
ConcludeAbsent ==
    LET b == step.row
    IN  /\ step.at = "resolving" /\ Asked
        /\ tracked' = [tracked EXCEPT ![b] = TransitionStatus(@, "REJECTED", 0)]
        /\ doubts' = doubts \ {b}
        /\ misjudged' = IF taken[b] > 0 THEN misjudged \cup {b} ELSE misjudged
        /\ Note("BLOCKED")
        /\ UNCHANGED <<clock, bar, judged, synced, store, held, audit, external, crashes, breaks>>

\* Mutant of ConcludeNothing: the order leaves the list that blocks entries.
ConcludeNothingCleared ==
    /\ step.at = "resolving" /\ Asked
    /\ doubts' = doubts \ {step.row}
    /\ Note("BLOCKED")
    /\ UNCHANGED <<clock, bar, judged, synced, store, tracked, held, audit, external, bounds>>

\* The account's trades cannot be read: the order stays in doubt.
ConcludeNothing ==
    /\ step.at = "resolving" /\ Asked
    /\ Note("BLOCKED")
    /\ UNCHANGED <<clock, bar, judged, synced, store, engine, external, bounds>>

-----------------------------------------------------------------------------
(* The close of a bar: evaluation, deferral, reconciliation.               *)

\* Mutant of Audited: the evaluation ends without the comparison.
AuditedNever == held' = held

(* reconcile_position at the end of an evaluation: the position is made    *)
(* the exchange's.                                                         *)
Audited == held' = xheld

(* Every bar not yet in the history is evaluated, the ones a hole left out *)
(* from the exchange's klines; each may decide, and a decision is stored.  *)
Evaluate ==
    /\ step.at = "rows" /\ step.left = {} /\ step.closes
    /\ \E decision \in [(judged + 1)..(clock - 1) -> Actions \cup {"NONE"}] :
          /\ \A b \in DOMAIN decision \ Decided : decision[b] = "NONE"
          /\ rows' = [b \in Bars |->
                        IF b \in DOMAIN decision /\ decision[b] # "NONE"
                        THEN NewRow(decision[b]) ELSE rows[b]]
    /\ judged' = clock - 1
    /\ Audited
    /\ pushed' = {}
    /\ step' = Idle
    /\ UNCHANGED <<clock, bar, synced, saved, tracked, doubts, audit, taken, xheld, bounds>>

\* No bar closed, it was seen in part, or its history cannot be made whole.
NoEvaluation ==
    /\ step.at = "rows" /\ step.left = {}
    /\ step' = Idle
    /\ UNCHANGED <<clock, bar, judged, synced, store, engine, external, bounds>>

-----------------------------------------------------------------------------
(* Death and start.                                                        *)

Crash ==
    /\ step.at # "down" /\ crashes < MaxCrashes
    /\ crashes' = crashes + 1
    /\ bar' = 0
    /\ tracked' = [b \in Bars |-> NoOrder]
    /\ held' = 0
    /\ doubts' = {} /\ audit' = FALSE
    /\ pushed' = {}
    /\ step' = Down
    /\ UNCHANGED <<clock, judged, synced, store, taken, xheld, misjudged, breaks>>

Restored(b) ==
    IF saved[b].status \in Open \/ saved[b].applied > 0 THEN saved[b] ELSE NoOrder

\* Open orders that no answer settled.
Unsettled(asked) == {b \in Bars : Restored(b).status \in Open} \ asked

(* The open orders are asked for: a query finds the order, or fails, or    *)
(* has nothing to find.  The position is made the exchange's, the history  *)
(* is primed with the bars that have ended.                                *)
Restart ==
    /\ step.at = "down"
    /\ \E found \in SUBSET {b \in Bars : Restored(b).status \in Open /\ taken[b] > 0} :
          LET after(b, o) == IF b \in found THEN Booked(o) ELSE o
          IN  /\ tracked' = [b \in Bars |-> after(b, Restored(b))]
              /\ saved' = [b \in Bars |-> after(b, saved[b])]
              /\ doubts' = {b \in Unsettled(found) : saved[b].status \in {"UNKNOWN", "SUBMITTING"}}
              /\ audit' = (Unsettled(found) # {})
    /\ held' = xheld
    /\ judged' = Larger(judged, clock - 1)
    /\ synced' = TRUE
    /\ step' = Idle
    /\ UNCHANGED <<clock, bar, rows, external, bounds>>

-----------------------------------------------------------------------------
Rows == Keep \/ Expire \/ Execute \/ Noted

Submission ==
    \/ Refuse \/ Skip \/ Intend \/ PostRefused \/ PostMisread \/ PostLost \/ Book
    \/ \E status \in {"FILLED", "NEW"} : PostAnswered(status)

AbsenceProof ==
    \/ QueryFails \/ QueryNotFound \/ QueryFound
    \/ ConcludeAbsent \/ ConcludeNothing

Handler == Rows \/ Submission \/ AbsenceProof \/ Evaluate \/ NoEvaluation

Advance == \E b \in Bars : b > clock /\ Trade(b)

Stay == Trade(clock)

PendingNext ==
    \/ Advance \/ Stay \/ Break \/ Heal \/ Handler \/ Crash \/ Restart
    \/ \E b \in pushed : Deliver(b)

(* Handlers run to their end and a dead engine is started again.  The      *)
(* market goes on trading, in new bars and at last in the instance's last  *)
(* one, whatever the engine does in between: trades are strongly fair.     *)
PendingFairness ==
    /\ WF_pendingVars(Handler) /\ WF_pendingVars(Restart)
    /\ SF_pendingVars(Advance) /\ SF_pendingVars(Stay)

PendingSpec == PendingInit /\ [][PendingNext]_pendingVars /\ PendingFairness
-----------------------------------------------------------------------------
(* Properties.                                                             *)

\* The shape of every variable.
PendingTypeOK ==
    /\ clock \in Bars /\ bar \in Bars \cup {0} /\ judged \in Nat /\ judged < clock
    /\ synced \in BOOLEAN
    /\ rows \in [Bars -> Row \cup {NoRow}]
    /\ tracked \in [Bars -> Order \cup {NoOrder}] /\ saved \in [Bars -> Order \cup {NoOrder}]
    /\ held \in Nat /\ xheld \in Nat /\ taken \in [Bars -> Nat]
    /\ doubts \subseteq Bars /\ pushed \subseteq Bars /\ misjudged \subseteq Bars
    /\ audit \in BOOLEAN
    /\ step \in [at : {"idle", "down", "rows", "guards", "posting", "booking", "resolving",
                        "EXECUTED", "BLOCKED"},
                 left : SUBSET Bars, row : Bars \cup {0}, asked : 0..Queries,
                 closes : BOOLEAN]
    /\ crashes \in 0..MaxCrashes /\ breaks \in 0..MaxBreaks

(* "Executes exactly once", as far as it can: whatever dies, is lost or is *)
(* retried between a decision and its row's last commit, the exchange      *)
(* takes one order of a decision at most, and only in the bar it was due.  *)
SentOnceInItsBar ==
    [][\A b \in Bars : taken'[b] # taken[b] => taken[b] = 0 /\ clock = Due(b)]_pendingVars

(* The account never holds the lots of two entries.  A lost answer, one    *)
(* taken for a refusal, a wrong proof of absence, a stale NEW, a lost      *)
(* event and a start all leave the engine wrong about its position or its  *)
(* orders, but in doubt, or compared with the exchange before it enters.   *)
OneEntryAtATime == xheld <= 1

(* What a row says of its decision is what became of it: EXECUTED has an   *)
(* order on the exchange, BLOCKED and EXPIRED have none unless the order   *)
(* is on the list of orders in doubt or was misjudged.  Otherwise a death  *)
(* between the order and the row's last commit is the only way to a false  *)
(* row.                                                                    *)
ResolutionIsTrue ==
    crashes = 0 =>
        \A b \in Bars :
            CASE rows[b].resolution = "EXECUTED" -> taken[b] = 1
              [] rows[b].state = "RESOLVED" /\ rows[b].resolution # "EXECUTED" ->
                    taken[b] = 1 => b \in doubts \cup misjudged
              [] OTHER -> TRUE

(* No decision waits for ever: blocked by a gap it is tried again in its   *)
(* own bar, and once that is over it expires, across deaths and starts.    *)
DecisionsSettle ==
    \A b \in Decided : rows[b].state = "PENDING" ~> rows[b].state = "RESOLVED"

=============================================================================
