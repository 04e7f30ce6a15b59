------------------------------ MODULE Alerting ------------------------------
(***************************************************************************)
(* What an operator hears: the health supervisor and its alerter in the    *)
(* engine, the audit log and the order table, and the Telegram watcher, a  *)
(* process of its own that reads them and answers commands.                *)
(*                                                                         *)
(* A tick is one interval of the supervisor.  A message is the thing it is *)
(* about; told holds the messages of the watcher's present life.            *)
(***************************************************************************)
EXTENDS Integers, Sequences, FiniteSets, Bags, SequencesExt

CONSTANTS
    Conditions,     \* of SUPERVISED_CONDITIONS, by their categories
    Emergencies,    \* the categories the watcher passes on
    Window,         \* dedup_window_s, in ticks
    FillOrders,     \* orders of the order table
    MaxChanges,     \* bound on changes of conditions
    MaxLog,         \* bound on the audit events that are kept
    MaxCommands,    \* bound on commands sent to the bot
    MaxLives        \* bound on starts of the watcher

ASSUME AlertingAssumption ==
    /\ IsFiniteSet(Conditions) /\ IsFiniteSet(FillOrders)
    /\ Window \in Nat \ {0} /\ MaxChanges \in Nat /\ MaxLog \in Nat
    /\ MaxCommands \in Nat /\ MaxLives \in Nat

VARIABLES
    trouble,    \* conditions that hold
    seen,       \* history: those that held at the last check
    stamp,      \* ticks since _last_sent of a category, Unsent for no entry
    raised,     \* _active
    changes,
    audit,      \* audit_events: slot events and alerts
    table,      \* the status of every order
    watching,   \* the watcher runs
    mark,       \* last_event_id
    keys,       \* _notified_order_ids
    asked,      \* external: who sent each command, in order
    confirmed,  \* external: updates Telegram has dropped as confirmed
    lastUpdate, \* last_update_id
    told,       \* messages sent in this life of the watcher, a bag
    lives

alerter == <<trouble, seen, stamp, raised, changes>>
inbox == <<asked, confirmed, lastUpdate>>
alertVars == <<alerter, audit, table, watching, mark, keys, inbox, told, lives>>

-----------------------------------------------------------------------------
Unsent == -1

Statuses == {"PARTIALLY_FILLED", "FILLED"}

AlertInit ==
    /\ trouble = {} /\ seen = {} /\ raised = {} /\ changes = 0
    /\ stamp = [c \in Conditions |-> Unsent]
    /\ audit = <<>> /\ table = [o \in FillOrders |-> "NONE"]
    /\ watching = FALSE /\ mark = 0 /\ keys = {}
    /\ asked = <<>> /\ confirmed = 0 /\ lastUpdate = 0
    /\ told = EmptyBag /\ lives = 0

-----------------------------------------------------------------------------
(* The engine.                                                             *)

Change(c) ==
    /\ changes < MaxChanges
    /\ changes' = changes + 1
    /\ trouble' = IF c \in trouble THEN trouble \ {c} ELSE trouble \cup {c}
    /\ UNCHANGED <<seen, stamp, raised, audit, table, watching, mark, keys, inbox, told, lives>>

\* alert: suppressed while the last one is younger than the window.
Alerts == {c \in trouble : stamp[c] = Unsent \/ stamp[c] >= Window}

Recovers == raised \ trouble

\* Mutant of StampAfter: a recovered category stays suppressed.
StampAfterRecovery(c) == IF c \in Alerts THEN 0 ELSE stamp[c]

StampAfter(c) == IF c \in Alerts THEN 0 ELSE IF c \in Recovers THEN Unsent ELSE stamp[c]

\* HealthSupervisor.check after SUPERVISOR_INTERVAL_S, ages counted in ticks.
Check ==
    LET news == SetToSeq(Alerts \cup Recovers)
    IN  /\ raised' = (raised \cup Alerts) \ Recovers
        /\ stamp' = [c \in Conditions |->
                       IF StampAfter(c) = Unsent \/ StampAfter(c) >= Window THEN StampAfter(c)
                       ELSE StampAfter(c) + 1]
        /\ seen' = trouble
        /\ audit' = IF Len(audit) + Len(news) <= MaxLog THEN audit \o news ELSE audit
        /\ UNCHANGED <<trouble, changes, table, watching, mark, keys, inbox, told, lives>>

\* The engine process dies and is started again: the alerter forgets.
Reset ==
    /\ changes < MaxChanges
    /\ changes' = changes + 1
    /\ seen' = {} /\ raised' = {}
    /\ stamp' = [c \in Conditions |-> Unsent]
    /\ UNCHANGED <<trouble, audit, table, watching, mark, keys, inbox, told, lives>>

SlotEvent ==
    /\ Len(audit) < MaxLog
    /\ audit' = Append(audit, "SLOT")
    /\ UNCHANGED <<alerter, table, watching, mark, keys, inbox, told, lives>>

OrderMoves(o, s) ==
    /\ table[o] # "FILLED" /\ table[o] # s
    /\ table' = [table EXCEPT ![o] = s]
    /\ UNCHANGED <<alerter, audit, watching, mark, keys, inbox, told, lives>>

-----------------------------------------------------------------------------
(* The watcher.                                                            *)

\* send_message: whether it arrives or not, it is not sent again.
Tell(what) == told (+) SetToBag(what)

(* init_high_water_marks and init_telegram_updates; either may fail and    *)
(* leave its mark at 0.                                                    *)
Watch(store, net) ==
    /\ ~watching /\ lives < MaxLives
    /\ lives' = lives + 1 /\ watching' = TRUE
    /\ mark' = IF store THEN Len(audit) ELSE 0
    /\ keys' = {} /\ told' = EmptyBag
    /\ lastUpdate' = IF net THEN Len(asked) ELSE 0
    /\ confirmed' = IF net THEN Len(asked) ELSE confirmed
    /\ UNCHANGED <<alerter, audit, table, asked>>

WatcherDies ==
    /\ watching
    /\ watching' = FALSE
    /\ UNCHANGED <<alerter, audit, table, mark, keys, inbox, told, lives>>

Notable(e) == e = "SLOT" \/ e \in Emergencies

NewEvents == {i \in 1..Len(audit) : i > mark /\ Notable(audit[i])}

\* _check_audit_events.
PollEvents ==
    /\ watching /\ Len(audit) > mark
    /\ told' = Tell({<<"event", i>> : i \in NewEvents})
    /\ mark' = Len(audit)
    /\ UNCHANGED <<alerter, audit, table, watching, keys, inbox, lives>>

Key(o) == <<o, table[o]>>

\* _check_orders: the key is kept before the message is sent, and for good.
PollOrders ==
    LET new == {o \in FillOrders : table[o] # "NONE" /\ Key(o) \notin keys}
    IN  /\ watching /\ new # {}
        /\ keys' = keys \cup {Key(o) : o \in new}
        /\ told' = Tell({<<"fill", o>> : o \in {p \in new : table[p] = "FILLED"}})
        /\ UNCHANGED <<alerter, audit, table, watching, mark, inbox, lives>>

Send(who) ==
    /\ Len(asked) < MaxCommands
    /\ asked' = Append(asked, who)
    /\ UNCHANGED <<alerter, audit, table, watching, mark, keys, confirmed, lastUpdate, told, lives>>

Pending(i) == i > confirmed /\ i > lastUpdate /\ i <= Len(asked)

(* poll_commands: the request confirms what came before its offset; an     *)
(* error in the answer to command k ends the poll with k counted as read.  *)
PollCommands(k, answered) ==
    LET done == {i \in 1..Len(asked) : Pending(i) /\ (i < k \/ (i = k /\ answered))}
    IN  /\ watching /\ Pending(k)
        /\ answered => k = Len(asked)
        /\ confirmed' = IF lastUpdate > confirmed THEN lastUpdate ELSE confirmed
        /\ lastUpdate' = k
        /\ told' = Tell({<<"answer", i>> : i \in {j \in done : asked[j] = "operator"}})
        /\ UNCHANGED <<alerter, audit, table, watching, mark, keys, asked, lives>>

-----------------------------------------------------------------------------
AlertNext ==
    \/ \E c \in Conditions : Change(c)
    \/ Check \/ Reset \/ SlotEvent
    \/ \E o \in FillOrders, s \in Statuses : OrderMoves(o, s)
    \/ \E store \in BOOLEAN, net \in BOOLEAN : Watch(store, net)
    \/ WatcherDies \/ PollEvents \/ PollOrders
    \/ \E who \in {"operator", "stranger"} : Send(who)
    \/ \E k \in 1..MaxCommands, answered \in BOOLEAN : PollCommands(k, answered)

\* The supervisor and the watcher go round for as long as they run.
AlertFairness == WF_alertVars(Check) /\ WF_alertVars(PollEvents) /\ WF_alertVars(PollOrders)

AlertSpec == AlertInit /\ [][AlertNext]_alertVars /\ AlertFairness
-----------------------------------------------------------------------------
(* Properties.                                                             *)

Things ==
    ({"event"} \X (1..MaxLog)) \cup ({"fill"} \X FillOrders) \cup ({"answer"} \X (1..MaxCommands))

\* The shape of every variable.
AlertTypeOK ==
    /\ trouble \subseteq Conditions /\ seen \subseteq Conditions /\ raised \subseteq Conditions
    /\ stamp \in [Conditions -> Unsent..Window] /\ changes \in 0..MaxChanges
    /\ audit \in Seq(Conditions \cup {"SLOT"}) /\ Len(audit) <= MaxLog
    /\ table \in [FillOrders -> Statuses \cup {"NONE"}]
    /\ watching \in BOOLEAN /\ mark \in 0..Len(audit)
    /\ keys \subseteq FillOrders \X Statuses
    /\ asked \in Seq({"operator", "stranger"}) /\ Len(asked) <= MaxCommands
    /\ confirmed \in 0..Len(asked) /\ lastUpdate \in 0..Len(asked)
    /\ IsABag(told) /\ BagToSet(told) \subseteq Things /\ lives \in 0..MaxLives

(* The alarms that are up are the conditions the last check found, though  *)
(* repeated alerts are suppressed and conditions come and go within the    *)
(* window: none stays up after its condition, none is swallowed.           *)
AlarmsAreTrue == raised = seen

(* In one life of the watcher nothing is told twice: no event, no fill and *)
(* no answer, and no stranger is answered.                                 *)
ToldOnce ==
    \A t \in BagToSet(told) :
        /\ told[t] = 1
        /\ t[1] = "answer" => asked[t[2]] = "operator"

(* A fill is told, even if the order was told of in an earlier state,      *)
(* unless the watcher dies first.                                          *)
FillsAreTold ==
    \A o \in FillOrders : watching /\ table[o] = "FILLED" ~> BagIn(<<"fill", o>>, told) \/ ~watching
=============================================================================
