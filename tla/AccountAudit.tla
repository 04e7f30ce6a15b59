---------------------------- MODULE AccountAudit ----------------------------
(***************************************************************************)
(* The account audit of a LIVE engine around the fill path: at start and   *)
(* on every candle close or ACCOUNT_UPDATE the engine compares its         *)
(* position with the exchange's, recovers trades it has not seen from the  *)
(* account's trade history, and where they still differ it overwrites its  *)
(* own position and engages the kill switch.  Unresolved orders and failed *)
(* audits block entries; the safety gates decide after each start whether  *)
(* the engine may trade.                                                   *)
(*                                                                         *)
(* The audit asks the exchange several things in a row and the exchange    *)
(* moves on in between; the event loop runs no other handler meanwhile.    *)
(***************************************************************************)
EXTENDS FillLedger

VARIABLES
    tape,       \* external: the account's trades, oldest first
    audit,      \* where the audit is
    killed,     \* the kill switch file is engaged
    unknown,    \* health.unknown_orders
    required,   \* health.reconciliation_required
    gated,      \* the safety gates have let the engine trade
    before      \* trades older than last_reconciled_trade_ms

guards == <<killed, unknown, required, gated, before>>
auditVars == <<vars, tape, audit, guards>>

-----------------------------------------------------------------------------
(* The audit: off, or fetching and applying trades, auditing the open      *)
(* orders, reading the position, comparing it.  start says that it is the  *)
(* one of initialize; seen is the exchange's position, left the trades     *)
(* still to apply, missing that some open order was not found.             *)

Off == [at |-> "off", start |-> FALSE, whole |-> FALSE, seen |-> 0, left |-> <<>>,
        missing |-> FALSE]

Starting == [Off EXCEPT !.at = "fetch", !.start = TRUE]

\* A position that differs from the one read leads to the whole trade history.
Read == [audit EXCEPT !.at = "fetch", !.whole = TRUE, !.seen = xpos]

\* After the trades: the open orders at start, else the comparison.
Applied == [audit EXCEPT !.at = IF audit.whole THEN "compare" ELSE "orders", !.left = <<>>]

Agrees(long) == pos.qty = long /\ (pos.side = "BUY" \/ long = 0)

AuditInit ==
    /\ Init
    /\ tape = <<>> /\ audit = Off
    /\ killed = FALSE /\ unknown = {} /\ required = FALSE /\ gated = TRUE
    /\ before = 0

-----------------------------------------------------------------------------
(* The exchange (external).                                                *)

Trade(c, q) ==
    /\ ExchangeTrade(c, q)
    /\ tape' = Append(tape, [cid |-> c, trade |-> xchg[c].cum + q, lots |-> q])
    /\ UNCHANGED <<audit, guards>>

Market ==
    \E c \in Ids :
        \/ \E q \in 1 .. Qty[c] : Trade(c, q)
        \/ /\ \/ ExchangeAccept(c) \/ ExchangeRefuse(c)
              \/ \E s \in Ends : ExchangeEnd(c, s)
           /\ UNCHANGED <<tape, audit, guards>>

-----------------------------------------------------------------------------
(* Handlers of the fill path, between audits.                              *)

\* Entries need a flat position and a clean bill of health.
MayEnter == ~killed /\ ~required /\ unknown = {} /\ IsFlat(pos)

Place(c) ==
    /\ gated
    /\ c \in Entries => MayEnter
    /\ Submit(c)
    /\ UNCHANGED unknown

\* Mutant of LoseTrack: only an order that stays unresolved blocks entries.
LoseTrackLate ==
    \/ PlacementUnknown /\ UNCHANGED unknown
    \/ ResolveUnresolved /\ unknown' = unknown \cup {task.report.cid}

\* An order whose outcome is not known blocks entries until it is resolved.
LoseTrack ==
    /\ PlacementUnknown \/ ResolveUnresolved
    /\ unknown' = unknown \cup {task.report.cid}

\* Found and saved, or absent.
Resolve ==
    /\ Resave \/ ResolveAbsent
    /\ unknown' = unknown \ {task.report.cid}

Serve ==
    /\ audit.at = "off"
    /\ \/ \E c \in Ids : Place(c)
       \/ LoseTrack \/ Resolve
       \/ /\ \/ \E e \in events : Deliver(e) \/ Respond(e)
             \/ PlacementFails \/ ResolveFound \/ Record \/ Settle
          /\ UNCHANGED unknown
    /\ UNCHANGED <<tape, audit, killed, required, gated, before>>

-----------------------------------------------------------------------------
(* Start: replay, then recent trades, open orders, position.               *)

Revive ==
    /\ Restart \/ Replay
    /\ UNCHANGED <<tape, audit, guards>>

BeginStart ==
    /\ ReplayDone
    /\ audit' = Starting
    /\ UNCHANGED <<tape, guards>>

(* The open orders, on the fill path's own steps: a finished order is no   *)
(* longer in doubt, one that is not found is when it was never answered.   *)
AuditOrders ==
    /\ audit.at = "orders"
    /\ \/ /\ (\E c \in Ids : AuditFound(c)) \/ Record \/ Settle
          /\ UNCHANGED <<unknown, audit>>
       \/ /\ Resave
          /\ unknown' = IF task.report.status \in Terminal
                        THEN unknown \ {task.report.cid} ELSE unknown
          /\ UNCHANGED audit
       \/ \E c \in Ids :
             /\ AuditMissing(c)
             /\ unknown' = IF orders[c].status \in {"UNKNOWN", "SUBMITTING"}
                           THEN unknown \cup {c} ELSE unknown
             /\ audit' = [audit EXCEPT !.missing = TRUE]
    /\ UNCHANGED <<tape, killed, required, gated, before>>

(* The end of an audit.  At start an incomplete one requires another and,  *)
(* on a LIVE account, kills; its time is where the next start reads from.  *)
Finish(matched, kill) ==
    LET clean == matched /\ ~audit.missing
    IN  /\ audit' = Off
        /\ IF audit.start
           THEN /\ required' = ~clean
                /\ killed' = (killed \/ kill \/ ~clean)
                /\ before' = Len(tape)
           ELSE /\ killed' = (killed \/ kill)
                /\ UNCHANGED <<required, before>>
        /\ UNCHANGED <<exchange, orders, fills, dbOrders, clamped, task, crashes,
                       tape, unknown, gated>>

-----------------------------------------------------------------------------
(* reconcile_position and reconcile_recent_fills.                          *)

ReadPosition ==
    /\ task.at = "idle"
    /\ audit.at \in {"off", "orders"}
    /\ IF Agrees(xpos)
       THEN audit.start /\ Finish(TRUE, FALSE) /\ UNCHANGED pos
       ELSE audit' = Read /\ UNCHANGED <<vars, tape, guards>>

(* The history is read, or cannot be read and nothing is recovered.  (Next *)
(* to the trades of a mismatch the code means to audit the open orders,    *)
(* but reads an attribute OrderManager does not have; the error is caught.)*)
FetchTrades ==
    /\ audit.at = "fetch"
    /\ \/ audit' = [audit EXCEPT
             !.at = "apply",
             !.left = SubSeq(tape, IF audit.whole THEN 1 ELSE before + 1, Len(tape))]
       \/ audit' = Applied
    /\ UNCHANGED <<vars, tape, guards>>

\* The exchange names a trade's order by its own id, known from an earlier report.
Attributed(c) == orders[c].status \in ReportStatus \/ dbOrders[c].status \in ReportStatus

\* The report made up for a trade: its quantity on top of what was applied.
Recovered(t) ==
    [cid |-> t.cid, status |-> "PARTIALLY_FILLED", cum |-> orders[t.cid].applied + t.lots,
     trade |-> t.trade]

ApplyTrade ==
    /\ audit.at = "apply" /\ audit.left # <<>>
    /\ LET t == Head(audit.left)
       IN  IF Attributed(t.cid) /\ ~Recorded(Recovered(t))
           THEN /\ fills' = Append(fills, Recovered(t))
                /\ ApplyReport(Recovered(t))
           ELSE UNCHANGED engine
    /\ audit' = [audit EXCEPT !.left = Tail(@)]
    /\ UNCHANGED <<exchange, task, crashes, tape, guards>>

TradesApplied ==
    /\ audit.at = "apply" /\ audit.left = <<>>
    /\ audit' = Applied
    /\ UNCHANGED <<vars, tape, guards>>

\* Mutants of Compare: the position is taken over quietly; the switch is engaged
\* and the position left as it is.
CompareQuietly ==
    /\ audit.at = "compare"
    /\ Finish(Agrees(audit.seen), FALSE)
    /\ pos' = SyncFromExchange([side |-> "BUY", qty |-> audit.seen])

CompareKillOnly ==
    /\ audit.at = "compare"
    /\ Finish(Agrees(audit.seen), ~Agrees(audit.seen))
    /\ UNCHANGED pos

\* A difference that is left is settled by taking the exchange's position.
Compare ==
    /\ audit.at = "compare"
    /\ IF Agrees(audit.seen)
       THEN Finish(TRUE, FALSE) /\ UNCHANGED pos
       ELSE /\ Finish(FALSE, TRUE)
            /\ pos' = SyncFromExchange([side |-> "BUY", qty |-> audit.seen])

-----------------------------------------------------------------------------
(* Death, the safety gates and the operator.                               *)

Forget ==
    /\ audit' = Off /\ unknown' = {} /\ required' = FALSE /\ gated' = FALSE
    /\ UNCHANGED <<tape, killed, before>>

Die == Crash /\ Forget

\* What the gates ask of a started engine.
Clean == ~killed /\ ~required /\ unknown = {} /\ \A c \in Ids : dbOrders[c].applied <= Qty[c]

GatesPass ==
    /\ task.at = "idle" /\ audit.at = "off" /\ ~gated
    /\ Clean
    /\ gated' = TRUE
    /\ UNCHANGED <<vars, tape, audit, killed, unknown, required, before>>

\* A gate that fails ends the process.
GatesRefuse ==
    /\ task.at = "idle" /\ audit.at = "off" /\ ~gated
    /\ ~Clean
    /\ orders' = [c \in Ids |-> NoOrder]
    /\ pos' = Flat
    /\ task' = Down
    /\ UNCHANGED <<exchange, fills, dbOrders, clamped, crashes>>
    /\ Forget

\* --disengage-kill
Disengage ==
    /\ killed
    /\ killed' = FALSE
    /\ UNCHANGED <<vars, tape, audit, unknown, required, gated, before>>

-----------------------------------------------------------------------------
Engine ==
    \/ Serve \/ Revive \/ BeginStart \/ AuditOrders
    \/ ReadPosition \/ FetchTrades \/ ApplyTrade \/ TradesApplied \/ Compare
    \/ GatesPass \/ GatesRefuse

AuditNext == Market \/ Engine \/ Die \/ Disengage

AuditSpec == AuditInit /\ [][AuditNext]_auditVars
-----------------------------------------------------------------------------
(* Properties.                                                             *)

\* The shape of every variable.
AuditTypeOK ==
    /\ TypeOK
    /\ tape \in Seq([cid : Ids, trade : Nat, lots : Nat])
    /\ audit \in [at : {"off", "fetch", "apply", "orders", "compare"},
                  start : BOOLEAN, whole : BOOLEAN, seen : Nat,
                  left : Seq([cid : Ids, trade : Nat, lots : Nat]), missing : BOOLEAN]
    /\ killed \in BOOLEAN /\ unknown \subseteq Ids /\ required \in BOOLEAN
    /\ gated \in BOOLEAN /\ before \in Nat

(* An engine that trades and holds an order whose outcome it does not know *)
(* never takes an entry: the order is on the list that blocks them, also   *)
(* after deaths and restarts that found it UNKNOWN in the store.           *)
DoubtBlocksEntries ==
    gated => \A c \in Ids : orders[c].status = "UNKNOWN" => c \in unknown

(* However often trades are recovered next to REST answers, events and     *)
(* replays, one trade is recovered once: an order is applied at most twice *)
(* what the exchange executed of it.                                       *)
AppliedAtMostTwice ==
    \A c \in Ids : orders[c].applied <= 2 * xchg[c].cum

(* A LIVE engine never overwrites its position quietly: whenever the       *)
(* position moves without an order being applied, the process has died or  *)
(* the kill switch is engaged.                                             *)
SyncKills ==
    [][pos' # pos /\ orders' = orders => killed' \/ task'.at = "down"]_auditVars

-----------------------------------------------------------------------------
(* Liveness.  A handler that was started, a start-up included, runs to its *)
(* end, and while the engine trades some later candle close or account     *)
(* update runs an audit.  The exchange, the stream and the operator owe    *)
(* nothing.                                                                *)

Busy == (task.at # "idle" \/ audit.at # "off" \/ ~gated) /\ Engine

Candle == gated /\ ReadPosition

FairAuditSpec == AuditSpec /\ WF_auditVars(Busy) /\ WF_auditVars(Candle)

(* The engine does not stay wrong: however its events are lost, late or    *)
(* repeated, its position is the exchange's again and again.               *)
Reconverges == []<>(task.at = "idle" /\ audit.at = "off" /\ Agrees(xpos))
=============================================================================
