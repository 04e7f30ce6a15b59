-------------------------- MODULE AccountAuditProofs --------------------------
(***************************************************************************)
(* Proofs about AccountAudit for every set of orders, every quantity and   *)
(* any number of deaths: types, that the position is never overwritten     *)
(* quietly, that an order in doubt blocks entries, and that recovery       *)
(* applies an order at most twice what the exchange executed of it.  The   *)
(* steps of the fill path are those of FillLedger, and its lemmas serve.   *)
(***************************************************************************)
EXTENDS AccountAudit, FillLedgerProofs, FiniteSetTheorems, SequenceTheorems

-----------------------------------------------------------------------------
(* The audit next to the fill path.                                        *)

\* The steps by which the audit itself touches the fill path's state.
AuditTouches == ApplyTrade \/ Compare \/ GatesRefuse

(* Every other step of the audited engine is a step of the fill path, or   *)
(* leaves its state alone.                                                 *)
LEMMA FillPathSteps ==
    ASSUME [AuditNext]_auditVars
    PROVE  [Next]_vars \/ AuditTouches
<1>1. ASSUME NEW c \in Ids, NEW q \in 1 .. Qty[c], Trade(c, q)
      PROVE  Next
  BY <1>1 DEF Trade, Next, Exchange
<1>2. CASE Market
  BY <1>1, <1>2 DEF Market, Next, Exchange
<1>3. CASE Serve
  BY <1>3 DEF Serve, Place, LoseTrack, Resolve, Next, Handler
<1>4. CASE Revive \/ BeginStart \/ AuditOrders
  BY <1>4 DEF Revive, BeginStart, AuditOrders, Next, Handler
<1>5. CASE ReadPosition
  BY <1>5 DEF ReadPosition, Finish, vars, engine
<1>6. CASE FetchTrades \/ TradesApplied \/ GatesPass \/ Disengage
  BY <1>6 DEF FetchTrades, TradesApplied, GatesPass, Disengage
<1>7. CASE Die
  BY <1>7 DEF Die, Next
<1>8. CASE UNCHANGED auditVars
  BY <1>8 DEF auditVars
<1> QED BY <1>2, <1>3, <1>4, <1>5, <1>6, <1>7, <1>8
        DEF AuditNext, Engine, AuditTouches

-----------------------------------------------------------------------------
(* Types.                                                                  *)

TradeRecord == [cid : Ids, trade : Nat, lots : Nat]

AuditType ==
    [at : {"off", "fetch", "apply", "orders", "compare"}, start : BOOLEAN,
     whole : BOOLEAN, seen : Nat, left : Seq(TradeRecord), missing : BOOLEAN]

\* What the audit adds to the fill path's state.
GuardTypes ==
    /\ tape \in Seq(TradeRecord) /\ audit \in AuditType
    /\ killed \in BOOLEAN /\ unknown \subseteq Ids /\ required \in BOOLEAN
    /\ gated \in BOOLEAN /\ before \in Nat

AuditInv == TypeInv /\ GuardTypes

\* A trade of a known order makes a report.
LEMMA RecoveredTypes ==
    ASSUME TypeOK, NEW t \in TradeRecord
    PROVE  Recovered(t) \in Report
<1>1. t.cid \in Ids /\ t.trade \in Nat /\ t.lots \in Nat
  BY DEF TradeRecord
<1>2. orders[t.cid].applied \in Nat
  BY <1>1 DEF TypeOK, Order, NoOrder
<1>3. orders[t.cid].applied + t.lots \in Nat
  BY <1>1, <1>2
<1> QED BY <1>1, <1>3 DEF Recovered, Report, ReportStatus

\* What a recovered trade does: nothing, or its row and its application at once.
LEMMA TradeApplies ==
    ASSUME AuditInv, ApplyTrade
    PROVE  \/ UNCHANGED vars
           \/ \E t \in TradeRecord :
                 /\ t = audit.left[1] /\ Len(audit.left) >= 1
                 /\ Recovered(t) \in Report /\ ~Recorded(Recovered(t)) /\ Attributed(t.cid)
                 /\ fills' = Append(fills, Recovered(t)) /\ ApplyReport(Recovered(t))
                 /\ UNCHANGED <<exchange, task, crashes>>
<1>1. audit.left \in Seq(TradeRecord) /\ audit.left # <<>>
  BY DEF AuditInv, GuardTypes, AuditType, ApplyTrade
<1>2. Head(audit.left) = audit.left[1] /\ audit.left[1] \in TradeRecord /\ Len(audit.left) >= 1
  BY <1>1
<1>3. Recovered(audit.left[1]) \in Report
  BY <1>2, RecoveredTypes DEF AuditInv, TypeInv
<1> QED BY <1>2, <1>3 DEF ApplyTrade, vars

\* The fill path's types survive what the audit does to it.
LEMMA TouchTypes ==
    ASSUME AuditInv, AuditTouches
    PROVE  TypeInv'
<1> USE DEF AuditInv, TypeInv
<1>1. CASE UNCHANGED vars
  BY <1>1 DEF vars, exchange, engine, TypeOK, TaskFits
<1>2. ASSUME NEW r \in Report, fills' = Append(fills, r), ApplyReport(r),
             UNCHANGED <<exchange, task, crashes>>
      PROVE  TypeInv'
  <2>1. /\ orders' \in [Ids -> Order \cup {NoOrder}] /\ dbOrders' \in [Ids -> Order \cup {NoOrder}]
        /\ pos' \in Position /\ clamped' \in BOOLEAN
    BY <1>2, ApplyKeepsTypes
  <2>2. fills' \in Seq(Report)
    BY <1>2 DEF TypeOK
  <2>3. TaskFits(task, orders')
    <3>1. \A c \in Ids : orders[c] \in Order => orders'[c] \in Order
      <4>1. OrderAfter(r) \in Order /\ orders' = [orders EXCEPT ![r.cid] = OrderAfter(r)]
        BY <1>2, ReportMovesForward DEF ApplyReport
      <4> QED BY <4>1 DEF TypeOK
    <3>2. task.report \in Report => task.report.cid \in Ids
      BY DEF Report
    <3> QED BY <3>1, <3>2 DEF TaskFits
  <2> QED BY <1>2, <2>1, <2>2, <2>3 DEF TypeOK, exchange
<1>3. CASE ApplyTrade
  BY <1>1, <1>2, <1>3, TradeApplies
<1>4. CASE Compare
  <2>1. audit.seen \in Nat
    BY DEF GuardTypes, AuditType
  <2>2. pos' \in Position
    <3>1. SyncFromExchange([side |-> "BUY", qty |-> audit.seen]) \in Position
      BY <2>1 DEF SyncFromExchange, Position, Side, Flat
    <3> QED BY <1>4, <3>1 DEF Compare, TypeOK
  <2>3. UNCHANGED <<exchange, orders, fills, dbOrders, clamped, task, crashes>>
    BY <1>4 DEF Compare, Finish
  <2> QED BY <2>2, <2>3 DEF TypeOK, TaskFits, exchange
<1>5. CASE GatesRefuse
  <2>1. /\ orders' = [c \in Ids |-> NoOrder] /\ pos' = Flat /\ task' = Down
        /\ UNCHANGED <<exchange, fills, dbOrders, clamped, crashes>>
    BY <1>5 DEF GatesRefuse
  <2>2. Flat \in Position /\ TaskFits(Down, orders')
    BY TaskTypes DEF Flat, Position
  <2>3. TypeOK'
    BY <2>1, <2>2 DEF TypeOK, TaskFits, exchange
  <2> QED BY <2>1, <2>2, <2>3
<1> QED BY <1>3, <1>4, <1>5 DEF AuditTouches

\* How the audit moves: every form its next state takes.
LEMMA AuditForms ==
    ASSUME GuardTypes
    PROVE  /\ Off \in AuditType /\ Starting \in AuditType
           /\ xpos \in Nat => Read \in AuditType
           /\ Applied \in AuditType
           /\ \A left \in Seq(TradeRecord) :
                 /\ [audit EXCEPT !.at = "apply", !.left = left] \in AuditType
                 /\ [audit EXCEPT !.left = left] \in AuditType
           /\ [audit EXCEPT !.missing = TRUE] \in AuditType
<1>1. Off \in AuditType
  BY DEF Off, AuditType
<1>2. Starting \in AuditType
  <2>1. ASSUME NEW a \in AuditType
        PROVE  [a EXCEPT !.at = "fetch", !.start = TRUE] \in AuditType
    BY DEF AuditType
  <2> QED BY <1>1, <2>1 DEF Starting
<1>3. audit \in AuditType
  BY DEF GuardTypes
<1>4. xpos \in Nat => Read \in AuditType
  BY <1>3 DEF Read, AuditType
<1>5. Applied \in AuditType
  <2>1. <<>> \in Seq(TradeRecord)
    OBVIOUS
  <2>2. \A at \in {"compare", "orders"} :
           [audit EXCEPT !.at = at, !.left = <<>>] \in AuditType
    BY <1>3, <2>1 DEF AuditType
  <2> QED BY <2>2 DEF Applied
<1>6. ASSUME NEW left \in Seq(TradeRecord)
      PROVE  /\ [audit EXCEPT !.at = "apply", !.left = left] \in AuditType
             /\ [audit EXCEPT !.left = left] \in AuditType
  BY <1>3 DEF AuditType
<1>7. [audit EXCEPT !.missing = TRUE] \in AuditType
  BY <1>3 DEF AuditType
<1> QED BY <1>1, <1>2, <1>4, <1>5, <1>6, <1>7

\* The end of a sequence from its m-th element on, and each of its elements.
LEMMA PartsTypes ==
    ASSUME NEW S, NEW s \in Seq(S), NEW m \in Nat \ {0}
    PROVE  /\ SubSeq(s, m, Len(s)) \in Seq(S)
           /\ \A i \in 1 .. Len(SubSeq(s, m, Len(s))) :
                 \E j \in 1 .. Len(s) : SubSeq(s, m, Len(s))[i] = s[j]
<1>1. m \in Int /\ Len(s) \in Int /\ \A i \in m .. Len(s) : s[i] \in S
  OBVIOUS
<1>2. /\ SubSeq(s, m, Len(s)) \in Seq(S)
      /\ Len(SubSeq(s, m, Len(s))) = IF m <= Len(s) THEN Len(s) - m + 1 ELSE 0
      /\ \A i \in 1 .. Len(s) - m + 1 : SubSeq(s, m, Len(s))[i] = s[m + i - 1]
  BY <1>1, SubSeqProperties
<1>3. ASSUME NEW i \in 1 .. Len(SubSeq(s, m, Len(s)))
      PROVE  \E j \in 1 .. Len(s) : SubSeq(s, m, Len(s))[i] = s[j]
  <2>1. m <= Len(s) /\ i \in 1 .. Len(s) - m + 1
    BY <1>2
  <2>2. m + i - 1 \in 1 .. Len(s)
    BY <2>1
  <2> QED BY <1>2, <2>1, <2>2
<1> QED BY <1>2, <1>3

\* The end of an audit keeps the types.
LEMMA FinishTypes ==
    ASSUME GuardTypes, NEW matched \in BOOLEAN, NEW kill \in BOOLEAN, Finish(matched, kill)
    PROVE  GuardTypes'
<1>1. Off \in AuditType /\ Len(tape) \in Nat
  <2>1. tape \in Seq(TradeRecord)
    BY DEF GuardTypes
  <2>2. Len(tape) \in Nat
    BY <2>1
  <2>3. Off \in AuditType
    BY AuditForms
  <2> QED BY <2>2, <2>3
<1>2. audit' = Off /\ UNCHANGED <<tape, unknown, gated>>
  BY DEF Finish
<1>3. killed' \in BOOLEAN /\ required' \in BOOLEAN /\ before' \in Nat
  BY <1>1 DEF Finish, GuardTypes
<1> QED BY <1>1, <1>2, <1>3 DEF GuardTypes

\* The audit's own variables keep their types.
LEMMA GuardsKeepTypes ==
    ASSUME AuditInv, [AuditNext]_auditVars
    PROVE  GuardTypes'
<1> USE DEF AuditInv
<1>1. ASSUME NEW c \in Ids, NEW q \in 1 .. Qty[c], Trade(c, q)
      PROVE  GuardTypes'
  <2>1. q \in Nat /\ xchg[c].cum + q \in Nat
    BY QtyAssumption DEF TypeInv, TypeOK
  <2>2. [cid |-> c, trade |-> xchg[c].cum + q, lots |-> q] \in TradeRecord
    BY <2>1 DEF TradeRecord
  <2> QED BY <1>1, <2>2 DEF Trade, GuardTypes, guards
<1>2. CASE Market
  BY <1>1, <1>2 DEF Market, GuardTypes, guards
<1>3. CASE Serve
  <2>1. UNCHANGED <<tape, audit, killed, required, gated, before>>
    BY <1>3 DEF Serve
  <2>2. unknown' \subseteq Ids
    <3>1. PlacementUnknown \/ ResolveUnresolved => task.report.cid \in Ids
      BY DEF PlacementUnknown, ResolveUnresolved, TypeInv, TaskFits, Report
    <3> QED BY <1>3, <3>1 DEF Serve, Place, LoseTrack, Resolve, GuardTypes
  <2> QED BY <2>1, <2>2 DEF GuardTypes
<1>4. CASE Revive \/ GatesPass \/ Disengage
  BY <1>4 DEF Revive, GatesPass, Disengage, GuardTypes, guards
<1>5. CASE BeginStart
  BY <1>5, AuditForms DEF BeginStart, GuardTypes, guards
<1>6. CASE AuditOrders
  <2>1. UNCHANGED <<tape, killed, required, gated, before>>
    BY <1>6 DEF AuditOrders
  <2>2. unknown' \subseteq Ids /\ audit' \in {audit, [audit EXCEPT !.missing = TRUE]}
    BY <1>6 DEF AuditOrders, GuardTypes
  <2> QED BY <2>1, <2>2, AuditForms DEF GuardTypes
<1>7. CASE ReadPosition
  <2>1. CASE Finish(TRUE, FALSE)
    BY <2>1, FinishTypes
  <2>2. CASE audit' = Read /\ UNCHANGED <<vars, tape, guards>>
    BY <2>2, AuditForms DEF GuardTypes, guards, TypeInv, TypeOK
  <2> QED BY <1>7, <2>1, <2>2 DEF ReadPosition
<1>8. CASE FetchTrades
  <2>1. \A m \in Nat \ {0} : SubSeq(tape, m, Len(tape)) \in Seq(TradeRecord)
    BY PartsTypes DEF GuardTypes
  <2> DEFINE m == IF audit.whole THEN 1 ELSE before + 1
  <2>2. m \in Nat \ {0}
    BY DEF GuardTypes
  <2>3. \/ audit' = [audit EXCEPT !.at = "apply", !.left = SubSeq(tape, m, Len(tape))]
        \/ audit' = Applied
    BY <1>8 DEF FetchTrades
  <2> HIDE DEF m
  <2>4. audit' \in AuditType
    BY <2>1, <2>2, <2>3, AuditForms
  <2> QED BY <1>8, <2>4 DEF FetchTrades, GuardTypes, guards
<1>9. CASE ApplyTrade
  <2>1. Tail(audit.left) \in Seq(TradeRecord)
    BY <1>9 DEF ApplyTrade, GuardTypes, AuditType
  <2>2. audit' \in AuditType
    BY <1>9, <2>1, AuditForms DEF ApplyTrade
  <2> QED BY <1>9, <2>2 DEF ApplyTrade, GuardTypes, guards
<1>10. CASE TradesApplied
  BY <1>10, AuditForms DEF TradesApplied, GuardTypes, guards
<1>11. CASE Compare
  <2>1. Finish(TRUE, FALSE) \/ Finish(FALSE, TRUE)
    BY <1>11 DEF Compare
  <2> QED BY <2>1, FinishTypes
<1>12. CASE Die \/ GatesRefuse
  BY <1>12, AuditForms DEF Die, GatesRefuse, Forget, GuardTypes
<1>13. CASE UNCHANGED auditVars
  BY <1>13 DEF auditVars, guards, GuardTypes
<1> QED BY <1>2, <1>3, <1>4, <1>5, <1>6, <1>7, <1>8, <1>9, <1>10, <1>11, <1>12, <1>13
        DEF AuditNext, Engine

LEMMA AuditTypesKept == AuditInv /\ [AuditNext]_auditVars => AuditInv'
<1> SUFFICES ASSUME AuditInv, [AuditNext]_auditVars PROVE AuditInv'
  OBVIOUS
<1>1. GuardTypes'
  BY GuardsKeepTypes
<1>2. TypeInv'
  BY FillPathSteps, NextTypes, TouchTypes DEF AuditInv
<1> QED BY <1>1, <1>2 DEF AuditInv

LEMMA AuditStarts == AuditInit => AuditInv
<1> SUFFICES ASSUME AuditInit PROVE AuditInv
  OBVIOUS
<1>1. <<>> \in Seq(TradeRecord) /\ Off \in AuditType
  BY DEF Off, AuditType
<1> QED BY <1>1, InitTypes DEF AuditInit, AuditInv, GuardTypes

(* Every variable has its type and a handler at work has its report, with  *)
(* the audit's own steps between those of the fill path.                   *)
THEOREM AuditTypesHold == AuditSpec => []AuditInv
<1> QED BY AuditStarts, AuditTypesKept, PTL DEF AuditSpec

\* In particular every variable of the audited engine has its type.
THEOREM AuditTypes == AuditSpec => []AuditTypeOK
<1>1. AuditInv => AuditTypeOK
  BY DEF AuditInv, TypeInv, GuardTypes, AuditType, TradeRecord, AuditTypeOK
<1> QED BY <1>1, AuditTypesHold, PTL
-----------------------------------------------------------------------------
(* The position is never overwritten quietly.                              *)

\* A report that leaves its order as it is leaves the position as it is.
LEMMA StaleReportMovesNothing ==
    ASSUME TypeInv, NEW r \in Report, ApplyReport(r), orders' = orders
    PROVE  pos' = pos
<1>1. r.cid \in Ids /\ r.cum \in Nat /\ pos \in Position
  BY DEF Report, TypeInv, TypeOK
<1>2. orders[r.cid] = OrderAfter(r) /\ OrderAfter(r) \in Order
  BY <1>1, ReportMovesForward DEF ApplyReport, TypeInv, TypeOK
<1>3. Held(r.cid) = orders[r.cid]
  <2>1. orders[r.cid] # NoOrder
    BY <1>2 DEF NoOrder, Order, Status, Open, Terminal
  <2> QED BY <2>1 DEF Held
<1>4. Held(r.cid).applied \in Nat /\ Held(r.cid).applied = Larger(Held(r.cid).applied, r.cum)
  BY <1>2, <1>3, ReportMovesForward DEF TypeInv, Order
<1>5. Fresh(r) = 0
  BY <1>1, <1>4 DEF Fresh, Larger
<1>6. Capped(r) = 0
  BY <1>1, <1>5 DEF Capped, Smaller, Position
<1>7. \A s \in Side, cut \in BOOLEAN : OnFill(pos, s, 0, cut) = pos
  BY <1>1 DEF OnFill, EffectiveQty, Position
<1>8. (IF r.cid \in Entries THEN "BUY" ELSE "SELL") \in Side /\ (r.cid \in Exits) \in BOOLEAN
  BY DEF Side
<1> QED BY <1>6, <1>7, <1>8 DEF ApplyReport

(* Whenever the position of a LIVE engine moves and no order with it, the  *)
(* kill switch is engaged or the process has ended.                        *)
THEOREM OverwriteKills == AuditSpec => SyncKills
<1>1. ASSUME AuditInv, [AuditNext]_auditVars, pos' # pos, orders' = orders
      PROVE  killed' \/ task'.at = "down"
  <2>1. CASE [Next]_vars
    <3>1. PositionMoves
      BY <1>1, <2>1, NextMovesPosition DEF AuditInv
    <3>2. CASE Crash
      BY <3>2 DEF Crash, Down, Idle
    <3>3. CASE Settle \/ Replay
      BY <1>1, <3>3, AppliesAReport, StaleReportMovesNothing DEF AuditInv
    <3> QED BY <1>1, <3>1, <3>2, <3>3 DEF PositionMoves
  <2>2. CASE ApplyTrade
    BY <1>1, <2>2, TradeApplies, StaleReportMovesNothing DEF AuditInv, vars, engine
  <2>3. CASE Compare
    BY <1>1, <2>3 DEF Compare, Finish
  <2>4. CASE GatesRefuse
    BY <2>4 DEF GatesRefuse, Down, Idle
  <2> QED BY <1>1, <2>1, <2>2, <2>3, <2>4, FillPathSteps DEF AuditTouches
<1>2. AuditInv /\ [AuditNext]_auditVars =>
        [pos' # pos /\ orders' = orders => killed' \/ task'.at = "down"]_auditVars
  BY <1>1
<1> QED BY <1>2, AuditTypesHold, PTL DEF AuditSpec, SyncKills
-----------------------------------------------------------------------------
(* Where the engine is, between a handler and an audit.                    *)

\* What the forms of a task say.
LEMMA IdleForm ==
    Idle.at = "idle" /\ Idle.todo = {} /\ Down.at = "down" /\ Down.todo = {}
BY DEF Idle, Down

\* A handler that waits for the exchange.
LEMMA AskingForm ==
    ASSUME NEW s, NEW c
    PROVE  /\ Asking(s, c).at = s /\ Asking(s, c).todo = {}
           /\ Asking(s, c).report.cid = c
BY DEF Asking, Idle

\* A handler that works on a report.
LEMMA WorkingForm ==
    ASSUME NEW s, NEW r, NEW v, NEW t
    PROVE  /\ Working(s, r, v, t).at = s /\ Working(s, r, v, t).report = r
           /\ Working(s, r, v, t).resave = v /\ Working(s, r, v, t).todo = t
BY DEF Working

\* The audit of the open orders, which ends when none is left.
LEMMA AuditingForm ==
    ASSUME NEW t
    PROVE  /\ Auditing(t).todo = t
           /\ Auditing(t).at = IF t = {} THEN "idle" ELSE "auditing"
BY DEF Auditing, Idle

\* The replay, at its row.
LEMMA ReplayingForm ==
    ASSUME NEW i
    PROVE  /\ Replaying(i).at = "replaying" /\ Replaying(i).todo = {}
           /\ Replaying(i).row = i
BY DEF Replaying, Idle

(* The engine trades only between audits of its start and in a process     *)
(* that lives; a handler and an audit are never at work at once, except    *)
(* that the startup audit uses the handler's steps for the open orders.    *)
Phases ==
    /\ gated => ~audit.start /\ task.at \notin {"down", "replaying"}
    /\ task.at \in {"idle", "down", "replaying", "placing", "resolving"} => task.todo = {}
    /\ audit.at = "off" => task.at # "auditing" /\ task.todo = {} /\ ~audit.start
    /\ audit.at \in {"fetch", "apply"} =>
          /\ task.at = "idle" \/ (task.at = "auditing" /\ ~audit.whole)
          /\ ~audit.whole => audit.start
    /\ audit.at = "orders" =>
          /\ audit.start /\ ~audit.whole
          /\ task.at \in {"idle", "auditing", "applying", "settling", "resaving"}
          /\ task.at \in {"applying", "settling"} => task.resave
    /\ audit.at = "compare" => task.at = "idle"

\* Waiting and recording handlers, outside an audit, keep off the audit's ground.
ServesOn ==
    /\ task'.at \in {"idle", "placing", "resolving", "applying", "settling", "resaving"}
    /\ task'.todo = {}

LEMMA ServeKeepsOff ==
    ASSUME Phases, Serve
    PROVE  ServesOn
<1>1. task.todo = {} /\ task.at # "auditing"
  BY DEF Phases, Serve
<1>3. ASSUME NEW r, NEW v, NEW t, t = {}, RecordFill(r, v, t)
      PROVE  ServesOn
  <2>1. task' \in {Idle, Working("resaving", r, v, {}), Working("settling", r, v, {})}
    BY <1>3 DEF RecordFill
  <2> QED BY <2>1, IdleForm, AskingForm, WorkingForm, AuditingForm DEF ServesOn
<1>4. ASSUME NEW c \in Ids, Place(c)
      PROVE  ServesOn
  <2>1. task' = Asking("placing", c)
    BY <1>4 DEF Place, Submit
  <2> QED BY <2>1, IdleForm, AskingForm, WorkingForm, AuditingForm DEF ServesOn
<1>5. CASE LoseTrack
  <2>1. task' \in {Asking("resolving", task.report.cid), Idle}
    BY <1>5 DEF LoseTrack, PlacementUnknown, ResolveUnresolved
  <2> QED BY <2>1, IdleForm, AskingForm, WorkingForm, AuditingForm DEF ServesOn
<1>6. CASE Resolve
  <2>1. task' = Auditing({}) \/ task' = Idle
    BY <1>1, <1>6 DEF Resolve, Resave, ResolveAbsent
  <2> QED BY <2>1, IdleForm, AskingForm, WorkingForm, AuditingForm DEF ServesOn
<1>7. ASSUME NEW e \in events, Deliver(e) \/ Respond(e)
      PROVE  ServesOn
  <2>1. CASE Deliver(e)
    BY <1>3, <2>1 DEF Deliver
  <2>2. CASE Respond(e)
    <3>1. task' = Idle \/ \E r : task' = Working("applying", r, FALSE, {})
      BY <2>2 DEF Respond
    <3> QED BY <3>1, IdleForm DEF ServesOn, Working
  <2> QED BY <1>7, <2>1, <2>2
<1>8. CASE PlacementFails
  <2>1. task' = Idle
    BY <1>8 DEF PlacementFails
  <2> QED BY <2>1, IdleForm, AskingForm, WorkingForm, AuditingForm DEF ServesOn
<1>9. CASE ResolveFound
  <2>1. \E r : \E s \in {"applying", "resaving"} : task' = Working(s, r, TRUE, {})
    BY <1>9 DEF ResolveFound, Found
  <2> QED BY <2>1 DEF ServesOn, Working
<1>10. CASE Record
  BY <1>1, <1>3, <1>10 DEF Record
<1>11. CASE Settle
  <2>1. task' = Idle \/ task' = Working("resaving", task.report, TRUE, {})
    BY <1>1, <1>11 DEF Settle
  <2> QED BY <2>1, IdleForm DEF ServesOn, Working
<1> QED BY <1>4, <1>5, <1>6, <1>7, <1>8, <1>9, <1>10, <1>11 DEF Serve

\* Where the audit of the open orders takes the handler.
AuditsOn ==
    /\ task'.at \in {"idle", "auditing", "applying", "settling", "resaving"}
    /\ task'.at \in {"applying", "settling"} => task'.resave
    /\ task'.at = "idle" => task'.todo = {}

\* The startup audit of the open orders stays on its own steps.
LEMMA OrdersKeepPhase ==
    ASSUME Phases, AuditOrders
    PROVE  /\ AuditsOn
           /\ audit' \in {audit, [audit EXCEPT !.missing = TRUE]} /\ UNCHANGED gated
<1>1. audit.at = "orders" /\ (task.at \in {"applying", "settling"} => task.resave)
  BY DEF AuditOrders, Phases
<1>2. audit' \in {audit, [audit EXCEPT !.missing = TRUE]} /\ UNCHANGED gated
  BY DEF AuditOrders
<1> SUFFICES AuditsOn
  BY <1>2
<1>5. ASSUME NEW c \in Ids, AuditFound(c)
      PROVE  AuditsOn
  <2>1. \E r, t : \E s \in {"applying", "resaving"} : task' = Working(s, r, TRUE, t)
    BY <1>5 DEF AuditFound, Found
  <2> QED BY <2>1 DEF AuditsOn, Working
<1>6. CASE Record
  <2>1. \E r, t : \E s \in {"settling", "resaving"} : task' = Working(s, r, task.resave, t)
    BY <1>1, <1>6 DEF Record, RecordFill
  <2>2. task.resave
    BY <1>1, <1>6 DEF Record
  <2>3. task'.resave = task.resave
    BY <2>1, WorkingForm
  <2>4. task'.at \in {"settling", "resaving"}
    BY <2>1 DEF Working
  <2> QED BY <2>2, <2>3, <2>4, Zenon DEF AuditsOn
<1>7. CASE Settle
  <2>1. \E r, t : task' = Working("resaving", r, TRUE, t)
    BY <1>1, <1>7 DEF Settle
  <2> QED BY <2>1 DEF AuditsOn, Working
<1>8. CASE Resave \/ \E c \in Ids : AuditMissing(c)
  <2>1. \E t : task' = Auditing(t)
    BY <1>8 DEF Resave, AuditMissing
  <2> QED BY <2>1, AuditingForm DEF AuditsOn
<1> QED BY <1>2, <1>5, <1>6, <1>7, <1>8 DEF AuditOrders

\* What the audit's next states say.
LEMMA AuditForm ==
    ASSUME AuditInv
    PROVE  /\ Off.at = "off" /\ Off.start = FALSE /\ Off.whole = FALSE
           /\ Starting.at = "fetch" /\ Starting.start = TRUE /\ Starting.whole = FALSE
           /\ Read.at = "fetch" /\ Read.whole = TRUE /\ Read.start = audit.start
           /\ Applied.at = (IF audit.whole THEN "compare" ELSE "orders")
           /\ Applied.whole = audit.whole /\ Applied.start = audit.start
           /\ [audit EXCEPT !.missing = TRUE].at = audit.at
           /\ [audit EXCEPT !.missing = TRUE].start = audit.start
           /\ [audit EXCEPT !.missing = TRUE].whole = audit.whole
           /\ \A left : /\ [audit EXCEPT !.at = "apply", !.left = left].at = "apply"
                        /\ [audit EXCEPT !.at = "apply", !.left = left].start = audit.start
                        /\ [audit EXCEPT !.at = "apply", !.left = left].whole = audit.whole
                        /\ [audit EXCEPT !.left = left].at = audit.at
                        /\ [audit EXCEPT !.left = left].start = audit.start
                        /\ [audit EXCEPT !.left = left].whole = audit.whole
<1>1. audit \in AuditType
  BY DEF AuditInv, GuardTypes
<1>2. Off.at = "off" /\ Off.start = FALSE /\ Off.whole = FALSE
  BY DEF Off
<1>3. Starting.at = "fetch" /\ Starting.start = TRUE /\ Starting.whole = FALSE
  BY DEF Starting, Off
<1>4. Read.at = "fetch" /\ Read.whole = TRUE /\ Read.start = audit.start
  BY <1>1 DEF Read, AuditType
<1>5. /\ Applied.at = (IF audit.whole THEN "compare" ELSE "orders")
      /\ Applied.whole = audit.whole /\ Applied.start = audit.start
  BY <1>1 DEF Applied, AuditType
<1>6. /\ [audit EXCEPT !.missing = TRUE].at = audit.at
      /\ [audit EXCEPT !.missing = TRUE].start = audit.start
      /\ [audit EXCEPT !.missing = TRUE].whole = audit.whole
  BY <1>1 DEF AuditType
<1>7. ASSUME NEW left
      PROVE  /\ [audit EXCEPT !.at = "apply", !.left = left].at = "apply"
             /\ [audit EXCEPT !.at = "apply", !.left = left].start = audit.start
             /\ [audit EXCEPT !.at = "apply", !.left = left].whole = audit.whole
             /\ [audit EXCEPT !.left = left].at = audit.at
             /\ [audit EXCEPT !.left = left].start = audit.start
             /\ [audit EXCEPT !.left = left].whole = audit.whole
  BY <1>1 DEF AuditType
<1> QED BY <1>2, <1>3, <1>4, <1>5, <1>6, <1>7

\* The phases follow from these when only the audit or the gates move.
LEMMA PhasesKept ==
    ASSUME AuditInv, Phases, [AuditNext]_auditVars
    PROVE  Phases'
<1>1. CASE Market
  <2>1. UNCHANGED <<task, audit, gated>>
    <3>1. ASSUME NEW c \in Ids, NEW q \in 1 .. Qty[c], Trade(c, q)
          PROVE  UNCHANGED <<task, audit, gated>>
      BY <3>1 DEF Trade, ExchangeTrade, guards
    <3>2. ASSUME NEW c \in Ids, NEW s \in Ends, ExchangeEnd(c, s)
          PROVE  UNCHANGED task
      BY <3>2 DEF ExchangeEnd
    <3> QED BY <1>1, <3>1, <3>2 DEF Market, ExchangeAccept, ExchangeRefuse, guards
  <2> QED BY <2>1 DEF Phases
<1>2. CASE Serve
  <2>1. UNCHANGED <<audit, gated>> /\ audit.at = "off"
    BY <1>2 DEF Serve
  <2> QED BY <1>2, <2>1, ServeKeepsOff DEF Phases, ServesOn
<1>3. CASE Revive
  <2>1. UNCHANGED <<audit, gated>> /\ task.at \in {"down", "replaying"}
        /\ \E i : task' = Replaying(i)
    BY <1>3 DEF Revive, Restart, Replay, guards
  <2>2. task'.at = "replaying" /\ task'.todo = {}
    BY <2>1, ReplayingForm
  <2> QED BY <2>1, <2>2 DEF Phases
<1>4. CASE BeginStart
  <2>1. UNCHANGED gated /\ task.at = "replaying" /\ audit' = Starting
        /\ \E t : task' = Auditing(t)
    BY <1>4 DEF BeginStart, ReplayDone, guards
  <2>2. task'.at \in {"idle", "auditing"} /\ (task'.at = "idle" => task'.todo = {})
    BY <2>1, AuditingForm
  <2>3. audit'.at = "fetch" /\ audit'.start = TRUE /\ audit'.whole = FALSE
    BY <2>1, AuditForm
  <2> QED BY <2>1, <2>2, <2>3 DEF Phases
<1>5. CASE AuditOrders
  <2>1. /\ AuditsOn /\ UNCHANGED gated
        /\ audit' \in {audit, [audit EXCEPT !.missing = TRUE]}
    BY <1>5, OrdersKeepPhase
  <2>2. audit'.at = audit.at /\ audit'.start = audit.start /\ audit'.whole = audit.whole
    BY <2>1, AuditForm
  <2>3. audit.at = "orders"
    BY <1>5 DEF AuditOrders
  <2> QED BY <2>1, <2>2, <2>3, Zenon DEF Phases, AuditsOn
<1>6. ASSUME audit' = Off, task.at = "idle", UNCHANGED <<task, gated>>
      PROVE  Phases'
  BY <1>6, AuditForm DEF Phases
<1>7. CASE ReadPosition
  <2>1. CASE Finish(TRUE, FALSE)
    BY <1>6, <1>7, <2>1 DEF ReadPosition, Finish
  <2>2. CASE audit' = Read /\ UNCHANGED <<vars, tape, guards>>
    <3>1. /\ task.at = "idle" /\ UNCHANGED <<task, gated>>
          /\ audit.at \in {"off", "orders"}
      BY <1>7, <2>2 DEF ReadPosition, vars, guards
    <3>2. audit'.at = "fetch" /\ audit'.whole = TRUE /\ audit'.start = audit.start
      BY <2>2, AuditForm
    <3> QED BY <3>1, <3>2 DEF Phases
  <2> QED BY <1>7, <2>1, <2>2 DEF ReadPosition
<1>8. CASE FetchTrades \/ ApplyTrade \/ TradesApplied
  <2>1. UNCHANGED <<task, gated>> /\ audit.at \in {"fetch", "apply"}
    BY <1>8 DEF FetchTrades, ApplyTrade, TradesApplied, vars, guards
  <2>2. \/ audit' = Applied
        \/ \E left : \/ audit' = [audit EXCEPT !.at = "apply", !.left = left]
                     \/ audit' = [audit EXCEPT !.left = left]
    BY <1>8 DEF FetchTrades, ApplyTrade, TradesApplied
  <2>3. /\ audit'.start = audit.start /\ audit'.whole = audit.whole
        /\ \/ audit'.at \in {"fetch", "apply"}
           \/ audit'.at = IF audit.whole THEN "compare" ELSE "orders"
    <3>1. CASE audit' = Applied
      BY <3>1, AuditForm
    <3>2. ASSUME NEW left, audit' = [audit EXCEPT !.at = "apply", !.left = left]
          PROVE  audit'.start = audit.start /\ audit'.whole = audit.whole /\ audit'.at = "apply"
      BY <3>2, AuditForm
    <3>3. ASSUME NEW left, audit' = [audit EXCEPT !.left = left]
          PROVE  audit'.start = audit.start /\ audit'.whole = audit.whole /\ audit'.at = audit.at
      BY <3>3, AuditForm
    <3> QED BY <2>1, <2>2, <3>1, <3>2, <3>3
  <2> QED BY <2>1, <2>3 DEF Phases
<1>9. CASE Compare
  <2>1. task.at = "idle" /\ audit' = Off /\ UNCHANGED <<task, gated>>
    BY <1>9 DEF Compare, Finish, Phases
  <2> QED BY <1>6, <2>1
<1>10. CASE Die \/ GatesRefuse
  <2>1. audit' = Off /\ gated' = FALSE /\ task' = Down
    BY <1>10 DEF Die, GatesRefuse, Forget, Crash
  <2> QED BY <2>1, AuditForm, IdleForm DEF Phases
<1>11. CASE GatesPass
  <2>1. task.at = "idle" /\ audit.at = "off" /\ UNCHANGED <<task, audit>>
    BY <1>11 DEF GatesPass, vars
  <2> QED BY <2>1 DEF Phases
<1>12. CASE Disengage
  BY <1>12 DEF Disengage, vars, Phases
<1>13. CASE UNCHANGED auditVars
  BY <1>13 DEF auditVars, vars, guards, Phases
<1> QED BY <1>1, <1>2, <1>3, <1>4, <1>5, <1>7, <1>8, <1>9, <1>10, <1>11, <1>12, <1>13
        DEF AuditNext, Engine

-----------------------------------------------------------------------------
(* What the engine tracks is in the store.                                 *)

(* Every order that is tracked, or that the exchange or the ledger knows   *)
(* of, is in the store, and so is the one a handler works on.              *)
Stored ==
    /\ \A c \in Ids : orders[c] # NoOrder \/ xchg[c].status # "NONE" => dbOrders[c] # NoOrder
    /\ \A e \in events : dbOrders[e.cid] # NoOrder
    /\ \A i \in 1 .. Len(fills) : dbOrders[fills[i].cid] # NoOrder
    /\ task.at \in {"placing", "resolving", "applying", "settling", "resaving"} =>
          dbOrders[task.report.cid] # NoOrder

LEMMA NoOrderIsNone == NoOrder \notin Order /\ NoOrder.status = "NONE"
BY DEF NoOrder, Order, Status, Open, Terminal

\* A stored order stays as it is or becomes another order.
LEMMA StoreKeepsOrders ==
    ASSUME TypeInv, [Next]_vars, NEW c \in Ids
    PROVE  dbOrders'[c] = dbOrders[c] \/ dbOrders'[c] \in Order
<1> DEFINE Goal == dbOrders'[c] = dbOrders[c] \/ dbOrders'[c] \in Order
<1>1. dbOrders \in [Ids -> Order \cup {NoOrder}]
  BY DEF TypeInv, TypeOK
<1>2. ASSUME NEW d \in Ids, NEW o \in Order, dbOrders' = [dbOrders EXCEPT ![d] = o]
      PROVE  Goal
  BY <1>1, <1>2
<1>3. CASE Exchange \/ UNCHANGED vars
  BY <1>3, ExchangeTypes DEF TypeInv, EngineStays, vars, engine
<1>4. ASSUME NEW d \in Ids, Submit(d)
      PROVE  Goal
  <2> DEFINE o == [status |-> "SUBMITTING", filled |-> 0, applied |-> 0]
  <2>1. o \in Order /\ dbOrders' = [dbOrders EXCEPT ![d] = o]
    BY <1>4 DEF Submit, Order, Status, Open
  <2> HIDE DEF o
  <2> QED BY <1>2, <2>1
<1>5. ASSUME NEW e \in events, Respond(e)
      PROVE  Goal
  <2> DEFINE r == [e EXCEPT !.trade = 0]
  <2>1. r \in Report /\ r.cid \in Ids
    BY DEF Report, TypeInv, TypeOK
  <2>2. AsOrder(r) \in Order /\ dbOrders' = [dbOrders EXCEPT ![r.cid] = AsOrder(r)]
    BY <1>5, <2>1, AnswerTypes DEF Respond, TypeInv
  <2> HIDE DEF r
  <2> QED BY <1>2, <2>1, <2>2
<1>6. CASE Resave
  <2>1. task.report \in Report /\ task.report.cid \in Ids /\ AsOrder(task.report) \in Order
    BY <1>6, AnswerTypes DEF Resave, TypeInv, TaskFits, Report
  <2> QED BY <1>2, <1>6, <2>1 DEF Resave
<1>7. CASE Settle \/ Replay
  <2>1. PICK r \in Report : ApplyReport(r)
    BY <1>7, AppliesAReport
  <2>2. r.cid \in Ids /\ OrderAfter(r) \in Order
    BY ReportMovesForward DEF Report, TypeInv
  <2> QED BY <1>2, <2>1, <2>2 DEF ApplyReport
<1>8. CASE PlacementUnknown
  <2>1. task.report.cid \in Ids /\ orders[task.report.cid] \in Order
    BY <1>8 DEF PlacementUnknown, TypeInv, TaskFits, Report
  <2>2. TransitionStatus(orders[task.report.cid], "UNKNOWN", 0) \in Order
    BY <2>1, TransitionMovesForward DEF Status, Open
  <2> QED BY <1>2, <1>8, <2>1, <2>2 DEF PlacementUnknown
<1>9. CASE Record \/ (\E e \in events : Deliver(e)) \/ PlacementFails
           \/ ResolveFound \/ ResolveAbsent \/ ResolveUnresolved \/ Crash
  BY <1>9 DEF Record, Deliver, RecordFill, PlacementFails, ResolveFound, ResolveAbsent,
              ResolveUnresolved, Found, Crash, engine
<1>10. CASE Restart \/ ReplayDone \/ \E d \in Ids : AuditFound(d) \/ AuditMissing(d)
  BY <1>10 DEF Restart, ReplayDone, AuditFound, AuditMissing, Found, engine
<1> QED BY <1>3, <1>4, <1>5, <1>6, <1>7, <1>8, <1>9, <1>10 DEF Next, Handler

\* A step tracks a new order only when it is in the store by then.
LEMMA TrackedIsStored ==
    ASSUME TypeInv, Stored, [Next]_vars, NEW c \in Ids, orders'[c] # NoOrder
    PROVE  dbOrders'[c] # NoOrder
<1>1. /\ orders \in [Ids -> Order \cup {NoOrder}] /\ dbOrders \in [Ids -> Order \cup {NoOrder}]
  BY DEF TypeInv, TypeOK
<1>2. dbOrders[c] # NoOrder => dbOrders'[c] # NoOrder
  BY StoreKeepsOrders, NoOrderIsNone
<1>3. orders[c] # NoOrder => dbOrders[c] # NoOrder
  BY DEF Stored
<1>4. ASSUME NEW d \in Ids, NEW o \in Order,
             orders' = [orders EXCEPT ![d] = o], dbOrders[d] # NoOrder \/ orders[d] # NoOrder
      PROVE  dbOrders'[c] # NoOrder
  BY <1>1, <1>2, <1>3, <1>4
<1>5. ASSUME NEW d \in Ids, NEW o \in Order,
             orders' = [orders EXCEPT ![d] = o], dbOrders'[d] \in Order
      PROVE  dbOrders'[c] # NoOrder
  BY <1>1, <1>2, <1>3, <1>5, NoOrderIsNone
<1>6. CASE Exchange \/ UNCHANGED vars
  <2>1. UNCHANGED orders
    BY <1>6, ExchangeTypes DEF TypeInv, EngineStays, vars, engine
  <2> QED BY <1>2, <1>3, <2>1
<1>7. ASSUME NEW d \in Ids, Submit(d)
      PROVE  dbOrders'[c] # NoOrder
  <2> DEFINE o == [status |-> "SUBMITTING", filled |-> 0, applied |-> 0]
  <2>1. /\ o \in Order /\ orders' = [orders EXCEPT ![d] = o]
        /\ dbOrders' = [dbOrders EXCEPT ![d] = o]
    BY <1>7 DEF Submit, Order, Status, Open
  <2> HIDE DEF o
  <2>2. dbOrders'[d] \in Order
    BY <1>1, <2>1
  <2> QED BY <1>5, <2>1, <2>2
<1>8. ASSUME NEW e \in events, Respond(e)
      PROVE  dbOrders'[c] # NoOrder
  <2> DEFINE r == [e EXCEPT !.trade = 0]
  <2>1. r \in Report /\ r.cid \in Ids
    BY DEF Report, TypeInv, TypeOK
  <2>2. AsOrder(r) \in Order /\ UpsertOrder(orders[r.cid], AsOrder(r)) \in Order
    BY <1>1, <2>1, AnswerTypes, UpsertMovesForward DEF TypeInv
  <2>3. /\ orders' = [orders EXCEPT ![r.cid] = UpsertOrder(orders[r.cid], AsOrder(r))]
        /\ dbOrders' = [dbOrders EXCEPT ![r.cid] = AsOrder(r)]
    BY <1>8 DEF Respond
  <2> HIDE DEF r
  <2>4. dbOrders'[r.cid] \in Order
    BY <1>1, <2>1, <2>2, <2>3
  <2> QED BY <1>5, <2>1, <2>2, <2>3, <2>4
<1>9. ASSUME NEW d \in Ids, NEW todo, Found(d, todo)
      PROVE  dbOrders'[c] # NoOrder
  <2>1. /\ AsOrder(Answer(d)) \in Order /\ AsOrder(Answer(d)).applied = 0
        /\ xchg[d].status # "NONE"
    BY <1>9, AnswerTypes DEF Found, TypeInv, ReportStatus
  <2>2. UpsertOrder(orders[d], AsOrder(Answer(d))) \in Order /\ dbOrders[d] # NoOrder
    BY <1>1, <2>1, UpsertMovesForward DEF Stored
  <2> QED BY <1>2, <1>3, <1>4, <1>9, <2>2 DEF Found
<1>10. CASE Settle \/ Replay
  <2>1. PICK r \in Report : ApplyReport(r)
    BY <1>10, AppliesAReport
  <2>2. r.cid \in Ids /\ OrderAfter(r) \in Order
    BY ReportMovesForward DEF Report, TypeInv
  <2>3. /\ orders' = [orders EXCEPT ![r.cid] = OrderAfter(r)]
        /\ dbOrders' = [dbOrders EXCEPT ![r.cid] = OrderAfter(r)]
    BY <2>1 DEF ApplyReport
  <2>4. dbOrders'[r.cid] \in Order
    BY <1>1, <2>2, <2>3
  <2> QED BY <1>5, <2>2, <2>3, <2>4
<1>11. CASE PlacementFails \/ PlacementUnknown \/ ResolveAbsent
  <2>1. task.report.cid \in Ids /\ orders[task.report.cid] \in Order
    BY <1>11 DEF PlacementFails, PlacementUnknown, ResolveAbsent, TypeInv, TaskFits, Report
  <2>2. \E s \in Status : orders' = [orders EXCEPT ![task.report.cid] =
                                       TransitionStatus(orders[task.report.cid], s, 0)]
    BY <1>11 DEF PlacementFails, PlacementUnknown, ResolveAbsent, Status, Open, Terminal
  <2>3. \A s \in Status : TransitionStatus(orders[task.report.cid], s, 0) \in Order
    BY <2>1, TransitionMovesForward
  <2> QED BY <1>4, <2>1, <2>2, <2>3, NoOrderIsNone
<1>12. CASE Restart
  <2>1. orders'[c] = Reseeded(c) /\ UNCHANGED dbOrders
    BY <1>12 DEF Restart
  <2>2. dbOrders[c] = NoOrder => Reseeded(c) = NoOrder
    BY NoOrderIsNone DEF Reseeded, Restored
  <2> QED BY <2>1, <2>2
<1>13. CASE Crash
  BY <1>13 DEF Crash
<1>14. CASE \/ Record \/ Resave \/ ResolveUnresolved \/ ReplayDone
            \/ \E d \in Ids : AuditMissing(d)
            \/ \E e \in events : Deliver(e)
  <2>1. UNCHANGED orders
    BY <1>14 DEF Record, Resave, ResolveUnresolved, ReplayDone, AuditMissing, Deliver,
                 RecordFill, engine
  <2> QED BY <1>2, <1>3, <2>1
<1>15. CASE ResolveFound \/ \E d \in Ids : AuditFound(d)
  BY <1>9, <1>15 DEF ResolveFound, AuditFound, TypeInv, TaskFits, Report
<1> QED BY <1>6, <1>7, <1>8, <1>10, <1>11, <1>12, <1>13, <1>14, <1>15 DEF Next, Handler

\* The handlers and a death change nothing of the exchange.
LEMMA HandlersLeaveExchange ==
    ASSUME Handler \/ Crash
    PROVE  UNCHANGED exchange
<1>1. ASSUME NEW c, NEW todo, Found(c, todo)
      PROVE  UNCHANGED exchange
  BY <1>1 DEF Found
<1> QED BY <1>1 DEF Handler, Crash, Submit, AuditFound, AuditMissing, Deliver, Respond,
                    Record, Settle, Resave, PlacementFails, PlacementUnknown, ResolveFound,
                    ResolveAbsent, ResolveUnresolved, Restart, Replay, ReplayDone

\* The exchange knows, and reports on, submitted orders only.
LEMMA ExchangeKnowsStored ==
    ASSUME TypeInv, Stored, Exchange
    PROVE  /\ \A c \in Ids : xchg'[c].status # "NONE" => dbOrders[c] # NoOrder
           /\ \A e \in events' : dbOrders[e.cid] # NoOrder
<1> DEFINE Goal == /\ \A c \in Ids : xchg'[c].status # "NONE" => dbOrders[c] # NoOrder
                   /\ \A e \in events' : dbOrders[e.cid] # NoOrder
<1>1. xchg \in [Ids -> [status : ReportStatus \cup {"NONE", "REFUSED"}, cum : Nat]]
  BY DEF TypeInv, TypeOK
<1>2. ASSUME NEW d \in Ids, NEW s, NEW n, NEW t, Push(d, s, n, t), dbOrders[d] # NoOrder
      PROVE  Goal
  <2>1. xchg' = [xchg EXCEPT ![d] = [status |-> s, cum |-> n]]
        /\ events' = events \cup {[cid |-> d, status |-> s, cum |-> n, trade |-> t]}
    BY <1>2 DEF Push
  <2>2. \A c \in Ids \ {d} : xchg'[c] = xchg[c]
    BY <1>1, <2>1
  <2> QED BY <1>2, <2>1, <2>2 DEF Stored
<1>3. ASSUME NEW d \in Ids, xchg[d].status \in {"NEW", "PARTIALLY_FILLED"}
      PROVE  dbOrders[d] # NoOrder
  BY <1>3 DEF Stored
<1>4. ASSUME NEW d \in Ids, ExchangeAccept(d)
      PROVE  Goal
  BY <1>2, <1>4 DEF ExchangeAccept
<1>5. ASSUME NEW d \in Ids, ExchangeRefuse(d)
      PROVE  Goal
  <2>1. /\ dbOrders[d] # NoOrder /\ xchg' = [xchg EXCEPT ![d].status = "REFUSED"]
        /\ events' = events
    BY <1>5 DEF ExchangeRefuse
  <2>2. \A c \in Ids \ {d} : xchg'[c] = xchg[c]
    BY <1>1, <2>1
  <2> QED BY <2>1, <2>2 DEF Stored
<1>6. ASSUME NEW d \in Ids, NEW q \in 1 .. Qty[d], ExchangeTrade(d, q)
      PROVE  Goal
  BY <1>2, <1>3, <1>6 DEF ExchangeTrade
<1>7. ASSUME NEW d \in Ids, NEW s \in Ends, ExchangeEnd(d, s)
      PROVE  Goal
  BY <1>2, <1>3, <1>7 DEF ExchangeEnd
<1> QED BY <1>4, <1>5, <1>6, <1>7 DEF Exchange

WithReport == {"placing", "resolving", "applying", "settling", "resaving"}

\* The order a handler comes to work on is in the store.
LEMMA WorkedOnIsStored ==
    ASSUME TypeInv, Stored, [Next]_vars, task'.at \in WithReport
    PROVE  dbOrders'[task'.report.cid] # NoOrder
<1> DEFINE Goal == dbOrders'[task'.report.cid] # NoOrder
<1> USE DEF WithReport
<1>1. ASSUME NEW c \in Ids, dbOrders[c] # NoOrder
      PROVE  dbOrders'[c] # NoOrder
  BY <1>1, StoreKeepsOrders, NoOrderIsNone
<1>2. task.at \in WithReport =>
         task.report.cid \in Ids /\ dbOrders[task.report.cid] # NoOrder
  BY DEF TypeInv, TaskFits, Report, Stored
<1>3. ASSUME UNCHANGED task \/ (task.at \in WithReport /\ task'.report.cid = task.report.cid)
      PROVE  Goal
  BY <1>1, <1>2, <1>3
<1>4. CASE Exchange \/ UNCHANGED vars
  BY <1>3, <1>4, ExchangeTypes DEF TypeInv, EngineStays, vars
<1>5. ASSUME NEW c \in Ids, Submit(c)
      PROVE  Goal
  <2> DEFINE o == [status |-> "SUBMITTING", filled |-> 0, applied |-> 0]
  <2>1. o # NoOrder /\ dbOrders' = [dbOrders EXCEPT ![c] = o] /\ task' = Asking("placing", c)
    BY <1>5 DEF Submit, NoOrder
  <2> HIDE DEF o
  <2>2. task'.report.cid = c
    BY <2>1, AskingForm
  <2> QED BY <2>1, <2>2 DEF TypeInv, TypeOK
<1>6. ASSUME NEW c \in Ids, NEW todo, Found(c, todo)
      PROVE  Goal
  <2>1. dbOrders[c] # NoOrder /\ task'.report = Answer(c)
    BY <1>6 DEF Found, Stored, ReportStatus, Working
  <2>2. task'.report.cid = c
    BY <2>1 DEF Answer
  <2> QED BY <1>1, <2>1, <2>2
<1>7. ASSUME NEW e \in events, Deliver(e) \/ Respond(e)
      PROVE  Goal
  <2>1. e.cid \in Ids /\ dbOrders[e.cid] # NoOrder
    BY DEF TypeInv, TypeOK, Report, Stored
  <2>2. task'.report.cid = e.cid
    <3>1. CASE Deliver(e)
      <4>1. task' = Working("resaving", e, FALSE, {}) \/ task' = Working("settling", e, FALSE, {})
            \/ task' = Idle
        BY <3>1 DEF Deliver, RecordFill
      <4> QED BY <4>1, IdleForm DEF Working
    <3>2. CASE Respond(e)
      <4>1. [e EXCEPT !.trade = 0].cid = e.cid
        BY DEF TypeInv, TypeOK, Report
      <4>2. task' = Idle \/ \E r : r.cid = e.cid /\ task' = Working("applying", r, FALSE, {})
        BY <3>2, <4>1 DEF Respond
      <4> QED BY <4>2, IdleForm DEF Working
    <3> QED BY <1>7, <3>1, <3>2
  <2> QED BY <1>1, <2>1, <2>2
<1>8. CASE Record \/ Settle
  <2>1. task.at \in WithReport /\ (task' = Idle \/ task'.report = task.report)
    BY <1>8 DEF Record, RecordFill, Settle, Working
  <2> QED BY <1>3, <2>1, IdleForm
<1>9. CASE PlacementUnknown
  <2>1. task.at \in WithReport /\ task' = Asking("resolving", task.report.cid)
    BY <1>9 DEF PlacementUnknown
  <2> QED BY <1>3, <2>1, AskingForm
<1>10. CASE PlacementFails \/ ResolveAbsent \/ ResolveUnresolved \/ Crash
  <2>1. task' = Idle \/ task' = Down
    BY <1>10 DEF PlacementFails, ResolveAbsent, ResolveUnresolved, Crash
  <2> QED BY <2>1, IdleForm
<1>11. CASE Resave \/ ReplayDone \/ \E c \in Ids : AuditMissing(c)
  <2>1. \E t : task' = Auditing(t)
    BY <1>11 DEF Resave, ReplayDone, AuditMissing
  <2>2. task'.at \in {"idle", "auditing"}
    BY <2>1, AuditingForm
  <2> QED BY <2>2
<1>12. CASE Restart \/ Replay
  <2>1. \E i : task' = Replaying(i)
    BY <1>12 DEF Restart, Replay
  <2>2. task'.at = "replaying"
    BY <2>1, ReplayingForm
  <2> QED BY <2>2
<1>13. CASE ResolveFound \/ \E c \in Ids : AuditFound(c)
  BY <1>6, <1>13 DEF ResolveFound, AuditFound, TypeInv, TaskFits, Report
<1> QED BY <1>4, <1>5, <1>7, <1>8, <1>9, <1>10, <1>11, <1>12, <1>13 DEF Next, Handler

\* A step of the fill path tracks, hears of and records stored orders only.
LEMMA StoredKept ==
    ASSUME TypeInv, TypeInv', Stored, [Next]_vars
    PROVE  Stored'
<1>1. ASSUME NEW c \in Ids, dbOrders[c] # NoOrder
      PROVE  dbOrders'[c] # NoOrder
  BY <1>1, StoreKeepsOrders, NoOrderIsNone
<1>2. \A e \in events : e.cid \in Ids
  BY DEF TypeInv, TypeOK, Report
<1>3. /\ \A c \in Ids : xchg'[c].status # "NONE" => dbOrders'[c] # NoOrder
      /\ \A e \in events' : dbOrders'[e.cid] # NoOrder
  <2>1. CASE Exchange
    BY <2>1, ExchangeKnowsStored, ExchangeTypes DEF TypeInv, EngineStays
  <2>2. CASE Handler \/ Crash \/ UNCHANGED vars
    <3>1. UNCHANGED exchange
      BY <2>2, HandlersLeaveExchange DEF vars
    <3> QED BY <1>1, <1>2, <3>1 DEF Stored, exchange
  <2> QED BY <2>1, <2>2 DEF Next
<1>4. \A c \in Ids : orders'[c] # NoOrder => dbOrders'[c] # NoOrder
  BY TrackedIsStored
<1>5. task'.at \in WithReport => dbOrders'[task'.report.cid] # NoOrder
  BY WorkedOnIsStored
<1>6. ASSUME NEW i \in 1 .. Len(fills')
      PROVE  dbOrders'[fills'[i].cid] # NoOrder
  <2>1. ASSUME NEW j \in 1 .. Len(fills)
        PROVE  dbOrders'[fills[j].cid] # NoOrder
    <3>1. fills[j].cid \in Ids /\ dbOrders[fills[j].cid] # NoOrder
      <4>1. fills[j] \in Report
        BY DEF TypeInv, TypeOK
      <4> QED BY <4>1 DEF Report, Stored
    <3> QED BY <1>1, <3>1
  <2>2. CASE UNCHANGED fills
    BY <2>1, <2>2
  <2>3. ASSUME NEW r \in Report, fills' = Append(fills, r), task'.at = "settling",
               task'.report = r
        PROVE  dbOrders'[fills'[i].cid] # NoOrder
    <3>1. dbOrders'[r.cid] # NoOrder
      BY <1>5, <2>3 DEF WithReport
    <3>2. fills \in Seq(Report)
      BY DEF TypeInv, TypeOK
    <3>3. fills'[i] = r \/ (i \in 1 .. Len(fills) /\ fills'[i] = fills[i])
      BY <2>3, <3>2
    <3> QED BY <2>1, <3>1, <3>3
  <2> QED BY <2>2, <2>3, NextMovesRows DEF RowsMove
<1> QED BY <1>3, <1>4, <1>5, <1>6 DEF Stored, WithReport

-----------------------------------------------------------------------------
(* What the ledger knows of is not in doubt.                               *)

\* A report or a refusal takes an order out of doubt.
LEMMA DoubtIsResolved ==
    ASSUME NEW o \in Order \cup {NoOrder}, NEW s \in ReportStatus \cup {"REJECTED"}, NEW n
    PROVE  TransitionStatus(o, s, n).status # "UNKNOWN"
<1>1. s # "UNKNOWN" /\ "UNKNOWN" \in Status
  BY DEF ReportStatus, Status, Open
<1>2. o.status = "UNKNOWN" => Accepts(o, s)
  BY DEF Accepts, ValidTransitions, Status, Open, Terminal, ReportStatus
<1>3. CASE Accepts(o, s)
  BY <1>1, <1>3 DEF TransitionStatus, Order, NoOrder
<1>4. CASE ~Accepts(o, s)
  BY <1>2, <1>4 DEF TransitionStatus
<1> QED BY <1>3, <1>4

\* An order is not in doubt after a report was applied to it.
LEMMA ReportResolves ==
    ASSUME TypeOK, NEW r \in Report
    PROVE  OrderAfter(r).status # "UNKNOWN"
<1> DEFINE booked == [Held(r.cid) EXCEPT !.applied = Larger(@, r.cum)]
           moved == TransitionStatus(booked, r.status, r.cum)
<1>1. r.cid \in Ids /\ r.cum \in Nat /\ r.status \in ReportStatus
  BY DEF Report
<1>2. booked \in Order
  <2>1. Held(r.cid) \in Order
    BY <1>1, HeldIsOrder
  <2> QED BY <1>1, <2>1 DEF Order, Larger
<1>3. moved \in Order /\ moved.status # "UNKNOWN"
  <2>1. r.status \in Status
    BY <1>1 DEF ReportStatus, Status, Open, Terminal
  <2> HIDE DEF booked
  <2> QED BY <1>1, <1>2, <2>1, DoubtIsResolved, TransitionMovesForward
<1>4. OrderAfter(r) = [moved EXCEPT !.filled = Larger(@, r.cum)]
  BY DEF OrderAfter
<1> HIDE DEF moved
<1> QED BY <1>3, <1>4 DEF Order

\* Nor after it was merged with an answer.
LEMMA AnswerResolves ==
    ASSUME NEW o \in Order \cup {NoOrder}, NEW r \in Report
    PROVE  UpsertOrder(o, AsOrder(r)).status # "UNKNOWN"
<1>1. r.status \in ReportStatus /\ r.status # "UNKNOWN"
  BY DEF Report, ReportStatus
<1>2. AsOrder(r).status = r.status
  BY DEF AsOrder
<1> QED BY <1>1, <1>2, DoubtIsResolved DEF UpsertOrder

\* Only an unanswered POST and a restart put an order in doubt.
LEMMA DoubtArises ==
    ASSUME TypeInv, [Next]_vars, NEW c \in Ids, orders'[c].status = "UNKNOWN"
    PROVE  \/ orders[c].status = "UNKNOWN"
           \/ PlacementUnknown /\ c = task.report.cid
           \/ Restart
<1> DEFINE Was == orders[c].status = "UNKNOWN"
<1>1. orders \in [Ids -> Order \cup {NoOrder}]
  BY DEF TypeInv, TypeOK
<1>2. ASSUME NEW d \in Ids, NEW o, orders' = [orders EXCEPT ![d] = o], o.status # "UNKNOWN"
      PROVE  Was
  BY <1>1, <1>2
<1>3. CASE Exchange \/ UNCHANGED vars
  BY <1>3, ExchangeTypes DEF TypeInv, EngineStays, vars, engine
<1>4. ASSUME NEW d \in Ids, Submit(d)
      PROVE  Was
  <2> DEFINE o == [status |-> "SUBMITTING", filled |-> 0, applied |-> 0]
  <2>1. o.status # "UNKNOWN" /\ orders' = [orders EXCEPT ![d] = o]
    BY <1>4 DEF Submit
  <2> HIDE DEF o
  <2> QED BY <1>2, <2>1
<1>5. ASSUME NEW e \in events, Respond(e)
      PROVE  Was
  <2> DEFINE r == [e EXCEPT !.trade = 0]
  <2>1. r \in Report /\ r.cid \in Ids
    BY DEF Report, TypeInv, TypeOK
  <2>2. orders' = [orders EXCEPT ![r.cid] = UpsertOrder(orders[r.cid], AsOrder(r))]
    BY <1>5 DEF Respond
  <2> HIDE DEF r
  <2> QED BY <1>1, <1>2, <2>1, <2>2, AnswerResolves
<1>6. ASSUME NEW d \in Ids, NEW todo, Found(d, todo)
      PROVE  Was
  <2>1. Answer(d) \in Report
    BY <1>6, AnswerTypes DEF Found, TypeInv
  <2> QED BY <1>1, <1>2, <1>6, <2>1, AnswerResolves DEF Found
<1>7. CASE Settle \/ Replay
  <2>1. PICK r \in Report : ApplyReport(r)
    BY <1>7, AppliesAReport
  <2>2. r.cid \in Ids /\ orders' = [orders EXCEPT ![r.cid] = OrderAfter(r)]
        /\ OrderAfter(r).status # "UNKNOWN"
    BY <2>1, ReportResolves DEF ApplyReport, Report, TypeInv
  <2> QED BY <1>2, <2>2
<1>8. CASE PlacementFails \/ ResolveAbsent
  <2>1. /\ task.report.cid \in Ids
        /\ orders' = [orders EXCEPT ![task.report.cid] =
                        TransitionStatus(orders[task.report.cid], "REJECTED", 0)]
    BY <1>8 DEF PlacementFails, ResolveAbsent, TypeInv, TaskFits, Report
  <2>2. TransitionStatus(orders[task.report.cid], "REJECTED", 0).status # "UNKNOWN"
    BY <1>1, <2>1, DoubtIsResolved
  <2> QED BY <1>2, <2>1, <2>2
<1>9. CASE PlacementUnknown
  <2>1. task.report.cid \in Ids
    BY <1>9 DEF PlacementUnknown, TypeInv, TaskFits, Report
  <2> QED BY <1>1, <1>9, <2>1 DEF PlacementUnknown
<1>10. CASE Crash
  <2>1. orders'[c] = NoOrder
    BY <1>10 DEF Crash
  <2> QED BY <2>1, NoOrderIsNone
<1>11. CASE \/ Record \/ Resave \/ ResolveUnresolved \/ ReplayDone
            \/ \E d \in Ids : AuditMissing(d)
            \/ \E e \in events : Deliver(e)
  BY <1>11 DEF Record, Resave, ResolveUnresolved, ReplayDone, AuditMissing, Deliver,
               RecordFill, engine
<1>12. CASE ResolveFound \/ \E d \in Ids : AuditFound(d)
  BY <1>6, <1>12 DEF ResolveFound, AuditFound, TypeInv, TaskFits, Report
<1>13. CASE Restart
  BY <1>13
<1> QED BY <1>3, <1>4, <1>5, <1>7, <1>8, <1>9, <1>10, <1>11, <1>12, <1>13 DEF Next, Handler

(* The order of a ledger row is in doubt only while the row is still to be *)
(* applied; an order that is being placed has no row; and an order whose   *)
(* report is being saved is not in doubt.                                  *)
Known ==
    /\ \A i \in 1 .. Len(fills) : Pending(i) \/ orders[fills[i].cid].status # "UNKNOWN"
    /\ task.at = "placing" => \A i \in 1 .. Len(fills) : fills[i].cid # task.report.cid
    /\ task.at = "resaving" => orders[task.report.cid].status # "UNKNOWN"

\* Where a handler that places, or saves, comes from.
LEMMA PlacingComesFrom ==
    ASSUME TypeInv, [Next]_vars, task'.at \in {"placing", "resaving"}
    PROVE  \/ UNCHANGED <<task, fills>>
           \/ task'.at = "placing" /\ UNCHANGED fills
              /\ \E c \in Ids : Submit(c) /\ task'.report.cid = c
           \/ task'.at = "resaving" /\ task'.report.cid = task.report.cid
              /\ (Settle \/ (Record /\ Recorded(task.report) /\ UNCHANGED orders))
           \/ task'.at = "resaving" /\ \E todo : \E c \in Ids : Found(c, todo) /\ task'.report.cid = c
<1> DEFINE Goal == \/ UNCHANGED <<task, fills>>
                   \/ task'.at = "placing" /\ UNCHANGED fills
                      /\ \E c \in Ids : Submit(c) /\ task'.report.cid = c
                   \/ task'.at = "resaving" /\ task'.report.cid = task.report.cid
                      /\ (Settle \/ (Record /\ Recorded(task.report) /\ UNCHANGED orders))
                   \/ task'.at = "resaving" /\ \E todo : \E c \in Ids : Found(c, todo) /\ task'.report.cid = c
<1>1. CASE Exchange \/ UNCHANGED vars
  BY <1>1, ExchangeTypes DEF TypeInv, EngineStays, vars, engine
<1>2. ASSUME NEW c \in Ids, Submit(c)
      PROVE  Goal
  <2>1. task' = Asking("placing", c) /\ UNCHANGED fills
    BY <1>2 DEF Submit
  <2>2. task'.at = "placing" /\ task'.report.cid = c
    BY <2>1, AskingForm
  <2> QED BY <1>2, <2>1, <2>2
<1>3. ASSUME NEW c \in Ids, NEW todo, Found(c, todo)
      PROVE  Goal
  <2>1. task'.at \in {"applying", "resaving"} /\ task'.report = Answer(c)
    BY <1>3 DEF Found, Working
  <2>2. task'.report.cid = c /\ task'.at = "resaving"
    BY <2>1 DEF Answer
  <2> QED BY <1>3, <2>2
<1>4. CASE Record
  <2>1. CASE Recorded(task.report)
    <3>1. /\ UNCHANGED <<fills, orders>>
          /\ task' = Working("resaving", task.report, task.resave, task.todo) \/ task' = Idle
      BY <1>4, <2>1 DEF Record, RecordFill, engine
    <3>2. task'.report = task.report /\ task'.at = "resaving"
      BY <3>1, IdleForm, WorkingForm
    <3> QED BY <1>4, <2>1, <3>1, <3>2
  <2>2. CASE ~Recorded(task.report)
    BY <1>4, <2>2 DEF Record, RecordFill, Working
  <2> QED BY <2>1, <2>2
<1>5. CASE Settle
  <2>1. task' = Working("resaving", task.report, TRUE, task.todo) \/ task' = Idle
    BY <1>5 DEF Settle
  <2>2. task'.report = task.report /\ task'.at = "resaving"
    BY <2>1, IdleForm DEF Working
  <2> QED BY <1>5, <2>2
<1>6. ASSUME NEW e \in events, Deliver(e) \/ Respond(e)
      PROVE  FALSE
  <2>1. task' = Idle \/ \E r : \E s \in {"settling", "applying"} : task' = Working(s, r, FALSE, {})
    BY <1>6 DEF Deliver, Respond, RecordFill
  <2> QED BY <2>1, IdleForm DEF Working
<1>7. CASE PlacementUnknown
  <2>1. task' = Asking("resolving", task.report.cid)
    BY <1>7 DEF PlacementUnknown
  <2> QED BY <2>1, AskingForm
<1>8. CASE PlacementFails \/ ResolveAbsent \/ ResolveUnresolved \/ Crash
  <2>1. task' = Idle \/ task' = Down
    BY <1>8 DEF PlacementFails, ResolveAbsent, ResolveUnresolved, Crash
  <2> QED BY <2>1, IdleForm
<1>9. CASE Resave \/ ReplayDone \/ \E c \in Ids : AuditMissing(c)
  <2>1. \E t : task' = Auditing(t)
    BY <1>9 DEF Resave, ReplayDone, AuditMissing
  <2>2. task'.at \in {"idle", "auditing"}
    BY <2>1, AuditingForm
  <2> QED BY <2>2
<1>10. CASE Restart \/ Replay
  <2>1. \E i : task' = Replaying(i)
    BY <1>10 DEF Restart, Replay
  <2>2. task'.at = "replaying"
    BY <2>1, ReplayingForm
  <2> QED BY <2>2
<1>11. CASE ResolveFound \/ \E c \in Ids : AuditFound(c)
  BY <1>3, <1>11 DEF ResolveFound, AuditFound, TypeInv, TaskFits, Report
<1> QED BY <1>1, <1>2, <1>4, <1>5, <1>6, <1>7, <1>8, <1>9, <1>10, <1>11 DEF Next, Handler

\* A row of the ledger that is not still to be applied stays out of doubt.
LEMMA RowsStayKnown ==
    ASSUME TypeInv, Known, [Next]_vars, NEW i \in 1 .. Len(fills'), ~Pending(i)'
    PROVE  orders'[fills'[i].cid].status # "UNKNOWN"
<1>1. RowsMove /\ fills \in Seq(Report)
  BY NextMovesRows DEF TypeInv, TypeOK
<1>2. ASSUME NEW j \in 1 .. Len(fills)
      PROVE  fills[j] \in Report /\ fills[j].cid \in Ids
  <2>1. fills[j] \in Report
    BY <1>1
  <2> QED BY <2>1 DEF Report
<1>3. task.row \in Nat
  BY DEF TypeInv, TaskFits, Task
<1>4. ASSUME NEW j \in 1 .. Len(fills), orders[fills[j].cid].status # "UNKNOWN", ~Restart
      PROVE  orders'[fills[j].cid].status # "UNKNOWN"
  <2>1. ~(PlacementUnknown /\ fills[j].cid = task.report.cid)
    BY DEF PlacementUnknown, Known
  <2> QED BY <1>2, <1>4, <2>1, DoubtArises
<1>5. ASSUME NEW j \in 1 .. Len(fills), ~Pending(j), ~Restart
      PROVE  orders'[fills[j].cid].status # "UNKNOWN"
  BY <1>4, <1>5 DEF Known
<1>6. CASE UNCHANGED <<fills, task>>
  <2>1. ~Restart
    BY <1>6, ReplayingForm DEF Restart
  <2> QED BY <1>5, <1>6, <2>1 DEF Pending
<1>7. ASSUME NEW r \in Report, fills' = Append(fills, r), task'.at = "settling",
             task'.report = r, task.at \notin {"down", "replaying", "settling"}
      PROVE  orders'[fills'[i].cid].status # "UNKNOWN"
  <2>1. fills'[i] # r
    BY <1>7 DEF Pending
  <2>2. i \in 1 .. Len(fills) /\ fills'[i] = fills[i]
    BY <1>1, <1>7, <2>1
  <2> QED BY <1>5, <1>7, <2>2 DEF Pending, Restart
<1>8. CASE Settle
  <2>1. /\ task.report \in Report /\ ApplyReport(task.report) /\ UNCHANGED fills
        /\ task.at = "settling"
    BY <1>8 DEF Settle, TypeInv, TaskFits
  <2>2. CASE fills[i] = task.report
    <3>1. orders'[task.report.cid] = OrderAfter(task.report)
      BY <2>1 DEF ApplyReport, Report, TypeInv, TypeOK
    <3> QED BY <2>1, <2>2, <3>1, ReportResolves DEF TypeInv
  <2>3. CASE fills[i] # task.report
    BY <1>5, <2>1, <2>3 DEF Pending, Restart
  <2> QED BY <2>2, <2>3
<1>9. CASE Replay
  <2>1. /\ task.row \in 1 .. Len(fills) /\ ApplyReport(fills[task.row]) /\ UNCHANGED fills
        /\ task.at = "replaying" /\ task' = Replaying(task.row + 1)
    BY <1>9 DEF Replay, TypeInv, TaskFits, Task
  <2>2. i < task.row + 1
    BY <1>3, <2>1, ReplayingForm DEF Pending
  <2>3. CASE i = task.row
    <3>1. orders'[fills[i].cid] = OrderAfter(fills[i])
      BY <1>2, <2>1, <2>3 DEF ApplyReport, TypeInv, TypeOK
    <3> QED BY <1>2, <2>1, <2>3, <3>1, ReportResolves DEF TypeInv
  <2>4. CASE i # task.row
    <3>1. ~Pending(i)
      BY <1>3, <2>1, <2>2, <2>4 DEF Pending
    <3> QED BY <1>5, <2>1, <3>1 DEF Restart
  <2> QED BY <2>3, <2>4
<1>10. CASE Restart
  <2>1. task'.at = "replaying" /\ task'.row = 1
    BY <1>10, ReplayingForm DEF Restart
  <2> QED BY <2>1 DEF Pending
<1>11. CASE Crash
  BY <1>11, IdleForm DEF Crash, Pending
<1>12. CASE /\ UNCHANGED fills
            /\ task.at \notin {"down", "settling"} /\ task'.at \notin {"settling", "replaying"}
            /\ task.at = "replaying" => task.row > Len(fills)
  <2>1. i \in 1 .. Len(fills) /\ fills'[i] = fills[i] /\ ~Restart
    BY <1>12 DEF Restart
  <2>2. ~Pending(i)
    BY <1>3, <1>12, <2>1 DEF Pending
  <2> QED BY <1>5, <2>1, <2>2
<1> QED BY <1>1, <1>6, <1>7, <1>8, <1>9, <1>10, <1>11, <1>12 DEF RowsMove

\* A step of the fill path keeps doubt away from what the ledger knows of.
LEMMA KnownKept ==
    ASSUME TypeInv, TypeInv', Stored, Known, [Next]_vars
    PROVE  Known'
<1>1. \A i \in 1 .. Len(fills') :
         Pending(i)' \/ orders'[fills'[i].cid].status # "UNKNOWN"
  BY RowsStayKnown
<1>2. ASSUME task'.at = "placing", NEW i \in 1 .. Len(fills')
      PROVE  fills'[i].cid # task'.report.cid
  <2>1. ASSUME NEW c \in Ids, Submit(c), UNCHANGED fills, task'.report.cid = c
        PROVE  fills'[i].cid # task'.report.cid
    BY <2>1 DEF Submit, Stored
  <2>2. CASE UNCHANGED <<task, fills>>
    BY <1>2, <2>2 DEF Known
  <2> QED BY <1>2, <2>1, <2>2, PlacingComesFrom
<1>3. ASSUME task'.at = "resaving"
      PROVE  orders'[task'.report.cid].status # "UNKNOWN"
  <2>1. CASE UNCHANGED <<task, fills>>
    <3>1. task.report.cid \in Ids /\ orders[task.report.cid].status # "UNKNOWN"
      BY <1>3, <2>1 DEF Known, TypeInv, TaskFits, Report
    <3>2. ~PlacementUnknown /\ ~Restart
      BY <1>3, <2>1 DEF PlacementUnknown, Restart
    <3> QED BY <2>1, <3>1, <3>2, DoubtArises
  <2>2. CASE task'.report.cid = task.report.cid /\ Settle
    <3>1. task.report \in Report /\ ApplyReport(task.report)
      BY <2>2 DEF Settle, TypeInv, TaskFits
    <3>2. orders'[task.report.cid] = OrderAfter(task.report)
      BY <3>1 DEF ApplyReport, Report, TypeInv, TypeOK
    <3> QED BY <2>2, <3>1, <3>2, ReportResolves DEF TypeInv
  <2>3. CASE /\ task'.report.cid = task.report.cid
             /\ Record /\ Recorded(task.report) /\ UNCHANGED orders
    <3>1. PICK i \in 1 .. Len(fills) : fills[i].cid = task.report.cid
      BY <2>3 DEF Recorded, SameKey
    <3>2. ~Pending(i)
      BY <2>3 DEF Record, Pending
    <3> QED BY <2>3, <3>1, <3>2 DEF Known
  <2>4. ASSUME NEW c \in Ids, NEW todo, Found(c, todo), task'.report.cid = c
        PROVE  orders'[task'.report.cid].status # "UNKNOWN"
    <3>1. Answer(c) \in Report /\ orders \in [Ids -> Order \cup {NoOrder}]
      BY <2>4, AnswerTypes DEF Found, TypeInv, TypeOK
    <3>2. orders' = [orders EXCEPT ![c] = UpsertOrder(@, AsOrder(Answer(c)))]
      BY <1>3, <2>4 DEF Found, Working
    <3> QED BY <2>4, <3>1, <3>2, AnswerResolves
  <2> QED BY <1>3, <2>1, <2>2, <2>3, <2>4, PlacingComesFrom
<1> QED BY <1>1, <1>2, <1>3 DEF Known

\* A recovered trade touches one order, which is out of doubt then.
LEMMA RecoveryKeepsKnown ==
    ASSUME AuditInv, Phases, Stored, Known, audit.at = "apply",
           NEW r \in Report, fills' = Append(fills, r), ApplyReport(r),
           UNCHANGED <<exchange, task, crashes>>
    PROVE  Stored' /\ Known' /\ \A c \in Ids : orders'[c].status = "UNKNOWN" =>
                                                   orders[c].status = "UNKNOWN"
<1> USE DEF AuditInv
<1>1. /\ r.cid \in Ids /\ OrderAfter(r) \in Order /\ OrderAfter(r).status # "UNKNOWN"
      /\ OrderAfter(r) # NoOrder
  BY ReportMovesForward, ReportResolves, NoOrderIsNone DEF Report, TypeInv
<1>2. /\ orders \in [Ids -> Order \cup {NoOrder}] /\ dbOrders \in [Ids -> Order \cup {NoOrder}]
      /\ fills \in Seq(Report)
  BY DEF TypeInv, TypeOK
<1>3. /\ orders' = [orders EXCEPT ![r.cid] = OrderAfter(r)]
      /\ dbOrders' = [dbOrders EXCEPT ![r.cid] = OrderAfter(r)]
  BY DEF ApplyReport
<1>4. task.at \in {"idle", "auditing"}
  BY DEF Phases
<1>5. ASSUME NEW j \in 1 .. Len(fills)
      PROVE  fills[j].cid \in Ids
  <2>1. fills[j] \in Report
    BY <1>2
  <2> QED BY <2>1 DEF Report
<1>6. ASSUME NEW i \in 1 .. Len(fills')
      PROVE  fills'[i] = r \/ (i \in 1 .. Len(fills) /\ fills'[i] = fills[i])
  BY <1>2
<1>7. ASSUME NEW c \in Ids
      PROVE  /\ dbOrders[c] # NoOrder => dbOrders'[c] # NoOrder
             /\ orders'[c].status = "UNKNOWN" => orders[c].status = "UNKNOWN"
             /\ orders'[c] # NoOrder => dbOrders'[c] # NoOrder
  <2>1. orders[c] # NoOrder => dbOrders[c] # NoOrder
    BY DEF Stored
  <2> QED BY <1>1, <1>2, <1>3, <2>1
<1>8. dbOrders'[r.cid] # NoOrder /\ orders'[r.cid].status # "UNKNOWN"
  BY <1>1, <1>2, <1>3
<1>9. Stored'
  <2>1. \A e \in events : e.cid \in Ids
    BY DEF TypeInv, TypeOK, Report
  <2>2. \A c \in Ids : xchg[c].status # "NONE" => dbOrders'[c] # NoOrder
    BY <1>7 DEF Stored
  <2>3. \A e \in events : dbOrders'[e.cid] # NoOrder
    BY <1>7, <2>1 DEF Stored
  <2>4. ASSUME NEW i \in 1 .. Len(fills')
        PROVE  dbOrders'[fills'[i].cid] # NoOrder
    BY <1>5, <1>6, <1>7, <1>8 DEF Stored
  <2> QED BY <1>4, <1>7, <2>2, <2>3, <2>4 DEF Stored, exchange
<1>10. Known'
  <2>1. ASSUME NEW i \in 1 .. Len(fills')
        PROVE  orders'[fills'[i].cid].status # "UNKNOWN"
    <3>1. CASE fills'[i] = r
      BY <1>8, <3>1
    <3>2. CASE i \in 1 .. Len(fills) /\ fills'[i] = fills[i]
      <4>1. ~Pending(i)
        BY <1>4 DEF Pending
      <4> QED BY <1>5, <1>7, <3>2, <4>1 DEF Known
    <3> QED BY <1>6, <3>1, <3>2
  <2> QED BY <1>4, <2>1 DEF Known
<1> QED BY <1>7, <1>9, <1>10

\* The audit's own steps keep what is stored and what is known.
LEMMA StoreAndDoubtKept ==
    ASSUME AuditInv, AuditInv', Phases, Stored, Known, [AuditNext]_auditVars
    PROVE  Stored' /\ Known'
<1> USE DEF AuditInv
<1>1. CASE [Next]_vars
  BY <1>1, StoredKept, KnownKept
<1>2. CASE UNCHANGED <<exchange, orders, fills, dbOrders, clamped, task, crashes>>
  BY <1>2 DEF Stored, Known, Pending, exchange
<1>3. CASE ApplyTrade
  <2>1. audit.at = "apply"
    BY <1>3 DEF ApplyTrade
  <2> QED BY <1>2, <1>3, <2>1, TradeApplies, RecoveryKeepsKnown DEF vars, engine
<1>4. CASE Compare
  BY <1>2, <1>4 DEF Compare, Finish
<1>5. CASE GatesRefuse
  <2>1. /\ orders' = [c \in Ids |-> NoOrder] /\ task'.at = "down"
        /\ UNCHANGED <<exchange, fills, dbOrders>>
    BY <1>5, IdleForm DEF GatesRefuse
  <2>2. Stored'
    <3>1. \A c \in Ids : orders'[c] = NoOrder
      BY <2>1
    <3> QED BY <2>1, <3>1 DEF Stored, exchange
  <2> QED BY <2>1, <2>2 DEF Known, Pending
<1> QED BY <1>1, <1>3, <1>4, <1>5, FillPathSteps DEF AuditTouches

-----------------------------------------------------------------------------
(* An order in doubt blocks entries.                                       *)

(* While the process lives and is past its replay an order in doubt is on  *)
(* the list that blocks entries, or the startup audit still has to ask of  *)
(* it, or is at the exchange's answer on it.                               *)
Doubt ==
    task.at \notin {"down", "replaying"} =>
        \A c \in Ids : orders[c].status = "UNKNOWN" =>
            \/ c \in unknown
            \/ c \in task.todo
            \/ audit.at = "orders" /\ task.at \in {"applying", "settling"} /\ c = task.report.cid

DoubtInv == Phases /\ Stored /\ Known /\ Doubt

\* A handler between audits leaves no order in doubt off the list.
LEMMA ServeListsDoubt ==
    ASSUME AuditInv, DoubtInv, Serve, NEW c \in Ids, orders'[c].status = "UNKNOWN"
    PROVE  c \in unknown'
<1> USE DEF AuditInv, DoubtInv
<1>1. audit.at = "off" /\ task.todo = {} /\ task.at \notin {"down", "auditing"}
  <2>1. task.at # "down"
    BY DEF Serve, Place, LoseTrack, Resolve, Submit, PlacementUnknown, ResolveUnresolved,
           Resave, ResolveAbsent, Deliver, Respond, PlacementFails, ResolveFound, Record, Settle
  <2> QED BY <2>1 DEF Serve, Phases
<1>2. task.at # "replaying" /\ [Next]_vars
  <2>1. [Next]_vars
    BY DEF Serve, Place, LoseTrack, Resolve, Next, Handler
  <2>2. task.at # "replaying"
    BY DEF Serve, Place, LoseTrack, Resolve, Submit, PlacementUnknown, ResolveUnresolved,
           Resave, ResolveAbsent, Deliver, Respond, PlacementFails, ResolveFound, Record, Settle
  <2> QED BY <2>1, <2>2
<1>3. orders[c].status = "UNKNOWN" => c \in unknown
  BY <1>1, <1>2 DEF Doubt
<1>4. ~Restart
  BY <1>1 DEF Restart
<1>5. CASE LoseTrack
  BY <1>2, <1>3, <1>4, <1>5, DoubtArises DEF LoseTrack
<1>6. ~LoseTrack => orders[c].status = "UNKNOWN" /\ c \in unknown
  <2>1. ASSUME ~LoseTrack, PlacementUnknown
        PROVE  FALSE
    <3>1. task.at = "placing" /\ task' = Asking("resolving", task.report.cid)
      BY <2>1 DEF PlacementUnknown
    <3>2. task'.at = "resolving"
      BY <3>1, AskingForm
    <3>3. PlacementFails \/ \E e \in events : Respond(e)
      BY <2>1, <3>1 DEF Serve, Place, LoseTrack, Resolve, Submit, Resave, ResolveAbsent,
                        ResolveUnresolved, Deliver, ResolveFound, Record, Settle
    <3>4. task' = Idle \/ \E r : \E s \in {"settling", "applying"} : task' = Working(s, r, FALSE, {})
      BY <3>3 DEF PlacementFails, Respond
    <3> QED BY <3>2, <3>4, IdleForm DEF Working
  <2> QED BY <1>2, <1>3, <1>4, <2>1, DoubtArises
<1>7. CASE Resolve
  <2>1. c # task.report.cid
    <3>1. CASE Resave
      <4>1. orders' = orders /\ task.at = "resaving"
        BY <3>1 DEF Resave
      <4>2. orders[task.report.cid].status # "UNKNOWN"
        BY <4>1 DEF Known
      <4>3. orders[c].status = "UNKNOWN"
        BY <4>1
      <4> QED BY <4>2, <4>3
    <3>2. CASE ResolveAbsent
      <4>1. /\ task.report.cid \in Ids /\ orders \in [Ids -> Order \cup {NoOrder}]
            /\ orders' = [orders EXCEPT ![task.report.cid] =
                            TransitionStatus(orders[task.report.cid], "REJECTED", 0)]
        BY <3>2 DEF ResolveAbsent, TypeInv, TypeOK, TaskFits, Report
      <4>2. TransitionStatus(orders[task.report.cid], "REJECTED", 0).status # "UNKNOWN"
        BY <4>1, DoubtIsResolved
      <4> QED BY <4>1, <4>2
    <3> QED BY <1>7, <3>1, <3>2 DEF Resolve
  <2> QED BY <1>5, <1>6, <1>7, <2>1 DEF Resolve
<1>8. ~LoseTrack /\ ~Resolve => unknown' = unknown
  BY DEF Serve, Place
<1> QED BY <1>5, <1>6, <1>7, <1>8

\* The audit of the open orders leaves none of them in doubt unasked.
LEMMA AuditListsDoubt ==
    ASSUME AuditInv, AuditInv', DoubtInv, AuditOrders
    PROVE  Doubt'
<1> USE DEF AuditInv, DoubtInv
<1>1. /\ audit.at = "orders" /\ audit.start
      /\ task.at \in {"auditing", "applying", "settling", "resaving"}
  BY DEF AuditOrders, Phases, AuditFound, AuditMissing, Record, Settle, Resave
<1>2. audit'.at = "orders" /\ [Next]_vars /\ ~Restart /\ ~PlacementUnknown
  <2>1. audit'.at = audit.at
    BY OrdersKeepPhase, AuditForm
  <2>2. [Next]_vars
    BY DEF AuditOrders, Next, Handler
  <2> QED BY <1>1, <2>1, <2>2 DEF Restart, PlacementUnknown
<1> DEFINE Excused(c) == /\ task.at \in {"applying", "settling"} /\ c = task.report.cid
           Excused2(c) == /\ task'.at \in {"applying", "settling"} /\ c = task'.report.cid
<1>3. ASSUME NEW c \in Ids, orders'[c].status = "UNKNOWN"
      PROVE  orders[c].status = "UNKNOWN" /\ (c \in unknown \/ c \in task.todo \/ Excused(c))
  <2>1. orders[c].status = "UNKNOWN"
    BY <1>2, <1>3, DoubtArises
  <2> QED BY <1>1, <2>1 DEF Doubt
<1> SUFFICES ASSUME NEW c \in Ids, orders'[c].status = "UNKNOWN"
             PROVE  c \in unknown' \/ c \in task'.todo \/ Excused2(c)
  BY <1>2 DEF Doubt
<1> DEFINE Listed == c \in unknown' \/ c \in task'.todo \/ Excused2(c)
<1>4. c \in unknown \/ c \in task.todo \/ Excused(c)
  BY <1>3
<1>5. task'.at = "resaving" => task'.report.cid # c
  <2>1. Known'
    BY <1>2, KnownKept
  <2> QED BY <2>1 DEF Known
<1>6. \A s, r, v, t : task' = Working(s, r, v, t) =>
                        task'.at = s /\ task'.report = r /\ task'.todo = t
  BY DEF Working
<1>7. ASSUME NEW d \in Ids, AuditFound(d), unknown' = unknown
      PROVE  Listed
  <2>1. \E s \in {"applying", "resaving"} : task' = Working(s, Answer(d), TRUE, task.todo \ {d})
    BY <1>7 DEF AuditFound, Found
  <2>2. task'.at \in {"applying", "resaving"} /\ task'.report = Answer(d)
        /\ task'.todo = task.todo \ {d}
    BY <2>1 DEF Working
  <2>3. task.at = "auditing" /\ task'.report.cid = d
    BY <1>7, <2>2 DEF AuditFound, Answer
  <2> QED BY <1>4, <1>5, <1>7, <2>2, <2>3
<1>8. CASE Record /\ unknown' = unknown
  <2>1. task.at = "applying" /\ task.resave
    BY <1>1, <1>8, Zenon DEF Record, Phases
  <2>2. \E s \in {"settling", "resaving"} : task' = Working(s, task.report, task.resave, task.todo)
    BY <1>8, <2>1 DEF Record, RecordFill
  <2>3. task'.at \in {"settling", "resaving"} /\ task'.report = task.report
        /\ task'.todo = task.todo
    BY <1>6, <2>2
  <2> QED BY <1>4, <1>5, <1>8, <2>3
<1>9. CASE Settle /\ unknown' = unknown
  <2>1. task.at = "settling" /\ task.resave
    BY <1>1, <1>9, Zenon DEF Settle, Phases
  <2>2. task' = Working("resaving", task.report, TRUE, task.todo)
    BY <1>9, <2>1 DEF Settle
  <2>3. task'.at = "resaving" /\ task'.report = task.report /\ task'.todo = task.todo
    BY <2>2 DEF Working
  <2> QED BY <1>4, <1>5, <1>9, <2>3
<1>10. CASE Resave /\ unknown \ {task.report.cid} \subseteq unknown'
  <2>1. task.at = "resaving" /\ orders' = orders /\ task' = Auditing(task.todo)
    BY <1>10 DEF Resave
  <2>2. c # task.report.cid /\ task'.todo = task.todo
    BY <2>1, AuditingForm DEF Known
  <2> QED BY <1>4, <1>10, <2>1, <2>2
<1>11. ASSUME NEW d \in Ids, AuditMissing(d),
              unknown' = IF orders[d].status \in {"UNKNOWN", "SUBMITTING"}
                         THEN unknown \cup {d} ELSE unknown
       PROVE  Listed
  <2>1. task.at = "auditing" /\ task' = Auditing(task.todo \ {d})
    BY <1>11 DEF AuditMissing
  <2>2. task'.todo = task.todo \ {d} /\ orders[c].status = "UNKNOWN"
    BY <1>3, <2>1, AuditingForm
  <2> QED BY <1>4, <1>11, <2>1, <2>2
<1> QED BY <1>7, <1>8, <1>9, <1>10, <1>11 DEF AuditOrders

(* A step of the audited engine keeps every order in doubt on the list, or *)
(* on what the startup audit still has to ask.                             *)
LEMMA DoubtKept ==
    ASSUME AuditInv, AuditInv', DoubtInv, [AuditNext]_auditVars
    PROVE  DoubtInv'
<1> USE DEF AuditInv
<1>1. Phases' /\ Stored' /\ Known'
  BY PhasesKept, StoreAndDoubtKept DEF DoubtInv
<1> SUFFICES Doubt'
  BY <1>1 DEF DoubtInv
<1>2. CASE UNCHANGED <<orders, task, unknown>> /\ (audit'.at = "orders" <=> audit.at = "orders")
  BY <1>2 DEF DoubtInv, Doubt
<1>3. ASSUME UNCHANGED <<task, unknown>>, task.at \in {"idle", "auditing"},
             \A c \in Ids : orders'[c].status = "UNKNOWN" => orders[c].status = "UNKNOWN"
      PROVE  Doubt'
  BY <1>3 DEF DoubtInv, Doubt
<1>4. ASSUME UNCHANGED <<task, unknown, orders>>, task.at \in {"idle", "auditing"}
      PROVE  Doubt'
  BY <1>3, <1>4
<1>5. ASSUME task'.at \in {"down", "replaying"}
      PROVE  Doubt'
  BY <1>5 DEF Doubt
<1>6. CASE Market
  <2>1. ASSUME NEW c \in Ids, NEW q \in 1 .. Qty[c], Trade(c, q)
        PROVE  UNCHANGED <<orders, task, unknown, audit>>
    BY <2>1 DEF Trade, ExchangeTrade, guards, engine
  <2>2. ASSUME NEW c \in Ids, NEW s \in Ends, ExchangeEnd(c, s)
        PROVE  UNCHANGED <<orders, task>>
    BY <2>2 DEF ExchangeEnd, engine
  <2>3. UNCHANGED <<orders, task, unknown, audit>>
    BY <1>6, <2>1, <2>2 DEF Market, ExchangeAccept, ExchangeRefuse, guards, engine
  <2> QED BY <1>2, <2>3
<1>7. CASE Serve
  BY <1>7, ServeListsDoubt DEF Doubt
<1>8. CASE Revive
  <2>1. \E i : task' = Replaying(i)
    BY <1>8 DEF Revive, Restart, Replay
  <2>2. task'.at = "replaying"
    BY <2>1, ReplayingForm
  <2> QED BY <1>5, <2>2
<1>9. CASE BeginStart
  <2>1. orders' = orders /\ task' = Auditing({c \in Ids : orders[c].status \in Open})
    BY <1>9 DEF BeginStart, ReplayDone, engine
  <2>2. task'.todo = {c \in Ids : orders[c].status \in Open}
    BY <2>1, AuditingForm
  <2>3. "UNKNOWN" \in Open
    BY DEF Open
  <2> QED BY <2>1, <2>2, <2>3 DEF Doubt
<1>10. CASE AuditOrders
  BY <1>10, AuditListsDoubt
<1>11. CASE ReadPosition
  <2>1. task.at = "idle" /\ UNCHANGED <<orders, task, unknown>>
    BY <1>11 DEF ReadPosition, Finish, vars, engine, guards
  <2> QED BY <1>4, <2>1
<1>12. CASE FetchTrades \/ TradesApplied \/ Compare
  <2>1. task.at \in {"idle", "auditing"}
    BY <1>12 DEF DoubtInv, Phases, FetchTrades, TradesApplied, Compare
  <2>2. UNCHANGED <<orders, task, unknown>>
    BY <1>12 DEF FetchTrades, TradesApplied, Compare, Finish, vars, engine, guards
  <2> QED BY <1>4, <2>1, <2>2
<1>13. CASE ApplyTrade
  <2>1. /\ audit.at = "apply" /\ task.at \in {"idle", "auditing"}
        /\ UNCHANGED <<task, unknown>>
    BY <1>13 DEF DoubtInv, Phases, ApplyTrade, guards
  <2>2. \A c \in Ids : orders'[c].status = "UNKNOWN" => orders[c].status = "UNKNOWN"
    BY <1>13, <2>1, TradeApplies, RecoveryKeepsKnown DEF DoubtInv, vars, engine
  <2> QED BY <1>3, <2>1, <2>2
<1>14. CASE GatesPass \/ Disengage
  <2>1. UNCHANGED <<orders, task, unknown, audit>>
    BY <1>14 DEF GatesPass, Disengage, vars, engine
  <2> QED BY <1>2, <2>1
<1>15. CASE Die \/ GatesRefuse
  <2>1. task'.at = "down"
    BY <1>15, IdleForm DEF Die, Crash, GatesRefuse
  <2> QED BY <1>5, <2>1
<1>16. CASE UNCHANGED auditVars
  <2>1. UNCHANGED <<orders, task, unknown, audit>>
    BY <1>16 DEF auditVars, vars, engine, guards
  <2> QED BY <1>2, <2>1
<1> QED BY <1>6, <1>7, <1>8, <1>9, <1>10, <1>11, <1>12, <1>13, <1>14, <1>15, <1>16
        DEF AuditNext, Engine

\* A new account has no order and no doubt.
LEMMA DoubtStarts == AuditInit => DoubtInv
<1> SUFFICES ASSUME AuditInit PROVE DoubtInv
  OBVIOUS
<1>1. /\ task = Idle /\ audit = Off /\ gated = TRUE /\ fills = <<>> /\ events = {}
      /\ \A c \in Ids : orders[c] = NoOrder /\ xchg[c].status = "NONE"
  BY DEF AuditInit, Init
<1>2. task.at = "idle" /\ task.todo = {} /\ audit.at = "off" /\ audit.start = FALSE
  BY <1>1, IdleForm DEF Off
<1>3. \A c \in Ids : orders[c].status # "UNKNOWN"
  BY <1>1, NoOrderIsNone
<1>4. Phases /\ Stored /\ Known
  BY <1>1, <1>2, <1>3 DEF Phases, Stored, Known
<1> QED BY <1>3, <1>4 DEF DoubtInv, Doubt

\* Doubt never escapes: the invariant behind DoubtBlocksEntries.
LEMMA DoubtHolds == AuditSpec => [](AuditInv /\ DoubtInv)
<1>1. AuditInit => AuditInv /\ DoubtInv
  BY AuditStarts, DoubtStarts
<1>2. AuditInv /\ DoubtInv /\ [AuditNext]_auditVars => (AuditInv /\ DoubtInv)'
  <2> SUFFICES ASSUME AuditInv, DoubtInv, [AuditNext]_auditVars
               PROVE  AuditInv' /\ DoubtInv'
    OBVIOUS
  <2>1. AuditInv'
    BY AuditTypesKept
  <2> QED BY <2>1, DoubtKept
<1> QED BY <1>1, <1>2, PTL DEF AuditSpec

(* A trading engine has every order whose outcome it does not know on the  *)
(* list that blocks entries, also after restarts that found it in doubt.   *)
THEOREM DoubtBlocks == AuditSpec => []DoubtBlocksEntries
<1>1. ASSUME AuditInv, DoubtInv
      PROVE  DoubtBlocksEntries
  <2>1. ASSUME gated, NEW c \in Ids, orders[c].status = "UNKNOWN"
        PROVE  c \in unknown
    <3>1. ~audit.start /\ task.at \notin {"down", "replaying"}
      BY <1>1, <2>1 DEF DoubtInv, Phases
    <3>2. audit.at # "orders" /\ task.todo = {}
      <4>1. audit.at \in {"off", "fetch", "apply", "orders", "compare"}
        BY <1>1 DEF AuditInv, GuardTypes, AuditType
      <4> QED BY <1>1, <3>1, <4>1 DEF DoubtInv, Phases
    <3> QED BY <1>1, <2>1, <3>1, <3>2 DEF DoubtInv, Doubt
  <2> QED BY <2>1 DEF DoubtBlocksEntries
<1> QED BY <1>1, DoubtHolds, PTL
-----------------------------------------------------------------------------
(* An order is applied at most twice what the exchange executed of it.     *)

\* What a report at hand says was executed.
LEMMA HandIsTrue ==
    ASSUME TypeInv, TypeInv', ExchangeIsHeard, [Next]_vars,
           task.at \in {"applying", "settling"} => TrueReport(task.report),
           \A c \in Ids : xchg[c].cum <= xchg'[c].cum,
           task'.at \in {"applying", "settling"}
    PROVE  TrueReport(task.report)'
<1> DEFINE Goal == \E r \in Report : task'.report = r /\ TrueReport(r)
<1>0. SUFFICES Goal
  <2> SUFFICES ASSUME NEW r \in Report, task'.report = r, TrueReport(r)
               PROVE  r.cum <= xchg'[r.cid].cum
    BY DEF TrueReport
  <2>1. r.cum \in Nat /\ r.cid \in Ids
    BY DEF Report
  <2>2. xchg[r.cid].cum \in Nat /\ xchg'[r.cid].cum \in Nat
    BY <2>1 DEF TypeInv, TypeOK
  <2>3. r.cum <= xchg[r.cid].cum /\ xchg[r.cid].cum <= xchg'[r.cid].cum
    BY <2>1 DEF TrueReport
  <2> QED BY <2>1, <2>2, <2>3
<1>1. CASE UNCHANGED task
  BY <1>1 DEF TypeInv, TaskFits
<1>2. CASE task.at \in {"applying", "settling"} /\ task'.report = task.report
  BY <1>2 DEF TypeInv, TaskFits
<1>3. ASSUME NEW e \in events, Deliver(e)
      PROVE  Goal
  <2>1. task' \in {Idle, Working("settling", e, FALSE, {})}
    BY <1>3 DEF Deliver, RecordFill
  <2>2. task'.report = e
    BY <2>1, IdleForm DEF Working
  <2> QED BY <2>2 DEF ExchangeIsHeard, TypeInv, TypeOK
<1>4. ASSUME NEW e \in events, Respond(e)
      PROVE  Goal
  <2> DEFINE r == [e EXCEPT !.trade = 0]
  <2>1. e \in Report /\ TrueReport(e)
    BY DEF ExchangeIsHeard, TypeInv, TypeOK
  <2>2. r \in Report /\ TrueReport(r)
    BY <2>1 DEF Report, TrueReport
  <2>3. task' = Idle \/ task' = Working("applying", r, FALSE, {})
    BY <1>4 DEF Respond
  <2> HIDE DEF r
  <2>4. task'.report = r
    BY <2>3, IdleForm DEF Working
  <2> QED BY <2>2, <2>4
<1>5. ASSUME NEW c \in Ids, NEW todo, Found(c, todo)
      PROVE  Goal
  <2>1. Answer(c) \in Report /\ task'.report = Answer(c)
    BY <1>5, AnswerTypes DEF Found, TypeInv, Working
  <2>2. TrueReport(Answer(c))
    BY DEF Answer, TrueReport, TypeInv, TypeOK
  <2> QED BY <2>1, <2>2
<1>6. CASE Record
  <2>1. task' = Idle \/ \E s \in {"settling", "resaving"} :
                           task' = Working(s, task.report, task.resave, task.todo)
    BY <1>6 DEF Record, RecordFill
  <2> QED BY <1>2, <1>6, <2>1, IdleForm, WorkingForm DEF Record
<1>7. CASE Settle \/ PlacementFails \/ ResolveAbsent \/ ResolveUnresolved \/ Crash
  <2>1. task' \in {Idle, Down} \/ task' = Working("resaving", task.report, TRUE, task.todo)
    BY <1>7 DEF Settle, PlacementFails, ResolveAbsent, ResolveUnresolved, Crash
  <2> QED BY <2>1, IdleForm DEF Working
<1>8. CASE PlacementUnknown \/ \E c \in Ids : Submit(c)
  <2>1. \E c : \E s \in {"placing", "resolving"} : task' = Asking(s, c)
    BY <1>8 DEF PlacementUnknown, Submit
  <2> QED BY <2>1, AskingForm
<1>9. CASE Resave \/ ReplayDone \/ \E c \in Ids : AuditMissing(c)
  <2>1. \E t : task' = Auditing(t)
    BY <1>9 DEF Resave, ReplayDone, AuditMissing
  <2> QED BY <2>1, AuditingForm
<1>10. CASE Restart \/ Replay
  <2>1. \E i : task' = Replaying(i)
    BY <1>10 DEF Restart, Replay
  <2> QED BY <2>1, ReplayingForm
<1>11. CASE ResolveFound \/ \E c \in Ids : AuditFound(c)
  BY <1>5, <1>11 DEF ResolveFound, AuditFound, TypeInv, TaskFits, Report
<1>12. CASE Exchange \/ UNCHANGED vars
  BY <1>1, <1>12, ExchangeTypes DEF TypeInv, EngineStays, vars
<1> QED BY <1>3, <1>4, <1>6, <1>7, <1>8, <1>9, <1>10, <1>11, <1>12 DEF Next, Handler

\* What the exchange does next to the tape: a trade is appended, or nothing is.
LEMMA MarketMoves ==
    ASSUME AuditInv, AuditInv', ExchangeIsHeard, [AuditNext]_auditVars
    PROVE  /\ ExchangeIsHeard'
           /\ \A c \in Ids : xchg[c].cum <= xchg'[c].cum
           /\ \/ tape' = tape
              \/ audit' = audit /\ \E c \in Ids : \E q \in 1 .. Qty[c] : Trade(c, q)
<1> USE DEF AuditInv
<1>1. CASE Exchange
  <2>1. /\ ExchangeIsHeard' /\ \A c \in Ids : xchg[c].cum <= xchg'[c].cum
    BY <1>1, ExchangeGrows DEF TypeInv, ExchangeIsHeard
  <2>2. CASE Market
    BY <2>1, <2>2 DEF Market, Trade, guards
  <2>3. CASE ~Market
    BY <2>1, <2>3 DEF AuditNext, Engine, Serve, Revive, BeginStart, AuditOrders, ReadPosition, Finish, FetchTrades, ApplyTrade, TradesApplied, Compare, GatesPass, GatesRefuse, Die, Disengage, Forget, auditVars
  <2> QED BY <2>2, <2>3
<1>2. CASE ~Exchange
  <2>1. ~Market
    BY <1>2 DEF Market, Trade, Exchange
  <2>2. tape' = tape
    BY <2>1 DEF AuditNext, Engine, Serve, Revive, BeginStart, AuditOrders, ReadPosition, Finish, FetchTrades, ApplyTrade, TradesApplied, Compare, GatesPass, GatesRefuse, Die, Disengage, Forget, auditVars
  <2>3. UNCHANGED exchange
    <3>1. CASE [Next]_vars
      BY <1>2, <3>1, HandlersLeaveExchange DEF vars, Next
    <3>2. CASE AuditTouches
      BY <3>2 DEF AuditTouches, ApplyTrade, Compare, Finish, GatesRefuse
    <3> QED BY <3>1, <3>2, FillPathSteps
  <2>4. \A c \in Ids : xchg[c].cum \in Nat
    BY DEF TypeInv, TypeOK
  <2> QED BY <2>2, <2>3, <2>4 DEF ExchangeIsHeard, TrueReport, exchange
<1> QED BY <1>1, <1>2

\* The tape lists an order's trades as it was executed, one after the other.
TapeInOrder ==
    /\ \A j \in 1 .. Len(tape) :
          /\ 0 < tape[j].lots /\ tape[j].lots <= tape[j].trade
          /\ tape[j].trade <= xchg[tape[j].cid].cum
    /\ \A j, k \in 1 .. Len(tape) :
          j < k /\ tape[j].cid = tape[k].cid => tape[j].trade <= tape[k].trade - tape[k].lots

\* A trade is appended behind what was executed before.
LEMMA TapeStaysInOrder ==
    ASSUME AuditInv, AuditInv', TapeInOrder, ExchangeIsHeard, [AuditNext]_auditVars
    PROVE  TapeInOrder'
<1> USE DEF AuditInv
<1>1. \A c \in Ids : xchg[c].cum \in Nat /\ xchg'[c].cum \in Nat /\ xchg[c].cum <= xchg'[c].cum
  BY MarketMoves DEF TypeInv, TypeOK
<1>2. ASSUME NEW j \in 1 .. Len(tape)
      PROVE  /\ tape[j].cid \in Ids /\ tape[j].trade \in Nat /\ tape[j].lots \in Nat
             /\ tape[j].trade <= xchg'[tape[j].cid].cum
  <2>1. tape[j] \in TradeRecord
    BY DEF GuardTypes
  <2>2. tape[j].cid \in Ids /\ tape[j].trade \in Nat /\ tape[j].lots \in Nat
    BY <2>1 DEF TradeRecord
  <2>3. tape[j].trade <= xchg[tape[j].cid].cum
    BY DEF TapeInOrder
  <2> QED BY <1>1, <2>2, <2>3
<1>3. CASE tape' = tape
  BY <1>2, <1>3 DEF TapeInOrder
<1>4. ASSUME NEW c \in Ids, NEW q \in 1 .. Qty[c], Trade(c, q)
      PROVE  TapeInOrder'
  <2> DEFINE t == [cid |-> c, trade |-> xchg[c].cum + q, lots |-> q]
  <2>1. q \in Nat /\ q > 0 /\ xchg[c].cum \in Nat
    BY <1>1, QtyAssumption
  <2>2. tape' = Append(tape, t) /\ xchg'[c].cum = xchg[c].cum + q
    BY <1>4, <2>1 DEF Trade, ExchangeTrade, Push, TypeInv, TypeOK
  <2>3. t.cid = c /\ t.lots = q /\ t.trade = xchg[c].cum + q
    OBVIOUS
  <2> HIDE DEF t
  <2>4. tape \in Seq(TradeRecord)
    BY DEF GuardTypes
  <2>5. Len(tape') = Len(tape) + 1 /\ Len(tape) \in Nat /\ tape'[Len(tape) + 1] = t
        /\ \A j \in 1 .. Len(tape) : tape'[j] = tape[j]
    BY <2>2, <2>4
  <2>6. ASSUME NEW j \in 1 .. Len(tape'), j # Len(tape) + 1
        PROVE  j \in 1 .. Len(tape) /\ tape'[j] = tape[j]
    BY <2>5, <2>6
  <2>7. ASSUME NEW j \in 1 .. Len(tape')
        PROVE  /\ 0 < tape'[j].lots /\ tape'[j].lots <= tape'[j].trade
               /\ tape'[j].trade <= xchg'[tape'[j].cid].cum
    <3>1. CASE j = Len(tape) + 1
      BY <2>1, <2>2, <2>3, <2>5, <3>1
    <3>2. CASE j # Len(tape) + 1
      BY <1>2, <2>6, <3>2 DEF TapeInOrder
    <3> QED BY <3>1, <3>2
  <2>8. ASSUME NEW j \in 1 .. Len(tape'), NEW k \in 1 .. Len(tape'), j < k,
               tape'[j].cid = tape'[k].cid
        PROVE  tape'[j].trade <= tape'[k].trade - tape'[k].lots
    <3>1. j \in 1 .. Len(tape) /\ tape'[j] = tape[j]
      BY <2>5, <2>8
    <3>2. CASE k = Len(tape) + 1
      <4>1. tape[j].cid = c /\ tape'[k] = t
        BY <2>3, <2>5, <2>8, <3>1, <3>2
      <4>2. tape[j].trade <= xchg[c].cum /\ tape[j].trade \in Nat
        BY <1>2, <3>1, <4>1 DEF TapeInOrder
      <4>3. tape'[k].trade - tape'[k].lots = xchg[c].cum
        BY <2>1, <2>3, <4>1
      <4> QED BY <3>1, <4>2, <4>3
    <3>3. CASE k # Len(tape) + 1
      BY <2>6, <2>8, <3>1, <3>3 DEF TapeInOrder
    <3> QED BY <3>2, <3>3
  <2> QED BY <2>7, <2>8 DEF TapeInOrder
<1> QED BY <1>3, <1>4, MarketMoves

\* The audit works on trades of the tape only.
LeftIsOnTape ==
    \A k \in 1 .. Len(audit.left) : \E j \in 1 .. Len(tape) : audit.left[k] = tape[j]

LEMMA LeftStaysOnTape ==
    ASSUME AuditInv, AuditInv', LeftIsOnTape, ExchangeIsHeard, [AuditNext]_auditVars
    PROVE  LeftIsOnTape'
<1> USE DEF AuditInv
<1>1. tape \in Seq(TradeRecord) /\ audit \in AuditType /\ audit.left \in Seq(TradeRecord)
  BY DEF GuardTypes, AuditType
<1>2. ASSUME NEW j \in 1 .. Len(tape)
      PROVE  j \in 1 .. Len(tape') /\ tape'[j] = tape[j]
  <2>1. ASSUME NEW c \in Ids, NEW q \in 1 .. Qty[c], Trade(c, q)
        PROVE  j \in 1 .. Len(tape') /\ tape'[j] = tape[j]
    BY <1>1, <2>1 DEF Trade
  <2> QED BY <2>1, MarketMoves
<1>3. CASE audit'.left = audit.left
  BY <1>2, <1>3 DEF LeftIsOnTape
<1>4. CASE audit'.left = <<>>
  <2>1. Len(audit'.left) = 0
    BY <1>4
  <2> QED BY <2>1 DEF LeftIsOnTape
<1>5. Off.left = <<>> /\ Starting.left = <<>> /\ Applied.left = <<>>
      /\ Read.left = audit.left /\ [audit EXCEPT !.missing = TRUE].left = audit.left
      /\ \A left : /\ [audit EXCEPT !.left = left].left = left
                   /\ [audit EXCEPT !.at = "apply", !.left = left].left = left
  <2>1. Off.left = <<>>
    BY DEF Off
  <2>2. Starting.left = <<>>
    BY DEF Starting, Off
  <2>3. Read.left = audit.left
    BY <1>1 DEF Read, AuditType
  <2>4. Applied.left = <<>>
    BY <1>1 DEF Applied, AuditType
  <2>5. [audit EXCEPT !.missing = TRUE].left = audit.left
    BY <1>1 DEF AuditType
  <2>6. ASSUME NEW left
        PROVE  /\ [audit EXCEPT !.left = left].left = left
               /\ [audit EXCEPT !.at = "apply", !.left = left].left = left
    BY <1>1 DEF AuditType
  <2> QED BY <2>1, <2>2, <2>3, <2>4, <2>5, <2>6
<1>6. CASE FetchTrades
  <2> DEFINE m == IF audit.whole THEN 1 ELSE before + 1
  <2>1. m \in Nat \ {0} /\ tape' = tape
    BY <1>6 DEF GuardTypes, FetchTrades
  <2>2. \/ audit' = [audit EXCEPT !.at = "apply", !.left = SubSeq(tape, m, Len(tape))]
        \/ audit' = Applied
    BY <1>6 DEF FetchTrades
  <2> HIDE DEF m
  <2>3. audit'.left = SubSeq(tape, m, Len(tape)) \/ audit'.left = <<>>
    BY <1>5, <2>2
  <2>4. \A i \in 1 .. Len(SubSeq(tape, m, Len(tape))) :
           \E j \in 1 .. Len(tape) : SubSeq(tape, m, Len(tape))[i] = tape[j]
    BY <1>1, <2>1, PartsTypes
  <2> QED BY <1>4, <2>1, <2>3, <2>4 DEF LeftIsOnTape
<1>7. CASE ApplyTrade
  <2>1. audit.left # <<>> /\ audit' = [audit EXCEPT !.left = Tail(audit.left)]
    BY <1>7 DEF ApplyTrade
  <2>2. audit'.left = Tail(audit.left)
    BY <1>5, <2>1
  <2>3. ASSUME NEW k \in 1 .. Len(audit'.left)
        PROVE  k + 1 \in 1 .. Len(audit.left) /\ audit'.left[k] = audit.left[k + 1]
    BY <1>1, <2>1, <2>2
  <2> QED BY <1>2, <2>3 DEF LeftIsOnTape
<1>8. CASE ~FetchTrades /\ ~ApplyTrade
  <2>1. audit' \in {audit, Off, Starting, Applied, Read, [audit EXCEPT !.missing = TRUE]}
    BY <1>8 DEF AuditNext, Engine, Market, Trade, Serve, Revive, BeginStart, AuditOrders,
                ReadPosition, Finish, TradesApplied, Compare, GatesPass, GatesRefuse, Die,
                Disengage, Forget, guards, auditVars
  <2> QED BY <1>3, <1>4, <1>5, <2>1
<1> QED BY <1>6, <1>7, <1>8

\* What the trade history and the fill path hear of the exchange is true.
TapeInv ==
    /\ ExchangeIsHeard
    /\ task.at \in {"applying", "settling"} => TrueReport(task.report)
    /\ TapeInOrder
    /\ LeftIsOnTape

LEMMA TapeKept ==
    ASSUME AuditInv, AuditInv', TapeInv, [AuditNext]_auditVars
    PROVE  TapeInv'
<1> USE DEF AuditInv, TapeInv
<1>1. /\ ExchangeIsHeard' /\ TapeInOrder' /\ LeftIsOnTape'
      /\ \A c \in Ids : xchg[c].cum <= xchg'[c].cum
  BY MarketMoves, TapeStaysInOrder, LeftStaysOnTape
<1>2. ASSUME task'.at \in {"applying", "settling"}
      PROVE  TrueReport(task.report)'
  <2>1. CASE [Next]_vars
    BY <1>1, <1>2, <2>1, HandIsTrue
  <2>2. CASE ApplyTrade \/ Compare
    <3>1. UNCHANGED <<exchange, task>>
      BY <2>2 DEF ApplyTrade, Compare, Finish
    <3> QED BY <1>2, <3>1 DEF TrueReport, exchange
  <2>3. CASE GatesRefuse
    BY <1>2, <2>3, IdleForm DEF GatesRefuse
  <2> QED BY <2>1, <2>2, <2>3, FillPathSteps DEF AuditTouches
<1> QED BY <1>1, <1>2

\* A trade of order c stands in the ledger.
Listed(c, trade) == \E i \in 1 .. Len(fills) : fills[i].cid = c /\ fills[i].trade = trade

\* The executed lots of order c whose trade stands in the ledger.
ListedLots(c) ==
    {n \in 1 .. xchg[c].cum :
        \E j \in 1 .. Len(tape) :
            /\ tape[j].cid = c
            /\ tape[j].trade - tape[j].lots < n /\ n <= tape[j].trade
            /\ Listed(c, tape[j].trade)}

(* A lot counts once as executed and, when its trade was recovered into    *)
(* the ledger, once more: recovery adds to what was applied already.       *)
Room(c) == xchg[c].cum + Cardinality(ListedLots(c))

\* A set of numbers up to m is finite and no larger than m.
LEMMA LotsAreFinite ==
    ASSUME NEW m \in Nat, NEW S \in SUBSET (1 .. m)
    PROVE  IsFiniteSet(S) /\ Cardinality(S) \in Nat /\ Cardinality(S) <= m
<1>1. IsFiniteSet(1 .. m) /\ Cardinality(1 .. m) = m
  BY FS_Interval
<1>2. IsFiniteSet(S) /\ Cardinality(S) <= m
  BY <1>1, FS_Subset
<1> QED BY <1>2, FS_CardinalityType

\* What stands in the ledger keeps standing there.
LedgerGrows ==
    \/ fills' = fills
    \/ \E r \in Report : fills' = Append(fills, r)

\* The room never shrinks.
LEMMA RoomGrows ==
    ASSUME AuditInv, AuditInv', ExchangeIsHeard, LedgerGrows, [AuditNext]_auditVars,
           NEW c \in Ids
    PROVE  ListedLots(c) \subseteq ListedLots(c)' /\ Room(c) <= Room(c)'
<1> USE DEF AuditInv
<1>1. xchg[c].cum \in Nat /\ xchg'[c].cum \in Nat /\ xchg[c].cum <= xchg'[c].cum
  BY MarketMoves DEF TypeInv, TypeOK
<1>2. ASSUME NEW j \in 1 .. Len(tape)
      PROVE  j \in 1 .. Len(tape') /\ tape'[j] = tape[j]
  <2>1. tape \in Seq(TradeRecord)
    BY DEF GuardTypes
  <2>2. ASSUME NEW d \in Ids, NEW q \in 1 .. Qty[d], Trade(d, q)
        PROVE  j \in 1 .. Len(tape') /\ tape'[j] = tape[j]
    BY <2>1, <2>2 DEF Trade
  <2> QED BY <2>2, MarketMoves
<1>3. ASSUME NEW trade, Listed(c, trade)
      PROVE  Listed(c, trade)'
  <2>1. fills \in Seq(Report)
    BY DEF TypeInv, TypeOK
  <2>2. PICK i \in 1 .. Len(fills) : fills[i].cid = c /\ fills[i].trade = trade
    BY <1>3 DEF Listed
  <2>3. i \in 1 .. Len(fills') /\ fills'[i] = fills[i]
    BY <2>1 DEF LedgerGrows
  <2> QED BY <2>2, <2>3 DEF Listed
<1>4. ASSUME NEW n \in ListedLots(c)
      PROVE  n \in ListedLots(c)'
  <2>1. PICK j \in 1 .. Len(tape) :
            /\ tape[j].cid = c
            /\ tape[j].trade - tape[j].lots < n /\ n <= tape[j].trade
            /\ Listed(c, tape[j].trade)
    BY DEF ListedLots
  <2>2. n \in 1 .. xchg'[c].cum
    BY <1>1 DEF ListedLots
  <2>3. /\ j \in 1 .. Len(tape') /\ tape'[j] = tape[j]
        /\ Listed(c, tape[j].trade)'
    BY <1>2, <1>3, <2>1
  <2> QED BY <2>1, <2>2, <2>3 DEF ListedLots, Listed
<1>5. ListedLots(c) \in SUBSET ListedLots(c)'
  BY <1>4
<1>6. /\ IsFiniteSet(ListedLots(c)') /\ Cardinality(ListedLots(c)) \in Nat
      /\ Cardinality(ListedLots(c)') \in Nat
  <2>1. /\ ListedLots(c) \in SUBSET (1 .. xchg[c].cum)
        /\ ListedLots(c)' \in SUBSET (1 .. xchg'[c].cum)
    BY DEF ListedLots
  <2> QED BY <1>1, <2>1, LotsAreFinite
<1>7. Cardinality(ListedLots(c)) <= Cardinality(ListedLots(c)')
  BY <1>5, <1>6, FS_Subset
<1> QED BY <1>1, <1>5, <1>6, <1>7 DEF Room

\* A trade is recovered once, and its lots make room for it.
LEMMA RecoveryMakesRoom ==
    ASSUME AuditInv, AuditInv', TapeInv, [AuditNext]_auditVars,
           NEW t \in TradeRecord, t = audit.left[1], Len(audit.left) >= 1,
           Recovered(t) \in Report, ~Recorded(Recovered(t)),
           fills' = Append(fills, Recovered(t)), UNCHANGED <<exchange, tape>>
    PROVE  Room(t.cid) + t.lots <= Room(t.cid)'
<1> USE DEF AuditInv, TapeInv
<1> DEFINE c == t.cid
           New == t.trade - t.lots + 1 .. t.trade
           Old == ListedLots(c)
           Later == ListedLots(c)'
<1>1. PICK j \in 1 .. Len(tape) : tape[j] = t
  <2>1. 1 \in 1 .. Len(audit.left)
    BY DEF GuardTypes, AuditType
  <2> QED BY <2>1 DEF LeftIsOnTape
<1>2. c \in Ids /\ t.trade \in Nat /\ t.lots \in Nat
  BY DEF TradeRecord
<1>3. /\ 0 < t.lots /\ t.lots <= t.trade /\ t.trade <= xchg[c].cum
  BY <1>1 DEF TapeInOrder
<1>4. xchg[c].cum \in Nat /\ xchg' = xchg /\ tape' = tape
  BY <1>2 DEF TypeInv, TypeOK, exchange
<1>5. ~Listed(c, t.trade)
  <2>1. Recovered(t).cid = c /\ Recovered(t).trade = t.trade
    BY DEF Recovered
  <2> QED BY <1>2, <1>3, <2>1 DEF Listed, Recorded, SameKey
<1>6. New \cap Old = {}
  <2>1. ASSUME NEW n \in New, n \in Old
        PROVE  FALSE
    <3>1. PICK k \in 1 .. Len(tape) :
              /\ tape[k].cid = c
              /\ tape[k].trade - tape[k].lots < n /\ n <= tape[k].trade
              /\ Listed(c, tape[k].trade)
      BY <2>1 DEF ListedLots
    <3>2. tape[k].trade \in Nat /\ tape[k].lots \in Nat
      <4>1. tape[k] \in TradeRecord
        BY DEF GuardTypes
      <4> QED BY <4>1 DEF TradeRecord
    <3>3. n \in Int /\ t.trade - t.lots < n /\ n <= t.trade
      BY <1>2
    <3>4. k # j
      BY <1>1, <1>5, <3>1
    <3>5. k < j => tape[k].trade <= t.trade - t.lots
      BY <1>1, <3>1 DEF TapeInOrder
    <3>6. j < k => t.trade <= tape[k].trade - tape[k].lots
      BY <1>1, <3>1 DEF TapeInOrder
    <3> HIDE DEF AuditInv, TapeInv, c, New, Old, Later
    <3>7. k \in Int /\ j \in Int
      OBVIOUS
    <3> QED BY <1>2, <3>1, <3>2, <3>3, <3>4, <3>5, <3>6, <3>7, SMTT(30)
  <2> QED BY <2>1
<1>7. New \subseteq Later
  <2>1. Listed(c, t.trade)'
    <3>1. fills \in Seq(Report)
      BY DEF TypeInv, TypeOK
    <3>2. /\ Len(fills) + 1 \in 1 .. Len(fills')
          /\ fills'[Len(fills) + 1] = Recovered(t)
      BY <3>1
    <3>3. Recovered(t).cid = c /\ Recovered(t).trade = t.trade
      BY DEF Recovered
    <3> QED BY <3>2, <3>3 DEF Listed
  <2>2. ASSUME NEW n \in New
        PROVE  n \in Later
    <3>1. n \in Int /\ t.trade - t.lots + 1 <= n /\ n <= t.trade
      BY <1>2
    <3>2. n \in 1 .. xchg[c].cum /\ t.trade - t.lots < n
      BY <1>2, <1>3, <1>4, <3>1, SMTT(30)
    <3> QED BY <1>1, <1>4, <2>1, <3>1, <3>2 DEF ListedLots, Listed
  <2> QED BY <2>2
<1>8. Old \subseteq Later
  <2>1. LedgerGrows
    BY DEF LedgerGrows
  <2> QED BY <1>2, <2>1, RoomGrows
<1>9. /\ Old \in SUBSET (1 .. xchg[c].cum) /\ Later \in SUBSET (1 .. xchg[c].cum)
  BY <1>4 DEF ListedLots
<1>10. /\ IsFiniteSet(Old) /\ IsFiniteSet(Later)
       /\ Cardinality(Old) \in Nat /\ Cardinality(Later) \in Nat
  BY <1>4, <1>9, LotsAreFinite
<1>11. IsFiniteSet(New) /\ Cardinality(New) = t.lots
  <2>1. t.trade - t.lots + 1 \in Int /\ t.trade \in Int /\ ~(t.trade - t.lots + 1 > t.trade)
    BY <1>2, <1>3
  <2>2. IsFiniteSet(New) /\ Cardinality(New) = t.trade - (t.trade - t.lots + 1) + 1
    BY <2>1, FS_Interval
  <2> QED BY <1>2, <2>2
<1>14. /\ Room(t.cid) = xchg[c].cum + Cardinality(Old)
       /\ Room(t.cid)' = xchg[c].cum + Cardinality(Later)
  BY <1>4 DEF Room
<1> HIDE DEF Old, Later, New
<1>12. Cardinality(New \cup Old) = t.lots + Cardinality(Old)
  <2>1. Cardinality(New \cup Old)
          = Cardinality(New) + Cardinality(Old) - Cardinality(New \cap Old)
    BY <1>10, <1>11, FS_Union
  <2>2. Cardinality(New \cap Old) = 0
    BY <1>6, FS_EmptySet
  <2> QED BY <1>2, <1>10, <1>11, <2>1, <2>2
<1>13. Cardinality(New \cup Old) <= Cardinality(Later)
  <2>1. New \cup Old \in SUBSET Later
    BY <1>7, <1>8
  <2> QED BY <1>10, <2>1, FS_Subset
<1>15. t.lots + Cardinality(Old) <= Cardinality(Later)
  BY <1>12, <1>13
<1>16. xchg[c].cum + Cardinality(Old) + t.lots <= xchg[c].cum + Cardinality(Later)
  <2>1. \A e, o, l, q \in Nat : q + o <= l => e + o + q <= e + l
    OBVIOUS
  <2>2. /\ xchg[c].cum \in Nat /\ Cardinality(Old) \in Nat /\ Cardinality(Later) \in Nat
        /\ t.lots \in Nat
    BY <1>2, <1>4, <1>10
  <2> HIDE DEF c
  <2> QED BY <1>15, <2>1, <2>2
<1> QED BY <1>14, <1>16

(* The inductive invariant: no order, stored or tracked, and no row of the *)
(* ledger says more than there is room for.                                *)
TwiceInv ==
    \A c \in Ids :
        /\ orders[c].applied <= Room(c) /\ dbOrders[c].applied <= Room(c)
        /\ \A i \in 1 .. Len(fills) : fills[i].cid = c => fills[i].cum <= Room(c)

\* What there is room for: the executed lots, and at most twice as many.
LEMMA RoomForExecuted ==
    ASSUME TypeInv, NEW c \in Ids
    PROVE  /\ xchg[c].cum \in Nat /\ Room(c) \in Nat
           /\ xchg[c].cum <= Room(c) /\ Room(c) <= 2 * xchg[c].cum
<1>1. xchg[c].cum \in Nat
  BY DEF TypeInv, TypeOK
<1>2. ListedLots(c) \in SUBSET (1 .. xchg[c].cum)
  BY DEF ListedLots
<1>3. Cardinality(ListedLots(c)) \in Nat /\ Cardinality(ListedLots(c)) <= xchg[c].cum
  BY <1>1, <1>2, LotsAreFinite
<1> QED BY <1>1, <1>3 DEF Room

\* A step of the fill path applies and records what was heard, or applied before.
LEMMA FillPathHasRoom ==
    ASSUME AuditInv, AuditInv', TapeInv, TapeInv', TwiceInv, [AuditNext]_auditVars, [Next]_vars
    PROVE  TwiceInv'
<1> USE DEF AuditInv, TapeInv
<1>1. RowsMove /\ LedgerGrows
  <2>1. RowsMove
    BY NextMovesRows
  <2> QED BY <2>1 DEF RowsMove, LedgerGrows, Settle, Replay, Restart, Crash
<1>2. ASSUME NEW c \in Ids
      PROVE  /\ Room(c) \in Nat /\ Room(c)' \in Nat /\ Room(c) <= Room(c)'
             /\ xchg[c].cum \in Nat /\ xchg[c].cum <= Room(c)
             /\ xchg'[c].cum \in Nat /\ xchg'[c].cum <= Room(c)'
  <2>1. /\ Room(c) \in Nat /\ xchg[c].cum \in Nat /\ xchg[c].cum <= Room(c)
        /\ Room(c) <= Room(c)'
    BY <1>1, RoomForExecuted, RoomGrows
  <2>2. /\ xchg'[c].cum \in Nat /\ ListedLots(c)' \in SUBSET (1 .. xchg'[c].cum)
    BY DEF TypeInv, TypeOK, ListedLots
  <2>3. Cardinality(ListedLots(c)') \in Nat
    BY <2>2, LotsAreFinite
  <2> QED BY <2>1, <2>2, <2>3 DEF Room
<1>3. ASSUME NEW r \in Report, AtHand(r)
      PROVE  r.cum <= Room(r.cid)
  <2>1. r.cid \in Ids /\ r.cum \in Nat
    BY DEF Report
  <2>2. CASE TrueReport(r)
    BY <1>2, <2>1, <2>2 DEF TrueReport
  <2>3. CASE \E i \in 1 .. Len(fills) : r = fills[i]
    BY <2>1, <2>3 DEF TwiceInv
  <2> QED BY <1>3, <2>2, <2>3 DEF AtHand
<1>4. ASSUME NEW n \in Nat, NEW c \in Ids, AppliedFrom(n, c)
      PROVE  n <= Room(c)'
  <2>1. n <= Room(c)
    <3>1. CASE n \in {orders[c].applied, dbOrders[c].applied, 0}
      BY <1>2, <3>1 DEF TwiceInv
    <3>2. CASE \E r \in Report : r.cid = c /\ r.cum = n /\ AtHand(r)
      BY <1>3, <3>2
    <3> QED BY <1>4, <3>1, <3>2 DEF AppliedFrom
  <2> QED BY <1>2, <2>1
<1>5. ASSUME NEW c \in Ids
      PROVE  orders'[c].applied <= Room(c)' /\ dbOrders'[c].applied <= Room(c)'
  <2>1. orders'[c].applied \in Nat /\ dbOrders'[c].applied \in Nat
    BY DEF TypeInv, TypeOK, Order, NoOrder
  <2> QED BY <1>4, <2>1, AppliedMoves
<1>6. fills \in Seq(Report)
  BY DEF TypeInv, TypeOK
<1>7. ASSUME NEW c \in Ids, NEW j \in 1 .. Len(fills), fills[j].cid = c
      PROVE  fills[j].cum <= Room(c)'
  <2>1. fills[j] \in Report
    BY <1>6
  <2>2. fills[j].cum \in Nat /\ fills[j].cum <= Room(c)
    BY <1>7, <2>1 DEF Report, TwiceInv
  <2> QED BY <1>2, <2>2
<1>8. ASSUME NEW c \in Ids, NEW i \in 1 .. Len(fills'), fills'[i].cid = c
      PROVE  fills'[i].cum <= Room(c)'
  <2>1. CASE fills' = fills
    BY <1>7, <1>8, <2>1
  <2>2. ASSUME NEW r \in Report, fills' = Append(fills, r), task'.at = "settling",
               task'.report = r
        PROVE  fills'[i].cum <= Room(c)'
    <3>1. r.cid \in Ids /\ r.cum \in Nat /\ r.cum <= xchg'[r.cid].cum
      BY <2>2 DEF Report, TrueReport
    <3>2. r.cum <= Room(r.cid)'
      BY <1>2, <3>1
    <3>3. fills'[i] = r \/ (i \in 1 .. Len(fills) /\ fills'[i] = fills[i])
      BY <1>6, <2>2
    <3> QED BY <1>7, <1>8, <3>2, <3>3
  <2> QED BY <1>1, <2>1, <2>2 DEF RowsMove
<1> QED BY <1>5, <1>8 DEF TwiceInv

\* What stays when the room only grows and no order or row moves.
LEMMA RoomKept ==
    ASSUME AuditInv, AuditInv', TapeInv, TwiceInv, [AuditNext]_auditVars, LedgerGrows,
           NEW n \in Nat, NEW c \in Ids, n <= Room(c)
    PROVE  n <= Room(c)'
<1>1. Room(c) \in Nat /\ Room(c) <= Room(c)'
  BY RoomForExecuted, RoomGrows DEF AuditInv, TapeInv
<1>2. Room(c)' \in Nat
  <2>1. xchg'[c].cum \in Nat /\ ListedLots(c)' \in SUBSET (1 .. xchg'[c].cum)
    BY DEF AuditInv, TypeInv, TypeOK, ListedLots
  <2>2. Cardinality(ListedLots(c)') \in Nat
    BY <2>1, LotsAreFinite
  <2> QED BY <2>1, <2>2 DEF Room
<1> QED BY <1>1, <1>2

\* A recovered trade adds its lots to what was applied, and as much room.
LEMMA RecoveryHasRoom ==
    ASSUME AuditInv, AuditInv', TapeInv, TwiceInv, [AuditNext]_auditVars,
           NEW t \in TradeRecord, t = audit.left[1], Len(audit.left) >= 1,
           Recovered(t) \in Report, ~Recorded(Recovered(t)),
           fills' = Append(fills, Recovered(t)), ApplyReport(Recovered(t)),
           UNCHANGED <<exchange, tape>>
    PROVE  TwiceInv'
<1> USE DEF AuditInv
<1> DEFINE r == Recovered(t)
<1>1. r \in Report /\ r.cid = t.cid /\ r.cum = orders[t.cid].applied + t.lots /\ r.cum \in Nat
  BY DEF Recovered, Report
<1>2. t.cid \in Ids /\ t.lots \in Nat
  BY DEF TradeRecord
<1>3. LedgerGrows /\ fills' = Append(fills, r) /\ ApplyReport(r)
  BY DEF LedgerGrows
<1>4. Room(t.cid) + t.lots <= Room(t.cid)'
  BY RecoveryMakesRoom
<1> HIDE DEF r
<1>5. \A c \in Ids : /\ orders[c].applied \in Nat /\ dbOrders[c].applied \in Nat
                     /\ Room(c) \in Nat
  BY RoomForExecuted DEF TypeInv, TypeOK, Order, NoOrder
<1>6. Room(t.cid)' \in Nat
  <2>1. /\ xchg'[t.cid].cum \in Nat
        /\ ListedLots(t.cid)' \in SUBSET (1 .. xchg'[t.cid].cum)
    BY <1>2 DEF TypeInv, TypeOK, ListedLots
  <2>2. Cardinality(ListedLots(t.cid)') \in Nat
    BY <2>1, LotsAreFinite
  <2> QED BY <2>1, <2>2 DEF Room
<1>7. r.cum <= Room(t.cid)'
  <2>1. orders[t.cid].applied <= Room(t.cid) /\ orders[t.cid].applied \in Nat
        /\ Room(t.cid) \in Nat
    BY <1>2, <1>5 DEF TwiceInv
  <2> QED BY <1>1, <1>2, <1>4, <1>6, <2>1
<1>8. ASSUME NEW c \in Ids
      PROVE  orders[c].applied <= Room(c)' /\ dbOrders[c].applied <= Room(c)'
  BY <1>3, <1>5, RoomKept DEF TwiceInv
<1>9. OrderAfter(r).applied <= Room(t.cid)'
  <2>1. Held(t.cid).applied <= Room(t.cid)'
    BY <1>2, <1>6, <1>8 DEF Held
  <2> QED BY <1>1, <1>7, <2>1, ReportMovesForward DEF TypeInv, Larger
<1>10. ASSUME NEW c \in Ids
       PROVE  orders'[c].applied <= Room(c)' /\ dbOrders'[c].applied <= Room(c)'
  <2>1. /\ orders \in [Ids -> Order \cup {NoOrder}] /\ dbOrders \in [Ids -> Order \cup {NoOrder}]
        /\ orders' = [orders EXCEPT ![t.cid] = OrderAfter(r)]
        /\ dbOrders' = [dbOrders EXCEPT ![t.cid] = OrderAfter(r)]
    BY <1>1, <1>3 DEF TypeInv, TypeOK, ApplyReport
  <2>2. CASE c = t.cid
    BY <1>9, <2>1, <2>2
  <2>3. CASE c # t.cid
    BY <1>8, <2>1, <2>3
  <2> QED BY <2>2, <2>3
<1>11. fills \in Seq(Report)
  BY DEF TypeInv, TypeOK
<1>12. ASSUME NEW c \in Ids, NEW i \in 1 .. Len(fills'), fills'[i].cid = c
       PROVE  fills'[i].cum <= Room(c)'
  <2>1. CASE fills'[i] = r
    BY <1>1, <1>7, <1>12, <2>1
  <2>2. CASE i \in 1 .. Len(fills) /\ fills'[i] = fills[i]
    <3>1. fills[i] \in Report
      BY <1>11, <2>2
    <3>2. fills[i].cum \in Nat /\ fills[i].cum <= Room(c)
      BY <1>12, <2>2, <3>1 DEF Report, TwiceInv
    <3> QED BY <1>3, <2>2, <3>2, RoomKept
  <2> QED BY <1>1, <1>3, <1>11, <2>1, <2>2
<1> QED BY <1>10, <1>12 DEF TwiceInv

\* Every step of the audited engine stays within the room.
LEMMA TwiceKept ==
    ASSUME AuditInv, AuditInv', TapeInv, TapeInv', TwiceInv, [AuditNext]_auditVars
    PROVE  TwiceInv'
<1> USE DEF AuditInv
<1>1. ASSUME UNCHANGED <<xchg, tape, fills>>,
             \A c \in Ids : /\ orders'[c].applied \in {orders[c].applied, 0}
                            /\ dbOrders'[c].applied = dbOrders[c].applied
      PROVE  TwiceInv'
  <2>1. \A c \in Ids : Room(c) \in Nat
    BY RoomForExecuted
  <2>2. \A c \in Ids : Room(c)' = Room(c)
    BY <1>1 DEF Room, ListedLots, Listed
  <2> QED BY <1>1, <2>1, <2>2 DEF TwiceInv
<1>2. CASE [Next]_vars
  BY <1>2, FillPathHasRoom
<1>3. CASE ApplyTrade
  <2>1. tape' = tape
    BY <1>3 DEF ApplyTrade
  <2>2. CASE UNCHANGED vars
    BY <1>1, <2>1, <2>2 DEF vars, exchange, engine
  <2>3. CASE ~UNCHANGED vars
    BY <1>3, <2>1, <2>3, TradeApplies, RecoveryHasRoom
  <2> QED BY <2>2, <2>3
<1>4. CASE Compare
  BY <1>1, <1>4 DEF Compare, Finish, exchange
<1>5. CASE GatesRefuse
  <2>1. /\ orders' = [c \in Ids |-> NoOrder] /\ UNCHANGED <<exchange, fills, dbOrders, tape>>
    BY <1>5 DEF GatesRefuse, Forget
  <2> QED BY <1>1, <2>1 DEF exchange, NoOrder
<1> QED BY <1>2, <1>3, <1>4, <1>5, FillPathSteps DEF AuditTouches

\* A new account has executed, applied and recorded nothing.
LEMMA TwiceStarts == AuditInit => TapeInv /\ TwiceInv
<1> SUFFICES ASSUME AuditInit PROVE TapeInv /\ TwiceInv
  OBVIOUS
<1>1. /\ task = Idle /\ audit = Off /\ tape = <<>> /\ fills = <<>> /\ events = {}
      /\ \A c \in Ids : orders[c] = NoOrder /\ dbOrders[c] = NoOrder /\ xchg[c].cum = 0
  BY DEF AuditInit, Init
<1>2. TapeInv
  BY <1>1, IdleForm DEF TapeInv, ExchangeIsHeard, TapeInOrder, LeftIsOnTape, Off
<1>3. TypeInv
  BY AuditStarts DEF AuditInv
<1>4. \A c \in Ids : Room(c) \in Nat
  BY <1>3, RoomForExecuted
<1>5. TwiceInv
  BY <1>1, <1>4 DEF TwiceInv, NoOrder
<1> QED BY <1>2, <1>5

(* Whatever an order and its ledger rows say of it, there was room for:    *)
(* the executed lots and once more those whose trade was recovered.        *)
THEOREM RoomHolds == AuditSpec => [](AuditInv /\ TapeInv /\ TwiceInv)
<1>1. AuditInit => AuditInv /\ TapeInv /\ TwiceInv
  BY AuditStarts, TwiceStarts
<1>2. AuditInv /\ TapeInv /\ TwiceInv /\ [AuditNext]_auditVars
        => (AuditInv /\ TapeInv /\ TwiceInv)'
  <2> SUFFICES ASSUME AuditInv, TapeInv, TwiceInv, [AuditNext]_auditVars
               PROVE  AuditInv' /\ TapeInv' /\ TwiceInv'
    OBVIOUS
  <2>1. AuditInv'
    BY AuditTypesKept
  <2>2. TapeInv'
    BY <2>1, TapeKept
  <2> QED BY <2>1, <2>2, TwiceKept
<1> QED BY <1>1, <1>2, PTL DEF AuditSpec

(* However often trades are recovered next to answers, events and replays, *)
(* an order is applied at most twice what the exchange executed of it.     *)
THEOREM RecoveredOnce == AuditSpec => []AppliedAtMostTwice
<1>1. ASSUME AuditInv, TwiceInv
      PROVE  AppliedAtMostTwice
  <2>1. ASSUME NEW c \in Ids
        PROVE  orders[c].applied <= 2 * xchg[c].cum
    <3>1. /\ orders[c].applied \in Nat /\ xchg[c].cum \in Nat /\ Room(c) \in Nat
          /\ Room(c) <= 2 * xchg[c].cum /\ orders[c].applied <= Room(c)
      BY <1>1, RoomForExecuted DEF AuditInv, TwiceInv, TypeInv, TypeOK, Order, NoOrder
    <3> QED BY <3>1
  <2> QED BY <2>1 DEF AppliedAtMostTwice
<1> QED BY <1>1, RoomHolds, PTL
=============================================================================
