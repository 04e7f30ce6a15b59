----------------------------- MODULE EngineLoop -----------------------------
(***************************************************************************)
(* One run of the engine's event loop: the socket of public trades and its *)
(* reconnection, the trades held back until the gates have passed, their   *)
(* release, the processing of a trade step by step, and the stop.          *)
(*                                                                         *)
(* Trades are numbered as the exchange numbers them.  The loop is one      *)
(* thread: an action runs from one await to the next.                      *)
(***************************************************************************)
EXTENDS Naturals, Sequences, SequencesExt

CONSTANTS
    MaxTrade,       \* trades the exchange makes
    MaxBreaksOff,   \* bound on failed connections and broken sockets
    MaxRaises       \* bound on errors while a trade is processed

ASSUME LoopAssumption == MaxTrade \in Nat /\ MaxBreaksOff \in Nat /\ MaxRaises \in Nat

VARIABLES
    traded,     \* external: the last trade the exchange made
    inSocket,   \* trades the open socket still has to deliver
    link,       \* where the stream's loop is
    phase,      \* where run_live_loop is
    dryRun,     \* --dry-run
    holding,    \* hold["active"]
    buffer,     \* hold["buffer"]
    passed,     \* history: the safety gates have passed
    accepted,   \* the gap detector's last id, 0 for none
    holes,      \* trades it reported missing
    candles,    \* trades the candle builder has, in order
    dropped,    \* history: trades whose processing raised an error
    stopAsked,  \* the stop event
    flushed,    \* the last accepted id in the store
    brokeOff, raises

linkVars == <<inSocket, link, brokeOff>>
intake == <<accepted, holes, candles, dropped, raises>>
gate == <<dryRun, holding, passed>>
loopVars == <<traded, linkVars, phase, gate, buffer, intake, stopAsked, flushed>>

-----------------------------------------------------------------------------
LoopInit ==
    /\ traded = 0 /\ inSocket = <<>> /\ link = "off" /\ phase = "initialized"
    /\ dryRun \in BOOLEAN /\ holding = TRUE /\ passed = FALSE /\ buffer = <<>>
    /\ accepted = 0 /\ holes = {} /\ candles = <<>> /\ dropped = {}
    /\ stopAsked = FALSE /\ flushed = 0
    /\ brokeOff = 0 /\ raises = 0

-----------------------------------------------------------------------------
(* BinanceAggTradeStream.                                                  *)

\* stream.start.
StartStream ==
    /\ phase = "initialized"
    /\ phase' = "evidence" /\ link' = "connecting"
    /\ UNCHANGED <<traded, inSocket, brokeOff, gate, buffer, intake, stopAsked, flushed>>

ConnectStream ==
    /\ link = "connecting"
    /\ link' = "open" /\ inSocket' = <<>>
    /\ UNCHANGED <<traded, brokeOff, phase, gate, buffer, intake, stopAsked, flushed>>

\* A trade reaches an open socket; nobody sends it again.
Trade ==
    /\ traded < MaxTrade
    /\ traded' = traded + 1
    /\ inSocket' = IF link = "open" THEN Append(inSocket, traded + 1) ELSE inSocket
    /\ UNCHANGED <<link, brokeOff, phase, gate, buffer, intake, stopAsked, flushed>>

\* The connection fails or breaks; what it had not delivered is lost.
BreakOff ==
    /\ link \in {"connecting", "open"} /\ brokeOff < MaxBreaksOff
    /\ link' = "backoff" /\ inSocket' = <<>> /\ brokeOff' = brokeOff + 1
    /\ UNCHANGED <<traded, phase, gate, buffer, intake, stopAsked, flushed>>

\* The delay doubles up to backoff_max_s; attempts are not bounded.
Reconnect ==
    /\ link = "backoff"
    /\ link' = "connecting"
    /\ UNCHANGED <<traded, inSocket, brokeOff, phase, gate, buffer, intake, stopAsked, flushed>>

-----------------------------------------------------------------------------
(* process_aggtrade, as a function of what it has so far and one trade;    *)
(* at is where an error leaves it: before the gap detector, between it and *)
(* the candle builder, behind both, or nowhere.                            *)
Intake == [accepted |-> accepted, holes |-> holes, candles |-> candles, dropped |-> dropped]

\* Mutant of Detected: a trade behind a jump takes no notice of it.
DetectedSilently(s, t) == [s EXCEPT !.accepted = t]

Detected(s, t) ==
    [s EXCEPT !.accepted = t,
              !.holes = @ \cup (IF s.accepted = 0 THEN {} ELSE (s.accepted + 1)..(t - 1))]

Built(s, t) == [s EXCEPT !.candles = Append(@, t)]

Raised(s, t) == [s EXCEPT !.dropped = @ \cup {t}]

Processed(s, t, at) ==
    CASE at = "store" -> Raised(s, t)
      [] at = "actions" -> Raised(Detected(s, t), t)
      [] OTHER -> Built(Detected(s, t), t)

TakeIn(s) ==
    /\ accepted' = s.accepted /\ holes' = s.holes
    /\ candles' = s.candles /\ dropped' = s.dropped

Places == {"store", "actions", "candle", "nowhere"}

Raises(at) == IF at = "nowhere" THEN UNCHANGED raises ELSE raises < MaxRaises /\ raises' = raises + 1

-----------------------------------------------------------------------------
(* run_live_loop.  The socket delivers to on_trade in every phase up to    *)
(* the end of the shutdown's stream.stop.                                  *)

\* on_trade while the trades are held.
Hold ==
    /\ holding /\ link = "open" /\ inSocket # <<>>
    /\ buffer' = Append(buffer, Head(inSocket)) /\ inSocket' = Tail(inSocket)
    /\ UNCHANGED <<traded, link, brokeOff, phase, gate, intake, stopAsked, flushed>>

\* on_trade afterwards: an error is logged by the stream as one of parsing.
OnTrade(at) ==
    /\ ~holding /\ link = "open" /\ inSocket # <<>>
    /\ TakeIn(Processed(Intake, Head(inSocket), at)) /\ Raises(at)
    /\ inSocket' = Tail(inSocket)
    /\ UNCHANGED <<traded, link, brokeOff, phase, gate, buffer, stopAsked, flushed>>

\* Mutant of Gates: the trades are let through while the gates are evaluated.
GatesLate(ok) ==
    /\ phase = "evidence"
    /\ ok => buffer # <<>>
    /\ passed' = ok /\ holding' = FALSE /\ buffer' = <<>>
    /\ phase' = IF ok /\ ~dryRun THEN "running" ELSE "stopping"
    /\ UNCHANGED <<traded, linkVars, dryRun, intake, stopAsked, flushed>>

(* _await_stream_evidence ends, with evidence or at its timeout; the gates *)
(* are evaluated, and a failure goes straight to the shutdown, as does the *)
(* end of a dry run.                                                       *)
Gates(ok) ==
    /\ phase = "evidence"
    /\ ok => buffer # <<>>
    /\ passed' = ok
    /\ phase' = IF ok /\ ~dryRun THEN "releasing" ELSE "stopping"
    /\ UNCHANGED <<traded, linkVars, dryRun, holding, buffer, intake, stopAsked, flushed>>

\* What release has made of the held trades before number k.
Ahead(k) ==
    LET made[i \in 1..k] == IF i = 1 THEN Intake ELSE Processed(made[i - 1], buffer[i - 1], "nowhere")
    IN  made[k]

(* The held trades, in one go, up to number k; an error at k leaves the    *)
(* loop, and the engine shuts down with the rest of them unprocessed.      *)
Release(k, at) ==
    /\ phase = "releasing" /\ k \in 1..Len(buffer)
    /\ at = "nowhere" => k = Len(buffer)
    /\ TakeIn(Processed(Ahead(k), buffer[k], at)) /\ Raises(at)
    /\ buffer' = <<>> /\ holding' = FALSE
    /\ phase' = IF at = "nowhere" THEN "running" ELSE "stopping"
    /\ UNCHANGED <<traded, linkVars, dryRun, passed, stopAsked, flushed>>

\* SIGINT or SIGTERM; the loop waits for it only once it is running.
Signal ==
    /\ ~stopAsked /\ phase # "ended"
    /\ stopAsked' = TRUE
    /\ UNCHANGED <<traded, linkVars, phase, gate, buffer, intake, flushed>>

StopSeen ==
    /\ phase = "running" /\ stopAsked
    /\ phase' = "stopping"
    /\ UNCHANGED <<traded, linkVars, gate, buffer, intake, stopAsked, flushed>>

(* The finally block: the stream is stopped, then the engine shut down,    *)
(* which stores the last accepted id.                                      *)
Shutdown ==
    /\ phase = "stopping"
    /\ phase' = "ended" /\ link' = "off" /\ inSocket' = <<>> /\ stopAsked' = TRUE
    /\ flushed' = accepted
    /\ UNCHANGED <<traded, brokeOff, gate, buffer, intake>>

-----------------------------------------------------------------------------
LoopNext ==
    \/ StartStream \/ ConnectStream \/ Trade \/ BreakOff \/ Reconnect
    \/ Hold \/ StopSeen \/ Signal \/ Shutdown
    \/ \E at \in Places : OnTrade(at)
    \/ \E ok \in BOOLEAN : Gates(ok)
    \/ \E k \in 1..MaxTrade, at \in Places : Release(k, at)

\* Timeouts end the waits, and the event loop runs what is ready.
LoopFairness ==
    /\ WF_loopVars(StartStream) /\ WF_loopVars(StopSeen) /\ WF_loopVars(Shutdown)
    /\ WF_loopVars(\E ok \in BOOLEAN : Gates(ok))
    /\ WF_loopVars(\E k \in 1..MaxTrade, at \in Places : Release(k, at))

LoopSpec == LoopInit /\ [][LoopNext]_loopVars /\ LoopFairness
-----------------------------------------------------------------------------
(* Properties.                                                             *)

\* The shape of every variable.
LoopTypeOK ==
    /\ traded \in 0..MaxTrade /\ accepted \in 0..MaxTrade /\ flushed \in 0..MaxTrade
    /\ inSocket \in Seq(1..MaxTrade) /\ buffer \in Seq(1..MaxTrade) /\ candles \in Seq(1..MaxTrade)
    /\ link \in {"off", "connecting", "open", "backoff"}
    /\ phase \in {"initialized", "evidence", "releasing", "running", "stopping", "ended"}
    /\ {dryRun, holding, passed} \subseteq BOOLEAN /\ stopAsked \in BOOLEAN
    /\ holes \subseteq 1..MaxTrade /\ dropped \subseteq 1..MaxTrade
    /\ brokeOff \in 0..MaxBreaksOff /\ raises \in 0..MaxRaises

(* What the strategy sees is the exchange's sequence: the candles hold the *)
(* trades in order and once, held ones before later ones; and every trade  *)
(* from the first to the last accepted is in them, is reported as missing, *)
(* or raised an error on its way.                                          *)
TradesInOrder ==
    /\ \A i, j \in 1..Len(candles) : i < j => candles[i] < candles[j]
    /\ candles # <<>> =>
         \A t \in candles[1]..accepted : Contains(candles, t) \/ t \in holes \cup dropped

(* Before the gates have passed, in a dry run and after the end no trade   *)
(* is processed, whatever arrives.                                         *)
NothingUngated ==
    [][<<accepted, candles>>' # <<accepted, candles>> => passed /\ ~dryRun]_loopVars

(* A stop that is asked for comes, from every phase and with the socket in *)
(* any state, and what was accepted is then in the store for good: no      *)
(* trade gets in behind the flush.                                         *)
StopComes == stopAsked ~> [](phase = "ended" /\ flushed = accepted)
=============================================================================
