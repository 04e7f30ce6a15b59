----------------------------- MODULE MarketData -----------------------------
(***************************************************************************)
(* From aggregate trades to the bars the strategy sees: the gap detector,  *)
(* the minute builder, the resampler, the gate in front of the strategy,   *)
(* and the recovery of gaps in worker threads of their own.                *)
(*                                                                         *)
(* A trade is its id; Minute gives the minute it was executed in.  The     *)
(* event loop runs one handler per delivered trade.  A recovery is         *)
(* scheduled by such a handler, reads, fetches, stores and feeds its       *)
(* trades in a worker thread, and returns to the loop at last.             *)
(***************************************************************************)
EXTENDS Integers, Sequences, FiniteSets

CONSTANTS
    Newest,         \* trades have the ids 1 .. Newest
    Minute,         \* the minute each was executed in
    BarMinutes,     \* minutes of a strategy bar
    MaxGap,         \* MAX_RECOVERABLE_GAP_SIZE
    MaxAttempts,    \* MAX_GAP_RECOVERY_ATTEMPTS
    MaxRestarts     \* bound: restarts of the process

Trades == 1 .. Newest

ASSUME TradesAssumption ==
    /\ Newest \in Nat \ {0}
    /\ Minute \in [Trades -> Nat]
    /\ \A t, u \in Trades : t <= u => Minute[t] <= Minute[u]

ASSUME BarsAssumption == BarMinutes \in Nat \ {0} /\ Minute[1] >= BarMinutes

ASSUME BoundsAssumption == MaxGap \in Nat \ {0} /\ MaxAttempts \in Nat \ {0} /\ MaxRestarts \in Nat

VARIABLES
    stream,         \* external: the newest trade the exchange has sent
    lastId,         \* gap_detector.last_agg_trade_id, 0 before the first trade
    base,           \* external: the first trade sent to this process, 0 before it
    since,          \* the first id the detector answers for, 0 before it is known
    gaps,           \* gap_detector.active_gaps
    desynced,       \* gap_detector.is_desynced
    dataDesynced,   \* health.data_desynced
    historyGap,     \* health.history_gap_open
    minute,         \* the minute being built and its trades
    partial,        \* _first_1m_pending
    bar,            \* the bar being built: its trades, whether it is whole
    history,        \* signal_engine.candle_history: the bars the strategy has
    jobs,           \* recoveries under way
    recovering,     \* _recovering: the ranges believed to be under way
    stored,         \* durable: raw_aggtrades
    mark,           \* durable: last_accepted_agg_trade_id, 0 for none
    reported,       \* durable: ids of AGGTRADE_GAP and GAP_ABANDONED events
    abandoned,      \* durable: ids of GAP_ABANDONED events
    restarts

detector == <<base, lastId, since, gaps, desynced, dataDesynced>>
candles == <<historyGap, partial, bar, history>>
durable == <<stored, mark, reported, abandoned>>
marketVars == <<stream, detector, minute, candles, jobs, recovering, durable, restarts>>

-----------------------------------------------------------------------------
BarOf(m) == m \div BarMinutes
Later(t, u) == IF t < u THEN u ELSE t
Ids(r) == r.from .. r.to
Key(r) == <<r.from, r.to>>

NoMinute == [open |-> -1, got |-> {}]
NoBar == [open |-> -1, got |-> {}, whole |-> FALSE]

\* A bar of the exchange; a bar built here, with the trades of its window it lacks.
Rest(b) == [open |-> b, source |-> "rest_kline", missing |-> {}]
Local(b) == [open |-> b.open, source |-> "aggtrade",
             missing |-> {t \in Trades : BarOf(Minute[t]) = b.open} \ b.got]

Bars == [open : Int, source : {"rest_kline", "aggtrade"}, missing : SUBSET Trades]

LastBar == history[Len(history)].open

\* An active gap has attempts left.
Gap == [from : Trades, to : Trades, tries : 0 .. MaxAttempts - 1]
Job == [from : Trades, to : Trades, born : Trades,
        at : {"queued", "fetching", "feeding", "done"},
        have : SUBSET Trades, left : SUBSET Trades, missing : SUBSET Trades]

\* The recovery of range r that the handler of trade t schedules.
Recovery(r, t) == [from |-> r.from, to |-> r.to, born |-> t, at |-> "queued",
                   have |-> {}, left |-> {}, missing |-> {}]

MarketInit ==
    /\ stream = 0 /\ base = 0 /\ lastId = 0 /\ since = 0
    /\ gaps = {} /\ desynced = FALSE /\ dataDesynced = FALSE /\ historyGap = FALSE
    /\ minute = NoMinute /\ partial = TRUE /\ bar = NoBar
    /\ history = <<Rest(BarOf(Minute[1]) - 1)>>
    /\ jobs = {} /\ recovering = {}
    /\ stored = {} /\ mark = 0 /\ reported = {} /\ abandoned = {}
    /\ restarts = 0

-----------------------------------------------------------------------------
(* The minute builder and the resampler.                                   *)

Crosses(t) == minute.open >= 0 /\ Minute[t] > minute.open

(* A trade opens a minute, joins the current one, or comes too late.  (One *)
(* that was seen before is in its minute already, or comes too late.)      *)
AddTrade(t) ==
    minute' = IF minute.open = -1 \/ Crosses(t)
              THEN [open |-> Minute[t], got |-> {t}]
              ELSE IF Minute[t] = minute.open
              THEN [minute EXCEPT !.got = @ \cup {t}]
              ELSE minute

\* The bar that minute c opens: whole only when c is whole and the first of the bar.
Opened(c, whole) == [open |-> BarOf(c.open), got |-> c.got,
                     whole |-> whole /\ c.open % BarMinutes = 0]

Joined(c, whole) == [bar EXCEPT !.got = @ \cup c.got, !.whole = @ /\ whole]

\* Closed minute c ends its bar when it is the last one of a bar under way.
Ends(c) == bar.open = BarOf(c.open) /\ c.open % BarMinutes = BarMinutes - 1

BarAfter(c, whole) ==
    IF bar.open # BarOf(c.open) THEN Opened(c, whole)
    ELSE IF Ends(c) THEN NoBar ELSE Joined(c, whole)

\* The bar that closed minute c completes, NoBar if none.
Completed(c, whole) ==
    IF bar.open # -1 /\ bar.open < BarOf(c.open) THEN bar
    ELSE IF Ends(c) THEN Joined(c, whole) ELSE NoBar

-----------------------------------------------------------------------------
(* The gate in front of the strategy: a hole before the bar is filled from *)
(* the exchange or blocks it; a bar built while data is missing is         *)
(* replaced by the exchange's or dropped.                                  *)

Fillers(b) == [i \in 1 .. b.open - LastBar - 1 |-> Rest(LastBar + i)]

\* Mutant of Evaluate: holes are not filled.
EvaluateUnhealed(b, suspect) ==
    /\ \/ history' = Append(history, IF suspect THEN Rest(b.open) ELSE Local(b))
       \/ suspect /\ history' = history
    /\ historyGap' = FALSE

Evaluate(b, suspect) ==
    \/ /\ b.open > LastBar + 1
       /\ historyGap' = TRUE
       /\ UNCHANGED history
    \/ /\ historyGap' = FALSE
       /\ \/ history' = history \o Fillers(b) \o <<IF suspect THEN Rest(b.open) ELSE Local(b)>>
          \/ suspect /\ history' = history \o Fillers(b)

-----------------------------------------------------------------------------
(* process_aggtrade: the whole handler of one delivered trade.             *)

\* A range that is missing before trade t.
Missed(t) == [from |-> lastId + 1, to |-> t - 1, tries |-> 0]

GapStatus(t) ==
    CASE lastId = 0 -> "FIRST"
      [] lastId # 0 /\ t <= lastId -> "DUPLICATE"
      [] lastId # 0 /\ t > lastId + 1 -> "GAP"
      [] OTHER -> "VALID"

Recoverable(g) == Cardinality(Ids(g)) <= MaxGap

Detect(t) ==
    /\ lastId' = Later(lastId, t)
    /\ since' = IF GapStatus(t) = "FIRST" THEN t ELSE since
    /\ IF GapStatus(t) = "GAP"
       THEN LET g == Missed(t)
            IN  /\ reported' = reported \cup Ids(g)
                /\ IF Recoverable(g)
                   THEN /\ gaps' = gaps \cup {g}
                        /\ desynced' = TRUE /\ dataDesynced' = TRUE
                        /\ UNCHANGED abandoned
                   ELSE /\ desynced' = (gaps # {}) /\ dataDesynced' = (gaps # {})
                        /\ abandoned' = abandoned \cup Ids(g)
                        /\ UNCHANGED gaps
       ELSE UNCHANGED <<gaps, desynced, dataDesynced, reported, abandoned>>

\* The recoveries the handler schedules: of a new gap, and when a minute closes
\* of every gap that is not believed to be under way.
Scheduled(t) ==
    {g \in gaps' : g \notin gaps \/ (Crosses(t) /\ Key(g) \notin recovering)}

\* Mutant of Whole: the first minute counts although its start was not seen.
WholeFromStart == TRUE

\* The first minute that closes lacks the trades before the connection.
Whole == ~partial

CloseMinute ==
    LET b == Completed(minute, Whole)
    IN  /\ partial' = FALSE
        /\ mark' = lastId'
        /\ bar' = BarAfter(minute, Whole)
        /\ IF b.whole THEN Evaluate(b, desynced' \/ dataDesynced')
           ELSE UNCHANGED <<history, historyGap>>

(* The stream goes on with any later trade: those in between are lost with *)
(* a connection, or come late.  A trade may come again.                    *)
Deliver(t) ==
    /\ t > stream \/ (base # 0 /\ t >= base)
    /\ stream' = Later(stream, t)
    /\ base' = IF base = 0 THEN t ELSE base
    /\ stored' = stored \cup {t}
    /\ Detect(t)
    /\ AddTrade(t)
    /\ jobs' = jobs \cup {Recovery(g, t) : g \in Scheduled(t)}
    /\ recovering' = recovering \cup {Key(g) : g \in Scheduled(t)}
    /\ IF Crosses(t) THEN CloseMinute ELSE UNCHANGED <<candles, mark>>
    /\ UNCHANGED restarts

-----------------------------------------------------------------------------
(* recover_gap, in a worker thread.                                        *)

Moves(j, k) == jobs' = (jobs \ {j}) \cup {k}

\* The ids it has already are read before any is fetched.
Begin(j) ==
    /\ j.at = "queued"
    /\ Moves(j, [j EXCEPT !.at = "fetching", !.have = stored \cap Ids(j)])
    /\ recovering' = recovering \cup {Key(j)}
    /\ UNCHANGED <<stream, detector, minute, candles, durable, restarts>>

\* Mutant of Lacking: a page that ends short is taken for the end of the range.
LackingShort(j, got) == {t \in Ids(j) \ (got \cup j.have) : \E u \in got : t < u}

\* What is still missing when the pages brought got.
Lacking(j, got) == Ids(j) \ (got \cup j.have)

\* The pages bring any of the trades; these are stored.
Fetch(j) ==
    /\ j.at = "fetching"
    /\ \E got \in SUBSET Ids(j) :
          /\ stored' = stored \cup got
          /\ Moves(j, [j EXCEPT !.at = "feeding", !.left = got, !.missing = Lacking(j, got)])
    /\ UNCHANGED <<stream, detector, minute, candles, recovering, mark, reported,
                   abandoned, restarts>>

(* The recovered trades in order.  None of them closes a minute: the trade *)
(* that revealed the gap is newer and was added before.                    *)
Feed(j) ==
    /\ j.at = "feeding"
    /\ \E t \in j.left :
          /\ \A u \in j.left : t <= u
          /\ AddTrade(t)
          /\ Moves(j, [j EXCEPT !.left = @ \ {t}])
    /\ UNCHANGED <<stream, detector, candles, recovering, durable, restarts>>

Over(j) ==
    /\ j.at = "feeding" /\ j.left = {}
    /\ Moves(j, [j EXCEPT !.at = "done"])
    /\ recovering' = recovering \ {Key(j)}
    /\ UNCHANGED <<stream, base, lastId, since, minute, candles, stored, mark, reported, restarts>>

\* The active gap a recovery is for; another attempt may have changed or closed it.
Its(j) == {g \in gaps : Key(g) = Key(j)}

\* Mutant of Recovered: the flags are cleared with the first gap that closes.
RecoveredAlone(j) ==
    /\ j.missing = {} /\ Over(j)
    /\ gaps' = gaps \ Its(j)
    /\ desynced' = FALSE
    /\ dataDesynced' = FALSE
    /\ UNCHANGED abandoned

Recovered(j) ==
    /\ j.missing = {} /\ Over(j)
    /\ gaps' = gaps \ Its(j)
    /\ desynced' = (desynced /\ gaps' # {})
    /\ dataDesynced' = (dataDesynced /\ gaps' # {})
    /\ UNCHANGED abandoned

\* Mutant of LastAttempt: one attempt too many.
LastAttemptLate(j) == \E g \in Its(j) : g.tries + 1 > MaxAttempts

LastAttempt(j) == \E g \in Its(j) : g.tries + 1 >= MaxAttempts

Abandoned(j) ==
    /\ j.missing # {} /\ Over(j) /\ LastAttempt(j)
    /\ gaps' = gaps \ Its(j)
    /\ desynced' = (gaps' # {})
    /\ dataDesynced' = (gaps' # {})
    /\ abandoned' = abandoned \cup Ids(j)

Narrowed(j) ==
    /\ j.missing # {} /\ Over(j) /\ ~LastAttempt(j)
    /\ \E lo, hi \in j.missing :
          /\ \A t \in j.missing : lo <= t /\ t <= hi
          /\ gaps' = (gaps \ Its(j)) \cup
                       {[from |-> lo, to |-> hi, tries |-> g.tries + 1] : g \in Its(j)}
    /\ desynced' = (gaps' # {})
    /\ dataDesynced' = TRUE
    /\ UNCHANGED abandoned

\* _on_recovery_done, back on the event loop.
Return(j) ==
    /\ j.at = "done"
    /\ jobs' = jobs \ {j}
    /\ recovering' = recovering \ {Key(j)}
    /\ UNCHANGED <<stream, detector, minute, candles, durable, restarts>>

Recover(j) ==
    \/ Begin(j) \/ Fetch(j) \/ Feed(j)
    \/ Recovered(j) \/ Abandoned(j) \/ Narrowed(j)
    \/ Return(j)

-----------------------------------------------------------------------------
(* The process dies, or is shut down and saves its mark, and starts again: *)
(* with the mark, or without one that is older than MAX_RESTART_GAP_AGE_S. *)
(* The strategy is warmed up with the exchange's bars.                     *)
Restart ==
    /\ restarts < MaxRestarts /\ stream > 0
    /\ restarts' = restarts + 1
    /\ mark' \in {mark, lastId}
    /\ lastId' \in {0, mark'}
    /\ since' = IF lastId' = 0 THEN 0 ELSE lastId' + 1
    /\ base' = 0
    /\ gaps' = {} /\ desynced' = FALSE /\ dataDesynced' = FALSE /\ historyGap' = FALSE
    /\ minute' = NoMinute /\ partial' = TRUE /\ bar' = NoBar
    /\ history' = <<Rest(BarOf(Minute[stream]) - 1)>>
    /\ jobs' = {} /\ recovering' = {}
    /\ UNCHANGED <<stream, stored, reported, abandoned>>

-----------------------------------------------------------------------------
MarketNext ==
    \/ \E t \in Trades : Deliver(t)
    \/ \E j \in jobs : Recover(j)
    \/ Restart

MarketSpec == MarketInit /\ [][MarketNext]_marketVars
-----------------------------------------------------------------------------
(* Properties.                                                             *)

\* The shape of every variable.
MarketTypeOK ==
    /\ stream \in 0 .. Newest /\ base \in 0 .. Newest /\ lastId \in 0 .. Newest
    /\ since \in 0 .. Newest + 1
    /\ gaps \subseteq Gap
    /\ desynced \in BOOLEAN /\ dataDesynced \in BOOLEAN /\ historyGap \in BOOLEAN
    /\ minute \in [open : Int, got : SUBSET Trades] /\ partial \in BOOLEAN
    /\ bar \in [open : Int, got : SUBSET Trades, whole : BOOLEAN]
    /\ history \in Seq(Bars) \ {<<>>}
    /\ jobs \subseteq Job /\ recovering \subseteq Trades \X Trades
    /\ stored \subseteq Trades /\ mark \in 0 .. Newest
    /\ reported \subseteq Trades /\ abandoned \subseteq Trades
    /\ restarts \in 0 .. MaxRestarts

(* Every trade the detector answers for is stored, in an active gap, or    *)
(* was given up by name: whatever the pages bring and whichever recovery   *)
(* ends first, none is lost in silence.                                    *)
NothingSilentlyLost ==
    lastId > 0 => \A t \in since .. lastId :
        t \in stored \cup abandoned \/ \E g \in gaps : t \in Ids(g)

(* The detector's flag is up exactly while a gap is active, and health is  *)
(* desynchronised then too: no gap closes with another one's flag.         *)
FlagsFollowGaps ==
    /\ desynced <=> gaps # {}
    /\ desynced => dataDesynced

(* A bar built here that lacks a trade lacks it because of a gap that was  *)
(* reported: never for joining the stream, a restart or a late trade.      *)
MissingWasReported ==
    \A i \in DOMAIN history : history[i].missing \subseteq reported

\* The strategy's bars follow one another without hole or repetition.
HistoryContiguous ==
    \A i \in 2 .. Len(history) : history[i].open = history[i - 1].open + 1

(* The comment in front of the gate: a bar built from an incomplete        *)
(* sequence must not reach the strategy.                                   *)
EvaluatedWhole ==
    \A i \in DOMAIN history : history[i].missing = {}

=============================================================================
