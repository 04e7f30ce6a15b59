---------------------------- MODULE KlineHistory ----------------------------
(***************************************************************************)
(* The strategy's history: primed from the Parquet file, closed up to now  *)
(* with the exchange's klines, and closed again before a bar that does not *)
(* follow its tail.  Both use fetch_closed_klines, page by page, over a    *)
(* connection that fails and an exchange that leaves rows out.             *)
(*                                                                         *)
(* A bar is its number; bar clock + 1 is the one still forming.            *)
(***************************************************************************)
EXTENDS Integers, Sequences, SequencesExt, FiniteSets, FiniteSetsExt

CONSTANTS
    LastKline,  \* bound on the clock
    Required,   \* warmup_candles
    HistoryMax, \* max_history of the signal engine
    FreshBars,  \* age of the file's tail up to which nothing is fetched: half an hour
    RowMax,     \* rows of a page
    AskMax,     \* attempts for a page
    Files       \* candle files: sets of bars

ASSUME KlineAssumption ==
    /\ {LastKline, Required, HistoryMax, RowMax, AskMax} \subseteq Nat \ {0}
    /\ FreshBars \in Nat /\ Required <= HistoryMax
    /\ \A f \in Files : f \subseteq 1..LastKline

VARIABLES
    clock,      \* the last bar that has closed
    stage,      \* of the engine: off, backfill, live, heal, failed
    history,    \* candle_buffer, later candle_history
    backfilled, \* this start fetched klines
    due,        \* the bar to be evaluated, when the history is being healed
    fetch       \* locals of fetch_closed_klines: start, stop, cursor, rows, out, tries, host

klineVars == <<clock, stage, history, backfilled, due, fetch>>

NoFetch == [start |-> 1, stop |-> 0, cursor |-> 1, rows |-> {}, out |-> <<>>, tries |-> 0, host |-> "main"]

\* fetch_closed_klines is called for the bars from a to b.
FetchOf(a, b) == [NoFetch EXCEPT !.start = a, !.stop = b, !.cursor = a]

\* The n-th of the bars has n of them up to it.
InOrder(bars) == [n \in 1..Cardinality(bars) |-> CHOOSE b \in bars : Cardinality({c \in bars : c <= b}) = n]

LastOf(s, n) == IF Len(s) <= n THEN s ELSE SubSeq(s, Len(s) - n + 1, Len(s))

Follows(s, i) == s[i] = s[i - 1] + 1
-----------------------------------------------------------------------------
KlineInit ==
    /\ clock = 1 /\ stage = "off"
    /\ history = <<>> /\ backfilled = FALSE /\ due = 0 /\ fetch = NoFetch

BarCloses ==
    /\ clock < LastKline
    /\ clock' = clock + 1
    /\ UNCHANGED <<stage, history, backfilled, due, fetch>>

(* load_from_parquet, and the decision to fetch what the file lacks.       *)
Load(file) ==
    LET buffer == LastOf(InOrder(file), Required)
    IN  /\ stage = "off" /\ file \subseteq 1..clock
        /\ IF Len(buffer) < Required
             THEN stage' = "failed" /\ UNCHANGED <<history, backfilled, fetch>>
             ELSE /\ history' = buffer
                  /\ backfilled' = (clock - Last(buffer) > FreshBars)
                  /\ IF backfilled'
                       THEN stage' = "backfill" /\ fetch' = FetchOf(Last(buffer) + 1, clock)
                       ELSE stage' = "live" /\ UNCHANGED fetch
        /\ UNCHANGED <<clock, due>>

-----------------------------------------------------------------------------
(* fetch_closed_klines.                                                    *)
Fetching == stage \in {"backfill", "heal"}
Asking == Fetching /\ fetch.cursor <= fetch.stop

\* Bars that close behind the end, or open before the start, are left out.
Kept(rows) == {r \in rows : r >= fetch.start /\ r <= fetch.stop}

\* The rows are appended, and the cursor goes behind them.
Took(rows) == [fetch EXCEPT !.out = @ \o InOrder(Kept(rows)), !.cursor = Max(rows) + 1,
                            !.rows = rows, !.tries = 0]

\* The loop is left: nothing further is asked for.
Left(f) == [f EXCEPT !.stop = f.cursor - 1]

Answer(rows) ==
    /\ Asking /\ Cardinality(rows) <= RowMax
    /\ fetch' = IF rows = {} THEN Left(fetch) ELSE Took(rows)
    /\ UNCHANGED <<clock, stage, history, backfilled, due>>

\* An error that ends the fetch: no history at the start, no healing later.
Error ==
    /\ stage' = IF stage = "backfill" THEN "failed" ELSE "live"
    /\ fetch' = NoFetch /\ due' = 0
    /\ UNCHANGED <<clock, history, backfilled>>

\* The call fails, or the testnet refuses it too; the last failure is raised.
AskFails ==
    /\ Asking
    /\ IF fetch.tries + 1 = AskMax
         THEN Error
         ELSE /\ fetch' = [fetch EXCEPT !.tries = @ + 1]
              /\ UNCHANGED <<clock, stage, history, backfilled, due>>

(* Status 451: the fetch goes on at the testnet.  On the last attempt the  *)
(* rows of the page before are taken once more and the loop is left, or,   *)
(* with no page before, the name is unbound.                               *)
Refused ==
    /\ Asking /\ fetch.host = "main"
    /\ IF fetch.tries + 1 < AskMax
         THEN /\ fetch' = [fetch EXCEPT !.tries = @ + 1, !.host = "testnet"]
              /\ UNCHANGED <<clock, stage, history, backfilled, due>>
         ELSE IF fetch.rows = {}
                THEN Error
                ELSE /\ fetch' = Left([Took(fetch.rows) EXCEPT !.host = "testnet"])
                     /\ UNCHANGED <<clock, stage, history, backfilled, due>>

-----------------------------------------------------------------------------
(* What is done with the bars.                                             *)

Contiguous(s) == \A i \in 2..Len(s) : Follows(s, i)

\* backfill_gap_from_rest: a history with a hole is an error.
Prime ==
    LET merged == history \o fetch.out
    IN  /\ stage = "backfill" /\ ~Asking
        /\ IF Contiguous(merged)
             THEN stage' = "live" /\ history' = LastOf(merged, Required)
             ELSE stage' = "failed" /\ UNCHANGED history
        /\ fetch' = NoFetch
        /\ UNCHANGED <<clock, backfilled, due>>

\* on_candle_close, for one bar after the other.
Grown(bars) == LastOf(history \o bars, HistoryMax)

(* A bar is to be evaluated: at once when it follows the history's tail.   *)
Evaluate(b) ==
    /\ stage = "live" /\ b <= clock /\ b > Last(history)
    /\ IF b <= Last(history) + 1
         THEN history' = Grown(<<b>>) /\ UNCHANGED <<stage, due, fetch>>
         ELSE /\ stage' = "heal" /\ due' = b /\ fetch' = FetchOf(Last(history) + 1, b - 1)
              /\ UNCHANGED history
    /\ UNCHANGED <<clock, backfilled>>

\* Mutant of Healed: as many bars as are missing.
HealedInNumber == Len(fetch.out) = due - 1 - Last(history)

\* _ensure_contiguous_history: exactly the missing bars, in order.
Healed == fetch.out = [i \in 1..(due - 1 - Last(history)) |-> Last(history) + i]

\* Healed, the bars are replayed and then the one that was due; not healed, it is not evaluated.
Heal ==
    /\ stage = "heal" /\ ~Asking
    /\ history' = IF Healed THEN Grown(Append(fetch.out, due)) ELSE history
    /\ stage' = "live" /\ due' = 0 /\ fetch' = NoFetch
    /\ UNCHANGED <<clock, backfilled>>

-----------------------------------------------------------------------------
KlineNext ==
    \/ BarCloses \/ AskFails \/ Refused \/ Prime \/ Heal
    \/ \E file \in Files : Load(file)
    \/ \E rows \in SUBSET (fetch.cursor..(clock + 1)) : Answer(rows)
    \/ \E b \in 1..LastKline : Evaluate(b)

KlineSpec == KlineInit /\ [][KlineNext]_klineVars
-----------------------------------------------------------------------------
(* Properties.                                                             *)

\* The shape of every variable.
KlineTypeOK ==
    /\ clock \in 1..LastKline /\ stage \in {"off", "backfill", "live", "heal", "failed"}
    /\ history \in Seq(1..LastKline) /\ Len(history) <= HistoryMax
    /\ backfilled \in BOOLEAN /\ due \in 0..clock
    /\ fetch.out \in Seq(1..LastKline + 1) /\ fetch.host \in {"main", "testnet"}
    /\ fetch.tries \in 0..(AskMax - 1) /\ fetch.rows \subseteq 1..(LastKline + 1)

(* The strategy never computes an indicator across a hole, a repeated bar  *)
(* or a bar that is still forming: whatever pages the exchange answered    *)
(* with, the history is one run of closed bars once its start was          *)
(* backfilled, and otherwise from the end of the file on.                  *)
HistoryIsWhole ==
    stage \in {"live", "heal"} =>
        /\ \A i \in 1..Len(history) : history[i] <= clock
        /\ \A i \in 2..Len(history) :
             Follows(history, i) \/ (~backfilled /\ \E f \in Files : {history[i - 1], history[i]} \subseteq f)
=============================================================================
