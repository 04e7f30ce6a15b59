---------------------------- MODULE ParityFigures ----------------------------
(***************************************************************************)
(* The figures behind a parity verdict: the equity curve that replays      *)
(* trades as a real account, with the sizes the exchange allows, and the   *)
(* comparison of rebuilt candles with the canonical ones.                  *)
(*                                                                         *)
(* Money is counted in CurveFeeShare-ths, the part a fee takes of one      *)
(* unit of notional, so that every amount is whole; a ratio is a pair.     *)
(***************************************************************************)
EXTENDS Integers, Sequences, SequencesExt, FiniteSetsExt

CONSTANTS
    OpeningBalance, \* initial_balance
    CurveLeverage,
    CurveFeeShare,  \* taker_fee is 1 / CurveFeeShare
    QtyStep, QtyMin,
    CurvePrices,    \* prices of entries and exits
    MaxSettled,     \* bound on trades
    TickSize,
    VolumeShare,    \* volume_tolerance_pct is 1 / VolumeShare
    RebuiltCandles, \* candles the replay may make: records of at, ends, price, volume
    DatasetCandles, \* candles of the canonical dataset
    MaxRebuilt, MaxDataset  \* bounds on their numbers

ASSUME FiguresAssumption ==
    /\ {OpeningBalance, CurveLeverage, CurveFeeShare, QtyStep, VolumeShare} \subseteq Nat \ {0}
    /\ {QtyMin, TickSize, MaxSettled, MaxRebuilt, MaxDataset} \subseteq Nat
    /\ CurvePrices \subseteq Nat \ {0}
    /\ RebuiltCandles \cup DatasetCandles \subseteq [at : Nat, ends : Nat, price : Nat, volume : Nat]

VARIABLES
    compounding, \* stake_rule = full_compounding
    curve,       \* EquityCurve: points, peak, worst drawdown, and what verify_sizing finds
    comparison   \* CandleParityResult: what was compared, and passed

figuresVars == <<compounding, curve, comparison>>

NotCompared == [done |-> FALSE, rebuilt |-> <<>>, dataset |-> <<>>, passed |-> FALSE]
-----------------------------------------------------------------------------
FiguresInit ==
    /\ compounding \in BOOLEAN
    /\ curve = [points |-> <<OpeningBalance>>, peak |-> OpeningBalance, worst |-> <<0, 1>>, problems |-> 0]
    /\ comparison = NotCompared

-----------------------------------------------------------------------------
(* build_equity_curve and verify_sizing.                                   *)

Balance == Last(curve.points)

Notional == CurveLeverage * (IF compounding THEN Balance ELSE OpeningBalance)

\* The requested size, cut to the step; below the minimum there is none.
Quantity(entry) ==
    LET steps == (Notional \div (CurveFeeShare * entry * QtyStep)) * QtyStep
    IN  IF steps < QtyMin THEN 0 ELSE steps

\* What the trade earns, its two fees paid.
Gain(entry, exit, qty) == (CurveFeeShare * (exit - entry) - (entry + exit)) * qty

\* verify_sizing: nothing can be bought, or more than a hundredth of the request is cut off.
Undersized(entry, qty) ==
    \/ qty <= 0
    \/ 100 * (Notional - CurveFeeShare * entry * qty) > Notional

Deeper(p, q) == IF p[1] * q[2] > q[1] * p[2] THEN p ELSE q

\* Mutant of Higher: the peak stays where it was.
HigherNever(a, b) == a

Higher(a, b) == IF a > b THEN a ELSE b

\* One replayed trade.  Trades at a price of zero are passed over.
Settle(entry, exit) ==
    LET qty == Quantity(entry)
        after == Balance + Gain(entry, exit, qty)
        peak == Higher(curve.peak, after)
    IN  /\ ~comparison.done /\ Len(curve.points) <= MaxSettled
        /\ curve' = [points |-> Append(curve.points, after),
                     peak |-> peak,
                     worst |-> Deeper(<<peak - after, peak>>, curve.worst),
                     problems |-> curve.problems + (IF Undersized(entry, qty) THEN 1 ELSE 0)]
        /\ UNCHANGED <<compounding, comparison>>

-----------------------------------------------------------------------------
(* compare_candles.                                                        *)

Times(cs) == {cs[i].at : i \in 1..Len(cs)}

\* A dictionary keeps the last candle of a time.
LastAt(cs, t) == cs[CHOOSE i \in 1..Len(cs) : cs[i].at = t /\ \A j \in (i + 1)..Len(cs) : cs[j].at # t]

Duplicated(cs) == {i \in 1..Len(cs) : \E j \in 1..(i - 1) : cs[j].at = cs[i].at}

Apart(a, b) == IF a > b THEN a - b ELSE b - a

\* Prices agree to a tick, volumes to a share of the expected one.
Agrees(expected, actual) ==
    /\ expected.ends = actual.ends
    /\ Apart(expected.price, actual.price) <= TickSize
    /\ VolumeShare * Apart(expected.volume, actual.volume) <= expected.volume

Mismatched(rebuilt, dataset) ==
    {t \in Times(dataset) \cap Times(rebuilt) : ~Agrees(LastAt(dataset, t), LastAt(rebuilt, t))}

\* Mutant of Passed: candles rebuilt twice are not noticed.
PassedTwice(rebuilt, dataset) ==
    /\ Times(dataset) = Times(rebuilt) /\ Times(dataset) # {}
    /\ Mismatched(rebuilt, dataset) = {}

\* passed: nothing missing, extra, duplicated or mismatched, and something compared.
Passed(rebuilt, dataset) ==
    /\ Times(dataset) = Times(rebuilt) /\ Times(dataset) # {}
    /\ Duplicated(rebuilt) = {} /\ Mismatched(rebuilt, dataset) = {}

(* verify_parity compares behind the curve, or without one when the        *)
(* portfolio is not asked for; the result does not depend on the curve.    *)
CompareCandles ==
    /\ ~comparison.done /\ Len(curve.points) = 1
    /\ \E rebuilt \in SeqOf(RebuiltCandles, MaxRebuilt), dataset \in SeqOf(DatasetCandles, MaxDataset) :
           comparison' = [done |-> TRUE, rebuilt |-> rebuilt, dataset |-> dataset,
                          passed |-> Passed(rebuilt, dataset)]
    /\ UNCHANGED <<compounding, curve>>

FiguresNext ==
    \/ \E entry, exit \in CurvePrices : Settle(entry, exit)
    \/ CompareCandles

FiguresSpec == FiguresInit /\ [][FiguresNext]_figuresVars
-----------------------------------------------------------------------------
(* Properties.                                                             *)

\* The shape of every variable.
FiguresTypeOK ==
    /\ compounding \in BOOLEAN
    /\ curve.points \in Seq(Int) /\ curve.peak \in Nat /\ curve.problems \in 0..MaxSettled
    /\ curve.worst \in Nat \X (Nat \ {0})
    /\ comparison.rebuilt \in Seq(RebuiltCandles) /\ comparison.dataset \in Seq(DatasetCandles)
    /\ {comparison.done, comparison.passed} \subseteq BOOLEAN

(* The reported drawdown is the deepest fall from any point of the curve   *)
(* to a later one, whatever came in between; a fall below zero, which      *)
(* leverage allows, counts from the highest point before it.  And an       *)
(* account that stakes what it has cannot be wiped out and trade on        *)
(* without its sizes being reported.                                       *)
CurveIsTrue ==
    LET pts == curve.points
        Highest(i, j) == \A k \in 1..j : pts[k] <= pts[i]
        spans == {p \in (1..Len(pts)) \X (1..Len(pts)) :
                     /\ p[1] <= p[2] /\ pts[p[1]] > 0
                     /\ pts[p[2]] >= 0 \/ Highest(p[1], p[2])}
        falls == {<<pts[p[1]] - pts[p[2]], pts[p[1]]>> : p \in spans}
        NoDeeper(f, g) == f[1] * g[2] <= g[1] * f[2]
    IN  /\ \A f \in falls : NoDeeper(f, curve.worst)
        /\ \E f \in falls : NoDeeper(curve.worst, f)
        /\ compounding /\ curve.problems = 0 => \A i \in 1..(Len(pts) - 1) : pts[i] > 0

(* Candles pass exactly when the two lists can be paired one to one, each  *)
(* rebuilt candle with the last the dataset has of its time.               *)
ComparisonIsExact ==
    LET rebuilt == comparison.rebuilt
        kept == {LastAt(comparison.dataset, t) : t \in Times(comparison.dataset)}
        Pairs(i, e) == rebuilt[i].at = e.at /\ Agrees(e, rebuilt[i])
    IN  comparison.done =>
          (comparison.passed <=>
             /\ rebuilt # <<>> /\ Len(rebuilt) = Cardinality(kept)
             /\ \A e \in kept : \E i \in 1..Len(rebuilt) : Pairs(i, e))
=============================================================================
