---------------------------- MODULE ReplayTrades ----------------------------
(***************************************************************************)
(* The historical replay of the parity tooling: the trades run_replay      *)
(* makes of the strategy's signals, one bar at a time, and the verdict     *)
(* verify_parity passes on them against the benchmark's.                   *)
(*                                                                         *)
(* A moment is a bar and a place in it; prices, fees and profits follow    *)
(* from the moments and are left out, and so is the tolerance on them.     *)
(***************************************************************************)
EXTENDS Integers, Sequences, SequencesExt, FiniteSets

CONSTANTS
    LastBar,  \* evaluation bars
    Models    \* execution models of the manifests: records of entry, exit, force

(* Every manifest whose entries fill at the close of the signal's bar sets *)
(* force_exit_at_end to false.                                             *)
ASSUME ReplayAssumption ==
    /\ LastBar \in Nat \ {0}
    /\ Models \subseteq [entry : {"signal_close", "next_open"},
                         exit : {"signal_reference", "next_open"}, force : BOOLEAN]
    /\ \A m \in Models : m.entry = "signal_close" => ~m.force

VARIABLES
    model,      \* the manifest's execution_model
    bar,        \* the next bar to be fed
    inPosition,
    entered,    \* entry signal's bar and the moment of the fill
    trades,     \* ReplayTrade list
    benchmark,  \* external: the benchmark's trades
    verdict     \* the report's status

replayVars == <<model, bar, inPosition, entered, trades, benchmark, verdict>>

\* Moments of a bar.
Open(b) == <<b, 0>>
Inside(b) == <<b, 1>>
CloseOf(b) == <<b, 2>>

NotAfter(p, q) == p[1] < q[1] \/ (p[1] = q[1] /\ p[2] <= q[2])

Bars == 1..LastBar
Moments == Bars \X (0..2)
Reasons == {"bracket", "exit_signal", "force_exit"}
Signals == {"none", "enter", "exit", "bracket"}

\* The fields of a trade the verdict compares.
TradeOf(in, out, reason) == [in |-> in, out |-> out, reason |-> reason]
NoEntry == [signal |-> 0, fill |-> Open(0)]
-----------------------------------------------------------------------------
ReplayInit ==
    /\ model \in Models
    /\ bar = 1 /\ inPosition = FALSE /\ entered = NoEntry
    /\ trades = <<>> /\ benchmark = <<>> /\ verdict = "none"

(* ENTER_LONG.  The fill is at the signal's close or the next bar's open;  *)
(* behind the last bar there is none.                                      *)
FillBar == IF model.entry = "signal_close" THEN bar ELSE bar + 1

FillAt == IF model.entry = "signal_close" THEN CloseOf(bar) ELSE Open(bar + 1)

\* Mutant of EnterLong: a signal behind the last bar's fill opens a position all the same.
EnterLongAlways ==
    /\ ~inPosition
    /\ inPosition' = TRUE /\ entered' = [signal |-> bar, fill |-> FillAt]
    /\ UNCHANGED trades

EnterLong ==
    /\ ~inPosition /\ FillBar <= LastBar
    /\ inPosition' = TRUE /\ entered' = [signal |-> bar, fill |-> FillAt]
    /\ UNCHANGED trades

(* Where EXIT_LONG fills: a bracket or a reference in its own bar, a flip  *)
(* at the next open, and at its own close when there is no next bar.       *)
ExitAt(signal) ==
    IF signal = "bracket" THEN Inside(bar)
    ELSE IF model.exit = "signal_reference" \/ bar = LastBar THEN CloseOf(bar)
    ELSE Open(bar + 1)

ExitLong(signal) ==
    /\ inPosition
    /\ trades' = Append(trades, TradeOf(entered.fill, ExitAt(signal),
                                        IF signal = "bracket" THEN "bracket" ELSE "exit_signal"))
    /\ inPosition' = FALSE /\ UNCHANGED entered

\* A signal the position does not allow, or none.
Ignored(signal) ==
    /\ signal = "enter" => inPosition \/ FillBar > LastBar
    /\ signal \in {"exit", "bracket"} => ~inPosition
    /\ UNCHANGED <<inPosition, entered, trades>>

\* One bar is fed and its signal acted on.
Feed(signal) ==
    /\ bar <= LastBar
    /\ \/ signal = "enter" /\ EnterLong
       \/ signal \in {"exit", "bracket"} /\ ExitLong(signal)
       \/ Ignored(signal)
    /\ bar' = bar + 1
    /\ UNCHANGED <<model, benchmark, verdict>>

\* A position that is left at the end is sold at the last bar's open.
ForceExit ==
    /\ bar = LastBar + 1 /\ inPosition /\ model.force
    /\ trades' = Append(trades, TradeOf(entered.fill, Open(LastBar), "force_exit"))
    /\ inPosition' = FALSE
    /\ UNCHANGED <<model, bar, entered, benchmark, verdict>>

-----------------------------------------------------------------------------
(* verify_parity.                                                          *)

Shorter(s, t) == IF Len(s) < Len(t) THEN Len(s) ELSE Len(t)

\* Pairs, by their place in the lists, that differ.
Differing(bm, rp) == {i \in 1..Shorter(bm, rp) : bm[i] # rp[i]}

Mismatches(bm, rp) == Cardinality(Differing(bm, rp)) + (IF Len(bm) # Len(rp) THEN 1 ELSE 0)

\* matched trades as a share of the benchmark's.
AllMatched(bm, rp) ==
    Shorter(bm, rp) - Cardinality(Differing(bm, rp)) = (IF Len(bm) = 0 THEN 1 ELSE Len(bm))

Status(bm, rp) == IF AllMatched(bm, rp) /\ Mismatches(bm, rp) = 0 THEN "PASS" ELSE "FAIL"

\* Benchmarks near the replay's trades: the same, one less, one more, one changed.
Near(ts) ==
    {ts, Append(ts, TradeOf(Open(LastBar), CloseOf(LastBar), "bracket"))}
    \cup (IF ts = <<>> THEN {} ELSE {Front(ts)})
    \cup {ReplaceAt(ts, i, TradeOf(ts[i].in, m, r)) : i \in 1..Len(ts), m \in {CloseOf(LastBar), Inside(1)}, r \in Reasons}

Verify(bm) ==
    /\ bar = LastBar + 1 /\ ~(inPosition /\ model.force) /\ verdict = "none"
    /\ benchmark' = bm /\ verdict' = Status(bm, trades)
    /\ UNCHANGED <<model, bar, inPosition, entered, trades>>

ReplayNext ==
    \/ \E signal \in Signals : Feed(signal)
    \/ ForceExit
    \/ \E bm \in Near(trades) : Verify(bm)

ReplaySpec == ReplayInit /\ [][ReplayNext]_replayVars
-----------------------------------------------------------------------------
(* Properties.                                                             *)

\* The shape of every variable.
ReplayTypeOK ==
    /\ model \in Models /\ bar \in 1..(LastBar + 1) /\ inPosition \in BOOLEAN
    /\ inPosition => entered.fill \in Moments
    /\ {trades, benchmark} \subseteq Seq([in : Moments, out : Moments, reason : Reasons])
    /\ verdict \in {"none", "PASS", "FAIL"}

(* The replay holds one position at a time and time runs forward: no trade *)
(* ends before it begins, none begins before the last has ended, in every  *)
(* pairing of fill models the manifests use; and PASS is said of the       *)
(* benchmark's own trades and nothing else, never of none at all.          *)
TradesAreHonest ==
    /\ \A i \in 1..Len(trades) : NotAfter(trades[i].in, trades[i].out)
    /\ \A i \in 2..Len(trades) : NotAfter(trades[i - 1].out, trades[i].in)
    /\ verdict # "none" => (verdict = "PASS" <=> trades = benchmark /\ trades # <<>>)
=============================================================================
