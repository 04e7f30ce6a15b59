--------------------------- MODULE ParityEvidence ---------------------------
(***************************************************************************)
(* The parity report as evidence: a check reads its inputs one after the   *)
(* other, binds its verdict to their hashes and writes it down; files are  *)
(* edited, removed and put back at any time; and the LIVE gates later ask  *)
(* whether the report still describes what is on disk.                     *)
(*                                                                         *)
(* A file is the number of its content, 0 when it is absent; a hash is the *)
(* content itself.  Manifest m approves strategy content m.                *)
(***************************************************************************)
EXTENDS Integers, FiniteSets

CONSTANTS
    MaxContent, \* contents of a file
    MaxEdits    \* bound on edits

ASSUME EvidenceAssumption == MaxContent \in Nat \ {0} /\ MaxEdits \in Nat

\* The strategy stands for its helper too, and the raw files are one.
Bindable == {"manifest", "strategy", "csv", "candles", "rawTrades"}
Inputs == Bindable \cup {"otherCandles"}  \* the dataset main.py falls back to

VARIABLES
    disk,    \* content of every input
    edits,   \* how many there have been
    checker, \* the parity check: its step, what it has read, whether it replays raw trades
    report   \* benchmarks/reports

evidenceVars == <<disk, edits, checker, report>>

Nothing == [k \in Inputs |-> 0]
Resting == [step |-> "resting", thorough |-> FALSE, read |-> Nothing, disturbed |-> FALSE]
NoReport == [exists |-> FALSE, bound |-> Nothing, read |-> Nothing, thorough |-> FALSE, disturbed |-> FALSE]
-----------------------------------------------------------------------------
EvidenceInit ==
    /\ disk = [k \in Inputs |-> 1] /\ edits = 0
    /\ checker = Resting /\ report = NoReport

\* Someone edits, replaces or removes a file.
EditFile(k, c) ==
    /\ edits < MaxEdits /\ c # disk[k]
    /\ edits' = edits + 1 /\ disk' = [disk EXCEPT ![k] = c]
    /\ checker' = [checker EXCEPT !.disturbed = (checker.step # "resting")]
    /\ UNCHANGED report

-----------------------------------------------------------------------------
(* The parity check.                                                       *)

\* StrategyLoader.load_strategy.
StrategyApproved(d) == d["manifest"] # 0 /\ d["strategy"] = d["manifest"]

\* validate_raw_coverage.
RawCovered(d) == d["rawTrades"] # 0

\* The declared dataset or, when it is absent, the other.
Dataset(d) == IF d["candles"] # 0 THEN "candles" ELSE "otherCandles"

Reads(ks) == [k \in Inputs |-> IF k \in ks THEN disk[k] ELSE checker.read[k]]

\* The manifest names a dataset, the strategy is the approved one, and the raw files are there.
BeginCheck(thorough) ==
    /\ checker.step = "resting"
    /\ disk[Dataset(disk)] # 0 /\ StrategyApproved(disk)
    /\ thorough => RawCovered(disk)
    /\ checker' = [step |-> "candles", thorough |-> thorough,
                   read |-> Reads({"manifest", "strategy"}), disturbed |-> FALSE]
    /\ UNCHANGED <<disk, edits, report>>

\* load_dataset, and the fast replay.
ReadCandles ==
    /\ checker.step = "candles" /\ disk[Dataset(disk)] # 0
    /\ checker' = [checker EXCEPT !.step = IF checker.thorough THEN "raw" ELSE "compare",
                                  !.read = Reads({Dataset(disk)})]
    /\ UNCHANGED <<disk, edits, report>>

\* run_aggtrade_replay.
ReadRaw ==
    /\ checker.step = "raw" /\ RawCovered(disk)
    /\ checker' = [checker EXCEPT !.step = "compare", !.read = Reads({"rawTrades"})]
    /\ UNCHANGED <<disk, edits, report>>

\* verify_parity: the benchmark's trades.
ReadBenchmark ==
    /\ checker.step = "compare" /\ disk["csv"] # 0
    /\ checker' = [checker EXCEPT !.step = "verdict", !.read = Reads({"csv"})]
    /\ UNCHANGED <<disk, edits, report>>

\* bind_inputs, when the verdict has been reached.
BindInputs == [k \in Inputs |-> IF k \in Bindable THEN disk[k] ELSE 0]

(* A PASS replaces the report; a FAIL, whatever it was that was found,     *)
(* leaves it as it is and goes to a temporary path.                        *)
Conclusion(pass) ==
    /\ checker.step = "verdict"
    /\ pass => (checker.thorough => RawCovered(disk))
    /\ report' = IF pass
                   THEN [exists |-> TRUE, bound |-> BindInputs, read |-> checker.read,
                         thorough |-> checker.thorough, disturbed |-> checker.disturbed]
                   ELSE report
    /\ checker' = Resting
    /\ UNCHANGED <<disk, edits>>

\* A missing file or another error ends the check.
AbortCheck ==
    /\ checker.step # "resting"
    /\ checker' = Resting
    /\ UNCHANGED <<disk, edits, report>>

-----------------------------------------------------------------------------
(* The gates.                                                              *)

\* Mutant of Stale: raw files are compared only when they were there.
StaleIfPresent ==
    \/ \E k \in {"manifest", "strategy", "csv"} : report.bound[k] # disk[k]
    \/ \E k \in {"candles", "rawTrades"} : report.bound[k] # disk[k] /\ 0 \notin {report.bound[k], disk[k]}

\* binding_differences: a raw file that has disappeared is not a difference.
Stale ==
    \/ \E k \in Bindable \ {"rawTrades"} : report.bound[k] # disk[k]
    \/ report.bound["rawTrades"] # disk["rawTrades"] /\ disk["rawTrades"] # 0

\* Gates 4 to 9 and 25.
ParityAccepted ==
    /\ StrategyApproved(disk)
    /\ disk["candles"] # 0
    /\ report.exists /\ ~Stale
    /\ RawCovered(disk)

EvidenceNext ==
    \/ \E k \in Inputs, c \in 0..MaxContent : EditFile(k, c)
    \/ \E thorough \in BOOLEAN : BeginCheck(thorough)
    \/ ReadCandles \/ ReadRaw \/ ReadBenchmark \/ AbortCheck
    \/ \E pass \in BOOLEAN : Conclusion(pass)

EvidenceSpec == EvidenceInit /\ [][EvidenceNext]_evidenceVars
-----------------------------------------------------------------------------
(* Properties.                                                             *)

\* The shape of every variable.
EvidenceTypeOK ==
    /\ disk \in [Inputs -> 0..MaxContent] /\ edits \in 0..MaxEdits
    /\ checker \in [step : {"resting", "candles", "raw", "compare", "verdict"}, thorough : BOOLEAN,
                    read : [Inputs -> 0..MaxContent], disturbed : BOOLEAN]
    /\ report \in [exists : BOOLEAN, bound : [Inputs -> 0..MaxContent], read : [Inputs -> 0..MaxContent],
                   thorough : BOOLEAN, disturbed : BOOLEAN]

(* Money is staked on what was compared: when the gates accept the report  *)
(* of a check during which nothing was edited, every input it read is on   *)
(* disk as it was read, whatever was edited, removed and put back since,   *)
(* and also when the check had to fall back to another dataset.            *)
AcceptedReportDescribesInputs ==
    ParityAccepted /\ ~report.disturbed =>
        \A k \in Inputs : report.read[k] \in {0, disk[k]} /\ (report.read[k] # 0 => k \in Bindable)
=============================================================================
