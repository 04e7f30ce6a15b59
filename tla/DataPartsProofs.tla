--------------------------- MODULE DataPartsProofs ---------------------------
(***************************************************************************)
(* Proofs about the parts that repair, hold and judge the data, for any    *)
(* values of their constants: the repair of a gap, the parity evidence,    *)
(* the strategy's history, the replayed trades with their verdict, the     *)
(* figures of a parity check, and the start of a funded engine.            *)
(***************************************************************************)
EXTENDS GapRepair, ParityEvidence, KlineHistory, ReplayTrades, ParityFigures, LiveStart, SumProofs

-----------------------------------------------------------------------------
(* The repair of a gap.                                                    *)

AnyPage == \E rows \in SUBSET ((GapFrom - 1)..(GapTo + 1)) : Page(rows)

AnyFailure == \E final \in BOOLEAN : CallFails(final)

-----------------------------------------------------------------------------
(* The shape of the state.                                                 *)

\* Only an open gap is being recovered, and it has attempts left for as long as it is open.
Budget ==
    /\ job \in {"idle", "asking", "leaving"}
    /\ gapIs \in {"open", "recovered", "abandoned"}
    /\ job # "idle" => gapIs = "open"
    /\ attempts \in Nat /\ storeErrors \in 0..MaxStoreErrors
    /\ attempts <= TryMax + storeErrors
    /\ gapIs = "open" => attempts < TryMax + storeErrors

\* The sets of ids and the range of the gap.
Ranges ==
    /\ low \in GapFrom..GapTo /\ high \in GapFrom..GapTo /\ low <= high
    /\ inStore \subseteq GapFrom..GapTo /\ had \subseteq GapFrom..GapTo
    /\ collected \subseteq GapFrom..GapTo
    /\ ask \in (GapFrom..GapTo) \X (GapFrom..GapTo)

\* The counters of one attempt; while it asks, a call is left for the page.
Progress ==
    /\ cursor \in GapFrom..(GapTo + 1)
    /\ calls \in 0..CallMax /\ pages \in 0..PageMax
    /\ job = "asking" => calls < CallMax

Shape == Budget /\ Ranges /\ Progress

\* The inductive shape includes the type invariant.
LEMMA ShapeIsTypes == Shape => RepairTypeOK
<1>1. SUFFICES ASSUME Budget, Ranges, Progress PROVE RepairTypeOK
  BY DEF Shape
<1>2. attempts \in 0..(TryMax + MaxStoreErrors)
  BY <1>1, GapAssumption DEF Budget
<1> QED
  BY <1>1, <1>2 DEF RepairTypeOK, Budget, Ranges, Progress

\* A gap that was just found fits it.
LEMMA ShapeInit == GapInit => Shape
<1>1. SUFFICES ASSUME GapInit PROVE Shape
  OBVIOUS
<1>2. Budget
  BY <1>1, GapAssumption DEF GapInit, Budget
<1>3. Ranges
  BY <1>1, GapAssumption DEF GapInit, Ranges, Gap, Span
<1>4. Progress
  BY <1>1, GapAssumption DEF GapInit, Progress
<1> QED
  BY <1>2, <1>3, <1>4 DEF Shape

\* What is missing lies in the range asked for, and so do the ends a gap is narrowed to.
LEMMA MissingInRange ==
    ASSUME Ranges PROVE Missing \subseteq GapFrom..GapTo
<1>1. ask[1] \in GapFrom..GapTo /\ ask[2] \in GapFrom..GapTo
  BY DEF Ranges
<1>2. Span(ask) \subseteq GapFrom..GapTo
  BY <1>1, GapAssumption DEF Span
<1> QED
  BY <1>2 DEF Missing

\* A narrowed gap lies within the gap that was found.
LEMMA NarrowKeepsRange ==
    ASSUME Ranges, Narrow
    PROVE  low' \in GapFrom..GapTo /\ high' \in GapFrom..GapTo /\ low' <= high'
<1>1. PICK first, last \in Missing : Missing \subseteq first..last /\ low' = first /\ high' = last
  BY DEF Narrow
<1>2. first \in first..last /\ first \in GapFrom..GapTo /\ last \in GapFrom..GapTo
  BY <1>1, MissingInRange
<1> QED
  BY <1>1, <1>2, GapAssumption

\* The end of an attempt keeps the shape.
LEMMA ConcludeKeepsShape == Shape /\ Conclude => Shape'
<1>1. SUFFICES ASSUME Budget, Ranges, Progress, Conclude PROVE Shape'
  BY DEF Shape
<1>2. Budget'
  <2>1. CASE Complete
    BY <1>1, <2>1, GapAssumption DEF Budget, Conclude, Mark, Idle, record
  <2>2. CASE ~Complete /\ attempts + 1 >= TryMax
    BY <1>1, <2>2, GapAssumption DEF Budget, Conclude, Counted, Idle
  <2>3. CASE ~Complete /\ attempts + 1 < TryMax
    BY <1>1, <2>3, GapAssumption DEF Budget, Conclude, Counted, Idle
  <2> QED
    BY <1>1, <2>1, <2>2, <2>3, GapAssumption DEF Budget
<1>3. low' \in GapFrom..GapTo /\ high' \in GapFrom..GapTo /\ low' <= high'
  <2>1. CASE Narrow
    BY <1>1, <2>1, NarrowKeepsRange
  <2>2. CASE UNCHANGED <<low, high>>
    BY <1>1, <2>2 DEF Ranges
  <2> QED
    BY <1>1, <2>1, <2>2 DEF Conclude, Mark, Counted
<1>4. Ranges'
  BY <1>1, <1>3 DEF Ranges, Conclude, Idle, request, local
<1>5. Progress'
  BY <1>1 DEF Progress, Conclude, Idle, request, local
<1> QED
  BY <1>2, <1>4, <1>5 DEF Shape

\* So does an error of the store at its end.
LEMMA ConcludeFailsKeepsShape == Shape /\ ConcludeFails => Shape'
<1>1. SUFFICES ASSUME Budget, Ranges, Progress, ConcludeFails PROVE Shape'
  BY DEF Shape
<1>2. /\ storeErrors' = storeErrors + 1 /\ storeErrors < MaxStoreErrors
      /\ job = "leaving" /\ job' = "idle" /\ UNCHANGED <<request, local>>
      /\ UNCHANGED <<low, high>>
      /\ inStore' = inStore \/ inStore' = inStore \cup collected
      /\ \/ UNCHANGED <<gapIs, attempts>>
         \/ gapIs' = "recovered" /\ UNCHANGED attempts
         \/ UNCHANGED gapIs /\ attempts' = attempts + 1
  BY <1>1 DEF ConcludeFails, Mark, Idle, record
<1>3. Budget'
  BY <1>1, <1>2, GapAssumption DEF Budget
<1>4. Ranges'
  BY <1>1, <1>2 DEF Ranges, request, local
<1>5. Progress'
  BY <1>1, <1>2 DEF Progress, request, local
<1> QED
  BY <1>3, <1>4, <1>5 DEF Shape

\* So does a page.
LEMMA PageKeepsShape ==
    ASSUME Shape, NEW rows \in SUBSET ((GapFrom - 1)..(GapTo + 1)), Page(rows)
    PROVE  Shape'
<1>1. Budget /\ Ranges /\ Progress
  BY DEF Shape
<1>2. ask[1] \in GapFrom..GapTo /\ ask[2] \in GapFrom..GapTo
  BY <1>1 DEF Ranges
<1>3. /\ job = "asking" /\ pages' = pages + 1 /\ pages < PageMax /\ calls' = 0
      /\ job' \in {"asking", "leaving"}
      /\ collected' = collected \cup (rows \cap Span(ask))
      /\ cursor' = cursor \/ cursor' \in cursor..(ask[2] + 1)
      /\ UNCHANGED <<record, inStore, request, storeErrors>>
  BY DEF Page, More, Usable
<1>4. Budget'
  BY <1>1, <1>3 DEF Budget, record
<1>5. Ranges'
  <2>1. Span(ask) \subseteq GapFrom..GapTo
    BY <1>2, GapAssumption DEF Span
  <2> QED
    BY <1>1, <1>3, <2>1 DEF Ranges, record, request
<1>6. Progress'
  BY <1>1, <1>2, <1>3, GapAssumption DEF Progress
<1> QED
  BY <1>4, <1>5, <1>6 DEF Shape

\* And every other step.
LEMMA StepKeepsShape == Shape /\ [RepairNext]_repairVars => Shape'
<1>1. SUFFICES ASSUME Shape, [RepairNext]_repairVars PROVE Shape'
  OBVIOUS
<1>2. Budget /\ Ranges /\ Progress
  BY <1>1 DEF Shape
<1>3. ask[1] \in GapFrom..GapTo /\ ask[2] \in GapFrom..GapTo
  BY <1>2 DEF Ranges
<1>a. CASE Attempt
  <2>1. Budget'
    BY <1>2, <1>a DEF Budget, Attempt, record
  <2>2. Ranges'
    BY <1>2, <1>a DEF Ranges, Attempt, record, Gap, Span
  <2>3. Progress'
    BY <1>2, <1>a, GapAssumption DEF Ranges, Progress, Attempt
  <2> QED
    BY <2>1, <2>2, <2>3 DEF Shape
<1>b. CASE PassHeld
  <2>1. Budget' /\ Ranges'
    BY <1>2, <1>b DEF Budget, Ranges, PassHeld, record, request
  <2>2. Progress'
    BY <1>2, <1>3, <1>b, GapAssumption DEF Progress, PassHeld, More
  <2> QED
    BY <2>1, <2>2 DEF Shape
<1>c. CASE StopAsking
  BY <1>2, <1>c DEF Shape, Budget, Ranges, Progress, StopAsking, record, request, local
<1>d. CASE Conclude
  BY <1>1, <1>d, ConcludeKeepsShape
<1>e. CASE ConcludeFails
  BY <1>1, <1>e, ConcludeFailsKeepsShape
<1>f. CASE AnyFailure
  <2>1. PICK final \in BOOLEAN : CallFails(final)
    BY <1>f DEF AnyFailure
  <2>2. Budget' /\ Ranges'
    BY <1>2, <2>1 DEF Budget, Ranges, CallFails, record, request
  <2>3. calls' = calls + 1 /\ job = "asking" /\ (job' = "asking" => calls' # CallMax)
        /\ UNCHANGED <<cursor, pages>>
    BY <2>1 DEF CallFails
  <2>4. Progress'
    BY <1>2, <2>3, GapAssumption DEF Progress
  <2> QED
    BY <2>2, <2>4 DEF Shape
<1>g. CASE AnyPage
  BY <1>1, <1>g, PageKeepsShape DEF AnyPage
<1>h. CASE UNCHANGED repairVars
  BY <1>2, <1>h DEF Shape, Budget, Ranges, Progress, repairVars, record, request, local
<1> QED
  BY <1>1, <1>a, <1>b, <1>c, <1>d, <1>e, <1>f, <1>g, <1>h, Zenon DEF RepairNext, AnyPage, AnyFailure

(* The repair keeps within its budget, ranges and progress.                *)
THEOREM ShapeHolds == RepairSpec => []Shape
  BY ShapeInit, StepKeepsShape, PTL DEF RepairSpec

(* The variables keep their shape and the attempts their bound: the range  *)
(* stays within the detected one, and no page is asked for beyond the      *)
(* bounds of recover(), for any range and any bounds.                      *)
THEOREM RepairTypes == RepairSpec => []RepairTypeOK
  BY ShapeHolds, ShapeIsTypes, PTL

-----------------------------------------------------------------------------
(* Recovery is exact.                                                      *)

\* An attempt is about the gap as it is, and what it passed over is in the store.
Working == job # "idle" => gapIs = "open" /\ ask = Gap /\ had \subseteq inStore

Exact == Working /\ RecoveryIsExact

\* A new gap has collected nothing.
LEMMA ExactInit == GapInit => Exact
  BY GapAssumption DEF GapInit, Exact, Working, RecoveryIsExact, Gap, Span

\* What the attempt stored, whether or not it came to speak of the gap.
LEMMA Stored ==
    ASSUME Shape, Exact, job # "idle"
    PROVE  /\ Complete => GapFrom..GapTo \subseteq inStore \cup collected
           /\ (GapFrom..GapTo) \ (inStore \cup collected) \subseteq Missing
<1>1. (GapFrom..GapTo) \ inStore \subseteq Span(ask) /\ had \subseteq inStore
  BY DEF Exact, Working, RecoveryIsExact
<1>2. (GapFrom..GapTo) \ (inStore \cup collected) \subseteq Missing
  BY <1>1 DEF Missing
<1> QED
  BY <1>2 DEF Complete

\* What an attempt has passed over is stored, step by step.
LEMMA StepKeepsExact == Shape /\ Exact /\ [RepairNext]_repairVars => Exact'
<1>1. SUFFICES ASSUME Shape, Exact, [RepairNext]_repairVars PROVE Exact'
  OBVIOUS
<1>2. Budget /\ Ranges /\ Progress
  BY <1>1 DEF Shape
<1>3. ask[1] \in Int /\ ask[2] \in Int /\ cursor \in Int /\ low \in Int /\ high \in Int
  BY <1>2, GapAssumption DEF Ranges, Progress
<1>a. CASE Attempt
  <2>1. ask' = <<low, high>> /\ cursor' = low
    BY <1>a DEF Attempt, Gap
  <2>2. ask'[1]..(cursor' - 1) = {}
    BY <1>3, <2>1
  <2> QED
    BY <1>1, <1>a, <2>2 DEF Exact, Working, RecoveryIsExact, Attempt, Gap, Span, record
<1>b. CASE PassHeld
  <2>1. ask'[1]..(cursor' - 1) \subseteq (ask[1]..(cursor - 1)) \cup {cursor}
    BY <1>3, <1>b DEF PassHeld, request
  <2> QED
    BY <1>1, <1>b, <2>1 DEF Exact, Working, RecoveryIsExact, PassHeld, Gap, Span, record, request
<1>c. CASE StopAsking
  BY <1>1, <1>c DEF Exact, Working, RecoveryIsExact, StopAsking, Gap, Span, record, request, local
<1>d. CASE Conclude
  <2>1. job # "idle" /\ job' = "idle" /\ inStore' = inStore \cup collected
    BY <1>d DEF Conclude, Idle
  <2>2. CASE Complete
    BY <1>1, <1>d, <2>1, <2>2, Stored DEF Exact, Working, RecoveryIsExact, Conclude, Mark
  <2>3. CASE ~Complete /\ gapIs' = "abandoned"
    BY <2>1, <2>3 DEF Exact, Working, RecoveryIsExact
  <2>4. CASE ~Complete /\ UNCHANGED gapIs /\ Narrow
    <3>1. Missing \subseteq Span(Gap)'
      BY <2>4 DEF Narrow, Span, Gap
    <3>2. gapIs = "open"
      BY <1>1, <2>1 DEF Exact, Working
    <3> QED
      BY <1>1, <2>1, <2>4, <3>1, <3>2, Stored DEF Exact, Working, RecoveryIsExact
  <2> QED
    BY <1>d, <2>2, <2>3, <2>4 DEF Conclude, Counted
<1>e. CASE ConcludeFails
  <2>1. job # "idle" /\ job' = "idle" /\ gapIs = "open" /\ UNCHANGED <<low, high>>
    BY <1>1, <1>e DEF ConcludeFails, Idle, Mark, record, Exact, Working
  <2>2. \/ inStore \subseteq inStore' /\ UNCHANGED gapIs
        \/ Complete /\ inStore' = inStore \cup collected /\ gapIs' = "recovered"
    BY <1>e DEF ConcludeFails, Mark, record
  <2> QED
    BY <1>1, <2>1, <2>2, Stored DEF Exact, Working, RecoveryIsExact, Gap, Span
<1>f. CASE AnyFailure
  BY <1>1, <1>f DEF AnyFailure, CallFails, Exact, Working, RecoveryIsExact, Gap, Span, record, request
<1>g. CASE AnyPage
  <2>1. PICK rows \in SUBSET ((GapFrom - 1)..(GapTo + 1)) : Page(rows)
    BY <1>g DEF AnyPage
  <2>2. collected \subseteq collected' /\ UNCHANGED <<record, inStore, request>> /\ job = "asking"
    BY <2>1 DEF Page
  <2>3. ask[1]..(cursor' - 1) \subseteq collected' \cup had
    <3>1. CASE UNCHANGED cursor
      BY <1>1, <2>2, <3>1 DEF Exact, RecoveryIsExact
    <3>2. CASE \E next \in cursor..(ask[2] + 1) : Frontier(next, collected') /\ cursor' = next
      <4>1. PICK next \in cursor..(ask[2] + 1) : Frontier(next, collected') /\ cursor' = next
        BY <3>2
      <4>2. cursor..(next - 1) \subseteq collected' \cup had
        BY <4>1 DEF Frontier
      <4>3. ask[1]..(next - 1) \subseteq (ask[1]..(cursor - 1)) \cup (cursor..(next - 1))
        BY <1>3, <4>1
      <4> QED
        BY <1>1, <2>2, <4>1, <4>2, <4>3 DEF Exact, RecoveryIsExact
    <3> QED
      BY <2>1, <3>1, <3>2 DEF Page
  <2> QED
    BY <1>1, <2>2, <2>3 DEF Exact, Working, RecoveryIsExact, Gap, Span, record, request
<1>h. CASE UNCHANGED repairVars
  BY <1>1, <1>h DEF Exact, Working, RecoveryIsExact, Gap, Span, repairVars, record, request, local
<1> QED
  BY <1>1, <1>a, <1>b, <1>c, <1>d, <1>e, <1>f, <1>g, <1>h, Zenon DEF RepairNext, AnyPage, AnyFailure

(* For any range and any pages of the exchange: nothing is missing behind  *)
(* the cursor of recover(), a gap marked recovered has all its trades in   *)
(* the store, and a narrowed gap still covers whatever is missing.         *)
THEOREM RecoveryExact == RepairSpec => []RecoveryIsExact
<1>1. Exact => RecoveryIsExact
  BY DEF Exact
<1> QED
  BY <1>1, ShapeHolds, ExactInit, StepKeepsExact, PTL DEF RepairSpec

-----------------------------------------------------------------------------
(* The parity evidence.                                                    *)

(* Types of the parity evidence.                                           *)

Contents == [Inputs -> 0..MaxContent]

Checks == [step : {"resting", "candles", "raw", "compare", "verdict"}, thorough : BOOLEAN,
           read : Contents, disturbed : BOOLEAN]

Reports == [exists : BOOLEAN, bound : Contents, read : Contents, thorough : BOOLEAN, disturbed : BOOLEAN]

\* The type invariant, by variables.
LEMMA EvidenceTypeIs ==
    EvidenceTypeOK <=> disk \in Contents /\ edits \in 0..MaxEdits /\ checker \in Checks /\ report \in Reports
BY Zenon DEF EvidenceTypeOK, Contents, Checks, Reports

\* The empty content of every input.
LEMMA NothingType == Nothing \in Contents /\ \A k \in Inputs : Nothing[k] = 0
BY EvidenceAssumption DEF Nothing, Contents

\* A checker at rest has read nothing.
LEMMA RestingType == Resting \in Checks /\ Resting.read = Nothing /\ Resting.step = "resting"
BY NothingType DEF Resting, Checks

\* What a step reads is read from disk, and the rest stays as it was read.
LEMMA ReadsType ==
    ASSUME EvidenceTypeOK, NEW ks
    PROVE  /\ Reads(ks) \in Contents
           /\ \A k \in Inputs : Reads(ks)[k] = IF k \in ks THEN disk[k] ELSE checker.read[k]
BY EvidenceTypeIs DEF Reads, Contents, Checks

\* A binding describes what is on disk.
LEMMA BindType ==
    ASSUME EvidenceTypeOK
    PROVE  /\ BindInputs \in Contents
           /\ \A k \in Bindable : BindInputs[k] = disk[k]
BY EvidenceTypeIs, EvidenceAssumption DEF BindInputs, Contents, Inputs

\* At first there is no report.
LEMMA EvidenceInitType == EvidenceInit => EvidenceTypeOK
<1> SUFFICES ASSUME EvidenceInit PROVE EvidenceTypeOK
  OBVIOUS
<1>1. disk \in Contents /\ edits \in 0..MaxEdits
  BY EvidenceAssumption DEF EvidenceInit, Contents
<1>2. NoReport \in Reports
  BY NothingType, Zenon DEF NoReport, Reports
<1> QED
  BY <1>1, <1>2, RestingType, EvidenceTypeIs, Zenon DEF EvidenceInit

\* A step of the check that reads one file more.
LEMMA ReadStepType ==
    ASSUME EvidenceTypeOK, NEW ks, NEW s \in {"candles", "raw", "compare", "verdict"}
    PROVE  [checker EXCEPT !.step = s, !.read = Reads(ks)] \in Checks
BY ReadsType, EvidenceTypeIs DEF Checks

\* Every step keeps the types.
LEMMA EvidenceTypeStep ==
    ASSUME EvidenceTypeOK, [EvidenceNext]_evidenceVars
    PROVE  EvidenceTypeOK'
<1>0. disk \in Contents /\ edits \in 0..MaxEdits /\ checker \in Checks /\ report \in Reports
  BY EvidenceTypeIs
<1>9. EvidenceTypeOK' <=>
        (disk \in Contents /\ edits \in 0..MaxEdits /\ checker \in Checks /\ report \in Reports)'
  BY EvidenceTypeIs, PTL
<1> SUFFICES disk' \in Contents /\ edits' \in 0..MaxEdits /\ checker' \in Checks /\ report' \in Reports
  BY <1>9, Zenon
<1>1. ASSUME NEW k \in Inputs, NEW c \in 0..MaxContent, EditFile(k, c)
      PROVE  disk' \in Contents /\ edits' \in 0..MaxEdits /\ checker' \in Checks /\ report' \in Reports
  <2>1. [disk EXCEPT ![k] = c] \in Contents
    BY <1>0 DEF Contents
  <2>2. edits + 1 \in 0..MaxEdits
    BY <1>0, <1>1, EvidenceAssumption DEF EditFile
  <2>3. [checker EXCEPT !.disturbed = (checker.step # "resting")] \in Checks
    BY <1>0 DEF Checks
  <2> QED
    BY <1>0, <1>1, <2>1, <2>2, <2>3, Zenon DEF EditFile
<1>2. ASSUME NEW thorough \in BOOLEAN, BeginCheck(thorough)
      PROVE  disk' \in Contents /\ edits' \in 0..MaxEdits /\ checker' \in Checks /\ report' \in Reports
  <2>1. [step |-> "candles", thorough |-> thorough, read |-> Reads({"manifest", "strategy"}),
         disturbed |-> FALSE] \in Checks
    BY ReadsType DEF Checks
  <2> QED
    BY <1>0, <1>2, <2>1, Zenon DEF BeginCheck
<1>3. CASE ReadCandles
  <2>1. (IF checker.thorough THEN "raw" ELSE "compare") \in {"candles", "raw", "compare", "verdict"}
    OBVIOUS
  <2> QED
    BY <1>0, <1>3, <2>1, ReadStepType, Zenon DEF ReadCandles
<1>4. CASE ReadRaw
  BY <1>0, <1>4, ReadStepType, Zenon DEF ReadRaw
<1>5. CASE ReadBenchmark
  BY <1>0, <1>5, ReadStepType, Zenon DEF ReadBenchmark
<1>6. CASE AbortCheck
  BY <1>0, <1>6, RestingType, Zenon DEF AbortCheck
<1>7. ASSUME NEW pass \in BOOLEAN, Conclusion(pass)
      PROVE  disk' \in Contents /\ edits' \in 0..MaxEdits /\ checker' \in Checks /\ report' \in Reports
  <2>1. [exists |-> TRUE, bound |-> BindInputs, read |-> checker.read,
         thorough |-> checker.thorough, disturbed |-> checker.disturbed] \in Reports
    BY <1>0, BindType DEF Reports, Checks
  <2> QED
    BY <1>0, <1>7, <2>1, RestingType, Zenon DEF Conclusion
<1>8. CASE UNCHANGED evidenceVars
  BY <1>0, <1>8, Zenon DEF evidenceVars
<1> QED
  BY <1>1, <1>2, <1>3, <1>4, <1>5, <1>6, <1>7, <1>8, Zenon DEF EvidenceNext

(* Every variable keeps its shape, whatever the bounds.                    *)
THEOREM EvidenceTypes == EvidenceSpec => []EvidenceTypeOK
<1>1. EvidenceTypeOK /\ [EvidenceNext]_evidenceVars => EvidenceTypeOK'
  BY EvidenceTypeStep
<1> QED
  BY <1>1, EvidenceInitType, PTL DEF EvidenceSpec

-----------------------------------------------------------------------------
(* What a report describes.                                                *)

(* A check that was left alone has read what is on disk, and the other     *)
(* dataset only while the declared one is absent.                          *)
CheckDescribesDisk ==
    /\ checker.step = "resting" => checker.read = Nothing
    /\ ~checker.disturbed =>
         /\ \A k \in Inputs : checker.read[k] \in {0, disk[k]}
         /\ checker.read["otherCandles"] # 0 => disk["candles"] = 0

(* The report of such a check is bound to what it read, if that can be     *)
(* bound at all.                                                           *)
ReportDescribesCheck ==
    ~report.disturbed =>
        /\ \A k \in Bindable : report.read[k] \in {0, report.bound[k]}
        /\ report.read["otherCandles"] # 0 => report.bound["candles"] = 0

EvidenceInv == EvidenceTypeOK /\ CheckDescribesDisk /\ ReportDescribesCheck

\* Reading a file, and with it the other dataset only if the declared one is absent.
LEMMA ReadingDescribes ==
    ASSUME EvidenceTypeOK, CheckDescribesDisk, NEW ks,
           "otherCandles" \in ks => disk["candles"] = 0,
           disk' = disk, checker'.step # "resting", checker'.read = Reads(ks),
           ~checker'.disturbed => ~checker.disturbed
    PROVE  CheckDescribesDisk'
<1>1. ASSUME ~checker'.disturbed
      PROVE  /\ \A k \in Inputs : checker'.read[k] \in {0, disk'[k]}
             /\ checker'.read["otherCandles"] # 0 => disk'["candles"] = 0
  <2>1. \A k \in Inputs : checker.read[k] \in {0, disk[k]}
    BY <1>1, Zenon DEF CheckDescribesDisk
  <2>2. \A k \in Inputs : checker'.read[k] = IF k \in ks THEN disk[k] ELSE checker.read[k]
    BY ReadsType
  <2>3. "otherCandles" \in Inputs
    BY DEF Inputs
  <2>4. checker.read["otherCandles"] # 0 => disk["candles"] = 0
    BY <1>1, Zenon DEF CheckDescribesDisk
  <2> QED
    BY <2>1, <2>2, <2>3, <2>4
<1> QED
  BY <1>1, Zenon DEF CheckDescribesDisk

\* An edit disturbs the check; reading keeps up with the disk.
LEMMA CheckDescribesStep ==
    ASSUME EvidenceTypeOK, CheckDescribesDisk, [EvidenceNext]_evidenceVars
    PROVE  CheckDescribesDisk'
<1>0. checker \in Checks
  BY EvidenceTypeIs
<1>1. ASSUME NEW k \in Inputs, NEW c \in 0..MaxContent, EditFile(k, c)
      PROVE  CheckDescribesDisk'
  <2>1. /\ checker'.step = checker.step /\ checker'.read = checker.read
        /\ checker'.disturbed = (checker.step # "resting")
    BY <1>0, <1>1 DEF EditFile, Checks
  <2>2. ASSUME checker.step = "resting"
        PROVE  checker'.read = Nothing
    BY <2>1, <2>2, Zenon DEF CheckDescribesDisk
  <2>3. "otherCandles" \in Inputs
    BY DEF Inputs
  <2> QED
    BY <2>1, <2>2, <2>3, NothingType, Zenon DEF CheckDescribesDisk
<1>2. ASSUME NEW thorough \in BOOLEAN, BeginCheck(thorough)
      PROVE  CheckDescribesDisk'
  <2> DEFINE ks == {"manifest", "strategy"}
  <2>1. checker' = [step |-> "candles", thorough |-> thorough, read |-> Reads(ks), disturbed |-> FALSE]
    BY <1>2, Zenon DEF BeginCheck
  <2>2. checker'.step = "candles" /\ checker'.read = Reads(ks)
    BY <2>1
  <2>3. checker.read = Nothing /\ disk' = disk
    BY <1>2, Zenon DEF BeginCheck, CheckDescribesDisk
  <2>4. \A k \in Inputs : checker'.read[k] \in {0, disk[k]}
    BY <2>2, <2>3, ReadsType, NothingType
  <2>5. checker'.read["otherCandles"] = 0
    <3>1. "otherCandles" \in Inputs /\ "otherCandles" \notin ks
      BY DEF Inputs
    <3> QED
      BY <2>2, <2>3, <3>1, ReadsType, NothingType
  <2> QED
    BY <2>2, <2>3, <2>4, <2>5 DEF CheckDescribesDisk
<1>3. CASE ReadCandles
  <2>1. /\ checker'.step # "resting" /\ checker'.read = Reads({Dataset(disk)})
        /\ checker'.disturbed = checker.disturbed /\ disk' = disk
    BY <1>0, <1>3 DEF ReadCandles, Checks
  <2>2. "otherCandles" \in {Dataset(disk)} => disk["candles"] = 0
    BY DEF Dataset
  <2> QED
    BY <2>1, <2>2, ReadingDescribes
<1>4. CASE ReadRaw
  <2>1. /\ checker'.step # "resting" /\ checker'.read = Reads({"rawTrades"})
        /\ checker'.disturbed = checker.disturbed /\ disk' = disk
    BY <1>0, <1>4 DEF ReadRaw, Checks
  <2> QED
    BY <2>1, ReadingDescribes
<1>5. CASE ReadBenchmark
  <2>1. /\ checker'.step # "resting" /\ checker'.read = Reads({"csv"})
        /\ checker'.disturbed = checker.disturbed /\ disk' = disk
    BY <1>0, <1>5 DEF ReadBenchmark, Checks
  <2> QED
    BY <2>1, ReadingDescribes
<1>6. ASSUME checker' = Resting PROVE CheckDescribesDisk'
  <2>1. "otherCandles" \in Inputs
    BY DEF Inputs
  <2> QED
    BY <1>6, <2>1, RestingType, NothingType, Zenon DEF CheckDescribesDisk
<1>7. CASE AbortCheck
  BY <1>6, <1>7, Zenon DEF AbortCheck
<1>8. ASSUME NEW pass \in BOOLEAN, Conclusion(pass) PROVE CheckDescribesDisk'
  BY <1>6, <1>8, Zenon DEF Conclusion
<1>9. CASE UNCHANGED evidenceVars
  BY <1>9, Zenon DEF evidenceVars, CheckDescribesDisk
<1> QED
  BY <1>1, <1>2, <1>3, <1>4, <1>5, <1>7, <1>8, <1>9, Zenon DEF EvidenceNext

\* A report is bound as the check ends.
LEMMA ReportDescribesStep ==
    ASSUME EvidenceTypeOK, CheckDescribesDisk, ReportDescribesCheck, [EvidenceNext]_evidenceVars
    PROVE  ReportDescribesCheck'
<1>1. ASSUME report' = report PROVE ReportDescribesCheck'
  BY <1>1, Zenon DEF ReportDescribesCheck
<1>2. ASSUME NEW pass \in BOOLEAN, Conclusion(pass), pass PROVE ReportDescribesCheck'
  <2>1. report' = [exists |-> TRUE, bound |-> BindInputs, read |-> checker.read,
                   thorough |-> checker.thorough, disturbed |-> checker.disturbed]
    BY <1>2, Zenon DEF Conclusion
  <2>2. report'.bound = BindInputs /\ report'.read = checker.read /\ report'.disturbed = checker.disturbed
    BY <2>1
  <2>3. Bindable \subseteq Inputs /\ "candles" \in Bindable
    BY DEF Bindable, Inputs
  <2>4. \A k \in Bindable : BindInputs[k] = disk[k]
    BY BindType
  <2>5. ASSUME ~checker.disturbed
        PROVE  /\ \A k \in Bindable : checker.read[k] \in {0, BindInputs[k]}
               /\ checker.read["otherCandles"] # 0 => BindInputs["candles"] = 0
    BY <2>3, <2>4, <2>5 DEF CheckDescribesDisk
  <2> QED
    BY <2>2, <2>5 DEF ReportDescribesCheck
<1>3. ASSUME NEW pass \in BOOLEAN, Conclusion(pass), ~pass PROVE report' = report
  BY <1>3, Zenon DEF Conclusion
<1>4. ASSUME NEW k \in Inputs, NEW c \in 0..MaxContent, EditFile(k, c) PROVE report' = report
  BY <1>4, Zenon DEF EditFile
<1>5. ASSUME NEW thorough \in BOOLEAN, BeginCheck(thorough) PROVE report' = report
  BY <1>5, Zenon DEF BeginCheck
<1>6. CASE ReadCandles \/ ReadRaw \/ ReadBenchmark \/ AbortCheck \/ UNCHANGED evidenceVars
  BY <1>1, <1>6, Zenon DEF ReadCandles, ReadRaw, ReadBenchmark, AbortCheck, evidenceVars
<1> QED
  BY <1>1, <1>2, <1>3, <1>4, <1>5, <1>6, Zenon DEF EvidenceNext

\* So it is of every behaviour.
LEMMA EvidenceInvariant == EvidenceSpec => []EvidenceInv
<1>1. EvidenceInit => CheckDescribesDisk /\ ReportDescribesCheck
  <2> SUFFICES ASSUME EvidenceInit PROVE CheckDescribesDisk /\ ReportDescribesCheck
    OBVIOUS
  <2>1. "otherCandles" \in Inputs /\ Bindable \subseteq Inputs
    BY DEF Bindable, Inputs
  <2>2. checker = Resting /\ report = NoReport
    BY Zenon DEF EvidenceInit
  <2>3. report.read = Nothing
    BY <2>2 DEF NoReport
  <2> QED
    BY <2>1, <2>2, <2>3, RestingType, NothingType, Zenon DEF CheckDescribesDisk, ReportDescribesCheck
<1>2. EvidenceInv /\ [EvidenceNext]_evidenceVars => CheckDescribesDisk' /\ ReportDescribesCheck'
  BY CheckDescribesStep, ReportDescribesStep DEF EvidenceInv
<1> QED
  BY <1>1, <1>2, EvidenceTypes, PTL DEF EvidenceSpec, EvidenceInv

(* When the gates accept the report of a check that was left alone, every  *)
(* input the check read is on disk as it was read.                         *)
THEOREM AcceptedEvidence == EvidenceSpec => []AcceptedReportDescribesInputs
<1>1. EvidenceInv => AcceptedReportDescribesInputs
  <2> SUFFICES ASSUME EvidenceInv, ParityAccepted, ~report.disturbed, NEW k \in Inputs
               PROVE  report.read[k] \in {0, disk[k]} /\ (report.read[k] # 0 => k \in Bindable)
    BY Zenon DEF AcceptedReportDescribesInputs
  <2>1. \A j \in Bindable : report.bound[j] = disk[j]
    BY Zenon DEF ParityAccepted, Stale, RawCovered
  <2>2. \A j \in Bindable : report.read[j] \in {0, report.bound[j]}
    BY Zenon DEF EvidenceInv, ReportDescribesCheck
  <2>3. report.read["otherCandles"] = 0
    <3>1. disk["candles"] # 0 /\ "candles" \in Bindable
      BY DEF ParityAccepted, Bindable
    <3>2. report.bound["candles"] # 0
      BY <2>1, <3>1, Zenon
    <3> QED
      BY <3>2, Zenon DEF EvidenceInv, ReportDescribesCheck
  <2>4. k \in Bindable \/ k = "otherCandles"
    BY DEF Inputs
  <2> QED
    BY <2>1, <2>2, <2>3, <2>4
<1> QED
  BY <1>1, EvidenceInvariant, PTL

-----------------------------------------------------------------------------
(* The strategy's history.                                                 *)

(* In a finite set of bars every place is some bar's: the bars up to it    *)
(* are counted differently for each.                                       *)
LEMMA EveryPlaceIsTaken ==
    ASSUME NEW S \in SUBSET Int, IsFiniteSet(S), NEW n \in 1..Cardinality(S)
    PROVE  \E b \in S : Cardinality({c \in S : c <= b}) = n
<1> DEFINE upto(b) == {c \in S : c <= b}
           N == Cardinality(S)
           rank == [b \in S |-> Cardinality(upto(b))]
<1>1. N \in Nat
  BY FS_CardinalityType
<1>2. \A b \in S : IsFiniteSet(upto(b)) /\ Cardinality(upto(b)) \in 1..N
  <2> SUFFICES ASSUME NEW b \in S PROVE IsFiniteSet(upto(b)) /\ Cardinality(upto(b)) \in 1..N
    OBVIOUS
  <2>1. upto(b) \in SUBSET S /\ b \in upto(b)
    OBVIOUS
  <2>2. IsFiniteSet(upto(b)) /\ Cardinality(upto(b)) <= N /\ Cardinality(upto(b)) \in Nat
    <3> HIDE DEF upto
    <3> QED
      BY <2>1, FS_Subset, FS_CardinalityType
  <2>3. Cardinality(upto(b)) # 0
    <3> HIDE DEF upto
    <3> QED
      BY <2>1, <2>2, FS_EmptySet
  <2> HIDE DEF upto
  <2> QED
    BY <1>1, <2>2, <2>3
<1>3. \A a, b \in S : a < b => Cardinality(upto(a)) # Cardinality(upto(b))
  <2> SUFFICES ASSUME NEW a \in S, NEW b \in S, a < b PROVE Cardinality(upto(a)) # Cardinality(upto(b))
    OBVIOUS
  <2>1. b \in upto(b) /\ b \notin upto(a)
    OBVIOUS
  <2>2. \A c \in S : c <= a => c <= b
    OBVIOUS
  <2>3. upto(a) \in SUBSET upto(b)
    BY <2>2
  <2> HIDE DEF upto
  <2>4. IsFiniteSet(upto(b))
    BY <1>2
  <2> QED
    BY <2>1, <2>3, <2>4, FS_Subset
<1>4. \A b \in S : rank[b] = Cardinality(upto(b))
  OBVIOUS
<1>5. rank \in [S -> 1..N]
  <2> HIDE DEF upto, N
  <2> QED
    BY <1>2
<1>6. \A a, b \in S : rank[a] = rank[b] => a = b
  <2> HIDE DEF upto, N, rank
  <2>1. \A a, b \in S : a < b \/ b < a \/ a = b
    OBVIOUS
  <2> QED
    BY <1>3, <1>4, <2>1
<1> HIDE DEF upto, N, rank
<1>7. rank \in Injection(S, 1..N)
  BY <1>5, <1>6 DEF Injection, IsInjective
<1>8. IsFiniteSet(1..N) /\ Cardinality(1..N) = N
  BY <1>1, FS_Interval
<1>9. rank \in Surjection(S, 1..N)
  BY <1>7, <1>8, FS_Injection DEF N
<1>10. PICK b \in S : rank[b] = n
  BY <1>9 DEF Surjection, N
<1> QED
  BY <1>4, <1>10 DEF upto

\* So what InOrder makes of a finite set of bars is a sequence of its bars.
LEMMA InOrderIsOfTheSet ==
    ASSUME NEW S \in SUBSET Int, IsFiniteSet(S)
    PROVE  /\ InOrder(S) \in Seq(S) /\ InOrder(S) \in Seq(Int)
           /\ \A i \in 1..Len(InOrder(S)) : InOrder(S)[i] \in S
<1>1. \A n \in 1..Cardinality(S) : (CHOOSE b \in S : Cardinality({c \in S : c <= b}) = n) \in S
  BY EveryPlaceIsTaken
<1>2. Cardinality(S) \in Nat
  BY FS_CardinalityType
<1>3. InOrder(S) \in [1..Cardinality(S) -> S]
  BY <1>1 DEF InOrder
<1>4. InOrder(S) \in Seq(S)
  BY <1>2, <1>3
<1>5. InOrder(S) \in [1..Cardinality(S) -> Int]
  BY <1>3
<1>6. InOrder(S) \in Seq(Int)
  BY <1>2, <1>5
<1> QED
  BY <1>4, <1>6

\* A finite set of bars up to some bound has a greatest.
LEMMA GreatestBar ==
    ASSUME NEW S \in SUBSET Int, S # {}, NEW m \in Int, \A r \in S : r <= m
    PROVE  Max(S) \in S
<1> DEFINE below == {n \in Nat : m - n \in S}
<1>1. below # {}
  <2>1. PICK r \in S : TRUE
    OBVIOUS
  <2>2. m - r \in Nat /\ m - (m - r) = r
    OBVIOUS
  <2> QED
    BY <2>1, <2>2
<1>2. PICK n \in below : \A k \in below : n <= k
  <2>1. below \in SUBSET Nat
    OBVIOUS
  <2> HIDE DEF below
  <2> QED
    BY <1>1, <2>1, LeastNumber
<1>3. \A y \in S : m - n >= y
  <2> SUFFICES ASSUME NEW y \in S PROVE m - n >= y
    OBVIOUS
  <2>1. m - y \in Nat /\ m - (m - y) = y
    OBVIOUS
  <2>2. m - y \in below
    BY <2>1
  <2>3. n <= m - y /\ n \in Nat
    BY <1>2, <2>2
  <2> QED
    BY <2>1, <2>3
<1>4. m - n \in S
  BY <1>2
<1> QED
  BY <1>3, <1>4 DEF Max

\* The tail of a sequence keeps its elements in their order.
LEMMA LastOfIsTail ==
    ASSUME NEW s \in Seq(Int), s # <<>>, NEW n \in Nat \ {0}
    PROVE  /\ LastOf(s, n) \in Seq(Int) /\ LastOf(s, n) # <<>>
           /\ \E d \in Nat : /\ Len(LastOf(s, n)) + d = Len(s)
                             /\ \A i \in 1..Len(LastOf(s, n)) : LastOf(s, n)[i] = s[i + d]
<1>1. Len(s) \in Nat /\ Len(s) >= 1
  OBVIOUS
<1> DEFINE Rest(q) == /\ q \in Seq(Int) /\ q # <<>>
                      /\ \E d \in Nat : /\ Len(q) + d = Len(s)
                                        /\ \A i \in 1..Len(q) : q[i] = s[i + d]
<1>2. CASE Len(s) <= n
  <2>1. LastOf(s, n) = s
    BY <1>2 DEF LastOf
  <2>2. Len(s) + 0 = Len(s) /\ \A i \in 1..Len(s) : s[i] = s[i + 0]
    <3>1. \A i \in 1..Len(s) : i + 0 = i
      BY <1>1
    <3> QED
      BY <1>1, <3>1
  <2>3. Rest(s)
    BY <2>2
  <2> HIDE DEF Rest
  <2>4. Rest(LastOf(s, n))
    BY <2>1, <2>3
  <2> QED
    BY <2>4 DEF Rest
<1>3. CASE Len(s) > n
  <2> DEFINE d == Len(s) - n
             r == SubSeq(s, d + 1, Len(s))
  <2>1. d \in Nat /\ d + n = Len(s)
    BY <1>1, <1>3
  <2>2. LastOf(s, n) = r
    BY <1>1, <1>3 DEF LastOf
  <2>3. /\ r \in Seq(Int) /\ Len(r) = n
        /\ \A i \in 1..n : r[i] = s[i + d]
    BY <1>1, <2>1
  <2>4. r # <<>>
    BY <2>3
  <2> HIDE DEF r, d
  <2>5. Len(r) + d = Len(s) /\ \A i \in 1..Len(r) : r[i] = s[i + d]
    BY <1>1, <2>1, <2>3
  <2>6. Rest(r)
    BY <2>1, <2>3, <2>4, <2>5
  <2> HIDE DEF Rest
  <2>7. Rest(LastOf(s, n))
    BY <2>2, <2>6
  <2> QED
    BY <2>7 DEF Rest
<1> QED
  BY <1>1, <1>2, <1>3

\* A history that follows itself, or comes from one file where it does not.
Joined(q) ==
    \A i \in 2..Len(q) :
        Follows(q, i) \/ (~backfilled /\ \E f \in Files : {q[i - 1], q[i]} \subseteq f)

\* A sequence of bars that have closed.
Closed(q) == q \in Seq(Int) /\ \A i \in 1..Len(q) : q[i] <= clock

\* The locals of fetch_closed_klines.
FetchType ==
    [start : Int, stop : Int, cursor : Int, rows : SUBSET Int, out : Seq(Int), tries : Nat,
     host : {"main", "testnet"}]

(* The inductive invariant: what has been fetched so far has closed, and   *)
(* so has all that is still asked for; the bar that waits for the healing  *)
(* lies behind the history.                                                *)
WholeInv ==
    /\ clock \in Nat /\ stage \in {"off", "backfill", "live", "heal", "failed"}
    /\ Closed(history) /\ Closed(fetch.out)
    /\ stage \in {"backfill", "live", "heal"} => history # <<>>
    /\ fetch \in FetchType /\ \A r \in fetch.rows : r <= clock + 1
    /\ IsFiniteSet(fetch.rows)
    /\ Asking => fetch.stop <= clock
    /\ stage = "backfill" => backfilled
    /\ stage = "heal" => due \in Int /\ due <= clock /\ due > Last(history)
    /\ stage \in {"live", "heal"} => Joined(history)

\* The tail of such a history is one.
LEMMA TailIsWhole ==
    ASSUME NEW q, Closed(q), q # <<>>, NEW n \in Nat \ {0}
    PROVE  /\ Closed(LastOf(q, n)) /\ LastOf(q, n) # <<>>
           /\ Joined(q) => Joined(LastOf(q, n))
<1>1. q \in Seq(Int)
  BY DEF Closed
<1> DEFINE r == LastOf(q, n)
<1>2. r \in Seq(Int) /\ r # <<>>
  BY <1>1, LastOfIsTail
<1>3. PICK d \in Nat : /\ Len(r) + d = Len(q)
                       /\ \A i \in 1..Len(r) : r[i] = q[i + d]
  BY <1>1, LastOfIsTail
<1> HIDE DEF r
<1>4. Len(r) \in Nat /\ Len(q) \in Nat
  BY <1>1, <1>2
<1>5. \A i \in 1..Len(r) : r[i] <= clock
  <2> SUFFICES ASSUME NEW i \in 1..Len(r) PROVE r[i] <= clock
    OBVIOUS
  <2>1. i + d \in 1..Len(q)
    BY <1>3, <1>4
  <2> QED
    BY <1>3, <2>1 DEF Closed
<1>6. ASSUME Joined(q) PROVE Joined(r)
  <2> SUFFICES ASSUME NEW i \in 2..Len(r)
               PROVE  Follows(r, i) \/ (~backfilled /\ \E f \in Files : {r[i - 1], r[i]} \subseteq f)
    BY DEF Joined
  <2>1. i \in 1..Len(r) /\ i - 1 \in 1..Len(r) /\ i + d \in 2..Len(q) /\ (i - 1) + d = (i + d) - 1
    BY <1>3, <1>4
  <2>2. r[i] = q[i + d] /\ r[i - 1] = q[(i + d) - 1]
    BY <1>3, <2>1
  <2>3. Follows(q, i + d) \/ (~backfilled /\ \E f \in Files : {q[(i + d) - 1], q[i + d]} \subseteq f)
    BY <1>6, <2>1 DEF Joined
  <2> QED
    BY <2>2, <2>3 DEF Follows
<1> QED
  BY <1>2, <1>5, <1>6 DEF Closed, r

\* What is closed stays closed.
LEMMA ClosedLater ==
    ASSUME NEW q, Closed(q), clock \in Nat, clock' \in Nat, clock <= clock'
    PROVE  Closed(q)'
<1>1. q \in Seq(Int) /\ \A i \in 1..Len(q) : q[i] \in Int /\ q[i] <= clock
  BY DEF Closed
<1> QED
  BY <1>1 DEF Closed

-----------------------------------------------------------------------------
(* Every step keeps it.                                                    *)

\* The clock strikes.
LEMMA BarClosesKeeps == ASSUME WholeInv, BarCloses PROVE WholeInv'
<1>1. /\ clock' = clock + 1 /\ clock \in Nat
      /\ UNCHANGED <<stage, history, backfilled, due, fetch>>
  BY DEF BarCloses, WholeInv
<1>2. Closed(history)' /\ Closed(fetch.out)'
  <2>1. \A q : Closed(q) => Closed(q)'
    BY <1>1, ClosedLater
  <2>2. history' = history /\ fetch' = fetch
    BY <1>1
  <2>3. Closed(history) /\ Closed(fetch.out)
    BY DEF WholeInv
  <2>4. \A q : Closed(q) => q \in Seq(Int) /\ \A i \in 1..Len(q) : q[i] <= clock'
    BY <2>1 DEF Closed
  <2> QED
    BY <2>2, <2>3, <2>4 DEF Closed
<1>3. Joined(history)' = Joined(history) /\ Asking' = Asking
  BY <1>1 DEF Joined, Follows, Asking, Fetching
<1>4. \A r \in fetch'.rows : r <= clock' + 1
  BY <1>1 DEF WholeInv, FetchType
<1>5. Asking' => fetch'.stop <= clock'
  BY <1>1, <1>3 DEF WholeInv, FetchType
<1>6. stage' = "heal" => due' \in Int /\ due' <= clock' /\ due' > Last(history')
  BY <1>1 DEF WholeInv, Last
<1> QED
  BY <1>1, <1>2, <1>3, <1>4, <1>5, <1>6 DEF WholeInv

\* What a fetch starts with.
LEMMA FetchOfIs ==
    /\ NoFetch \in FetchType /\ NoFetch.rows = {} /\ NoFetch.out = <<>>
    /\ \A a, b \in Int : /\ FetchOf(a, b) \in FetchType /\ FetchOf(a, b).rows = {}
                         /\ FetchOf(a, b).out = <<>> /\ FetchOf(a, b).stop = b
<1>1. <<>> \in Seq(Int) /\ {} \in SUBSET Int
  OBVIOUS
<1>2. NoFetch \in FetchType /\ NoFetch.rows = {} /\ NoFetch.out = <<>>
  BY <1>1 DEF NoFetch, FetchType
<1>3. ASSUME NEW a \in Int, NEW b \in Int
      PROVE  /\ FetchOf(a, b) \in FetchType /\ FetchOf(a, b).rows = {}
             /\ FetchOf(a, b).out = <<>> /\ FetchOf(a, b).stop = b
  <2> DEFINE f == NoFetch
  <2>1. f \in FetchType /\ f.rows = {} /\ f.out = <<>>
    BY <1>2
  <2>2. FetchOf(a, b) = [f EXCEPT !.start = a, !.stop = b, !.cursor = a]
    BY DEF FetchOf
  <2> HIDE DEF f
  <2>3. /\ FetchOf(a, b) \in FetchType /\ FetchOf(a, b).rows = f.rows /\ FetchOf(a, b).out = f.out
        /\ FetchOf(a, b).stop = b
    BY <2>1, <2>2 DEF FetchType
  <2> QED
    BY <2>1, <2>3
<1> QED
  BY <1>2, <1>3

\* The history is read from a file, and so are any two of its neighbours.
LEMMA LoadKeeps == ASSUME WholeInv, NEW file \in Files, Load(file) PROVE WholeInv'
<1> DEFINE sorted == InOrder(file)
           buffer == LastOf(sorted, Required)
<1>1. /\ stage = "off" /\ file \subseteq 1..clock /\ clock \in Nat /\ clock' = clock
      /\ Closed(history) /\ Closed(fetch.out)
  BY DEF Load, WholeInv
<1>2. /\ file \in SUBSET Int /\ IsFiniteSet(file)
  <2> DEFINE past == 1..clock
  <2>1. IsFiniteSet(past) /\ past \subseteq Int /\ file \in SUBSET past
    BY <1>1, FS_Interval
  <2> HIDE DEF past
  <2> QED
    BY <2>1, FS_Subset
<1>3. /\ sorted \in Seq(file) /\ sorted \in Seq(Int)
      /\ \A i \in 1..Len(sorted) : sorted[i] \in file
  BY <1>2, InOrderIsOfTheSet
<1>4. Required \in Nat \ {0}
  BY KlineAssumption
<1>5. CASE Len(buffer) < Required
  <2>1. stage' = "failed" /\ UNCHANGED <<clock, history, backfilled, due, fetch>>
    BY <1>5 DEF Load
  <2>2. ~Asking /\ ~Asking'
    BY <1>1, <2>1 DEF Asking, Fetching
  <2> QED
    BY <2>1, <2>2 DEF WholeInv, Closed
<1>6. CASE ~(Len(buffer) < Required)
  <2>1. /\ history' = buffer /\ UNCHANGED <<clock, due>>
        /\ backfilled' \in BOOLEAN
        /\ \/ backfilled' /\ stage' = "backfill" /\ fetch' = FetchOf(Last(buffer) + 1, clock)
           \/ ~backfilled' /\ stage' = "live" /\ fetch' = fetch
    BY <1>6 DEF Load
  <2>2. sorted \in Seq(Int) /\ \A i \in 1..Len(sorted) : sorted[i] <= clock
    <3>1. \A r \in file : r \in Int /\ r <= clock
      BY <1>1
    <3> HIDE DEF sorted
    <3> QED
      BY <1>2, <1>3, <3>1
  <2>3. sorted # <<>>
    <3>1. CASE sorted = <<>>
      <4>1. Len(sorted) = 0 /\ Len(buffer) = 0
        BY <1>4, <3>1 DEF LastOf
      <4> QED
        BY <1>4, <1>6, <4>1
    <3> QED
      BY <3>1
  <2>4. Closed(sorted)
    BY <2>2 DEF Closed
  <2> HIDE DEF sorted
  <2>5. Closed(buffer) /\ buffer # <<>>
    BY <1>4, <2>3, <2>4, TailIsWhole
  <2>6. PICK d \in Nat : /\ Len(buffer) + d = Len(sorted)
                         /\ \A i \in 1..Len(buffer) : buffer[i] = sorted[i + d]
    BY <1>4, <2>2, <2>3, LastOfIsTail
  <2> HIDE DEF buffer
  <2>7. Closed(buffer)'
    BY <1>1, <2>5 DEF Closed
  <2>8. \A i \in 2..Len(buffer) : {buffer[i - 1], buffer[i]} \subseteq file
    <3> SUFFICES ASSUME NEW i \in 2..Len(buffer) PROVE {buffer[i - 1], buffer[i]} \subseteq file
      OBVIOUS
    <3>1. Len(buffer) \in Nat /\ Len(sorted) \in Nat
      BY <2>2, <2>5 DEF Closed
    <3>2. i \in 1..Len(buffer) /\ i - 1 \in 1..Len(buffer)
      BY <3>1
    <3>3. i + d \in 1..Len(sorted) /\ (i - 1) + d \in 1..Len(sorted)
      BY <2>6, <3>1
    <3> QED
      BY <1>3, <2>6, <3>2, <3>3
  <2>9. CASE ~backfilled' /\ stage' = "live" /\ fetch' = fetch
    <3>1. ~Asking'
      BY <2>9 DEF Asking, Fetching
    <3>2. Joined(history)'
      BY <2>1, <2>8, <2>9 DEF Joined
    <3>3. Closed(fetch.out)'
      BY <1>1, <2>9 DEF Closed
    <3> QED
      BY <1>1, <2>1, <2>5, <2>7, <2>9, <3>1, <3>2, <3>3 DEF WholeInv, Closed
  <2>10. CASE backfilled' /\ stage' = "backfill" /\ fetch' = FetchOf(Last(buffer) + 1, clock)
    <3>1. Last(buffer) \in Int
      <4>1. buffer \in Seq(Int)
        BY <2>5 DEF Closed
      <4>2. Len(buffer) \in 1..Len(buffer)
        BY <2>5, <4>1
      <4> QED
        BY <4>1, <4>2 DEF Last
    <3>2. fetch'.out = <<>> /\ fetch'.rows = {} /\ fetch'.stop = clock /\ fetch' \in FetchType
      <4>1. Last(buffer) + 1 \in Int /\ clock \in Int
        BY <1>1, <3>1
      <4> QED
        BY <2>10, <4>1, FetchOfIs
    <3>3. Closed(fetch.out)'
      BY <3>2 DEF Closed
    <3>4. IsFiniteSet(fetch'.rows) /\ \A r \in fetch'.rows : r <= clock' + 1
      BY <3>2, FS_EmptySet
    <3>5. Closed(history)' /\ history' # <<>> /\ clock' \in Nat /\ fetch'.stop <= clock'
      BY <1>1, <2>1, <2>5, <2>7, <3>2
    <3> QED
      BY <2>10, <3>2, <3>3, <3>4, <3>5 DEF WholeInv
  <2> QED
    BY <2>1, <2>9, <2>10
<1> QED
  BY <1>5, <1>6

\* What a page leaves in the locals.
LEMMA TookIs ==
    ASSUME fetch \in FetchType, NEW rows \in SUBSET Int, IsFiniteSet(rows),
           Max(rows) \in Int
    PROVE  /\ Took(rows) \in FetchType
           /\ Took(rows).out = fetch.out \o InOrder(Kept(rows))
           /\ Took(rows).rows = rows /\ Took(rows).stop = fetch.stop
<1> DEFINE more == fetch.out \o InOrder(Kept(rows))
           top == Max(rows) + 1
<1>0. Kept(rows) \in SUBSET rows
  BY DEF Kept
<1>1. Kept(rows) \in SUBSET Int /\ IsFiniteSet(Kept(rows))
  BY <1>0, FS_Subset
<1>2. InOrder(Kept(rows)) \in Seq(Int)
  BY <1>1, InOrderIsOfTheSet
<1>3. more \in Seq(Int) /\ top \in Int
  BY <1>2 DEF FetchType
<1>4. Took(rows) = [fetch EXCEPT !.out = more, !.cursor = top, !.rows = rows, !.tries = 0]
  BY DEF Took
<1> HIDE DEF more, top
<1>5. Took(rows) = [start |-> fetch.start, stop |-> fetch.stop, cursor |-> top, rows |-> rows,
                    out |-> more, tries |-> 0, host |-> fetch.host]
  BY <1>4 DEF FetchType
<1>6. Took(rows) \in FetchType /\ Took(rows).out = more /\ Took(rows).rows = rows
      /\ Took(rows).stop = fetch.stop
  BY <1>3, <1>5 DEF FetchType
<1> QED
  BY <1>6 DEF more

\* Two sequences of closed bars make one.
LEMMA JoinIsClosed ==
    ASSUME NEW p, NEW q, Closed(p), Closed(q)
    PROVE  Closed(p \o q)
<1>1. p \in Seq(Int) /\ q \in Seq(Int)
  BY DEF Closed
<1>2. /\ p \o q \in Seq(Int) /\ Len(p \o q) = Len(p) + Len(q) /\ Len(p) \in Nat /\ Len(q) \in Nat
      /\ \A i \in 1..Len(p) : (p \o q)[i] = p[i]
      /\ \A i \in (Len(p) + 1)..(Len(p) + Len(q)) : (p \o q)[i] = q[i - Len(p)]
  BY <1>1
<1> DEFINE r == p \o q
<1>3. \A i \in 1..Len(r) : r[i] <= clock
  <2> SUFFICES ASSUME NEW i \in 1..Len(r) PROVE r[i] <= clock
    OBVIOUS
  <2>1. CASE i \in 1..Len(p)
    BY <1>2, <2>1 DEF Closed
  <2>2. CASE i \in (Len(p) + 1)..(Len(p) + Len(q))
    <3>1. i - Len(p) \in 1..Len(q)
      BY <1>2, <2>2
    <3> QED
      BY <1>2, <2>2, <3>1 DEF Closed
  <2> QED
    BY <1>2, <2>1, <2>2
<1> QED
  BY <1>2, <1>3 DEF Closed

\* A page's bars are those between the bounds of the fetch, so they have closed.
LEMMA TookIsClosed ==
    ASSUME WholeInv, fetch.stop <= clock, NEW rows \in SUBSET Int, rows # {}, IsFiniteSet(rows),
           \A r \in rows : r <= clock + 1
    PROVE  /\ Took(rows) \in FetchType /\ Closed(Took(rows).out)
           /\ Took(rows).rows = rows /\ Took(rows).stop = fetch.stop
<1>1. clock \in Nat /\ fetch \in FetchType /\ Closed(fetch.out)
  BY DEF WholeInv
<1>2. Max(rows) \in Int
  <2>1. clock + 1 \in Int
    BY <1>1
  <2> QED
    BY <2>1, GreatestBar
<1>3. /\ Took(rows) \in FetchType
      /\ Took(rows).out = fetch.out \o InOrder(Kept(rows))
      /\ Took(rows).rows = rows /\ Took(rows).stop = fetch.stop
  BY <1>1, <1>2, TookIs
<1> DEFINE more == InOrder(Kept(rows))
<1>4. more \in Seq(Int) /\ \A i \in 1..Len(more) : more[i] <= clock
  <2>0. Kept(rows) \in SUBSET rows /\ \A r \in Kept(rows) : r <= fetch.stop
    BY DEF Kept
  <2>1. Kept(rows) \in SUBSET Int /\ IsFiniteSet(Kept(rows))
    BY <2>0, FS_Subset
  <2>3. \A r \in Kept(rows) : r <= clock
    BY <1>1, <2>0, <2>1 DEF FetchType
  <2>2. more \in Seq(Int) /\ \A i \in 1..Len(more) : more[i] \in Kept(rows)
    BY <2>1, InOrderIsOfTheSet
  <2> QED
    BY <2>2, <2>3
<1>5. Took(rows).out = fetch.out \o more
  BY <1>3
<1> HIDE DEF more
<1>6. Closed(fetch.out \o more)
  BY <1>1, <1>4, JoinIsClosed DEF Closed
<1> QED
  BY <1>3, <1>5, <1>6

\* Leaving the loop asks for nothing further.
LEMMA LeftIs ==
    ASSUME NEW f \in FetchType
    PROVE  /\ Left(f) \in FetchType /\ Left(f).out = f.out /\ Left(f).rows = f.rows
           /\ ~(Left(f).cursor <= Left(f).stop)
<1>1. Left(f) = [start |-> f.start, stop |-> f.cursor - 1, cursor |-> f.cursor, rows |-> f.rows,
                 out |-> f.out, tries |-> f.tries, host |-> f.host]
  BY DEF Left, FetchType
<1> QED
  BY <1>1 DEF FetchType

\* A step of the fetch alone keeps the invariant if what it leaves is closed and bounded.
LEMMA FetchMoves ==
    ASSUME WholeInv, UNCHANGED <<clock, stage, history, backfilled, due>>,
           NEW f \in FetchType, fetch' = f, Closed(f.out), IsFiniteSet(f.rows),
           \A r \in f.rows : r <= clock + 1,
           f.cursor <= f.stop => f.stop <= clock
    PROVE  WholeInv'
<1>1. Closed(fetch.out)'
  BY DEF Closed
<1>2. Closed(history)'
  BY DEF WholeInv, Closed
<1>3. Joined(history)' = Joined(history)
  BY DEF Joined, Follows
<1>4. Asking' => fetch'.stop <= clock'
  BY DEF Asking, Fetching
<1>5. stage' = "heal" => due' \in Int /\ due' <= clock' /\ due' > Last(history')
  BY DEF WholeInv
<1> QED
  BY <1>1, <1>2, <1>3, <1>4, <1>5 DEF WholeInv

\* A page is taken, or the answer is empty and the loop is left.
LEMMA AnswerKeeps ==
    ASSUME WholeInv, NEW rows \in SUBSET (fetch.cursor..(clock + 1)), Answer(rows)
    PROVE  WholeInv'
<1>1. /\ Asking /\ UNCHANGED <<clock, stage, history, backfilled, due>>
      /\ fetch' = IF rows = {} THEN Left(fetch) ELSE Took(rows)
  BY DEF Answer
<1>2. /\ clock \in Nat /\ fetch \in FetchType /\ Closed(fetch.out) /\ fetch.stop <= clock
      /\ IsFiniteSet(fetch.rows) /\ \A r \in fetch.rows : r <= clock + 1
  BY <1>1 DEF WholeInv
<1>3. CASE rows = {}
  <2>1. fetch' = Left(fetch)
    BY <1>1, <1>3
  <2>2. /\ Left(fetch) \in FetchType /\ Left(fetch).out = fetch.out /\ Left(fetch).rows = fetch.rows
        /\ ~(Left(fetch).cursor <= Left(fetch).stop)
    BY <1>2, LeftIs
  <2> DEFINE f == Left(fetch)
  <2>3. f \in FetchType /\ Closed(f.out) /\ IsFiniteSet(f.rows) /\ (\A r \in f.rows : r <= clock + 1)
        /\ ~(f.cursor <= f.stop) /\ fetch' = f
    BY <1>2, <2>1, <2>2
  <2> HIDE DEF f
  <2> QED
    BY <1>1, <2>3, FetchMoves
<1>4. CASE rows # {}
  <2> DEFINE f == Took(rows)
  <2>1. fetch' = f
    BY <1>1, <1>4
  <2>2. rows \in SUBSET Int /\ IsFiniteSet(rows) /\ \A r \in rows : r <= clock + 1
    <3>1. fetch.cursor \in Int /\ clock + 1 \in Int
      BY <1>2 DEF FetchType
    <3> DEFINE near == fetch.cursor..(clock + 1)
    <3>2. IsFiniteSet(near) /\ near \subseteq Int /\ \A r \in near : r <= clock + 1
      BY <3>1, FS_Interval
    <3>3. rows \in SUBSET near
      OBVIOUS
    <3> HIDE DEF near
    <3> QED
      BY <3>2, <3>3, FS_Subset
  <2>3. f \in FetchType /\ Closed(f.out) /\ f.rows = rows /\ f.stop = fetch.stop
    BY <1>2, <1>4, <2>2, TookIsClosed
  <2> HIDE DEF f
  <2> QED
    BY <1>1, <1>2, <2>1, <2>2, <2>3, FetchMoves
<1> QED
  BY <1>3, <1>4

\* A fetch that ends in an error leaves the history as it was.
LEMMA ErrorKeeps == ASSUME WholeInv, Error, Asking PROVE WholeInv'
<1>1. /\ stage' = IF stage = "backfill" THEN "failed" ELSE "live"
      /\ stage \in {"backfill", "heal"}
      /\ fetch' = NoFetch /\ UNCHANGED <<clock, history, backfilled>>
  BY DEF Error, Asking, Fetching
<1>2. /\ fetch' \in FetchType /\ fetch'.rows = {} /\ fetch'.out = <<>>
  BY <1>1, FetchOfIs
<1>3. Closed(fetch.out)'
  BY <1>2 DEF Closed
<1>4. Closed(history)'
  BY <1>1 DEF WholeInv, Closed
<1>5. Joined(history)' = Joined(history)
  BY <1>1 DEF Joined, Follows
<1>6. ~Asking' /\ IsFiniteSet({})
  BY <1>1, FS_EmptySet DEF Asking, Fetching
<1> QED
  BY <1>1, <1>2, <1>3, <1>4, <1>5, <1>6 DEF WholeInv

\* A call fails.
LEMMA AskFailsKeeps == ASSUME WholeInv, AskFails PROVE WholeInv'
<1>1. Asking
  BY DEF AskFails
<1>2. CASE Error
  BY <1>1, <1>2, ErrorKeeps
<1>3. CASE /\ fetch' = [fetch EXCEPT !.tries = @ + 1]
           /\ UNCHANGED <<clock, stage, history, backfilled, due>>
  <2> DEFINE n == fetch.tries + 1
             f == [fetch EXCEPT !.tries = n]
  <2>0. n \in Nat /\ fetch' = f
    BY <1>3 DEF WholeInv, FetchType
  <2> HIDE DEF n
  <2>1. /\ f \in FetchType /\ f.out = fetch.out /\ f.rows = fetch.rows /\ f.cursor = fetch.cursor
        /\ f.stop = fetch.stop
    BY <2>0 DEF WholeInv, FetchType
  <2>2. /\ Closed(fetch.out) /\ IsFiniteSet(fetch.rows) /\ (\A r \in fetch.rows : r <= clock + 1)
        /\ fetch.stop <= clock
    BY <1>1 DEF WholeInv
  <2> HIDE DEF f
  <2> QED
    BY <1>3, <2>0, <2>1, <2>2, FetchMoves
<1> QED
  BY <1>2, <1>3 DEF AskFails

\* The exchange refuses the address; on the last attempt the page before is taken again.
LEMMA RefusedKeeps == ASSUME WholeInv, Refused PROVE WholeInv'
<1>1. Asking
  BY DEF Refused
<1>2. /\ fetch \in FetchType /\ Closed(fetch.out) /\ IsFiniteSet(fetch.rows)
      /\ (\A r \in fetch.rows : r <= clock + 1) /\ fetch.stop <= clock
  BY <1>1 DEF WholeInv
<1>3. CASE Error
  BY <1>1, <1>3, ErrorKeeps
<1>4. CASE /\ fetch' = [fetch EXCEPT !.tries = @ + 1, !.host = "testnet"]
           /\ UNCHANGED <<clock, stage, history, backfilled, due>>
  <2> DEFINE n == fetch.tries + 1
             f == [fetch EXCEPT !.tries = n, !.host = "testnet"]
  <2>1. n \in Nat
    BY <1>2 DEF FetchType
  <2>2. fetch' = f
    BY <1>4
  <2> HIDE DEF n
  <2>3. fetch \in FetchType
    BY <1>2
  <2>4. /\ f \in FetchType /\ f.out = fetch.out /\ f.rows = fetch.rows /\ f.cursor = fetch.cursor
        /\ f.stop = fetch.stop
    BY <2>1, <2>3 DEF FetchType
  <2> HIDE DEF f
  <2> QED
    BY <1>2, <1>4, <2>2, <2>4, FetchMoves
<1>5. CASE /\ fetch.rows # {} /\ fetch' = Left([Took(fetch.rows) EXCEPT !.host = "testnet"])
           /\ UNCHANGED <<clock, stage, history, backfilled, due>>
  <2> DEFINE t == Took(fetch.rows)
             g == [t EXCEPT !.host = "testnet"]
             f == Left(g)
  <2>1. fetch.rows \in SUBSET Int
    BY <1>2 DEF FetchType
  <2>2. t \in FetchType /\ Closed(t.out) /\ t.rows = fetch.rows
    BY <1>2, <1>5, <2>1, TookIsClosed
  <2>3. fetch' = f
    BY <1>5
  <2> HIDE DEF t
  <2>4. g = [start |-> t.start, stop |-> t.stop, cursor |-> t.cursor, rows |-> t.rows,
             out |-> t.out, tries |-> t.tries, host |-> "testnet"]
    BY <2>2 DEF FetchType
  <2>5. g \in FetchType /\ g.out = t.out /\ g.rows = t.rows
    BY <2>2, <2>4 DEF FetchType
  <2> HIDE DEF g
  <2>6. /\ f \in FetchType /\ f.out = g.out /\ f.rows = g.rows /\ ~(f.cursor <= f.stop)
    BY <2>5, LeftIs
  <2> HIDE DEF f
  <2> QED
    BY <1>2, <1>5, <2>2, <2>3, <2>5, <2>6, FetchMoves
<1> QED
  BY <1>3, <1>4, <1>5 DEF Refused

\* The backfill is done: a history with a hole is an error.
LEMMA PrimeKeeps == ASSUME WholeInv, Prime PROVE WholeInv'
<1> DEFINE merged == history \o fetch.out
<1>1. /\ stage = "backfill" /\ fetch' = NoFetch /\ UNCHANGED <<clock, backfilled, due>>
      /\ \/ Contiguous(merged) /\ stage' = "live" /\ history' = LastOf(merged, Required)
         \/ stage' = "failed" /\ history' = history
  BY DEF Prime
<1>2. /\ fetch' \in FetchType /\ fetch'.rows = {} /\ fetch'.out = <<>>
  BY <1>1, FetchOfIs
<1>3. Closed(fetch.out)'
  BY <1>2 DEF Closed
<1>4. ~Asking' /\ IsFiniteSet({})
  BY <1>1, FS_EmptySet DEF Asking, Fetching
<1>5. Closed(history) /\ Closed(fetch.out) /\ history # <<>>
  BY <1>1 DEF WholeInv
<1>6. Closed(merged) /\ merged # <<>>
  <2>1. Closed(merged)
    BY <1>5, JoinIsClosed DEF Closed
  <2>2. merged # <<>>
    BY <1>5 DEF Closed
  <2> QED
    BY <2>1, <2>2
<1>7. Required \in Nat \ {0}
  BY KlineAssumption
<1>8. CASE stage' = "failed" /\ history' = history
  <2>1. Closed(history)'
    BY <1>1, <1>5, <1>8 DEF Closed
  <2> QED
    BY <1>1, <1>2, <1>3, <1>4, <1>8, <2>1 DEF WholeInv
<1>9. CASE Contiguous(merged) /\ stage' = "live" /\ history' = LastOf(merged, Required)
  <2>1. Joined(merged)
    BY <1>9 DEF Joined, Contiguous
  <2> HIDE DEF merged
  <2> DEFINE r == LastOf(merged, Required)
  <2>2. Closed(r) /\ r # <<>> /\ Joined(r) /\ history' = r
    BY <1>6, <1>7, <1>9, <2>1, TailIsWhole
  <2> HIDE DEF r
  <2>3. Closed(history)' /\ Joined(history)'
    BY <1>1, <2>2 DEF Closed, Joined, Follows
  <2> QED
    BY <1>1, <1>2, <1>3, <1>4, <1>9, <2>2, <2>3 DEF WholeInv
<1> QED
  BY <1>1, <1>8, <1>9

(* What follows the history and itself keeps the history whole.            *)
LEMMA GrownIsWhole ==
    ASSUME WholeInv, Joined(history), history # <<>>, NEW more, Closed(more), more # <<>>,
           more[1] = Last(history) + 1, \A i \in 2..Len(more) : Follows(more, i)
    PROVE  Closed(Grown(more)) /\ Grown(more) # <<>> /\ Joined(Grown(more))
<1> DEFINE q == history \o more
           h == Len(history)
<1>1. history \in Seq(Int) /\ more \in Seq(Int) /\ Closed(history)
  BY DEF WholeInv, Closed
<1>2. /\ q \in Seq(Int) /\ Len(q) = h + Len(more) /\ h \in Nat /\ Len(more) \in Nat
      /\ \A i \in 1..h : q[i] = history[i]
      /\ \A i \in (h + 1)..(h + Len(more)) : q[i] = more[i - h]
  BY <1>1
<1>3. h >= 1 /\ Len(more) >= 1 /\ Last(history) = history[h]
  BY <1>1 DEF Last
<1>4. Closed(q)
  BY <1>1, JoinIsClosed
<1> HIDE DEF q
<1>5. q # <<>>
  <2>1. Len(q) # 0
    BY <1>2, <1>3
  <2> QED
    BY <2>1
<1>6. Joined(q)
  <2> SUFFICES ASSUME NEW i \in 2..Len(q)
               PROVE  Follows(q, i) \/ (~backfilled /\ \E f \in Files : {q[i - 1], q[i]} \subseteq f)
    BY DEF Joined
  <2>1. CASE i <= h
    <3>1. i \in 2..h /\ i \in 1..h /\ i - 1 \in 1..h
      BY <1>2, <2>1
    <3>2. q[i] = history[i] /\ q[i - 1] = history[i - 1]
      BY <1>2, <3>1
    <3> QED
      BY <3>1, <3>2 DEF Joined, Follows
  <2>2. CASE i = h + 1
    <3>1. q[i] = more[1] /\ q[i - 1] = history[h]
      <4>1. i \in (h + 1)..(h + Len(more)) /\ i - h = 1 /\ i - 1 = h /\ h \in 1..h
        BY <1>2, <1>3, <2>2
      <4> QED
        BY <1>2, <4>1
    <3> QED
      BY <1>3, <3>1 DEF Follows
  <2>3. CASE i > h + 1
    <3>1. /\ i \in (h + 1)..(h + Len(more)) /\ i - 1 \in (h + 1)..(h + Len(more))
          /\ i - h \in 2..Len(more) /\ (i - 1) - h = (i - h) - 1
      BY <1>2, <2>3
    <3>2. q[i] = more[i - h] /\ q[i - 1] = more[(i - h) - 1]
      BY <1>2, <3>1
    <3> QED
      BY <3>1, <3>2 DEF Follows
  <2> QED
    BY <1>2, <2>1, <2>2, <2>3
<1>7. HistoryMax \in Nat \ {0} /\ Grown(more) = LastOf(q, HistoryMax)
  BY KlineAssumption DEF Grown, q
<1> QED
  BY <1>4, <1>5, <1>6, <1>7, TailIsWhole

\* A bar is evaluated, or waits for the healing of what lies before it.
LEMMA EvaluateKeeps == ASSUME WholeInv, NEW b \in 1..LastKline, Evaluate(b) PROVE WholeInv'
<1>1. /\ stage = "live" /\ b \in Int /\ b <= clock /\ b > Last(history)
      /\ UNCHANGED <<clock, backfilled>> /\ clock \in Nat /\ fetch \in FetchType
      /\ history # <<>> /\ history \in Seq(Int) /\ Joined(history) /\ Closed(history) /\ Closed(fetch.out)
  BY KlineAssumption DEF Evaluate, WholeInv, Closed
<1>2. Last(history) \in Int
  <2>1. Len(history) \in 1..Len(history)
    BY <1>1
  <2> QED
    BY <1>1, <2>1 DEF Last
<1>3. CASE b <= Last(history) + 1
  <2>1. history' = Grown(<<b>>) /\ UNCHANGED <<stage, due, fetch>>
    BY <1>3 DEF Evaluate
  <2> DEFINE more == <<b>>
             g == Grown(more)
  <2>2. /\ more \in Seq(Int) /\ Len(more) = 1 /\ more # <<>> /\ more[1] = b /\ b = Last(history) + 1
    BY <1>1, <1>2, <1>3
  <2>3. Closed(more) /\ \A i \in 2..Len(more) : Follows(more, i)
    BY <1>1, <2>2 DEF Closed
  <2>4. Closed(g) /\ g # <<>> /\ Joined(g)
    <3> HIDE DEF more
    <3> QED
      BY <1>1, <2>2, <2>3, GrownIsWhole
  <2>5. history' = g
    BY <2>1
  <2> HIDE DEF g
  <2>6. Closed(history)' /\ Joined(history)' /\ history' # <<>>
    BY <1>1, <2>4, <2>5 DEF Closed, Joined, Follows
  <2>7. Closed(fetch.out)' /\ Asking' = Asking
    BY <1>1, <2>1 DEF Closed, Asking, Fetching
  <2> QED
    BY <1>1, <2>1, <2>6, <2>7 DEF WholeInv
<1>4. CASE ~(b <= Last(history) + 1)
  <2> DEFINE f == FetchOf(Last(history) + 1, b - 1)
  <2>1. /\ stage' = "heal" /\ due' = b /\ fetch' = f /\ history' = history
    BY <1>4 DEF Evaluate
  <2>2. f \in FetchType /\ f.rows = {} /\ f.out = <<>> /\ f.stop = b - 1
    <3>1. Last(history) + 1 \in Int /\ b - 1 \in Int
      BY <1>1, <1>2
    <3> QED
      BY <3>1, FetchOfIs
  <2> HIDE DEF f
  <2>3. Closed(fetch.out)' /\ IsFiniteSet(fetch'.rows) /\ (\A r \in fetch'.rows : r <= clock' + 1)
    BY <2>1, <2>2, FS_EmptySet DEF Closed
  <2>4. Closed(history)' /\ Joined(history)' /\ fetch'.stop <= clock'
    BY <1>1, <2>1, <2>2 DEF Closed, Joined, Follows
  <2>5. due' \in Int /\ due' <= clock' /\ due' > Last(history')
    BY <1>1, <2>1
  <2> QED
    BY <1>1, <2>1, <2>2, <2>3, <2>4, <2>5 DEF WholeInv
<1> QED
  BY <1>3, <1>4

\* The healing ends: with the missing bars in their order, or without the bar that waits.
LEMMA HealKeeps == ASSUME WholeInv, Heal PROVE WholeInv'
<1>1. /\ stage = "heal" /\ stage' = "live" /\ fetch' = NoFetch /\ UNCHANGED <<clock, backfilled>>
      /\ history' = IF Healed THEN Grown(Append(fetch.out, due)) ELSE history
      /\ history # <<>> /\ history \in Seq(Int) /\ Joined(history) /\ Closed(history)
      /\ Closed(fetch.out) /\ due \in Int /\ due <= clock /\ due > Last(history) /\ clock \in Nat
  BY DEF Heal, WholeInv, Closed
<1>2. Last(history) \in Int
  <2>1. Len(history) \in 1..Len(history)
    BY <1>1
  <2> QED
    BY <1>1, <2>1 DEF Last
<1>3. /\ fetch' \in FetchType /\ Closed(fetch.out)' /\ IsFiniteSet(fetch'.rows)
      /\ (\A r \in fetch'.rows : r <= clock' + 1) /\ ~Asking'
  BY <1>1, FetchOfIs, FS_EmptySet DEF Closed, Asking, Fetching
<1>4. ASSUME NEW g, history' = g, Closed(g), g # <<>>, Joined(g)
      PROVE  WholeInv'
  <2>1. Closed(history)' /\ Joined(history)' /\ history' # <<>>
    BY <1>1, <1>4 DEF Closed, Joined, Follows
  <2> QED
    BY <1>1, <1>3, <2>1 DEF WholeInv
<1>5. CASE Healed
  <2> DEFINE n == due - 1 - Last(history)
             out == fetch.out
             more == Append(out, due)
             g == Grown(more)
  <2>1. n \in Nat /\ due = Last(history) + n + 1
    BY <1>1, <1>2
  <2>2. out = [i \in 1..n |-> Last(history) + i]
    BY <1>5 DEF Healed
  <2>3. out \in Seq(Int)
    BY <1>1 DEF Closed
  <2>4. Len(out) = n /\ \A i \in 1..n : out[i] = Last(history) + i
    <3> HIDE DEF n
    <3>1. DOMAIN out = 1..n
      BY <2>2
    <3> HIDE DEF out
    <3>2. Len(out) = n
      BY <2>1, <2>3, <3>1
    <3> QED
      BY <2>2, <3>2
  <2>5. \A i \in 1..Len(out) : out[i] <= clock
    BY <1>1 DEF Closed
  <2> HIDE DEF n, out
  <2>6. /\ more \in Seq(Int) /\ Len(more) = n + 1 /\ more[n + 1] = due
        /\ \A i \in 1..n : more[i] = Last(history) + i
    BY <1>1, <2>1, <2>3, <2>4
  <2> HIDE DEF more
  <2>7. \A i \in 1..(n + 1) : more[i] = Last(history) + i
    <3> SUFFICES ASSUME NEW i \in 1..(n + 1) PROVE more[i] = Last(history) + i
      OBVIOUS
    <3>1. CASE i \in 1..n
      BY <2>6, <3>1
    <3>2. CASE i = n + 1
      BY <1>2, <2>1, <2>6, <3>2
    <3> QED
      BY <2>1, <3>1, <3>2
  <2>8. \A i \in 1..(n + 1) : more[i] <= clock
    BY <1>1, <1>2, <2>1, <2>7
  <2>9. Closed(more) /\ more # <<>>
    <3>1. more # <<>>
      BY <2>1, <2>6
    <3> QED
      BY <2>6, <2>8, <3>1 DEF Closed
  <2>10. more[1] = Last(history) + 1 /\ \A i \in 2..Len(more) : Follows(more, i)
    <3>1. more[1] = Last(history) + 1
      BY <2>1, <2>7
    <3>2. ASSUME NEW i \in 2..Len(more) PROVE Follows(more, i)
      <4>1. i \in 1..(n + 1) /\ i - 1 \in 1..(n + 1)
        BY <2>1, <2>6
      <4>2. more[i] = Last(history) + i /\ more[i - 1] = Last(history) + (i - 1)
        BY <2>7, <4>1
      <4> QED
        BY <1>2, <2>1, <4>1, <4>2 DEF Follows
    <3> QED
      BY <3>1, <3>2
  <2>11. Closed(g) /\ g # <<>> /\ Joined(g)
    BY <1>1, <2>9, <2>10, GrownIsWhole
  <2>12. history' = g
    BY <1>1, <1>5 DEF more, out
  <2> HIDE DEF g
  <2> QED
    BY <1>4, <2>11, <2>12
<1>6. CASE ~Healed
  <2>1. history' = history
    BY <1>1, <1>6
  <2> QED
    BY <1>1, <1>4, <2>1
<1> QED
  BY <1>5, <1>6

\* An empty history is whole.
LEMMA WholeInitially == KlineInit => WholeInv
<1> SUFFICES ASSUME KlineInit PROVE WholeInv
  OBVIOUS
<1>1. clock = 1 /\ stage = "off" /\ history = <<>> /\ fetch = NoFetch
  BY DEF KlineInit
<1>2. fetch \in FetchType /\ fetch.rows = {} /\ fetch.out = <<>> /\ IsFiniteSet(fetch.rows)
  BY <1>1, FetchOfIs, FS_EmptySet
<1>3. Closed(history) /\ Closed(fetch.out) /\ ~Asking
  BY <1>1, <1>2 DEF Closed, Asking, Fetching
<1> QED
  BY <1>1, <1>2, <1>3 DEF WholeInv

\* Every step keeps the history whole.
LEMMA WholeStep == WholeInv /\ [KlineNext]_klineVars => WholeInv'
<1> SUFFICES ASSUME WholeInv, [KlineNext]_klineVars PROVE WholeInv'
  OBVIOUS
<1>1. CASE UNCHANGED klineVars
  BY <1>1 DEF klineVars, WholeInv, Closed, Joined, Follows, Asking, Fetching
<1>2. CASE KlineNext
  BY <1>2, BarClosesKeeps, AskFailsKeeps, RefusedKeeps, PrimeKeeps, HealKeeps, LoadKeeps, AnswerKeeps,
     EvaluateKeeps DEF KlineNext
<1> QED
  BY <1>1, <1>2

(* The strategy never computes an indicator across a hole, a repeated bar  *)
(* or a bar that is still forming, for any length of the history, any      *)
(* candle files, and whatever pages and errors the exchange answers with.  *)
THEOREM Whole == KlineSpec => []HistoryIsWhole
<1>1. WholeInv => HistoryIsWhole
  BY DEF WholeInv, HistoryIsWhole, Joined, Closed
<1> QED
  BY <1>1, WholeInitially, WholeStep, PTL DEF KlineSpec

-----------------------------------------------------------------------------
(* The shape of the kline history.                                         *)

\* A bar's number.
BarNumbers == Nat \ {0}

\* The locals of a fetch hold bars.
FetchBars(f) ==
    /\ f \in FetchType
    /\ f.out \in Seq(BarNumbers) /\ f.rows \in SUBSET BarNumbers
    /\ f.start \in BarNumbers /\ f.cursor \in BarNumbers /\ f.tries < AskMax

\* What WholeInv leaves open: bars begin at 1, the history and the attempts are bounded.
BarInv ==
    /\ clock \in 1..LastKline
    /\ history \in Seq(BarNumbers) /\ Len(history) <= HistoryMax
    /\ FetchBars(fetch)
    /\ due \in Nat /\ due <= clock

\* The tail of a sequence of bars is no longer than asked for.
LEMMA TailOfBars ==
    ASSUME NEW s \in Seq(BarNumbers), NEW n \in Nat \ {0}
    PROVE  LastOf(s, n) \in Seq(BarNumbers) /\ Len(LastOf(s, n)) <= n
<1>1. Len(s) \in Nat
  OBVIOUS
<1>2. CASE Len(s) <= n
  BY <1>2 DEF LastOf
<1>3. CASE ~(Len(s) <= n)
  <2> DEFINE d == Len(s) - n
             r == SubSeq(s, d + 1, Len(s))
  <2>1. d \in Nat /\ d + n = Len(s)
    BY <1>1, <1>3
  <2>2. r \in Seq(BarNumbers) /\ Len(r) = n
    BY <1>1, <2>1
  <2>3. LastOf(s, n) = r
    BY <1>1, <1>3 DEF LastOf
  <2> HIDE DEF r
  <2> QED
    BY <2>2, <2>3
<1> QED
  BY <1>2, <1>3

\* Joined bars are bars.
LEMMA JoinOfBars ==
    ASSUME NEW p \in Seq(BarNumbers), NEW q \in Seq(BarNumbers)
    PROVE  p \o q \in Seq(BarNumbers)
<1> HIDE DEF BarNumbers
<1> QED
  OBVIOUS

\* The last of a sequence of bars is a bar.
LEMMA LastIsBar ==
    ASSUME NEW s \in Seq(BarNumbers), s # <<>>
    PROVE  Last(s) \in BarNumbers
<1>1. Len(s) \in 1..Len(s)
  OBVIOUS
<1> HIDE DEF BarNumbers
<1> QED
  BY <1>1 DEF Last

\* A fetch begins with bars.
LEMMA FetchBegins ==
    /\ FetchBars(NoFetch)
    /\ \A a \in BarNumbers, b \in Int : FetchBars(FetchOf(a, b))
<1>0. <<>> \in Seq(BarNumbers) /\ {} \in SUBSET BarNumbers /\ 1 \in BarNumbers /\ 0 < AskMax
  BY KlineAssumption DEF BarNumbers
<1>1. NoFetch \in FetchType
  BY FetchOfIs
<1>2. FetchBars(NoFetch)
  <2>1. NoFetch.out = <<>> /\ NoFetch.rows = {} /\ NoFetch.start = 1 /\ NoFetch.cursor = 1 /\ NoFetch.tries = 0
    BY DEF NoFetch
  <2> QED
    BY <1>0, <1>1, <2>1 DEF FetchBars
<1>3. ASSUME NEW a \in BarNumbers, NEW b \in Int PROVE FetchBars(FetchOf(a, b))
  <2>1. a \in Int
    BY DEF BarNumbers
  <2>2. FetchOf(a, b) \in FetchType
    BY <2>1, FetchOfIs
  <2> DEFINE f == FetchOf(a, b)
             none == NoFetch
  <2>3. none.out = <<>> /\ none.rows = {} /\ none.tries = 0
    BY DEF NoFetch
  <2>6. f = [none EXCEPT !.start = a, !.stop = b, !.cursor = a] /\ none \in FetchType
    BY <1>1 DEF FetchOf
  <2> HIDE DEF f, none
  <2>4. f.out = <<>> /\ f.rows = {} /\ f.start = a /\ f.cursor = a /\ f.tries = 0
    BY <2>3, <2>6 DEF FetchType
  <2>5. f \in FetchType
    BY <2>2 DEF f
  <2>7. FetchBars(f)
    BY <1>0, <2>4, <2>5 DEF FetchBars
  <2> QED
    BY <2>7 DEF f
<1> QED
  BY <1>2, <1>3

\* A page of bars leaves bars.
LEMMA TookBars ==
    ASSUME WholeInv, FetchBars(fetch), NEW rows \in SUBSET BarNumbers, rows # {}, IsFiniteSet(rows),
           \A r \in rows : r <= clock + 1
    PROVE  FetchBars(Took(rows))
<1>1. clock + 1 \in Int /\ rows \in SUBSET Int
  BY DEF WholeInv, BarNumbers
<1>2. Max(rows) \in rows
  BY <1>1, GreatestBar
<1>3. Max(rows) \in BarNumbers /\ Max(rows) \in Int
  BY <1>1, <1>2
<1>4. /\ Took(rows) \in FetchType
      /\ Took(rows).out = fetch.out \o InOrder(Kept(rows))
      /\ Took(rows).rows = rows
  BY <1>1, <1>3, TookIs DEF FetchBars
<1>5. Took(rows).start = fetch.start /\ Took(rows).cursor = Max(rows) + 1 /\ Took(rows).tries = 0
  <2> DEFINE more == fetch.out \o InOrder(Kept(rows))
             top == Max(rows) + 1
  <2>1. Took(rows) = [fetch EXCEPT !.out = more, !.cursor = top, !.rows = rows, !.tries = 0]
    BY DEF Took
  <2>2. fetch \in FetchType
    BY DEF FetchBars
  <2> HIDE DEF more, top
  <2>3. Took(rows) = [start |-> fetch.start, stop |-> fetch.stop, cursor |-> top, rows |-> rows,
                      out |-> more, tries |-> 0, host |-> fetch.host]
    BY <2>1, <2>2 DEF FetchType
  <2> QED
    BY <2>3 DEF top
<1>6. InOrder(Kept(rows)) \in Seq(BarNumbers)
  <2>1. Kept(rows) \in SUBSET rows
    BY DEF Kept
  <2>2. Kept(rows) \in SUBSET Int /\ IsFiniteSet(Kept(rows)) /\ Kept(rows) \in SUBSET BarNumbers
    BY <1>1, <2>1, FS_Subset
  <2> DEFINE q == InOrder(Kept(rows))
  <2>3. q \in Seq(Int) /\ \A i \in 1..Len(q) : q[i] \in Kept(rows)
    BY <2>2, InOrderIsOfTheSet
  <2> HIDE DEF q
  <2>4. \A i \in 1..Len(q) : q[i] \in BarNumbers
    BY <2>2, <2>3
  <2>5. q \in [1..Len(q) -> BarNumbers] /\ Len(q) \in Nat
    <3> HIDE DEF BarNumbers
    <3> QED
      BY <2>3, <2>4
  <2>6. q \in Seq(BarNumbers)
    <3> HIDE DEF BarNumbers
    <3> QED
      BY <2>5
  <2> QED
    BY <2>6 DEF q
<1>7. Took(rows).out \in Seq(BarNumbers)
  BY <1>4, <1>6, JoinOfBars DEF FetchBars
<1>8. Max(rows) + 1 \in BarNumbers /\ 0 < AskMax
  BY <1>3, KlineAssumption DEF BarNumbers
<1> HIDE DEF Took
<1> QED
  BY <1>4, <1>5, <1>7, <1>8 DEF FetchBars

\* Leaving the loop moves its end only.
LEMMA LeftBars ==
    ASSUME NEW f, FetchBars(f)
    PROVE  FetchBars(Left(f))
<1>1. f \in FetchType
  BY DEF FetchBars
<1>2. Left(f) \in FetchType /\ Left(f).out = f.out /\ Left(f).rows = f.rows
  BY <1>1, LeftIs
<1>3. Left(f).start = f.start /\ Left(f).cursor = f.cursor /\ Left(f).tries = f.tries
  BY <1>1 DEF Left, FetchType
<1> QED
  BY <1>2, <1>3 DEF FetchBars

\* Another attempt, perhaps at the testnet.
LEMMA TriedBars ==
    ASSUME FetchBars(fetch), NEW n \in Nat, n < AskMax, NEW h \in {"main", "testnet"}
    PROVE  /\ FetchBars([fetch EXCEPT !.tries = n]) /\ FetchBars([fetch EXCEPT !.tries = n, !.host = h])
<1>1. fetch \in FetchType
  BY DEF FetchBars
<1> DEFINE f == [fetch EXCEPT !.tries = n]
           g == [fetch EXCEPT !.tries = n, !.host = h]
<1>2. f \in FetchType /\ f.out = fetch.out /\ f.rows = fetch.rows /\ f.start = fetch.start
      /\ f.cursor = fetch.cursor /\ f.tries = n
  BY <1>1 DEF FetchType
<1>3. g \in FetchType /\ g.out = fetch.out /\ g.rows = fetch.rows /\ g.start = fetch.start
      /\ g.cursor = fetch.cursor /\ g.tries = n
  BY <1>1 DEF FetchType
<1> HIDE DEF f, g
<1>4. FetchBars(f) /\ FetchBars(g)
  BY <1>2, <1>3 DEF FetchBars
<1> QED
  BY <1>4 DEF f, g

\* The fetch alone moves.
LEMMA FetchMovesBars ==
    ASSUME BarInv, UNCHANGED <<clock, history, due>>, FetchBars(fetch')
    PROVE  BarInv'
BY DEF BarInv, FetchBars

\* A bar that closes is a bar.
LEMMA BarClosesBars == ASSUME BarInv, BarCloses PROVE BarInv'
<1>1. clock < LastKline /\ clock' = clock + 1 /\ UNCHANGED <<history, due, fetch>>
  BY DEF BarCloses
<1>2. LastKline \in Nat
  BY KlineAssumption
<1>3. clock' \in 1..LastKline /\ due' <= clock' /\ due' \in Nat
  BY <1>1, <1>2 DEF BarInv
<1> QED
  BY <1>1, <1>3 DEF BarInv, FetchBars

\* An error changes no bar.
LEMMA ErrorBars == ASSUME BarInv, Error PROVE BarInv'
<1>1. UNCHANGED <<clock, history>> /\ fetch' = NoFetch /\ due' = 0
  BY Zenon DEF Error
<1>2. due' \in Nat /\ due' <= clock'
  BY <1>1 DEF BarInv
<1>3. FetchBars(fetch')
  BY <1>1, FetchBegins
<1> QED
  BY <1>1, <1>2, <1>3 DEF BarInv, FetchBars

\* A failed request brings none.
LEMMA AskFailsBars == ASSUME WholeInv, BarInv, AskFails PROVE BarInv'
<1>1. CASE Error
  BY <1>1, ErrorBars
<1>2. CASE /\ fetch.tries + 1 # AskMax /\ fetch' = [fetch EXCEPT !.tries = @ + 1]
           /\ UNCHANGED <<clock, stage, history, backfilled, due>>
  <2> DEFINE n == fetch.tries + 1
  <2>1. n \in Nat /\ n < AskMax
    BY <1>2, KlineAssumption DEF BarInv, FetchBars, FetchType
  <2>2. fetch' = [fetch EXCEPT !.tries = n]
    BY <1>2
  <2> HIDE DEF n
  <2>3. FetchBars([fetch EXCEPT !.tries = n])
    BY <2>1, TriedBars DEF BarInv
  <2>4. FetchBars(fetch')
    BY <2>2, <2>3
  <2> QED
    BY <1>2, <2>4, FetchMovesBars
<1> QED
  BY <1>1, <1>2 DEF AskFails

\* Nor does a refused one.
LEMMA RefusedBars == ASSUME WholeInv, BarInv, Refused PROVE BarInv'
<1>1. CASE Error
  BY <1>1, ErrorBars
<1>2. CASE /\ fetch.tries + 1 < AskMax /\ fetch' = [fetch EXCEPT !.tries = @ + 1, !.host = "testnet"]
           /\ UNCHANGED <<clock, stage, history, backfilled, due>>
  <2> DEFINE n == fetch.tries + 1
             h == "testnet"
  <2>1. n \in Nat /\ n < AskMax /\ h \in {"main", "testnet"}
    BY <1>2, KlineAssumption DEF BarInv, FetchBars, FetchType
  <2>2. fetch' = [fetch EXCEPT !.tries = n, !.host = h]
    BY <1>2
  <2> HIDE DEF n, h
  <2>3. FetchBars([fetch EXCEPT !.tries = n, !.host = h])
    BY <2>1, TriedBars DEF BarInv
  <2>4. FetchBars(fetch')
    BY <2>2, <2>3
  <2> QED
    BY <1>2, <2>4, FetchMovesBars
<1>3. CASE /\ fetch.rows # {} /\ fetch' = Left([Took(fetch.rows) EXCEPT !.host = "testnet"])
           /\ UNCHANGED <<clock, stage, history, backfilled, due>>
  <2> DEFINE t == Took(fetch.rows)
             g == [t EXCEPT !.host = "testnet"]
  <2>1. fetch.rows \in SUBSET BarNumbers /\ FetchBars(fetch)
    BY DEF BarInv, FetchBars
  <2>2. FetchBars(t)
    BY <1>3, <2>1, TookBars DEF WholeInv
  <2>3. fetch' = Left(g)
    BY <1>3
  <2> HIDE DEF t
  <2>4. g \in FetchType /\ g.out = t.out /\ g.rows = t.rows /\ g.start = t.start /\ g.cursor = t.cursor
        /\ g.tries = t.tries
    BY <2>2 DEF FetchBars, FetchType
  <2> HIDE DEF g
  <2>5. FetchBars(g)
    BY <2>2, <2>4 DEF FetchBars
  <2>6. FetchBars(fetch')
    BY <2>3, <2>5, LeftBars
  <2> QED
    BY <1>3, <2>6, FetchMovesBars
<1> QED
  BY <1>1, <1>2, <1>3 DEF Refused

\* A page brings bars of the range that was asked for.
LEMMA AnswerBars ==
    ASSUME WholeInv, BarInv, NEW rows \in SUBSET (fetch.cursor..(clock + 1)), Answer(rows)
    PROVE  BarInv'
<1>1. /\ UNCHANGED <<clock, history, due>>
      /\ fetch' = IF rows = {} THEN Left(fetch) ELSE Took(rows)
  BY DEF Answer
<1>2. FetchBars(fetch) /\ fetch.cursor \in BarNumbers /\ clock \in Nat
  BY DEF BarInv, FetchBars, WholeInv
<1>3. rows \in SUBSET BarNumbers /\ IsFiniteSet(rows) /\ \A r \in rows : r <= clock + 1
  <2> DEFINE near == fetch.cursor..(clock + 1)
  <2>1. fetch.cursor \in Int /\ clock + 1 \in Int
    BY <1>2 DEF BarNumbers
  <2>4. IsFiniteSet(near)
    BY <2>1, FS_Interval
  <2>2. IsFiniteSet(near) /\ near \subseteq BarNumbers /\ \A r \in near : r <= clock + 1
    BY <1>2, <2>4 DEF BarNumbers
  <2>3. rows \in SUBSET near
    OBVIOUS
  <2> HIDE DEF near
  <2> QED
    BY <2>2, <2>3, FS_Subset
<1>4. FetchBars(fetch')
  <2>1. FetchBars(Left(fetch))
    BY <1>2, LeftBars
  <2>2. rows # {} => FetchBars(Took(rows))
    BY <1>2, <1>3, TookBars
  <2> QED
    BY <1>1, <2>1, <2>2
<1> QED
  BY <1>1, <1>4, FetchMovesBars

\* A file brings its bars.
LEMMA LoadBars == ASSUME WholeInv, BarInv, NEW file \in Files, Load(file) PROVE BarInv'
<1> DEFINE sorted == InOrder(file)
           buffer == LastOf(sorted, Required)
<1>1. file \subseteq 1..clock /\ clock \in Nat /\ UNCHANGED <<clock, due>>
  BY DEF Load, WholeInv
<1>2. file \in SUBSET BarNumbers /\ file \in SUBSET Int /\ IsFiniteSet(file)
  <2> DEFINE past == 1..clock
  <2>1. IsFiniteSet(past) /\ past \subseteq BarNumbers /\ past \subseteq Int /\ file \in SUBSET past
    BY <1>1, FS_Interval DEF BarNumbers
  <2> HIDE DEF past
  <2> QED
    BY <2>1, FS_Subset
<1>3. sorted \in Seq(BarNumbers)
  <2>1. sorted \in Seq(Int) /\ \A i \in 1..Len(sorted) : sorted[i] \in file
    BY <1>2, InOrderIsOfTheSet
  <2> HIDE DEF sorted
  <2>2. \A i \in 1..Len(sorted) : sorted[i] \in BarNumbers
    BY <1>2, <2>1
  <2> HIDE DEF BarNumbers
  <2>3. sorted \in [1..Len(sorted) -> BarNumbers] /\ Len(sorted) \in Nat
    BY <2>1, <2>2
  <2> QED
    BY <2>3
<1>4. Required \in Nat \ {0} /\ Required <= HistoryMax /\ HistoryMax \in Nat
  BY KlineAssumption
<1>5. buffer \in Seq(BarNumbers) /\ Len(buffer) <= Required
  <2> HIDE DEF sorted
  <2> QED
    BY <1>3, <1>4, TailOfBars
<1>6. \/ UNCHANGED <<history, fetch>>
      \/ /\ ~(Len(buffer) < Required) /\ history' = buffer
         /\ fetch' = FetchOf(Last(buffer) + 1, clock) \/ fetch' = fetch
  BY DEF Load
<1> HIDE DEF buffer
<1>7. CASE UNCHANGED <<history, fetch>>
  BY <1>1, <1>7 DEF BarInv, FetchBars
<1>8. CASE /\ ~(Len(buffer) < Required) /\ history' = buffer
           /\ fetch' = FetchOf(Last(buffer) + 1, clock) \/ fetch' = fetch
  <2>1. Len(buffer) \in Nat /\ buffer # <<>>
    BY <1>4, <1>5, <1>8
  <2>2. Last(buffer) + 1 \in BarNumbers
    BY <1>5, <2>1, LastIsBar DEF BarNumbers
  <2>3. FetchBars(fetch')
    <3>1. FetchBars(FetchOf(Last(buffer) + 1, clock))
      BY <1>1, <2>2, FetchBegins
    <3> QED
      BY <1>8, <3>1 DEF BarInv
  <2>4. Len(history') <= HistoryMax /\ history' \in Seq(BarNumbers)
    BY <1>4, <1>5, <1>8, <2>1
  <2> QED
    BY <1>1, <2>3, <2>4 DEF BarInv, FetchBars
<1> QED
  BY <1>6, <1>7, <1>8

\* A history that grows is cut to its length.
LEMMA GrownBars ==
    ASSUME BarInv, NEW more \in Seq(BarNumbers)
    PROVE  Grown(more) \in Seq(BarNumbers) /\ Len(Grown(more)) <= HistoryMax
<1> DEFINE q == history \o more
<1>1. q \in Seq(BarNumbers)
  BY JoinOfBars DEF BarInv
<1>2. HistoryMax \in Nat \ {0}
  BY KlineAssumption
<1>3. Grown(more) = LastOf(q, HistoryMax)
  BY DEF Grown
<1> HIDE DEF q
<1> QED
  BY <1>1, <1>2, <1>3, TailOfBars

\* Priming keeps bars bars.
LEMMA PrimeBars == ASSUME WholeInv, BarInv, Prime PROVE BarInv'
<1> DEFINE merged == history \o fetch.out
<1>1. /\ fetch' = NoFetch /\ UNCHANGED <<clock, due>>
      /\ history' = LastOf(merged, Required) \/ history' = history
  BY DEF Prime
<1>2. merged \in Seq(BarNumbers)
  BY JoinOfBars DEF BarInv, FetchBars
<1>3. Required \in Nat \ {0} /\ Required <= HistoryMax /\ HistoryMax \in Nat
  BY KlineAssumption
<1> HIDE DEF merged
<1>4. LastOf(merged, Required) \in Seq(BarNumbers) /\ Len(LastOf(merged, Required)) <= Required
  BY <1>2, <1>3, TailOfBars
<1>5. Len(LastOf(merged, Required)) \in Nat
  BY <1>4
<1>6. history' \in Seq(BarNumbers) /\ Len(history') <= HistoryMax
  BY <1>1, <1>3, <1>4, <1>5 DEF BarInv
<1>7. FetchBars(fetch')
  BY <1>1, FetchBegins
<1> QED
  BY <1>1, <1>6, <1>7 DEF BarInv, FetchBars

\* So does the bar of the engine.
LEMMA EvaluateBars == ASSUME WholeInv, BarInv, NEW b \in 1..LastKline, Evaluate(b) PROVE BarInv'
<1>1. /\ b \in BarNumbers /\ b <= clock /\ UNCHANGED clock /\ stage = "live" /\ history # <<>>
  BY KlineAssumption DEF Evaluate, WholeInv, BarNumbers
<1>2. CASE history' = Grown(<<b>>) /\ UNCHANGED <<stage, due, fetch>>
  <2>1. <<b>> \in Seq(BarNumbers)
    <3> HIDE DEF BarNumbers
    <3> QED
      BY <1>1
  <2>2. history' \in Seq(BarNumbers) /\ Len(history') <= HistoryMax
    BY <1>2, <2>1, GrownBars
  <2> QED
    BY <1>1, <1>2, <2>2 DEF BarInv, FetchBars
<1>3. CASE due' = b /\ fetch' = FetchOf(Last(history) + 1, b - 1) /\ UNCHANGED history
  <2>1. Last(history) + 1 \in BarNumbers /\ b - 1 \in Int
    BY <1>1, LastIsBar DEF BarInv, BarNumbers
  <2>2. FetchBars(fetch')
    BY <1>3, <2>1, FetchBegins
  <2>3. due' \in Nat /\ due' <= clock'
    BY <1>1, <1>3 DEF BarNumbers
  <2> QED
    BY <1>1, <1>3, <2>2, <2>3 DEF BarInv, FetchBars
<1> QED
  BY <1>2, <1>3 DEF Evaluate

\* So does the healing.
LEMMA HealBars == ASSUME WholeInv, BarInv, Heal PROVE BarInv'
<1>1. /\ stage = "heal" /\ due' = 0 /\ fetch' = NoFetch /\ UNCHANGED clock
      /\ history' = Grown(Append(fetch.out, due)) \/ history' = history
  BY DEF Heal
<1>2. due \in BarNumbers
  <2>1. history # <<>> /\ due \in Int /\ due > Last(history)
    BY <1>1 DEF WholeInv
  <2>2. Last(history) \in BarNumbers
    BY <2>1, LastIsBar DEF BarInv
  <2> QED
    BY <2>1, <2>2 DEF BarNumbers
<1> DEFINE more == Append(fetch.out, due)
<1>3. more \in Seq(BarNumbers)
  <2>1. fetch.out \in Seq(BarNumbers)
    BY DEF BarInv, FetchBars
  <2> HIDE DEF BarNumbers
  <2> QED
    BY <1>2, <2>1
<1>4. history' = Grown(more) \/ history' = history
  BY <1>1
<1> HIDE DEF more
<1>5. history' \in Seq(BarNumbers) /\ Len(history') <= HistoryMax
  BY <1>3, <1>4, GrownBars DEF BarInv
<1>6. FetchBars(fetch') /\ due' \in Nat /\ due' <= clock'
  BY <1>1, FetchBegins DEF BarInv
<1> QED
  BY <1>1, <1>5, <1>6 DEF BarInv, FetchBars

\* Nothing is loaded at first.
LEMMA BarInitially == KlineInit => BarInv
<1> SUFFICES ASSUME KlineInit PROVE BarInv
  OBVIOUS
<1>1. clock = 1 /\ history = <<>> /\ due = 0 /\ fetch = NoFetch
  BY DEF KlineInit
<1>2. 1 \in 1..LastKline /\ 0 <= HistoryMax
  BY KlineAssumption
<1>3. history \in Seq(BarNumbers) /\ Len(history) = 0
  BY <1>1
<1> QED
  BY <1>1, <1>2, <1>3, FetchBegins DEF BarInv

\* Every step keeps bars bars.
LEMMA BarStep == WholeInv /\ BarInv /\ [KlineNext]_klineVars => BarInv'
<1> SUFFICES ASSUME WholeInv, BarInv, [KlineNext]_klineVars PROVE BarInv'
  OBVIOUS
<1>1. CASE UNCHANGED klineVars
  BY <1>1 DEF klineVars, BarInv, FetchBars
<1>2. CASE KlineNext
  BY <1>2, BarClosesBars, AskFailsBars, RefusedBars, PrimeBars, HealBars, LoadBars, AnswerBars,
     EvaluateBars DEF KlineNext
<1> QED
  BY <1>1, <1>2

\* Whether this start fetched klines.
Said == backfilled \in BOOLEAN

\* It is said once, when the file is loaded.
LEMMA SaidStep == Said /\ [KlineNext]_klineVars => Said'
<1> SUFFICES ASSUME Said, [KlineNext]_klineVars PROVE Said'
  OBVIOUS
<1> USE DEF Said
<1>1. CASE \E file \in Files : Load(file)
  <2>1. PICK file \in Files : Load(file)
    BY <1>1
  <2>2. \/ backfilled' = backfilled
        \/ backfilled' = (clock - Last(LastOf(InOrder(file), Required)) > FreshBars)
    BY <2>1, Zenon DEF Load
  <2>3. (clock - Last(LastOf(InOrder(file), Required)) > FreshBars) \in BOOLEAN
    OBVIOUS
  <2> QED
    BY <2>2, <2>3, Zenon
<1>2. CASE ~(\E file \in Files : Load(file))
  BY <1>2, Zenon DEF KlineNext, klineVars, BarCloses, AskFails, Error, Refused, Prime, Heal, Answer, Evaluate
<1> QED
  BY <1>1, <1>2

\* The invariants include the types.
LEMMA KlineTypeShows == WholeInv /\ BarInv /\ Said => KlineTypeOK
<1> SUFFICES ASSUME WholeInv, BarInv, Said PROVE KlineTypeOK
  OBVIOUS
<1>1. clock \in 1..LastKline /\ LastKline \in Nat /\ due \in 0..clock /\ Len(history) <= HistoryMax
  BY KlineAssumption DEF BarInv
<1>2. history \in Seq(1..LastKline)
  <2>1. history \in Seq(BarNumbers) /\ \A i \in 1..Len(history) : history[i] \in BarNumbers /\ history[i] <= clock
    BY DEF BarInv, WholeInv, Closed
  <2> DEFINE past == 1..LastKline
  <2>2. \A i \in 1..Len(history) : history[i] \in past
    BY <1>1, <2>1 DEF BarNumbers
  <2> HIDE DEF past
  <2>4. Len(history) \in Nat /\ DOMAIN history = 1..Len(history) /\ history = [i \in 1..Len(history) |-> history[i]]
    BY <2>1
  <2>3. history \in [1..Len(history) -> past] /\ Len(history) \in Nat
    BY <2>2, <2>4
  <2>5. history \in Seq(past)
    BY <2>3
  <2> QED
    BY <2>5 DEF past
<1>3. fetch.out \in Seq(1..LastKline + 1)
  <2> DEFINE q == fetch.out
  <2>1. q \in Seq(BarNumbers) /\ \A i \in 1..Len(q) : q[i] \in BarNumbers /\ q[i] <= clock
    BY DEF BarInv, FetchBars, WholeInv, Closed
  <2> HIDE DEF q
  <2> DEFINE past == 1..LastKline + 1
  <2>2. \A i \in 1..Len(q) : q[i] \in past
    BY <1>1, <2>1 DEF BarNumbers
  <2> HIDE DEF past
  <2>5. Len(q) \in Nat /\ DOMAIN q = 1..Len(q) /\ q = [i \in 1..Len(q) |-> q[i]]
    BY <2>1
  <2>3. q \in [1..Len(q) -> past] /\ Len(q) \in Nat
    BY <2>2, <2>5
  <2>4. q \in Seq(past)
    BY <2>3
  <2> QED
    BY <2>4 DEF q, past
<1>4. fetch.rows \subseteq 1..(LastKline + 1)
  BY <1>1 DEF BarInv, FetchBars, WholeInv, BarNumbers
<1>5. fetch.host \in {"main", "testnet"} /\ fetch.tries \in 0..(AskMax - 1)
  BY KlineAssumption DEF BarInv, FetchBars, FetchType
<1> QED
  BY <1>1, <1>2, <1>3, <1>4, <1>5 DEF KlineTypeOK, WholeInv, Said

\* So it is of every behaviour.
LEMMA KlineTypesHold == KlineInit /\ [][KlineNext]_klineVars => []KlineTypeOK
<1>1. KlineInit => Said
  BY Zenon DEF KlineInit, Said
<1> QED
  BY <1>1, WholeInitially, WholeStep, BarInitially, BarStep, SaidStep, KlineTypeShows, PTL

(* Every variable of the history and its fetches keeps its shape, for any  *)
(* files, pages, errors and lengths.                                       *)
THEOREM KlineTypes == KlineSpec => []KlineTypeOK
BY KlineTypesHold, PTL DEF KlineSpec

-----------------------------------------------------------------------------
(* The trades of a replay.                                                 *)

TradeRecords == [in : Moments, out : Moments, reason : Reasons]

\* The last trade has ended when the next may begin, and the position under way began behind it.
ReplayOrder ==
    /\ inPosition => NotAfter(entered.fill, Open(bar)) /\ (model.force => NotAfter(entered.fill, Open(LastBar)))
    /\ trades # <<>> =>
         IF inPosition THEN NotAfter(trades[Len(trades)].out, entered.fill)
         ELSE NotAfter(trades[Len(trades)].out, Open(bar))
    /\ \A i \in 1..Len(trades) : NotAfter(trades[i].in, trades[i].out)
    /\ \A i \in 2..Len(trades) : NotAfter(trades[i - 1].out, trades[i].in)

\* A verdict is passed on what is there, and nothing is added behind it.
VerdictStands ==
    verdict # "none" =>
        /\ verdict = "PASS" <=> trades = benchmark /\ trades # <<>>
        /\ bar = LastBar + 1 /\ ~(inPosition /\ model.force)

ReplayShapes ==
    /\ model \in Models /\ bar \in 1..(LastBar + 1)
    /\ inPosition => entered.fill \in Moments
    /\ trades \in Seq(TradeRecords) /\ benchmark \in Seq(TradeRecords)
    /\ verdict \in {"none", "PASS", "FAIL"}

ReplayInv == inPosition \in BOOLEAN /\ ReplayShapes /\ ReplayOrder /\ VerdictStands

\* The type invariant, the flag apart.
LEMMA ReplayTypeParts == ReplayTypeOK <=> inPosition \in BOOLEAN /\ ReplayShapes
BY Zenon DEF ReplayTypeOK, ReplayShapes, TradeRecords

\* What the assumptions say of bars and execution models.
LEMMA ReplayBounds ==
    /\ LastBar \in Nat \ {0}
    /\ \A m \in Models : /\ m.entry \in {"signal_close", "next_open"} /\ m.exit \in {"signal_reference", "next_open"}
                         /\ m.force \in BOOLEAN
                         /\ m.entry = "signal_close" => ~m.force
BY ReplayAssumption

\* Moments are ordered, and those of the bars are among them.
LEMMA MomentOrder ==
    ASSUME NEW p, p \in Nat \X Nat, NEW q, q \in Nat \X Nat, NEW r, r \in Nat \X Nat
    PROVE  NotAfter(p, q) /\ NotAfter(q, r) => NotAfter(p, r)
BY DEF NotAfter

\* The moments of a bar follow one another, and those of the next bar follow them.
LEMMA MomentsAre ==
    /\ \A b \in Nat : Open(b) \in Nat \X Nat /\ Inside(b) \in Nat \X Nat /\ CloseOf(b) \in Nat \X Nat
    /\ \A b \in Nat : NotAfter(Open(b), Inside(b)) /\ NotAfter(Open(b), CloseOf(b))
                      /\ NotAfter(Inside(b), Open(b + 1)) /\ NotAfter(CloseOf(b), Open(b + 1))
                      /\ NotAfter(Open(b), Open(b + 1)) /\ NotAfter(Open(b), Open(b))
    /\ \A b \in Bars : Open(b) \in Moments /\ Inside(b) \in Moments /\ CloseOf(b) \in Moments
    /\ \A m \in Moments : m \in Nat \X Nat
BY ReplayBounds DEF Open, Inside, CloseOf, NotAfter, Moments, Bars

\* The moments of recorded trades.
LEMMA TradeParts ==
    ASSUME NEW ts \in Seq(TradeRecords)
    PROVE  /\ \A i \in 1..Len(ts) : ts[i].in \in Moments /\ ts[i].out \in Moments
           /\ ts # <<>> => ts[Len(ts)].out \in Moments
<1>1. \A i \in 1..Len(ts) : ts[i] \in TradeRecords
  OBVIOUS
<1>2. \A t \in TradeRecords : t.in \in Moments /\ t.out \in Moments
  BY DEF TradeRecords
<1>3. ts # <<>> => Len(ts) \in 1..Len(ts)
  OBVIOUS
<1> QED BY <1>1, <1>2, <1>3

\* A replay that was not started has no trades.
LEMMA ReplayInitInv == ReplayInit => ReplayInv
<1> SUFFICES ASSUME ReplayInit PROVE ReplayInv
  OBVIOUS
<1>1. inPosition = FALSE /\ trades = <<>> /\ benchmark = <<>> /\ bar = 1 /\ verdict = "none" /\ model \in Models
  BY DEF ReplayInit
<1>2. ReplayShapes
  BY <1>1, ReplayBounds DEF ReplayShapes
<1>3. ReplayOrder /\ VerdictStands
  BY <1>1 DEF ReplayOrder, VerdictStands
<1> QED BY <1>1, <1>2, <1>3 DEF ReplayInv

\* A trade that begins behind the last one and does not end before it begins.
LEMMA TradeAdds ==
    ASSUME ReplayInv, inPosition, NEW out, out \in Moments, NEW reason \in Reasons, NotAfter(entered.fill, out),
           trades' = Append(trades, TradeOf(entered.fill, out, reason))
    PROVE  /\ trades' \in Seq(TradeRecords) /\ trades' # <<>> /\ trades'[Len(trades')].out = out
           /\ \A i \in 1..Len(trades') : NotAfter(trades'[i].in, trades'[i].out)
           /\ \A i \in 2..Len(trades') : NotAfter(trades'[i - 1].out, trades'[i].in)
<1> DEFINE t == TradeOf(entered.fill, out, reason)
<1>1. t \in TradeRecords /\ t.in = entered.fill /\ t.out = out
  BY DEF ReplayInv, ReplayShapes, TradeRecords, TradeOf
<1> HIDE DEF t
<1>2. trades \in Seq(TradeRecords)
  BY DEF ReplayInv, ReplayShapes
<1>3. /\ Len(trades') = Len(trades) + 1 /\ trades' \in Seq(TradeRecords) /\ trades'[Len(trades) + 1] = t
      /\ \A i \in 1..Len(trades) : trades'[i] = trades[i]
      /\ trades' # <<>> /\ Len(trades) \in Nat
  BY <1>1, <1>2 DEF t
<1>4. \A i \in 1..Len(trades) : NotAfter(trades[i].in, trades[i].out)
  BY DEF ReplayInv, ReplayOrder
<1>5. \A i \in 2..Len(trades) : NotAfter(trades[i - 1].out, trades[i].in)
  BY DEF ReplayInv, ReplayOrder
<1>6. Len(trades) > 0 => NotAfter(trades[Len(trades)].out, entered.fill)
  BY <1>2 DEF ReplayInv, ReplayOrder
<1>7. ASSUME NEW i \in 1..Len(trades') PROVE NotAfter(trades'[i].in, trades'[i].out)
  BY <1>1, <1>3, <1>4, <1>7
<1>8. ASSUME NEW i \in 2..Len(trades') PROVE NotAfter(trades'[i - 1].out, trades'[i].in)
  <2>1. CASE i \in 2..Len(trades)
    BY <1>3, <1>5, <2>1
  <2>2. CASE i = Len(trades) + 1
    BY <1>1, <1>3, <1>6, <1>8, <2>2
  <2> QED BY <1>3, <1>8, <2>1, <2>2
<1> QED BY <1>1, <1>3, <1>7, <1>8

\* An entry is at or behind the exit of the last trade.
LEMMA EnterStep ==
    ASSUME ReplayInv, bar <= LastBar, EnterLong, bar' = bar + 1, UNCHANGED <<model, benchmark, verdict>>
    PROVE  ReplayInv'
<1> USE ReplayBounds
<1>1. ~inPosition /\ FillBar <= LastBar /\ inPosition' = TRUE /\ entered' = [signal |-> bar, fill |-> FillAt] /\ trades' = trades
  BY Zenon DEF EnterLong
<1>2. bar \in Bars /\ bar + 1 \in 1..(LastBar + 1) /\ model \in Models /\ trades \in Seq(TradeRecords) /\ bar \in Nat
  BY DEF ReplayInv, ReplayShapes, Bars
<1>3. entered'.fill = FillAt
  BY <1>1
<1>4. /\ FillAt \in Moments /\ NotAfter(FillAt, Open(bar + 1)) /\ NotAfter(Open(bar), FillAt)
      /\ model.force => NotAfter(FillAt, Open(LastBar))
  <2>1. CASE model.entry = "signal_close"
    BY <1>2, <2>1, MomentsAre DEF FillAt
  <2>2. CASE model.entry # "signal_close"
    <3>1. bar + 1 \in Bars /\ bar + 1 <= LastBar
      BY <1>1, <1>2, <2>2 DEF FillBar, Bars
    <3>2. FillAt = Open(bar + 1)
      BY <2>2 DEF FillAt
    <3> QED BY <1>2, <3>1, <3>2, MomentsAre DEF Open, NotAfter
  <2> QED BY <2>1, <2>2
<1>5. ReplayShapes'
  BY <1>1, <1>2, <1>3, <1>4 DEF ReplayInv, ReplayShapes
<1>6. VerdictStands'
  BY <1>2 DEF ReplayInv, ReplayShapes, VerdictStands
<1>7. trades # <<>> => NotAfter(trades[Len(trades)].out, FillAt)
  <2>1. SUFFICES ASSUME trades # <<>> PROVE NotAfter(trades[Len(trades)].out, FillAt)
    OBVIOUS
  <2>2. trades[Len(trades)].out \in Moments
    BY <1>2, <2>1, TradeParts
  <2>3. NotAfter(trades[Len(trades)].out, Open(bar))
    BY <1>1, <2>1 DEF ReplayInv, ReplayOrder
  <2> QED BY <1>2, <1>4, <2>2, <2>3, MomentOrder, MomentsAre
<1>8. ReplayOrder'
  BY <1>1, <1>2, <1>3, <1>4, <1>7 DEF ReplayInv, ReplayOrder
<1> QED BY <1>1, <1>5, <1>6, <1>8 DEF ReplayInv

\* An exit is behind its entry, and makes a trade.
LEMMA ExitStep ==
    ASSUME ReplayInv, bar <= LastBar, NEW signal, signal \in {"exit", "bracket"}, ExitLong(signal), bar' = bar + 1,
           UNCHANGED <<model, benchmark, verdict>>
    PROVE  ReplayInv'
<1> USE ReplayBounds
<1> DEFINE reason == IF signal = "bracket" THEN "bracket" ELSE "exit_signal"
<1>1. /\ inPosition /\ trades' = Append(trades, TradeOf(entered.fill, ExitAt(signal), reason)) /\ inPosition' = FALSE
  BY Zenon DEF ExitLong
<1>2. bar \in Bars /\ bar + 1 \in 1..(LastBar + 1) /\ model \in Models /\ bar \in Nat /\ entered.fill \in Moments
      /\ NotAfter(entered.fill, Open(bar))
  BY <1>1 DEF ReplayInv, ReplayShapes, ReplayOrder, Bars
<1>3. ExitAt(signal) \in Moments /\ NotAfter(Open(bar), ExitAt(signal)) /\ NotAfter(ExitAt(signal), Open(bar + 1))
  <2>1. ExitAt(signal) \in {Inside(bar), CloseOf(bar)} \/ (bar # LastBar /\ ExitAt(signal) = Open(bar + 1))
    BY DEF ExitAt
  <2>2. bar # LastBar => bar + 1 \in Bars
    BY <1>2 DEF Bars
  <2>3. NotAfter(Open(bar), Open(bar + 1)) /\ NotAfter(Open(bar + 1), Open(bar + 1))
    BY <1>2, MomentsAre
  <2> QED BY <1>2, <2>1, <2>2, <2>3, MomentsAre
<1>4. NotAfter(entered.fill, ExitAt(signal)) /\ reason \in Reasons
  BY <1>2, <1>3, MomentOrder, MomentsAre DEF Reasons
<1> HIDE DEF reason
<1>5. /\ trades' \in Seq(TradeRecords) /\ trades' # <<>> /\ trades'[Len(trades')].out = ExitAt(signal)
      /\ \A i \in 1..Len(trades') : NotAfter(trades'[i].in, trades'[i].out)
      /\ \A i \in 2..Len(trades') : NotAfter(trades'[i - 1].out, trades'[i].in)
  BY <1>1, <1>3, <1>4, TradeAdds
<1>6. ReplayShapes'
  BY <1>1, <1>2, <1>5 DEF ReplayInv, ReplayShapes
<1>7. ReplayOrder'
  BY <1>1, <1>3, <1>5 DEF ReplayOrder
<1>8. VerdictStands'
  BY <1>2 DEF ReplayInv, ReplayShapes, VerdictStands
<1> QED BY <1>1, <1>6, <1>7, <1>8 DEF ReplayInv

\* A bar without a trade changes none.
LEMMA IgnoredStep ==
    ASSUME ReplayInv, bar <= LastBar, UNCHANGED <<inPosition, entered, trades>>, bar' = bar + 1,
           UNCHANGED <<model, benchmark, verdict>>
    PROVE  ReplayInv'
<1> USE ReplayBounds
<1>1. bar \in Nat /\ bar + 1 \in 1..(LastBar + 1) /\ trades \in Seq(TradeRecords)
  BY DEF ReplayInv, ReplayShapes
<1>2. \A m \in Moments : NotAfter(m, Open(bar)) => NotAfter(m, Open(bar + 1))
  BY <1>1, MomentsAre DEF NotAfter, Open
<1>3. inPosition => entered.fill \in Moments
  BY DEF ReplayInv, ReplayShapes
<1>4. trades # <<>> => trades[Len(trades)].out \in Moments
  BY <1>1, TradeParts
<1>5. ReplayShapes'
  BY <1>1 DEF ReplayInv, ReplayShapes
<1>6. ReplayOrder'
  BY <1>1, <1>2, <1>3, <1>4 DEF ReplayInv, ReplayOrder
<1>7. VerdictStands'
  BY <1>1 DEF ReplayInv, ReplayShapes, VerdictStands
<1> QED BY <1>5, <1>6, <1>7 DEF ReplayInv

\* The last position is closed at the last bar.
LEMMA ForceStep ==
    ASSUME ReplayInv, ForceExit
    PROVE  ReplayInv'
<1> USE ReplayBounds
<1>1. /\ bar = LastBar + 1 /\ inPosition /\ model.force /\ inPosition' = FALSE
      /\ trades' = Append(trades, TradeOf(entered.fill, Open(LastBar), "force_exit"))
      /\ UNCHANGED <<model, bar, entered, benchmark, verdict>>
  BY Zenon DEF ForceExit
<1>2. LastBar \in Bars /\ LastBar \in Nat /\ NotAfter(entered.fill, Open(LastBar))
  BY <1>1 DEF ReplayInv, ReplayOrder, Bars
<1>3. Open(LastBar) \in Moments /\ "force_exit" \in Reasons /\ NotAfter(Open(LastBar), Open(LastBar + 1))
  BY <1>2, MomentsAre DEF Reasons
<1>4. /\ trades' \in Seq(TradeRecords) /\ trades' # <<>> /\ trades'[Len(trades')].out = Open(LastBar)
      /\ \A i \in 1..Len(trades') : NotAfter(trades'[i].in, trades'[i].out)
      /\ \A i \in 2..Len(trades') : NotAfter(trades'[i - 1].out, trades'[i].in)
  BY <1>1, <1>2, <1>3, TradeAdds
<1>5. ReplayShapes'
  BY <1>1, <1>4 DEF ReplayInv, ReplayShapes
<1>6. ReplayOrder'
  BY <1>1, <1>3, <1>4 DEF ReplayOrder
<1>7. VerdictStands'
  BY <1>1 DEF ReplayInv, VerdictStands
<1> QED BY <1>1, <1>5, <1>6, <1>7 DEF ReplayInv

\* PASS is said of equal lists that are not empty.
LEMMA PassIsEqual ==
    ASSUME NEW bm \in Seq(TradeRecords), NEW rp \in Seq(TradeRecords)
    PROVE  Status(bm, rp) = "PASS" <=> rp = bm /\ rp # <<>>
<1> DEFINE n == Shorter(bm, rp)
           D == Differing(bm, rp)
<1>1. Len(bm) \in Nat /\ Len(rp) \in Nat /\ n \in Nat
  BY DEF Shorter
<1>2. D \in SUBSET (1..n) /\ IsFiniteSet(1..n)
  BY <1>1, FS_Interval DEF Differing
<1>3. IsFiniteSet(D) /\ Cardinality(D) \in Nat /\ (Cardinality(D) = 0 <=> D = {})
  BY <1>2, FS_Subset, FS_CardinalityType, FS_EmptySet
<1>4. bm = [i \in 1..Len(bm) |-> bm[i]] /\ rp = [i \in 1..Len(rp) |-> rp[i]]
  OBVIOUS
<1>5. D = {} /\ Len(bm) = Len(rp) <=> bm = rp
  <2>1. ASSUME D = {}, Len(bm) = Len(rp) PROVE bm = rp
    <3>1. n = Len(bm)
      BY <2>1 DEF Shorter
    <3>2. \A i \in 1..Len(bm) : bm[i] = rp[i]
      BY <2>1, <3>1 DEF Differing
    <3> QED BY <1>4, <2>1, <3>2
  <2>2. ASSUME bm = rp PROVE D = {} /\ Len(bm) = Len(rp)
    BY <2>2 DEF Differing
  <2> QED BY <2>1, <2>2
<1>6. Mismatches(bm, rp) = Cardinality(D) + (IF Len(bm) # Len(rp) THEN 1 ELSE 0)
  BY DEF Mismatches
<1>7. AllMatched(bm, rp) <=> n - Cardinality(D) = (IF Len(bm) = 0 THEN 1 ELSE Len(bm))
  BY DEF AllMatched
<1>8. rp # <<>> <=> Len(rp) # 0
  OBVIOUS
<1>9. Len(bm) = Len(rp) => n = Len(bm)
  BY DEF Shorter
<1> HIDE DEF n, D
<1>10. AllMatched(bm, rp) /\ Mismatches(bm, rp) = 0 <=> rp = bm /\ rp # <<>>
  BY <1>1, <1>3, <1>5, <1>6, <1>7, <1>8, <1>9
<1> QED BY <1>10 DEF Status

\* What a replay is compared with are lists of trades.
LEMMA NearAreTrades ==
    ASSUME NEW ts \in Seq(TradeRecords), NEW bm \in Near(ts)
    PROVE  bm \in Seq(TradeRecords)
<1> USE ReplayBounds
<1>1. LastBar \in Bars /\ 1 \in Bars
  BY DEF Bars
<1>2. Open(LastBar) \in Moments /\ CloseOf(LastBar) \in Moments /\ Inside(1) \in Moments
  BY <1>1, MomentsAre
<1>3. TradeOf(Open(LastBar), CloseOf(LastBar), "bracket") \in TradeRecords
  BY <1>2 DEF TradeOf, TradeRecords, Reasons
<1>4. \A i \in 1..Len(ts), m \in {CloseOf(LastBar), Inside(1)}, r \in Reasons :
         TradeOf(ts[i].in, m, r) \in TradeRecords
  BY <1>2, TradeParts DEF TradeOf, TradeRecords
<1>5. CASE bm = Append(ts, TradeOf(Open(LastBar), CloseOf(LastBar), "bracket"))
  BY <1>3, <1>5
<1>6. CASE ts # <<>> /\ bm = Front(ts)
  BY <1>6 DEF Front
<1>7. CASE \E i \in 1..Len(ts), m \in {CloseOf(LastBar), Inside(1)}, r \in Reasons :
             bm = ReplaceAt(ts, i, TradeOf(ts[i].in, m, r))
  <2>1. PICK i \in 1..Len(ts), m \in {CloseOf(LastBar), Inside(1)}, r \in Reasons :
             bm = ReplaceAt(ts, i, TradeOf(ts[i].in, m, r))
    BY <1>7
  <2>2. TradeOf(ts[i].in, m, r) \in TradeRecords
    BY <1>4
  <2> QED BY <2>1, <2>2 DEF ReplaceAt
<1> QED BY <1>5, <1>6, <1>7 DEF Near

\* A verdict is about the trades as they stand.
LEMMA VerifyStep ==
    ASSUME ReplayInv, NEW bm \in Near(trades), Verify(bm)
    PROVE  ReplayInv'
<1>1. /\ bar = LastBar + 1 /\ ~(inPosition /\ model.force) /\ verdict = "none"
      /\ benchmark' = bm /\ verdict' = Status(bm, trades)
      /\ UNCHANGED <<model, bar, inPosition, entered, trades>>
  BY Zenon DEF Verify
<1>2. trades \in Seq(TradeRecords)
  BY DEF ReplayInv, ReplayShapes
<1>3. bm \in Seq(TradeRecords)
  BY <1>2, NearAreTrades
<1>4. verdict' \in {"PASS", "FAIL"} /\ (verdict' = "PASS" <=> trades = bm /\ trades # <<>>)
  BY <1>1, <1>2, <1>3, PassIsEqual DEF Status
<1>5. ReplayShapes'
  BY <1>1, <1>3, <1>4 DEF ReplayInv, ReplayShapes
<1>6. ReplayOrder'
  BY <1>1 DEF ReplayInv, ReplayOrder
<1>7. VerdictStands'
  BY <1>1, <1>4 DEF VerdictStands
<1> QED BY <1>1, <1>5, <1>6, <1>7 DEF ReplayInv

\* Every step keeps the trades honest.
LEMMA ReplayStep == ReplayInv /\ [ReplayNext]_replayVars => ReplayInv'
<1> SUFFICES ASSUME ReplayInv, [ReplayNext]_replayVars PROVE ReplayInv'
  OBVIOUS
<1>1. ASSUME NEW signal \in Signals, Feed(signal) PROVE ReplayInv'
  <2>1. bar <= LastBar /\ bar' = bar + 1 /\ UNCHANGED <<model, benchmark, verdict>>
    BY <1>1, Zenon DEF Feed
  <2>2. CASE EnterLong
    BY <2>1, <2>2, EnterStep
  <2>3. CASE signal \in {"exit", "bracket"} /\ ExitLong(signal)
    BY <2>1, <2>3, ExitStep
  <2>4. CASE Ignored(signal)
    <3>1. UNCHANGED <<inPosition, entered, trades>>
      BY <2>4, Zenon DEF Ignored
    <3> QED BY <2>1, <3>1, IgnoredStep
  <2> QED BY <1>1, <2>2, <2>3, <2>4, Zenon DEF Feed
<1>2. CASE UNCHANGED replayVars
  <2>1. UNCHANGED <<model, bar, inPosition, entered, trades, benchmark, verdict>>
    BY <1>2, Zenon DEF replayVars
  <2> QED BY <2>1 DEF ReplayInv, ReplayShapes, ReplayOrder, VerdictStands
<1> QED BY <1>1, <1>2, ForceStep, VerifyStep, Zenon DEF ReplayNext

\* So it is of every behaviour.
LEMMA ReplayHolds == ReplayInit /\ [][ReplayNext]_replayVars => []ReplayInv
BY ReplayInitInv, ReplayStep, PTL

\* What the run checks of it.
LEMMA ReplayInvShows == ReplayInv => TradesAreHonest
BY Zenon DEF ReplayInv, ReplayOrder, VerdictStands, TradesAreHonest

-----------------------------------------------------------------------------
(* The comparison of candles.                                              *)

\* A dictionary keeps, of a time it has, the last candle of the list.
LEMMA LastAtIs ==
    ASSUME NEW C, NEW cs \in Seq(C), NEW t \in Times(cs)
    PROVE  \E i \in 1..Len(cs) : LastAt(cs, t) = cs[i] /\ cs[i].at = t
<1> DEFINE n == Len(cs)
           Is(i) == cs[i].at = t /\ \A j \in (i + 1)..n : cs[j].at # t
           S == {n - i : i \in {j \in 1..n : cs[j].at = t}}
<1>1. n \in Nat
  OBVIOUS
<1>2. S \in SUBSET Nat /\ S # {}
  BY <1>1 DEF Times
<1>3. PICK m \in S : \A k \in S : m <= k
  <2> HIDE DEF S
  <2> QED BY <1>2, LeastNumber
<1>4. PICK i \in 1..n : m = n - i /\ cs[i].at = t
  BY <1>3
<1>5. \A j \in (i + 1)..n : cs[j].at # t
  <2>1. SUFFICES ASSUME NEW j \in (i + 1)..n, cs[j].at = t PROVE FALSE
    OBVIOUS
  <2>2. j \in 1..n /\ n - j \in S
    BY <1>1, <2>1
  <2>3. m <= n - j
    BY <1>3, <2>2
  <2> QED BY <1>1, <1>4, <2>1, <2>3
<1>6. \E k \in 1..n : Is(k)
  BY <1>4, <1>5
<1>7. LastAt(cs, t) = cs[CHOOSE k \in 1..n : Is(k)]
  BY Zenon DEF LastAt
<1> HIDE DEF n
<1>8. (CHOOSE k \in 1..n : Is(k)) \in 1..n /\ Is(CHOOSE k \in 1..n : Is(k))
  <2> HIDE DEF Is
  <2> QED BY <1>6, Zenon
<1> QED BY <1>7, <1>8 DEF n

\* The lists can be paired one to one.
PairedUp(rebuilt, dataset) ==
    LET kept == {LastAt(dataset, t) : t \in Times(dataset)}
    IN  /\ rebuilt # <<>> /\ Len(rebuilt) = Cardinality(kept)
        /\ \A e \in kept : \E i \in 1..Len(rebuilt) : rebuilt[i].at = e.at /\ Agrees(e, rebuilt[i])

\* What is compared is compared candle by candle, whatever the two lists are.
LEMMA PassedIsPaired ==
    ASSUME NEW R, NEW D, NEW rebuilt \in Seq(R), NEW dataset \in Seq(D)
    PROVE  Passed(rebuilt, dataset) <=> PairedUp(rebuilt, dataset)
<1> DEFINE n == Len(rebuilt)
           TD == Times(dataset)
           TR == Times(rebuilt)
           kept == {LastAt(dataset, t) : t \in TD}
           at == [i \in 1..n |-> rebuilt[i].at]
           of == [t \in TD |-> LastAt(dataset, t)]
           Paired == /\ rebuilt # <<>> /\ n = Cardinality(kept)
                     /\ \A e \in kept : \E i \in 1..n : rebuilt[i].at = e.at /\ Agrees(e, rebuilt[i])
<1>1. n \in Nat /\ IsFiniteSet(1..n) /\ Cardinality(1..n) = n
  <2>1. n \in Nat /\ n \in Int /\ 1 \in Int
    OBVIOUS
  <2> HIDE DEF n
  <2>2. IsFiniteSet(1..n) /\ Cardinality(1..n) = IF 1 > n THEN 0 ELSE n - 1 + 1
    BY <2>1, FS_Interval
  <2> QED BY <2>1, <2>2
<1>2. \A t \in TD : LastAt(dataset, t).at = t
  BY LastAtIs
<1>3. IsFiniteSet(TD)
  <2> DEFINE m == Len(dataset)
             f == [i \in 1..m |-> dataset[i].at]
  <2>1. m \in Nat /\ IsFiniteSet(1..m)
    <3>1. m \in Nat
      OBVIOUS
    <3> QED BY <3>1, FS_Interval
  <2>2. f \in Surjection(1..m, TD)
    BY DEF Times, Surjection
  <2> HIDE DEF m, f, TD
  <2> QED BY <2>1, <2>2, FS_Surjection
<1>4. IsFiniteSet(kept) /\ Cardinality(kept) = Cardinality(TD)
  <2>1. of \in [TD -> kept] /\ \A e \in kept : \E t \in TD : of[t] = e
    OBVIOUS
  <2>2. \A t, u \in TD : of[t] = of[u] => t = u
    BY <1>2
  <2> HIDE DEF of, kept, TD
  <2>3. of \in Bijection(TD, kept)
    BY <2>1, <2>2 DEF Bijection, Injection, Surjection, IsInjective
  <2>4. ExistsBijection(TD, kept)
    BY <2>3 DEF ExistsBijection
  <2> QED BY <1>3, <2>4, FS_Bijection
<1>5. at \in Surjection(1..n, TR)
  BY DEF Times, Surjection
<1>6. Duplicated(rebuilt) = {} <=> at \in Injection(1..n, TR)
  <2>1. at \in [1..n -> TR]
    BY DEF Times
  <2>2. at \in Injection(1..n, TR) <=> \A i, j \in 1..n : rebuilt[i].at = rebuilt[j].at => i = j
    <3>1. \A i \in 1..n : at[i] = rebuilt[i].at
      OBVIOUS
    <3> HIDE DEF at, n, TR
    <3> QED BY <2>1, <3>1 DEF Injection, IsInjective
  <2>3. ASSUME Duplicated(rebuilt) = {}, NEW i \in 1..n, NEW j \in 1..n, rebuilt[i].at = rebuilt[j].at PROVE i = j
    <3>1. \A p \in 1..n, q \in 1..n : q < p => rebuilt[q].at # rebuilt[p].at
      BY <2>3, <1>1 DEF Duplicated
    <3> QED BY <2>3, <3>1, <1>1
  <2>4. ASSUME \A i, j \in 1..n : rebuilt[i].at = rebuilt[j].at => i = j PROVE Duplicated(rebuilt) = {}
    BY <2>4, <1>1 DEF Duplicated
  <2> QED BY <2>2, <2>3, <2>4
<1>7. ASSUME Passed(rebuilt, dataset) PROVE Paired
  <2>1. TD = TR /\ TD # {} /\ Duplicated(rebuilt) = {} /\ Mismatched(rebuilt, dataset) = {}
    BY <1>7 DEF Passed
  <2>2. Cardinality(TR) = n
    <3> HIDE DEF at, TR, n
    <3> QED BY <1>1, <1>5, <1>6, <2>1, FS_Surjection
  <2>3. n = Cardinality(kept)
    BY <1>4, <2>1, <2>2
  <2>4. rebuilt # <<>>
    <3>1. TR # {}
      BY <2>1
    <3>2. PICK i \in 1..n : TRUE
      BY <3>1 DEF Times
    <3> QED BY <3>2
  <2>5. ASSUME NEW e \in kept PROVE \E i \in 1..n : rebuilt[i].at = e.at /\ Agrees(e, rebuilt[i])
    <3>1. PICK t \in TD : e = LastAt(dataset, t)
      OBVIOUS
    <3>2. Agrees(e, LastAt(rebuilt, t))
      BY <2>1, <3>1 DEF Mismatched
    <3>3. PICK i \in 1..n : LastAt(rebuilt, t) = rebuilt[i] /\ rebuilt[i].at = t
      BY <2>1, LastAtIs
    <3> QED BY <1>2, <3>1, <3>2, <3>3
  <2> HIDE DEF kept
  <2> QED BY <2>3, <2>4, <2>5
<1>8. ASSUME Paired PROVE Passed(rebuilt, dataset)
  <2>1. TD \subseteq TR
    <3>1. SUFFICES ASSUME NEW t \in TD PROVE t \in TR
      OBVIOUS
    <3>2. LastAt(dataset, t) \in kept /\ LastAt(dataset, t).at = t
      BY <1>2
    <3>3. PICK i \in 1..n : rebuilt[i].at = LastAt(dataset, t).at
      BY <1>8, <3>2
    <3> QED BY <3>2, <3>3 DEF Times
  <2>2. IsFiniteSet(TR) /\ Cardinality(TR) <= n /\ (Cardinality(TR) = n <=> at \in Injection(1..n, TR))
    <3> HIDE DEF at, TR, n
    <3> QED BY <1>1, <1>5, FS_Surjection
  <2>3. Cardinality(TD) = n
    BY <1>4, <1>8
  <2>4. Cardinality(TD) <= Cardinality(TR) /\ (Cardinality(TR) = Cardinality(TD) => TR = TD)
    <3> HIDE DEF TR, TD
    <3> QED BY <2>1, <2>2, FS_Subset
  <2>5. Cardinality(TR) = n
    <3>1. Cardinality(TR) \in Nat
      BY <2>2, FS_CardinalityType
    <3> HIDE DEF TR, TD
    <3> QED BY <1>1, <2>2, <2>3, <2>4, <3>1
  <2>6. TR = TD /\ Duplicated(rebuilt) = {}
    BY <1>6, <2>2, <2>3, <2>4, <2>5
  <2>7. TD # {}
    <3>1. n # 0
      BY <1>8
    <3> QED BY <1>1, <2>3, <3>1, FS_EmptySet
  <2>8. Mismatched(rebuilt, dataset) = {}
    <3>1. SUFFICES ASSUME NEW t \in TD \cap TR PROVE Agrees(LastAt(dataset, t), LastAt(rebuilt, t))
      BY DEF Mismatched
    <3>2. LastAt(dataset, t) \in kept /\ LastAt(dataset, t).at = t
      BY <1>2
    <3>3. PICK i \in 1..n : rebuilt[i].at = t /\ Agrees(LastAt(dataset, t), rebuilt[i])
      BY <1>8, <3>2
    <3>4. PICK j \in 1..n : LastAt(rebuilt, t) = rebuilt[j] /\ rebuilt[j].at = t
      BY LastAtIs
    <3>5. i = j
      <4>1. at \in Injection(1..n, TR) /\ at[i] = at[j]
        BY <1>6, <2>6, <3>3, <3>4
      <4> HIDE DEF at, n, TR
      <4> QED BY <4>1 DEF Injection, IsInjective
    <3> QED BY <3>3, <3>4, <3>5
  <2> QED BY <2>6, <2>7, <2>8 DEF Passed
<1> HIDE DEF kept
<1>9. PairedUp(rebuilt, dataset) <=> Paired
  BY Zenon DEF PairedUp, kept
<1> QED BY <1>7, <1>8, <1>9, Zenon

-----------------------------------------------------------------------------
(* The figures of an equity curve.                                         *)

\* A fall from point i to point j is one of those a drawdown is measured by.
IsSpan(pts, i, j) == i <= j /\ pts[i] > 0 /\ (pts[j] >= 0 \/ \A k \in 1..j : pts[k] <= pts[i])

\* The deepest fall is no deeper than w, and one of them is as deep.
Covers(pts, w) ==
    \A i, j \in 1..Len(pts) : IsSpan(pts, i, j) => (pts[i] - pts[j]) * w[2] <= w[1] * pts[i]
Reaches(pts, w) ==
    \E i, j \in 1..Len(pts) : IsSpan(pts, i, j) /\ w[1] * pts[i] <= (pts[i] - pts[j]) * w[2]

Highest(pts, peak) ==
    /\ \A k \in 1..Len(pts) : pts[k] <= peak
    /\ \E k \in 1..Len(pts) : pts[k] = peak

\* The curve's figures are those of its points.
CurveFits ==
    /\ curve.points \in Seq(Int) /\ Len(curve.points) \in 1..(MaxSettled + 1)
    /\ curve.peak \in Nat \ {0} /\ Highest(curve.points, curve.peak)
    /\ curve.worst \in Nat \X (Nat \ {0})
    /\ Covers(curve.points, curve.worst) /\ Reaches(curve.points, curve.worst)
    /\ curve.problems \in 0..(Len(curve.points) - 1)

SizesFit == compounding /\ curve.problems = 0 => \A i \in 1..(Len(curve.points) - 1) : curve.points[i] > 0

ComparisonShape ==
    comparison.rebuilt \in Seq(RebuiltCandles) /\ comparison.dataset \in Seq(DatasetCandles)

FiguresFlags == compounding \in BOOLEAN /\ comparison.done \in BOOLEAN /\ comparison.passed \in BOOLEAN

ComparisonFits == comparison.done => comparison.passed = Passed(comparison.rebuilt, comparison.dataset)

FiguresInv == FiguresFlags /\ CurveFits /\ SizesFit /\ ComparisonShape /\ ComparisonFits

\* A ratio no greater than another is no greater than what that one is no greater than.
LEMMA RatiosTransitive ==
    ASSUME NEW a \in Int, NEW b \in Int, NEW c \in Int, NEW d \in Int, NEW e \in Int, NEW f \in Int,
           b > 0, d > 0, f > 0, a * d <= c * b, c * f <= e * d
    PROVE  a * f <= e * b
<1>1. (a * d) * f <= (c * b) * f
  <2> DEFINE x == a * d
             y == c * b
  <2>1. x \in Int /\ y \in Int /\ x <= y
    OBVIOUS
  <2> HIDE DEF x, y
  <2>2. x * f <= y * f
    BY <2>1
  <2> QED BY <2>2 DEF x, y
<1>2. (c * f) * b <= (e * d) * b
  <2> DEFINE x == c * f
             y == e * d
  <2>1. x \in Int /\ y \in Int /\ x <= y
    OBVIOUS
  <2> HIDE DEF x, y
  <2>2. x * b <= y * b
    BY <2>1
  <2> QED BY <2>2 DEF x, y
<1>3. (a * d) * f = (a * f) * d /\ (c * b) * f = (c * f) * b /\ (e * d) * b = (e * b) * d
  OBVIOUS
<1>4. (a * f) * d <= (e * b) * d
  <2>1. (a * d) * f \in Int /\ (c * b) * f \in Int /\ (e * d) * b \in Int
    OBVIOUS
  <2> QED BY <1>1, <1>2, <1>3, <2>1
<1> DEFINE p == a * f
           q == e * b
<1>5. p \in Int /\ q \in Int /\ p * d <= q * d
  BY <1>4
<1> HIDE DEF p, q
<1>6. p <= q
  <2>1. SUFFICES ASSUME p >= q + 1 PROVE FALSE
    BY <1>5
  <2>2. p * d >= (q + 1) * d
    BY <1>5, <2>1
  <2>3. (q + 1) * d = q * d + d
    BY <1>5
  <2> QED BY <1>5, <2>2, <2>3
<1> QED BY <1>6 DEF p, q

\* A new point: the falls that end at it are measured from the highest.
LEMMA CurveGrows ==
    ASSUME NEW pts \in Seq(Int), Len(pts) >= 1, NEW after \in Int, NEW peak \in Nat \ {0}, Highest(pts, peak),
           NEW worst \in Nat \X (Nat \ {0}), Covers(pts, worst), Reaches(pts, worst)
    PROVE  LET grown == Append(pts, after)
               top == Higher(peak, after)
               deepest == Deeper(<<top - after, top>>, worst)
           IN  /\ top \in Nat \ {0} /\ Highest(grown, top)
               /\ deepest \in Nat \X (Nat \ {0}) /\ Covers(grown, deepest) /\ Reaches(grown, deepest)
<1> DEFINE grown == Append(pts, after)
           n == Len(pts)
           top == Higher(peak, after)
           fall == <<top - after, top>>
           deepest == Deeper(fall, worst)
<1>1. /\ n \in Nat /\ n >= 1 /\ Len(grown) = n + 1 /\ grown[n + 1] = after /\ grown \in Seq(Int)
      /\ \A k \in 1..n : grown[k] = pts[k] /\ pts[k] \in Int
  OBVIOUS
<1>2. top \in Nat \ {0} /\ after <= top /\ peak <= top /\ (top = peak \/ top = after)
  BY DEF Higher
<1>3. worst[1] \in Nat /\ worst[2] \in Nat \ {0} /\ worst = <<worst[1], worst[2]>>
  OBVIOUS
<1>4. fall[1] = top - after /\ fall[2] = top /\ fall \in Nat \X (Nat \ {0})
  BY <1>2
<1>5. \/ deepest = fall /\ fall[1] * worst[2] > worst[1] * fall[2]
      \/ deepest = worst /\ fall[1] * worst[2] <= worst[1] * fall[2]
  <2>1. fall[1] * worst[2] \in Int /\ worst[1] * fall[2] \in Int
    BY <1>2, <1>3, <1>4
  <2> QED BY <2>1 DEF Deeper
<1> HIDE DEF grown, n, top, fall, deepest
<1>6. Highest(grown, top)
  <2>1. \A k \in 1..n : pts[k] <= peak
    BY DEF Highest, n
  <2>2. PICK k \in 1..n : pts[k] = peak
    BY DEF Highest, n
  <2>3. ASSUME NEW i \in 1..(n + 1) PROVE grown[i] <= top
    <3>1. CASE i \in 1..n
      <4>1. grown[i] = pts[i] /\ pts[i] \in Int /\ pts[i] <= peak
        BY <1>1, <2>1, <3>1
      <4> QED BY <1>2, <4>1
    <3>2. CASE i = n + 1
      BY <1>1, <1>2, <3>2
    <3> QED BY <1>1, <2>3, <3>1, <3>2
  <2>4. \E i \in 1..(n + 1) : grown[i] = top
    <3>1. CASE top = peak
      <4>1. k \in 1..(n + 1) /\ grown[k] = top
        BY <1>1, <2>2, <3>1
      <4> QED BY <4>1
    <3>2. CASE top = after
      <4>1. n + 1 \in 1..(n + 1) /\ grown[n + 1] = top
        BY <1>1, <3>2
      <4> QED BY <4>1
    <3> QED BY <1>2, <3>1, <3>2
  <2> QED BY <1>1, <2>3, <2>4 DEF Highest
\* Spans of the old points are the old spans.
<1>7. \A i, j \in 1..n : IsSpan(grown, i, j) <=> IsSpan(pts, i, j)
  <2>1. SUFFICES ASSUME NEW i \in 1..n, NEW j \in 1..n PROVE IsSpan(grown, i, j) <=> IsSpan(pts, i, j)
    OBVIOUS
  <2>2. \A k \in 1..j : k \in 1..n
    BY <1>1
  <2>3. (\A k \in 1..j : grown[k] <= grown[i]) <=> (\A k \in 1..j : pts[k] <= pts[i])
    BY <1>1, <2>2
  <2> QED BY <1>1, <2>3 DEF IsSpan
<1>8. \A i, j \in 1..n : IsSpan(grown, i, j) => (grown[i] - grown[j]) * worst[2] <= worst[1] * grown[i]
  BY <1>1, <1>7 DEF Covers, n
\* A fall to the new point is no deeper than the one from the highest.
<1>9. ASSUME NEW i \in 1..(n + 1), IsSpan(grown, i, n + 1)
      PROVE  (grown[i] - after) * fall[2] <= fall[1] * grown[i]
  <2> DEFINE g == grown[i]
  <2>1. g \in Int /\ g > 0 /\ g <= top /\ (after >= 0 \/ g = top)
    <3>1. g \in Int /\ g > 0 /\ g <= top
      BY <1>1, <1>6, <1>9 DEF IsSpan, Highest
    <3>2. ASSUME after < 0 PROVE g = top
      <4>1. \A k \in 1..(n + 1) : grown[k] <= g
        BY <1>1, <1>9, <3>2 DEF IsSpan
      <4>2. PICK k \in 1..(n + 1) : grown[k] = top
        BY <1>1, <1>6 DEF Highest
      <4> QED BY <1>2, <3>1, <4>1, <4>2
    <3> QED BY <3>1, <3>2
  <2> HIDE DEF g
  <2>2. (g - after) * top = g * top - after * top /\ (top - after) * g = g * top - after * g
    BY <1>2, <2>1
  <2>3. after * g <= after * top
    BY <1>2, <2>1
  <2>4. after * g \in Int /\ after * top \in Int /\ g * top \in Int
    BY <1>2, <2>1
  <2>5. (g - after) * top <= (top - after) * g
    BY <2>2, <2>3, <2>4
  <2> QED BY <1>4, <2>5 DEF g
<1>10. \A i, j \in 1..(n + 1) : IsSpan(grown, i, j) => grown[i] \in Int /\ grown[i] > 0 /\ grown[j] \in Int
  <2>1. \A k \in 1..(n + 1) : grown[k] \in Int
    BY <1>1
  <2> QED BY <2>1 DEF IsSpan
<1>11. Covers(grown, deepest)
  <2>1. SUFFICES ASSUME NEW i \in 1..(n + 1), NEW j \in 1..(n + 1), IsSpan(grown, i, j)
                 PROVE  (grown[i] - grown[j]) * deepest[2] <= deepest[1] * grown[i]
    BY <1>1 DEF Covers
  <2> DEFINE a == grown[i] - grown[j]
             b == grown[i]
  <2>2. a \in Int /\ b \in Int /\ b > 0
    BY <1>10, <2>1
  <2>3. i <= j
    BY <2>1 DEF IsSpan
  <2>4. CASE j \in 1..n
    <3>1. i \in 1..n
      BY <1>1, <2>3, <2>4
    <3>2. a * worst[2] <= worst[1] * b
      BY <1>8, <2>1, <2>4, <3>1
    <3>3. CASE deepest = worst
      BY <3>2, <3>3
    <3>4. CASE deepest = fall /\ fall[1] * worst[2] > worst[1] * fall[2]
      <4>1. worst[1] * fall[2] <= fall[1] * worst[2]
        BY <1>3, <1>4, <3>4, SMTT(30)
      <4> DEFINE w1 == worst[1]
                 w2 == worst[2]
                 f1 == fall[1]
                 f2 == fall[2]
      <4>3. w1 \in Int /\ w2 \in Int /\ f1 \in Int /\ f2 \in Int /\ w2 > 0 /\ f2 > 0
        BY <1>2, <1>3, <1>4
      <4>4. a * w2 <= w1 * b /\ w1 * f2 <= f1 * w2
        BY <3>2, <4>1
      <4> HIDE DEF a, b, w1, w2, f1, f2
      <4>5. a * f2 <= f1 * b
        BY <2>2, <4>3, <4>4, RatiosTransitive
      <4>2. a * fall[2] <= fall[1] * b
        BY <4>5 DEF f1, f2
      <4> QED BY <3>4, <4>2 DEF a, b
    <3> QED BY <1>5, <3>3, <3>4
  <2>5. CASE j = n + 1
    <3>1. a * fall[2] <= fall[1] * b
      BY <1>1, <1>9, <2>1, <2>5
    <3>2. CASE deepest = fall
      BY <3>1, <3>2
    <3>3. CASE deepest = worst /\ fall[1] * worst[2] <= worst[1] * fall[2]
      <4> DEFINE w1 == worst[1]
                 w2 == worst[2]
                 f1 == fall[1]
                 f2 == fall[2]
      <4>2. w1 \in Int /\ w2 \in Int /\ f1 \in Int /\ f2 \in Int /\ w2 > 0 /\ f2 > 0
        BY <1>2, <1>3, <1>4
      <4>3. a * f2 <= f1 * b /\ f1 * w2 <= w1 * f2
        BY <3>1, <3>3
      <4> HIDE DEF a, b, w1, w2, f1, f2
      <4>4. a * w2 <= w1 * b
        BY <2>2, <4>2, <4>3, RatiosTransitive
      <4>1. a * worst[2] <= worst[1] * b
        BY <4>4 DEF w1, w2
      <4> QED BY <3>3, <4>1 DEF a, b
    <3> QED BY <1>5, <3>2, <3>3
  <2> QED BY <1>1, <2>1, <2>4, <2>5
<1>12. Reaches(grown, deepest)
  <2>1. CASE deepest = worst
    <3>1. PICK i \in 1..n, j \in 1..n : IsSpan(pts, i, j) /\ worst[1] * pts[i] <= (pts[i] - pts[j]) * worst[2]
      BY DEF Reaches, n
    <3>2. i \in 1..(n + 1) /\ j \in 1..(n + 1) /\ grown[i] = pts[i] /\ grown[j] = pts[j]
      BY <1>1, <3>1
    <3>3. IsSpan(grown, i, j)
      BY <1>7, <3>1
    <3>4. worst[1] * grown[i] <= (grown[i] - grown[j]) * worst[2]
      BY <3>1, <3>2, Zenon
    <3> QED BY <1>1, <2>1, <3>2, <3>3, <3>4 DEF Reaches
  <2>2. CASE deepest = fall
    <3>1. PICK k \in 1..(n + 1) : grown[k] = top
      BY <1>1, <1>6 DEF Highest
    <3>2. \A i \in 1..(n + 1) : grown[i] <= grown[k]
      BY <1>1, <1>6, <3>1 DEF Highest
    <3>3. IsSpan(grown, k, n + 1)
      BY <1>1, <1>2, <3>1, <3>2 DEF IsSpan
    <3>4. fall[1] * grown[k] <= (grown[k] - grown[n + 1]) * fall[2]
      BY <1>1, <1>2, <1>4, <3>1
    <3>5. n + 1 \in 1..Len(grown) /\ k \in 1..Len(grown)
      BY <1>1
    <3> QED BY <2>2, <3>3, <3>4, <3>5 DEF Reaches
  <2> QED BY <1>5, <2>1, <2>2
<1>13. deepest \in Nat \X (Nat \ {0})
  BY <1>4, <1>5
<1> QED BY <1>2, <1>6, <1>11, <1>12, <1>13 DEF grown, top, fall, deepest

\* What the assumptions say of the constants.
LEMMA FiguresBounds ==
    /\ OpeningBalance \in Nat \ {0} /\ CurveLeverage \in Nat \ {0} /\ CurveFeeShare \in Nat \ {0}
    /\ QtyStep \in Nat \ {0} /\ QtyMin \in Nat /\ MaxSettled \in Nat
    /\ MaxRebuilt \in Nat /\ MaxDataset \in Nat
    /\ CurvePrices \subseteq Nat \ {0}
BY FiguresAssumption

\* An empty curve has its opening balance.
LEMMA FiguresInitInv == FiguresInit => FiguresInv
<1> SUFFICES ASSUME FiguresInit PROVE FiguresInv
  OBVIOUS
<1> USE FiguresBounds
<1>1. /\ curve = [points |-> <<OpeningBalance>>, peak |-> OpeningBalance, worst |-> <<0, 1>>, problems |-> 0]
      /\ comparison.rebuilt = <<>> /\ comparison.dataset = <<>>
  BY DEF FiguresInit, NotCompared
<1>2. comparison.done = FALSE /\ comparison.passed = FALSE /\ compounding \in BOOLEAN
  <2>1. comparison = NotCompared /\ compounding \in BOOLEAN
    BY Zenon DEF FiguresInit
  <2>2. NotCompared.done = FALSE /\ NotCompared.passed = FALSE
    BY DEF NotCompared
  <2> QED BY <2>1, <2>2
<1>3. FiguresFlags
  BY <1>2, Zenon DEF FiguresFlags
<1>4. CurveFits
  <2> DEFINE pts == curve.points
  <2>1. pts = <<OpeningBalance>> /\ curve.peak = OpeningBalance /\ curve.worst = <<0, 1>> /\ curve.problems = 0
    BY <1>1
  <2>2. pts \in Seq(Int) /\ Len(pts) = 1 /\ pts[1] = OpeningBalance
    BY <2>1
  <2> HIDE DEF pts
  <2>3. Highest(pts, curve.peak)
    BY <2>1, <2>2 DEF Highest
  <2>4. Covers(pts, curve.worst) /\ Reaches(pts, curve.worst)
    BY <2>1, <2>2 DEF Covers, Reaches, IsSpan
  <2> QED BY <2>1, <2>2, <2>3, <2>4 DEF CurveFits, pts
<1>5. SizesFit
  BY <1>1 DEF SizesFit
<1>6. ComparisonShape
  BY <1>1 DEF ComparisonShape
<1>7. ComparisonFits
  BY <1>2 DEF ComparisonFits
<1> QED BY <1>3, <1>4, <1>5, <1>6, <1>7 DEF FiguresInv

\* Without money there is no quantity, and that is reported.
LEMMA WipedOutIsUndersized ==
    ASSUME compounding, Balance \in Int, Balance <= 0, NEW entry \in CurvePrices
    PROVE  Undersized(entry, Quantity(entry))
<1> USE FiguresBounds
<1> DEFINE d == CurveFeeShare * entry * QtyStep
           q == Notional \div d
<1>1. Notional \in Int /\ Notional <= 0
  <2>1. Notional = CurveLeverage * Balance
    BY DEF Notional
  <2>2. CurveLeverage * Balance <= 0
    OBVIOUS
  <2> QED BY <2>1, <2>2
<1>2. d \in Nat \ {0}
  <2>1. CurveFeeShare * entry \in Nat \ {0}
    OBVIOUS
  <2> QED BY <2>1
<1> HIDE DEF d
<1>3. q \in Int /\ q <= 0
  BY <1>1, <1>2
<1> HIDE DEF q
<1>4. q * QtyStep \in Int /\ q * QtyStep <= 0
  BY <1>3
<1>5. Quantity(entry) = IF q * QtyStep < QtyMin THEN 0 ELSE q * QtyStep
  BY DEF Quantity, q, d
<1> QED BY <1>4, <1>5 DEF Undersized

\* A trade adds a point, and with it the falls that end there.
LEMMA SettleStep ==
    ASSUME FiguresInv, NEW entry \in CurvePrices, NEW exit \in CurvePrices, Settle(entry, exit)
    PROVE  FiguresInv'
<1> USE FiguresBounds
<1> DEFINE qty == Quantity(entry)
           after == Balance + Gain(entry, exit, qty)
           pts == curve.points
           n == Len(curve.points)
           top == Higher(curve.peak, after)
           deepest == Deeper(<<top - after, top>>, curve.worst)
           problems == curve.problems + (IF Undersized(entry, qty) THEN 1 ELSE 0)
<1>1. /\ n <= MaxSettled /\ UNCHANGED <<compounding, comparison>>
      /\ curve' = [points |-> Append(pts, after), peak |-> top, worst |-> deepest, problems |-> problems]
  BY Zenon DEF Settle
<1>2. /\ pts \in Seq(Int) /\ n \in 1..(MaxSettled + 1) /\ curve.peak \in Nat \ {0} /\ Highest(pts, curve.peak)
      /\ curve.worst \in Nat \X (Nat \ {0}) /\ Covers(pts, curve.worst) /\ Reaches(pts, curve.worst)
      /\ curve.problems \in 0..(n - 1)
  BY DEF FiguresInv, CurveFits
<1>3. Balance = pts[n] /\ Balance \in Int
  BY <1>2 DEF Balance, Last
<1>4. after \in Int
  <2>1. Notional \in Int
    BY <1>3 DEF Notional
  <2>2. CurveFeeShare * entry * QtyStep \in Nat \ {0}
    <3>1. CurveFeeShare * entry \in Nat \ {0}
      OBVIOUS
    <3> QED BY <3>1
  <2> DEFINE d == CurveFeeShare * entry * QtyStep
  <2> HIDE DEF d
  <2>3. Notional \div d \in Int
    BY <2>1, <2>2 DEF d
  <2>4. qty \in Int
    BY <2>3 DEF Quantity, d
  <2> HIDE DEF qty
  <2>5. Gain(entry, exit, qty) \in Int
    BY <2>4 DEF Gain
  <2> QED BY <1>3, <2>5
<1> HIDE DEF after, n, pts, qty, top, deepest
<1>5. /\ curve'.points = Append(pts, after) /\ curve'.peak = top /\ curve'.worst = deepest /\ curve'.problems = problems
  BY <1>1
<1>6. /\ top \in Nat \ {0} /\ Highest(Append(pts, after), top)
      /\ deepest \in Nat \X (Nat \ {0}) /\ Covers(Append(pts, after), deepest) /\ Reaches(Append(pts, after), deepest)
  <2>1. Len(pts) >= 1
    BY <1>2 DEF pts, n
  <2> QED BY <1>2, <1>4, <2>1, CurveGrows DEF top, deepest
<1>7. Append(pts, after) \in Seq(Int) /\ Len(Append(pts, after)) = n + 1
      /\ \A i \in 1..n : Append(pts, after)[i] = pts[i]
  BY <1>2, <1>4 DEF n, pts
<1>8. problems \in 0..n /\ (problems = 0 => curve.problems = 0 /\ ~Undersized(entry, qty))
  BY <1>2
<1> HIDE DEF problems
<1>9. CurveFits'
  <2>1. Highest(curve.points, curve.peak)'
    BY <1>5, <1>6 DEF Highest
  <2>2. Covers(curve.points, curve.worst)'
    BY <1>5, <1>6 DEF Covers, IsSpan
  <2>3. Reaches(curve.points, curve.worst)'
    BY <1>5, <1>6 DEF Reaches, IsSpan
  <2>5. curve'.points \in Seq(Int) /\ Len(curve'.points) = n + 1
    BY <1>5, <1>7
  <2>6. curve'.peak \in Nat \ {0} /\ curve'.worst \in Nat \X (Nat \ {0}) /\ curve'.problems \in 0..n
    BY <1>5, <1>6, <1>8
  <2>7. n \in Nat /\ n + 1 \in 1..(MaxSettled + 1) /\ (n + 1) - 1 = n
    BY <1>1, <1>2
  <2>4. /\ curve'.points \in Seq(Int) /\ Len(curve'.points) \in 1..(MaxSettled + 1) /\ curve'.peak \in Nat \ {0}
        /\ curve'.worst \in Nat \X (Nat \ {0}) /\ curve'.problems \in 0..(Len(curve'.points) - 1)
    BY <2>5, <2>6, <2>7
  <2> QED BY <2>1, <2>2, <2>3, <2>4, Zenon DEF CurveFits
<1>10. SizesFit'
  <2>1. SUFFICES ASSUME compounding, problems = 0 PROVE \A i \in 1..n : pts[i] > 0
    BY <1>1, <1>2, <1>5, <1>7 DEF SizesFit
  <2>2. \A i \in 1..(n - 1) : pts[i] > 0
    BY <1>8, <2>1 DEF FiguresInv, SizesFit, n, pts
  <2>3. pts[n] > 0
    <3>1. ~Undersized(entry, Quantity(entry))
      BY <1>8, <2>1 DEF qty
    <3> QED BY <1>3, <2>1, <3>1, WipedOutIsUndersized
  <2> QED BY <1>2, <2>2, <2>3
<1>11. FiguresFlags' /\ ComparisonShape' /\ ComparisonFits'
  <2>1. UNCHANGED <<compounding, comparison>> /\ FiguresFlags /\ ComparisonShape /\ ComparisonFits
    BY <1>1, Zenon DEF FiguresInv
  <2> QED BY <2>1, Zenon DEF FiguresFlags, ComparisonShape, ComparisonFits
<1> QED BY <1>9, <1>10, <1>11 DEF FiguresInv

\* Lists of a bounded length are lists.
LEMMA SeqOfIsSeq ==
    ASSUME NEW S, NEW m \in Nat, NEW s \in SeqOf(S, m)
    PROVE  s \in Seq(S)
<1>1. PICK k \in 0..m : s \in [1..k -> S]
  BY Zenon DEF SeqOf
<1>2. k \in Nat
  OBVIOUS
<1> QED BY <1>1, <1>2

\* A comparison counts what it pairs.
LEMMA CompareStep ==
    ASSUME FiguresInv, CompareCandles
    PROVE  FiguresInv'
<1>1. UNCHANGED <<compounding, curve>>
  BY Zenon DEF CompareCandles
<1>2. PICK rebuilt \in SeqOf(RebuiltCandles, MaxRebuilt), dataset \in SeqOf(DatasetCandles, MaxDataset) :
           comparison' = [done |-> TRUE, rebuilt |-> rebuilt, dataset |-> dataset, passed |-> Passed(rebuilt, dataset)]
  BY Zenon DEF CompareCandles
<1>3. rebuilt \in Seq(RebuiltCandles) /\ dataset \in Seq(DatasetCandles)
  <2>1. rebuilt \in Seq(RebuiltCandles)
    BY FiguresBounds, SeqOfIsSeq
  <2>2. dataset \in Seq(DatasetCandles)
    BY FiguresBounds, SeqOfIsSeq
  <2> QED BY <2>1, <2>2
<1>4. /\ comparison'.done = TRUE /\ comparison'.rebuilt = rebuilt /\ comparison'.dataset = dataset
      /\ comparison'.passed = Passed(rebuilt, dataset)
  BY <1>2
<1>5. Passed(rebuilt, dataset) \in BOOLEAN
  BY Zenon DEF Passed
<1>6. FiguresFlags'
  <2>1. compounding \in BOOLEAN
    BY Zenon DEF FiguresInv, FiguresFlags
  <2> QED BY <1>1, <1>4, <1>5, <2>1, Zenon DEF FiguresFlags
<1>7. ComparisonShape'
  BY <1>3, <1>4 DEF ComparisonShape
<1>8. ComparisonFits'
  BY <1>4, Zenon DEF ComparisonFits
<1>9. CurveFits' /\ SizesFit'
  <2>1. CurveFits /\ SizesFit
    BY Zenon DEF FiguresInv
  <2> QED BY <1>1, <2>1, Zenon DEF CurveFits, SizesFit
<1> QED BY <1>6, <1>7, <1>8, <1>9 DEF FiguresInv

\* Every step keeps curve, sizes and comparison.
LEMMA FiguresStep == FiguresInv /\ [FiguresNext]_figuresVars => FiguresInv'
<1> SUFFICES ASSUME FiguresInv, [FiguresNext]_figuresVars PROVE FiguresInv'
  OBVIOUS
<1>1. CASE UNCHANGED figuresVars
  <2>1. UNCHANGED <<compounding, curve, comparison>>
    BY <1>1, Zenon DEF figuresVars
  <2> QED BY <2>1, Zenon DEF FiguresInv, FiguresFlags, CurveFits, SizesFit, ComparisonShape, ComparisonFits
<1> QED BY <1>1, SettleStep, CompareStep, Zenon DEF FiguresNext

\* So it is of every behaviour.
LEMMA FiguresHolds == FiguresInit /\ [][FiguresNext]_figuresVars => []FiguresInv
BY FiguresInitInv, FiguresStep, PTL

\* The invariant includes the types.
LEMMA FiguresTypeShows == FiguresInv => FiguresTypeOK
<1> SUFFICES ASSUME FiguresInv PROVE FiguresTypeOK
  OBVIOUS
<1>1. compounding \in BOOLEAN /\ {comparison.done, comparison.passed} \subseteq BOOLEAN
  BY Zenon DEF FiguresInv, FiguresFlags
<1>2. /\ curve.points \in Seq(Int) /\ curve.peak \in Nat /\ curve.problems \in 0..MaxSettled
      /\ curve.worst \in Nat \X (Nat \ {0})
  BY FiguresBounds DEF FiguresInv, CurveFits
<1> QED BY <1>1, <1>2, Zenon DEF FiguresInv, ComparisonShape, FiguresTypeOK

\* The deepest fall of the figures is the deepest of the curve.
LEMMA CurveShows == FiguresInv => CurveIsTrue
<1> SUFFICES ASSUME FiguresInv PROVE CurveIsTrue
  OBVIOUS
<1> DEFINE pts == curve.points
           n == Len(pts)
           spans == {p \in (1..n) \X (1..n) :
                        /\ p[1] <= p[2] /\ pts[p[1]] > 0
                        /\ pts[p[2]] >= 0 \/ \A k \in 1..p[2] : pts[k] <= pts[p[1]]}
           falls == {<<pts[p[1]] - pts[p[2]], pts[p[1]]>> : p \in spans}
<1>1. Covers(pts, curve.worst) /\ Reaches(pts, curve.worst)
  BY Zenon DEF FiguresInv, CurveFits
<1>2. \A p \in spans : p[1] \in 1..n /\ p[2] \in 1..n /\ IsSpan(pts, p[1], p[2])
  BY Zenon DEF IsSpan
<1>3. \A f \in falls : f[1] * curve.worst[2] <= curve.worst[1] * f[2]
  <2>1. SUFFICES ASSUME NEW p \in spans
                 PROVE (pts[p[1]] - pts[p[2]]) * curve.worst[2] <= curve.worst[1] * pts[p[1]]
    OBVIOUS
  <2>2. p[1] \in 1..n /\ p[2] \in 1..n /\ IsSpan(pts, p[1], p[2])
    BY <1>2, Zenon
  <2> QED BY <1>1, <2>2, Zenon DEF Covers
<1>4. \E f \in falls : curve.worst[1] * f[2] <= f[1] * curve.worst[2]
  <2>1. PICK i \in 1..n, j \in 1..n :
             IsSpan(pts, i, j) /\ curve.worst[1] * pts[i] <= (pts[i] - pts[j]) * curve.worst[2]
    BY <1>1, Zenon DEF Reaches
  <2>2. <<i, j>> \in spans
    BY <2>1 DEF IsSpan
  <2>3. <<pts[i] - pts[j], pts[i]>> \in falls
    BY <2>2
  <2> QED BY <2>1, <2>3
<1>5. compounding /\ curve.problems = 0 => \A i \in 1..(n - 1) : pts[i] > 0
  BY Zenon DEF FiguresInv, SizesFit
<1> QED BY <1>3, <1>4, <1>5, Zenon DEF CurveIsTrue

\* A comparison that passes has paired the candles one to one.
LEMMA ComparisonShows == FiguresInv => ComparisonIsExact
<1> SUFFICES ASSUME FiguresInv, comparison.done
             PROVE  comparison.passed <=> PairedUp(comparison.rebuilt, comparison.dataset)
  BY Zenon DEF ComparisonIsExact, PairedUp
<1>1. comparison.passed = Passed(comparison.rebuilt, comparison.dataset)
  BY Zenon DEF FiguresInv, ComparisonFits
<1>2. comparison.rebuilt \in Seq(RebuiltCandles) /\ comparison.dataset \in Seq(DatasetCandles)
  BY Zenon DEF FiguresInv, ComparisonShape
<1> QED BY <1>1, <1>2, PassedIsPaired, Zenon

-----------------------------------------------------------------------------
(* The start of a funded run.                                              *)

\* A start's record: every initialisation adds a reconciliation and at most one mode, the last of them this start's.
Evidenced ==
    /\ IsFiniteSet(ran) /\ Cardinality(ran) <= Len(recons)
    /\ engine = "starting" => Len(recons) < startCount
    /\ engine \in {"awaiting", "running", "trading"} =>
         /\ recons # <<>> /\ recons[Len(recons)].at >= began /\ mode \in ran
    /\ engine = "awaiting" => mode = "LIVE"
    /\ engine = "trading" =>
         /\ mode = "LIVE" /\ ~heldTrade /\ recons[Len(recons)].clean
         /\ Simulated \subseteq ran
         /\ attested # Never /\ opened - attested <= AttestTtl

StartInv == StartTypeOK /\ Evidenced

StartFlags == heldTrade \in BOOLEAN /\ halted \in BOOLEAN /\ telemetry \in BOOLEAN

StartShapes ==
    /\ tick \in 1..LastTick /\ engine \in {"off", "starting", "awaiting", "running", "trading"}
    /\ mode \in Modes /\ began \in 0..tick /\ startCount \in 0..StartMax
    /\ beats \in [Streams -> 0..tick] /\ reported \subseteq Streams
    /\ recons \in Seq([at : 1..tick, clean : BOOLEAN]) /\ Len(recons) <= startCount
    /\ ran \subseteq Modes /\ attested \in 0..tick /\ opened \in 0..tick

\* The type invariant, flags and shapes apart.
LEMMA StartTypeParts == StartTypeOK <=> StartFlags /\ StartShapes
BY Zenon DEF StartTypeOK, StartFlags, StartShapes

\* A sequence over a set is one over a wider set.
LEMMA WiderSeq ==
    ASSUME NEW A, NEW B, A \subseteq B, NEW s \in Seq(A)
    PROVE  s \in Seq(B)
<1>1. s \in [1..Len(s) -> A] /\ Len(s) \in Nat
  OBVIOUS
<1>2. s \in [1..Len(s) -> B]
  BY <1>1
<1> QED BY <1>1, <1>2

\* What the assumptions say of the constants.
LEMMA StartBounds ==
    /\ StreamTtl \in Nat /\ ReconcileTtl \in Nat /\ AttestTtl \in Nat /\ LastTick \in Nat \ {0} /\ StartMax \in Nat
    /\ "LIVE" \notin Simulated
BY StartAssumption

\* The flags stay flags.
LEMMA StartFlagsStep ==
    ASSUME StartFlags, StartNext
    PROVE  StartFlags'
<1> USE DEF StartFlags, onRecord
<1>1. CASE TickOn \/ TurnKill \/ Attest \/ Measured \/ StopEngine
  <2>1. halted' \in BOOLEAN /\ telemetry' \in BOOLEAN
    BY <1>1, Zenon DEF TickOn, TurnKill, Attest, Measured, StopEngine
  <2> QED BY <1>1, <2>1, Zenon DEF TickOn, TurnKill, Attest, Measured, StopEngine
<1>2. ASSUME NEW m \in Modes, StartEngine(m) PROVE StartFlags'
  BY <1>2, Zenon DEF StartEngine
<1>3. ASSUME NEW clean \in BOOLEAN, Initialise(clean) PROVE StartFlags'
  BY <1>3, Zenon DEF Initialise
<1>4. ASSUME NEW s \in Streams, StreamReports(s) PROVE StartFlags'
  BY <1>4, Zenon DEF StreamReports
<1>5. ASSUME NEW timeout \in BOOLEAN, NEW dry \in BOOLEAN, OpenGates(timeout, dry) PROVE StartFlags'
  BY <1>5, Zenon DEF OpenGates
<1> QED BY <1>1, <1>2, <1>3, <1>4, <1>5, Zenon DEF StartNext

\* An empty database is no evidence.
LEMMA StartInitInv == StartInit => StartInv
<1> SUFFICES ASSUME StartInit PROVE StartInv
  OBVIOUS
<1>1. StartFlags
  BY Zenon DEF StartInit, StartFlags
<1>2. StartShapes
  BY StartBounds DEF StartInit, StartShapes, Modes, Never
<1>3. Evidenced
  BY FS_EmptySet DEF StartInit, Evidenced
<1> QED BY <1>1, <1>2, <1>3, StartTypeParts DEF StartInv

\* Time and the things that only add to what is on record.
LEMMA StartAddsStep ==
    ASSUME StartInv, TickOn \/ TurnKill \/ Attest \/ Measured \/ StopEngine
    PROVE  StartShapes' /\ Evidenced'
<1>0. StartShapes
  BY StartTypeParts DEF StartInv
<1> USE <1>0, StartBounds DEF StartInv, onRecord, StartShapes, Evidenced, Never
<1>1. CASE TickOn
  <2>1. tick < LastTick /\ tick' = tick + 1
        /\ UNCHANGED <<engine, mode, began, startCount, beats, reported, heldTrade, recons, ran, attested, opened>>
    BY <1>1, Zenon DEF TickOn
  <2>2. beats \in [Streams -> 0..(tick + 1)] /\ recons \in Seq([at : 1..(tick + 1), clean : BOOLEAN])
    <3>1. 0..tick \subseteq 0..(tick + 1) /\ 1..tick \subseteq 1..(tick + 1)
      OBVIOUS
    <3>2. [at : 1..tick, clean : BOOLEAN] \subseteq [at : 1..(tick + 1), clean : BOOLEAN]
      BY <3>1
    <3>3. beats \in [Streams -> 0..tick] /\ recons \in Seq([at : 1..tick, clean : BOOLEAN])
      OBVIOUS
    <3> HIDE <1>0 DEF StartShapes
    <3>4. beats \in [Streams -> 0..(tick + 1)]
      BY <3>1, <3>3
    <3>5. recons \in Seq([at : 1..(tick + 1), clean : BOOLEAN])
      BY <3>2, <3>3, WiderSeq
    <3> QED BY <3>4, <3>5
  <2> QED BY <2>1, <2>2
<1>2. CASE TurnKill \/ Measured
  <2>1. UNCHANGED <<tick, mode, began, startCount, beats, reported, heldTrade, recons, ran, attested, opened, engine>>
    BY <1>2, Zenon DEF TurnKill, Measured
  <2> QED BY <2>1
<1>3. CASE Attest
  <2>1. attested' = tick
        /\ UNCHANGED <<tick, mode, began, startCount, beats, reported, heldTrade, recons, ran, opened, engine>>
    BY <1>3, Zenon DEF Attest
  <2> QED BY <2>1
<1>4. CASE StopEngine
  <2>1. engine' = "off" /\ reported' = {} /\ heldTrade' = FALSE /\ opened' = 0
        /\ UNCHANGED <<tick, mode, began, startCount, beats, recons, ran, attested>>
    BY <1>4, Zenon DEF StopEngine, Never
  <2> QED BY <2>1
<1> QED BY <1>1, <1>2, <1>3, <1>4

\* A process that starts has reported nothing.
LEMMA StartEngineStep ==
    ASSUME StartInv, NEW m \in Modes, StartEngine(m)
    PROVE  StartShapes' /\ Evidenced'
<1>0. StartShapes
  BY StartTypeParts DEF StartInv
<1> USE <1>0, StartBounds DEF StartInv
<1>1. /\ startCount < StartMax /\ engine' = "starting" /\ mode' = m /\ began' = tick /\ startCount' = startCount + 1
      /\ UNCHANGED <<tick, beats, reported, heldTrade, recons, ran, attested, opened>>
  BY Zenon DEF StartEngine, onRecord
<1>2. StartShapes'
  BY <1>1 DEF StartShapes
<1>3. Len(recons) \in Nat /\ Len(recons) < startCount'
  BY <1>1 DEF StartShapes
<1>4. Evidenced'
  BY <1>1, <1>3 DEF Evidenced
<1> QED BY <1>2, <1>4

\* An initialisation leaves its reconciliation in the store.
LEMMA InitialiseStep ==
    ASSUME StartInv, NEW clean \in BOOLEAN, Initialise(clean)
    PROVE  StartShapes' /\ Evidenced'
<1>0. StartShapes
  BY StartTypeParts DEF StartInv
<1> USE <1>0, StartBounds DEF StartInv
<1> DEFINE R == [at |-> tick, clean |-> clean]
<1>1. /\ engine = "starting" /\ recons' = Append(recons, R)
      /\ ran' = ran \cup {mode} /\ engine' = (IF mode = "LIVE" THEN "awaiting" ELSE "running")
      /\ UNCHANGED <<tick, mode, began, startCount, beats, reported, heldTrade, attested, opened>>
  BY Zenon DEF Initialise
<1>2. R \in [at : 1..tick, clean : BOOLEAN] /\ R.at = tick
  BY DEF StartShapes
<1> HIDE DEF R
<1>3. recons \in Seq([at : 1..tick, clean : BOOLEAN]) /\ Len(recons) < startCount /\ tick \in Nat /\ began \in 0..tick
      /\ startCount \in 0..StartMax
  BY <1>1 DEF Evidenced, StartShapes
<1>4. recons' \in Seq([at : 1..tick, clean : BOOLEAN]) /\ Len(recons') = Len(recons) + 1
      /\ recons'[Len(recons')] = R /\ recons' # <<>>
  BY <1>1, <1>2, <1>3
<1>5. StartShapes'
  BY <1>1, <1>3, <1>4 DEF StartShapes
<1>6. IsFiniteSet(ran') /\ Cardinality(ran') <= Len(recons')
  <2>1. IsFiniteSet(ran) /\ Cardinality(ran) <= Len(recons) /\ Cardinality(ran) \in Nat /\ Len(recons) \in Nat
    BY <1>3, FS_CardinalityType DEF Evidenced
  <2>2. IsFiniteSet(ran \cup {mode})
        /\ Cardinality(ran \cup {mode}) = IF mode \in ran THEN Cardinality(ran) ELSE Cardinality(ran) + 1
    BY <2>1, FS_AddElement
  <2> QED BY <1>1, <1>4, <2>1, <2>2
<1>7. Evidenced'
  BY <1>1, <1>2, <1>3, <1>4, <1>6 DEF Evidenced
<1> QED BY <1>5, <1>7

\* A stream reports to the process that runs.
LEMMA ReportsStep ==
    ASSUME StartInv, NEW s \in Streams, StreamReports(s)
    PROVE  StartShapes' /\ Evidenced'
<1>0. StartShapes
  BY StartTypeParts DEF StartInv
<1> USE <1>0, StartBounds DEF StartInv
<1>1. /\ engine \in {"awaiting", "running", "trading"}
      /\ beats' = [beats EXCEPT ![s] = tick] /\ reported' = reported \cup {s}
      /\ UNCHANGED <<tick, engine, mode, began, startCount, recons, ran, attested, opened>>
  BY Zenon DEF StreamReports, onRecord
<1>2. ~heldTrade /\ engine = "trading" => ~heldTrade'
  <2>1. engine = "trading" => engine # "awaiting"
    OBVIOUS
  <2> QED BY <2>1, Zenon DEF StreamReports
<1>3. StartShapes'
  BY <1>1 DEF StartShapes
<1>4. Evidenced'
  BY <1>1, <1>2 DEF Evidenced
<1> QED BY <1>3, <1>4

\* The gates open on what this start has seen, or on what the store says of an earlier one.
LEMMA OpenGatesStep ==
    ASSUME StartInv, NEW timeout \in BOOLEAN, NEW dry \in BOOLEAN, OpenGates(timeout, dry)
    PROVE  StartShapes' /\ Evidenced'
<1>0. StartShapes
  BY StartTypeParts DEF StartInv
<1> USE <1>0, StartBounds DEF StartInv
<1>1. /\ engine = "awaiting" /\ heldTrade' = FALSE
      /\ UNCHANGED <<tick, mode, began, startCount, beats, recons, ran, attested>>
  BY Zenon DEF OpenGates, onRecord
<1>2. CASE GatesPass /\ engine' = "trading" /\ opened' = tick /\ UNCHANGED reported
  <2>1. Simulated \subseteq ran /\ recons # <<>> /\ Last(recons).clean /\ Within(attested, AttestTtl)
    BY <1>2, Zenon DEF GatesPass, ModesTested, Reconciled, SoakRecorded
  <2>2. StartShapes'
    BY <1>1, <1>2 DEF StartShapes
  <2>3. Evidenced'
    BY <1>1, <1>2, <2>1 DEF Evidenced, Within, Last, Never, StartShapes
  <2> QED BY <2>2, <2>3
<1>3. CASE engine' = "off" /\ reported' = {} /\ UNCHANGED opened
  <2>1. StartShapes'
    BY <1>1, <1>3 DEF StartShapes
  <2>2. Evidenced'
    BY <1>1, <1>3 DEF Evidenced
  <2> QED BY <2>1, <2>2
<1> QED BY <1>2, <1>3, Zenon DEF OpenGates

\* Every step keeps the evidence.
LEMMA StartStep == StartInv /\ [StartNext]_startVars => StartInv'
<1> SUFFICES ASSUME StartInv, [StartNext]_startVars PROVE StartInv'
  OBVIOUS
<1>1. StartFlags /\ StartShapes
  BY StartTypeParts DEF StartInv
<1>2. CASE StartNext
  <2>1. StartFlags'
    BY <1>1, <1>2, StartFlagsStep
  <2>2. StartShapes' /\ Evidenced'
    BY <1>2, StartAddsStep, StartEngineStep, InitialiseStep, ReportsStep, OpenGatesStep, Zenon DEF StartNext
  <2> QED BY <2>1, <2>2, Zenon DEF StartInv, StartTypeOK, StartFlags, StartShapes
<1>3. CASE UNCHANGED startVars
  <2>1. UNCHANGED <<tick, engine, mode, began, startCount, beats, reported, heldTrade, recons, ran, telemetry, attested,
                    halted, opened>>
    BY <1>3, Zenon DEF startVars, onRecord
  <2>2. StartFlags'
    BY <1>1, <2>1, Zenon DEF StartFlags
  <2>3. StartShapes'
    BY <1>1, <2>1 DEF StartShapes
  <2>4. Evidenced'
    BY <2>1 DEF StartInv, Evidenced
  <2> QED BY <2>2, <2>3, <2>4, Zenon DEF StartInv, StartTypeOK, StartFlags, StartShapes
<1> QED BY <1>2, <1>3

\* So it is of every behaviour.
LEMMA StartHolds == StartInit /\ [][StartNext]_startVars => []StartInv
BY StartInitInv, StartStep, PTL

\* LIVE and the simulated modes are on record, and a reconciliation for each of them.
LEMMA StartInvShows == StartInv => FundedStartIsEvidenced
<1> SUFFICES ASSUME StartInv, engine = "trading" PROVE FundedStartIsEvidenced
  BY DEF FundedStartIsEvidenced
<1> USE StartBounds
<1>1. StartShapes /\ Evidenced
  BY StartTypeParts DEF StartInv
<1>2. mode = "LIVE" /\ mode \in ran /\ Simulated \subseteq ran /\ IsFiniteSet(ran) /\ Cardinality(ran) <= Len(recons)
  BY <1>1 DEF Evidenced
<1>3. IsFiniteSet(Simulated) /\ Cardinality(Simulated) < Cardinality(ran)
  <2>1. Simulated \in SUBSET ran /\ Simulated # ran
    BY <1>2
  <2>2. IsFiniteSet(Simulated) /\ Cardinality(Simulated) <= Cardinality(ran) /\ Cardinality(Simulated) # Cardinality(ran)
    BY <1>2, <2>1, FS_Subset
  <2>3. Cardinality(Simulated) \in Nat /\ Cardinality(ran) \in Nat
    BY <1>2, <2>2, FS_CardinalityType
  <2> QED BY <2>2, <2>3
<1>4. Cardinality(Simulated) \in Nat /\ Cardinality(ran) \in Nat /\ Len(recons) \in Nat
  BY <1>1, <1>2, <1>3, FS_CardinalityType DEF StartShapes
<1>5. Last(recons) = recons[Len(recons)]
  BY DEF Last
<1> QED BY <1>1, <1>2, <1>3, <1>4, <1>5 DEF Evidenced, FundedStartIsEvidenced
=============================================================================
