------------------------------ MODULE GapRepair ------------------------------
(***************************************************************************)
(* One gap in the trade sequence from its detection to its end: the        *)
(* attempts to recover it, page by page, in a worker thread, what each of  *)
(* them stores, the narrowing of the gap, the retries the closing minutes  *)
(* start, and its abandonment after the last of them.                      *)
(*                                                                         *)
(* MarketData takes an attempt to return some of the missing trades; this  *)
(* module is what is behind that choice.                                   *)
(***************************************************************************)
EXTENDS Integers, FiniteSets

CONSTANTS
    GapFrom, GapTo,  \* the ids the detector found missing
    PageSize,        \* PAGE_LIMIT
    PageMax,         \* MAX_PAGES
    CallMax,         \* MAX_ATTEMPTS: calls for one page
    TryMax,          \* MAX_GAP_RECOVERY_ATTEMPTS: attempts for one gap
    MaxStoreErrors   \* bound on errors of the event store

ASSUME GapAssumption ==
    /\ {GapFrom, GapTo, PageSize, PageMax, CallMax, TryMax} \subseteq Nat \ {0}
    /\ GapFrom <= GapTo /\ MaxStoreErrors \in Nat

VARIABLES
    gapIs,        \* what the detector says of the gap: open, recovered or abandoned
    low, high,    \* GapRecord.from_id and to_id
    attempts,     \* GapRecord.attempts
    inStore,      \* ids in the store
    job,          \* the worker: idle, or where recover() is
    ask,          \* the range this attempt was started for
    had,          \* already_have
    collected, cursor, pages, calls,  \* locals of recover() and fetch_page()
    storeErrors

request == <<ask, had>>
local == <<collected, cursor, pages, calls>>
record == <<gapIs, low, high, attempts>>
repairVars == <<record, inStore, job, request, local, storeErrors>>

Span(r) == r[1]..r[2]
Gap == <<low, high>>
-----------------------------------------------------------------------------
GapInit ==
    /\ gapIs = "open" /\ low = GapFrom /\ high = GapTo /\ attempts = 0
    /\ inStore \in SUBSET Span(Gap)
    /\ job = "idle" /\ ask = Gap /\ had = {}
    /\ collected = {} /\ cursor = GapFrom /\ pages = 0 /\ calls = 0
    /\ storeErrors = 0

(* The detection, and later each closed minute, start an attempt for a gap *)
(* that has none in flight; what is in the store already is not asked for. *)
Attempt ==
    /\ gapIs = "open" /\ job = "idle"
    /\ job' = "asking" /\ ask' = Gap /\ had' = inStore \cap Span(Gap)
    /\ collected' = {} /\ cursor' = low /\ pages' = 0 /\ calls' = 0
    /\ UNCHANGED <<record, inStore, storeErrors>>

-----------------------------------------------------------------------------
(* recover().                                                              *)
More == cursor <= ask[2] /\ pages < PageMax

\* The id is in the store.
PassHeld ==
    /\ job = "asking" /\ More /\ cursor \in had
    /\ cursor' = cursor + 1
    /\ UNCHANGED <<record, inStore, job, request, collected, pages, calls, storeErrors>>

\* One call for the page fails; the last of them, or an error that is not to be retried, ends the attempt.
CallFails(final) ==
    /\ job = "asking" /\ More /\ cursor \notin had
    /\ calls' = calls + 1
    /\ job' = IF final \/ calls' = CallMax THEN "leaving" ELSE job
    /\ UNCHANGED <<record, inStore, request, collected, cursor, pages, storeErrors>>

\* parse_page: rows that are malformed, repeated or outside the range are rejected.
Usable(rows) == rows \cap Span(ask)

\* Mutant of Frontier: the search goes on behind the largest id of the page.
FrontierAtLargest(i, ids) ==
    \/ ids = {} /\ i = cursor
    \/ i - 1 \in ids /\ \A j \in ids : j < i

\* i is the first id from the cursor on that is neither collected nor in the store.
Frontier(i, ids) ==
    /\ cursor <= i /\ i \notin ids \cup had
    /\ cursor..(i - 1) \subseteq ids \cup had

(* A page arrives, with any rows: nothing usable in it, or nothing that    *)
(* moves the cursor, ends the attempt.                                     *)
Page(rows) ==
    LET ids == collected \cup Usable(rows)
    IN  /\ job = "asking" /\ More /\ cursor \notin had
        /\ Cardinality(rows) <= PageSize
        /\ pages' = pages + 1 /\ calls' = 0
        /\ collected' = ids
        /\ \E next \in cursor..(ask[2] + 1) :
             /\ Frontier(next, ids)
             /\ IF Usable(rows) = {} \/ next = cursor
                  THEN job' = "leaving" /\ UNCHANGED cursor
                  ELSE cursor' = next /\ UNCHANGED job
        /\ UNCHANGED <<record, inStore, request, storeErrors>>

\* The loop ends behind the last id or at the bound on pages.
StopAsking ==
    /\ job = "asking" /\ ~More
    /\ job' = "leaving"
    /\ UNCHANGED <<record, inStore, request, local, storeErrors>>

-----------------------------------------------------------------------------
(* _recover_gap_inner, after recover().                                    *)

Missing == Span(ask) \ (collected \cup had)

Complete == Missing = {}

Idle == job' = "idle" /\ UNCHANGED <<request, local>>

Mark == gapIs' = "recovered" /\ UNCHANGED <<low, high, attempts>>

\* narrow_gap: from the first to the last that is missing.
Narrow == \E first, last \in Missing :
    Missing \subseteq first..last /\ low' = first /\ high' = last

\* Mutant of Counted: an attempt that brought nothing is not counted.
CountedWithGain ==
    /\ attempts' = attempts + (IF collected = {} THEN 0 ELSE 1)
    /\ IF attempts' >= TryMax
         THEN gapIs' = "abandoned" /\ UNCHANGED <<low, high>>
         ELSE Narrow /\ UNCHANGED gapIs

\* record_attempt, then _abandon_gap or narrow_gap.
Counted ==
    /\ attempts' = attempts + 1
    /\ IF attempts' >= TryMax
         THEN gapIs' = "abandoned" /\ UNCHANGED <<low, high>>
         ELSE Narrow /\ UNCHANGED gapIs

Conclude ==
    /\ job = "leaving"
    /\ inStore' = inStore \cup collected
    /\ IF Complete THEN Mark ELSE Counted
    /\ Idle /\ UNCHANGED storeErrors

(* The store raises at one of the writes: before the trades are stored,    *)
(* before the gap is touched, or behind it.  The task ends there.          *)
ConcludeFails ==
    /\ job = "leaving" /\ storeErrors < MaxStoreErrors
    /\ storeErrors' = storeErrors + 1
    /\ \/ UNCHANGED <<inStore, record>>
       \/ inStore' = inStore \cup collected /\ UNCHANGED record
       \/ /\ inStore' = inStore \cup collected
          /\ IF Complete THEN Mark ELSE attempts' = attempts + 1 /\ UNCHANGED <<gapIs, low, high>>
    /\ Idle

-----------------------------------------------------------------------------
RepairNext ==
    \/ Attempt \/ PassHeld \/ StopAsking \/ Conclude \/ ConcludeFails
    \/ \E final \in BOOLEAN : CallFails(final)
    \/ \E rows \in SUBSET ((GapFrom - 1)..(GapTo + 1)) : Page(rows)

Worker ==
    \/ PassHeld \/ StopAsking \/ Conclude
    \/ \E final \in BOOLEAN : CallFails(final)
    \/ \E rows \in SUBSET ((GapFrom - 1)..(GapTo + 1)) : Page(rows)

\* Minutes close, and the worker thread runs; calls time out.
RepairFairness == WF_repairVars(Attempt) /\ WF_repairVars(Worker)

RepairSpec == GapInit /\ [][RepairNext]_repairVars /\ RepairFairness
-----------------------------------------------------------------------------
(* Properties.                                                             *)

\* The shape of every variable.
RepairTypeOK ==
    /\ gapIs \in {"open", "recovered", "abandoned"}
    /\ low \in GapFrom..GapTo /\ high \in GapFrom..GapTo /\ low <= high
    /\ attempts \in 0..(TryMax + MaxStoreErrors) /\ calls \in 0..CallMax /\ pages \in 0..PageMax
    /\ inStore \subseteq GapFrom..GapTo /\ had \subseteq GapFrom..GapTo /\ collected \subseteq GapFrom..GapTo
    /\ job \in {"idle", "asking", "leaving"}
    /\ ask \in (GapFrom..GapTo) \X (GapFrom..GapTo)
    /\ cursor \in GapFrom..(GapTo + 1)
    /\ storeErrors \in 0..MaxStoreErrors

(* Recovery is exact: behind the cursor nothing is missing, whatever the   *)
(* pages looked like; a gap that counts as recovered has every trade of    *)
(* the detected range in the store; and while it is open the trades it     *)
(* lacks lie in the narrowed range.                                        *)
RecoveryIsExact ==
    /\ job # "idle" => ask[1]..(cursor - 1) \subseteq collected \cup had
    /\ gapIs = "recovered" => GapFrom..GapTo \subseteq inStore
    /\ gapIs = "open" => (GapFrom..GapTo) \ inStore \subseteq Span(Gap)

(* No gap holds the engine out of sync forever: as long as minutes close,  *)
(* it is recovered or, after a bounded number of attempts, abandoned.      *)
GapEnds == <>(gapIs # "open")
=============================================================================
