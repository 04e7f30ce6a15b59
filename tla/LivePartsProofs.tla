--------------------------- MODULE LivePartsProofs ---------------------------
(***************************************************************************)
(* Proofs about the parts that run next to the fill path, for any values   *)
(* of their constants: the private stream, the daily loss limit, the       *)
(* engine's loop, the alerts with their watcher, and the engine over its   *)
(* simulated brokers.  The last section is about all eleven parts at once, *)
(* one of which runs in a behaviour.                                       *)
(***************************************************************************)
EXTENDS MCEngineParts, DataPartsProofs

-----------------------------------------------------------------------------
(* The private stream.                                                     *)

\* The shape of the flags, and of everything else.
StreamFlags == rotate \in BOOLEAN /\ alert \in BOOLEAN /\ acted \in BOOLEAN

StreamShapes ==
    /\ key \in StreamKeys /\ skey \in StreamKeys /\ live \in StreamKeys /\ minted \in StreamKeys
    /\ sock \in Off \cup Trying \cup {"connected"}
    /\ keeper \in {"off", "asleep", "failed"}
    /\ sleep \in 0..Interval
    /\ quiet \in 0..(Fresh + 1) /\ blind \in 0..(Fresh + 1)
    /\ faults \in 0..MaxFaults /\ runs \in 0..MaxRuns

\* The type invariant, flags and shapes apart: the provers take them one by one.
LEMMA StreamTypeParts == StreamTypeOK <=> StreamFlags /\ StreamShapes
BY Zenon DEF StreamTypeOK, StreamFlags, StreamShapes

\* What the exchange mints is a key.
LEMMA MintType ==
    ASSUME StreamShapes, Mint
    PROVE  live' \in StreamKeys /\ minted' \in StreamKeys
<1>1. CASE live # 0
  BY <1>1 DEF Mint, exchangeKeys, StreamShapes
<1>2. CASE live = 0
  BY <1>2, UserStreamAssumption DEF Mint, StreamShapes, StreamKeys
<1> QED
  BY <1>1, <1>2

\* An age stays within its cap.
LEMMA CappedType ==
    ASSUME NEW n \in 0..(Fresh + 1)
    PROVE  Capped(n) \in 0..(Fresh + 1)
BY UserStreamAssumption DEF Capped

\* A private stream that was not started fits them.
LEMMA StreamInitType == StreamInit => StreamTypeOK
<1>1. StreamInit => StreamFlags
  BY Zenon DEF StreamInit, StreamFlags
<1>2. StreamInit => StreamShapes
  BY UserStreamAssumption DEF StreamInit, StreamShapes, StreamKeys, Off
<1> QED
  BY <1>1, <1>2, StreamTypeParts

\* A flag is set, cleared or left alone.
LEMMA StreamFlagsStep ==
    ASSUME StreamFlags, [StreamNext]_streamVars
    PROVE  StreamFlags'
<1> USE DEF StreamFlags, Report, Retry, healthView, keepTask, exchangeKeys
<1>1. CASE Start \/ StartFails \/ Stop \/ OrphanMint
  BY <1>1, Zenon DEF Start, StartFails, Stop, OrphanMint
<1>2. CASE Begin \/ MintKey \/ Proceed \/ Connect \/ BackoffEnds \/ Leave
  BY <1>2, Zenon DEF Begin, MintKey, Proceed, Connect, BackoffEnds, Leave
<1>3. CASE MintFails \/ Break \/ Expire
  BY <1>3, Zenon DEF MintFails, Break, Expire
<1>4. CASE Renew \/ RenewalFails \/ Rotate
  BY <1>4, Zenon DEF Renew, RenewalFails, Rotate
<1>5. CASE Tick \/ UNCHANGED streamVars
  BY <1>5, Zenon DEF Tick, streamVars
<1> QED
  BY <1>1, <1>2, <1>3, <1>4, <1>5, Zenon DEF StreamNext, SocketLoop, Keepalive

\* No step leaves the shapes.
LEMMA StreamShapesStep ==
    ASSUME StreamShapes, [StreamNext]_streamVars
    PROVE  StreamShapes'
<1> USE UserStreamAssumption DEF StreamShapes, Off, Trying, keepTask, healthView, exchangeKeys, Report
<1>1. CASE Start
  <2>1. live' \in StreamKeys /\ minted' \in StreamKeys
    BY <1>1, MintType DEF Start
  <2>2. /\ runs < MaxRuns /\ runs' = runs + 1 /\ key' = live' /\ faults' = faults
        /\ sock' = "begin" /\ skey' = 0 /\ blind' = 0 /\ quiet' = 0
        /\ keeper' = "asleep" /\ sleep' = Interval
    BY <1>1, Zenon DEF Start
  <2> QED
    BY <2>1, <2>2 DEF StreamKeys
<1>2. CASE StartFails
  BY <1>2 DEF StartFails, Fault, StreamKeys
<1>3. CASE Stop
  BY <1>3 DEF Stop
<1>4. CASE OrphanMint
  <2>1. CASE Mint /\ key' = live'
    BY <1>4, <2>1, MintType DEF OrphanMint
  <2>2. CASE UNCHANGED <<key, healthView, exchangeKeys>>
    BY <1>4, <2>2 DEF OrphanMint
  <2> QED
    BY <1>4, <2>1, <2>2, Zenon DEF OrphanMint
<1>5. CASE Begin \/ BackoffEnds \/ Leave \/ Connect
  BY <1>5 DEF Begin, BackoffEnds, Leave, Connect
<1>6. CASE MintKey
  BY <1>6, MintType DEF MintKey
<1>7. CASE Proceed
  BY <1>7 DEF Proceed, Retry
<1>8. CASE MintFails \/ Break
  BY <1>8 DEF MintFails, Break, Fault, Retry
<1>9. CASE Expire
  BY <1>9 DEF Expire, StreamKeys
<1>10. CASE Renew
  BY <1>10 DEF Renew
<1>11. CASE RenewalFails
  BY <1>11 DEF RenewalFails, Fault
<1>12. CASE Rotate
  BY <1>12 DEF Rotate, StreamKeys
<1>13. CASE Tick
  BY <1>13, CappedType DEF Tick
<1>14. CASE UNCHANGED streamVars
  BY <1>14 DEF streamVars
<1> QED
  BY <1>1, <1>2, <1>3, <1>4, <1>5, <1>6, <1>7, <1>8, <1>9, <1>10, <1>11, <1>12, <1>13, <1>14
     DEF StreamNext, SocketLoop, Keepalive

\* Nor the flags.
LEMMA StreamTypeStep == StreamTypeOK /\ [StreamNext]_streamVars => StreamTypeOK'
<1> SUFFICES ASSUME StreamTypeOK, [StreamNext]_streamVars PROVE StreamTypeOK'
  OBVIOUS
<1>1. StreamFlags /\ StreamShapes
  BY StreamTypeParts
<1>2. StreamFlags' /\ StreamShapes'
  BY <1>1, StreamFlagsStep, StreamShapesStep
<1>3. StreamTypeOK' <=> StreamFlags' /\ StreamShapes'
  BY StreamTypeParts, PTL
<1> QED
  BY <1>2, <1>3

(* Every variable keeps its shape, whatever the bounds.                    *)
THEOREM StreamTypes == StreamSpec => []StreamTypeOK
BY StreamTypeStep, StreamInitType, PTL DEF StreamSpec

-----------------------------------------------------------------------------
(* The key under the socket.                                               *)

(* The key changes while a socket is there only together with the request  *)
(* to leave, and the request is taken back only when a socket is about to  *)
(* be opened on the key of that moment.                                    *)
LEMMA SocketKeyStep ==
    ASSUME SocketOnCurrentKey, [StreamNext]_streamVars
    PROVE  SocketOnCurrentKey'
<1> USE DEF SocketOnCurrentKey, Off, keepTask, healthView, exchangeKeys
<1>1. CASE Start \/ StartFails \/ Stop \/ OrphanMint
  <2>1. sock' \in {"begin", "never", "stopping", "off"}
    BY <1>1, Zenon DEF Start, StartFails, Stop, OrphanMint
  <2> QED
    BY <2>1
<1>2. CASE Begin \/ MintKey \/ BackoffEnds \/ Leave
  BY <1>2, Zenon DEF Begin, MintKey, BackoffEnds, Leave
<1>3. CASE Proceed
  BY <1>3, Zenon DEF Proceed, Retry
<1>4. CASE Connect
  BY <1>4, Zenon DEF Connect
<1>5. CASE MintFails \/ Break
  BY <1>5, Zenon DEF MintFails, Break, Retry
<1>6. CASE Expire
  <2>1. CASE key' = 0 /\ rotate' = TRUE
    BY <2>1, Zenon
  <2>2. CASE UNCHANGED <<key, rotate, healthView>>
    BY <1>6, <2>2, Zenon DEF Expire
  <2> QED
    BY <1>6, <2>1, <2>2, Zenon DEF Expire
<1>7. CASE Renew \/ RenewalFails \/ Rotate
  BY <1>7, Zenon DEF Renew, RenewalFails, Rotate
<1>8. CASE Tick \/ UNCHANGED streamVars
  BY <1>8, Zenon DEF Tick, streamVars
<1> QED
  BY <1>1, <1>2, <1>3, <1>4, <1>5, <1>6, <1>7, <1>8, Zenon DEF StreamNext, SocketLoop, Keepalive

(* A socket that is being opened or open is on the key the engine keeps    *)
(* alive, or has been asked to leave.                                      *)
THEOREM SocketKey == StreamSpec => []SocketOnCurrentKey
<1>1. StreamInit => SocketOnCurrentKey
  BY DEF StreamInit, SocketOnCurrentKey
<1>2. SocketOnCurrentKey /\ [StreamNext]_streamVars => SocketOnCurrentKey'
  BY SocketKeyStep
<1> QED
  BY <1>1, <1>2, PTL DEF StreamSpec

-----------------------------------------------------------------------------
(* The daily loss limit.                                                   *)

(* Types of the daily loss limit.                                          *)

Snapshots == [day : 0..MaxDay, equity : Worth, breaker : BOOLEAN]

\* The shape of the flags, and of everything else.
LossFlags ==
    open \in BOOLEAN /\ fresh \in BOOLEAN /\ breaker \in BOOLEAN /\ switch \in BOOLEAN

LossShapes ==
    /\ day \in 1..MaxDay /\ equity \in Worth
    /\ reading \in Worth \cup {None}
    /\ stored \in Snapshots
    /\ at \in {"down", "idle", "engaging"}
    /\ cleared \in 0..MaxDay /\ torn \in 0..MaxDay
    /\ deaths \in 0..MaxDeaths /\ failures \in 0..MaxFailures

\* The type invariant, flags and shapes apart.
LEMMA LossTypeParts == LossTypeOK <=> LossFlags /\ LossShapes
BY Zenon DEF LossTypeOK, LossFlags, LossShapes, Snapshots

\* Amounts of equity are integers; none and the largest are among them.
LEMMA WorthIs == Worth \subseteq Int /\ 0 \in Worth /\ MaxEquity \in Worth
BY DailyLossAssumption DEF Worth

\* A reading is an equity, and none counts as 0.
LEMMA KnownType ==
    ASSUME NEW r \in Worth \cup {None}
    PROVE  Known(r) \in Worth
BY WorthIs DEF Known

\* A new snapshot is of today, without a breaker.
LEMMA SnapshotOf == \A e : Snapshot(e).day = day /\ Snapshot(e).breaker = FALSE
BY DEF Snapshot

\* A snapshot taken today of an equity is one.
LEMMA SnapshotType ==
    ASSUME day \in 1..MaxDay, NEW e \in Worth
    PROVE  Snapshot(e) \in Snapshots
<1>1. day \in 0..MaxDay
  BY DailyLossAssumption
<1> QED
  BY <1>1, Zenon DEF Snapshot, Snapshots

\* What a call of ensure_daily_snapshot leaves is a snapshot.
LEMMA EnsureType ==
    ASSUME LossShapes, NEW e \in Worth, EnsureSnapshot(e)
    PROVE  stored' \in Snapshots
BY SnapshotType, Zenon DEF EnsureSnapshot, LossShapes

\* A first day without readings fits the shapes.
LEMMA LossInitType == LossInit => LossTypeOK
<1>1. LossInit => LossFlags
  BY Zenon DEF LossInit, LossFlags
<1>2. NoSnapshot \in Snapshots
  <2>1. 0 \in 0..MaxDay
    BY DailyLossAssumption
  <2> QED
    BY <2>1, WorthIs, Zenon DEF NoSnapshot, Snapshots
<1>3. LossInit => LossShapes
  BY <1>2, WorthIs, DailyLossAssumption DEF LossInit, LossShapes
<1> QED
  BY <1>1, <1>3, LossTypeParts

\* A flag is set, cleared, left alone, or taken from the stored snapshot.
LEMMA LossFlagsStep ==
    ASSUME LossFlags, LossShapes, [LossNext]_lossVars
    PROVE  LossFlags'
<1> USE DEF LossFlags, engineView
<1>1. ASSUME NEW e \in Worth, Move(e) PROVE LossFlags'
  BY <1>1, Zenon DEF Move
<1>2. CASE Midnight \/ Close \/ Grow \/ Disengage
  BY <1>2, Zenon DEF Midnight, Close, Grow, Disengage
<1>3. CASE Refresh \/ Supervise
  BY <1>3, Zenon DEF Refresh, Supervise, EnsureSnapshot
<1>4. CASE EvaluateEntry
  BY <1>4, Zenon DEF EvaluateEntry, Enter, RefusedAgain, Engage, Kill, KillSkipped, EnsureSnapshot
<1>5. CASE Die
  BY <1>5, Zenon DEF Die
<1>6. ASSUME NEW readable \in BOOLEAN, Boot(readable) PROVE LossFlags'
  <2>1. (fresh' = TRUE \/ fresh' = fresh) /\ open' = open /\ switch' = switch
    BY <1>6, Zenon DEF Boot
  <2>2. breaker' \in BOOLEAN
    BY <1>6, Zenon DEF Boot
  <2> QED
    BY <2>1, <2>2, Zenon
<1>7. CASE UNCHANGED lossVars
  BY <1>7, Zenon DEF lossVars
<1> QED
  BY <1>1, <1>2, <1>3, <1>4, <1>5, <1>6, <1>7, Zenon DEF LossNext

\* No step leaves the shapes.
LEMMA LossShapesStep ==
    ASSUME LossShapes, [LossNext]_lossVars
    PROVE  LossShapes'
<1> USE DailyLossAssumption DEF LossShapes, engineView
<1>1. ASSUME NEW e \in Worth, Move(e) PROVE LossShapes'
  BY <1>1 DEF Move
<1>2. CASE Midnight
  BY <1>2 DEF Midnight
<1>3. CASE Close \/ Grow \/ Refresh
  BY <1>3 DEF Close, Grow, Refresh
<1>4. CASE Disengage
  BY <1>4 DEF Disengage
<1>5. CASE Supervise \/ Enter \/ RefusedAgain
  <2>1. Known(reading) \in Worth /\ EnsureSnapshot(Known(reading))
    BY <1>5, KnownType, Zenon DEF Supervise, Enter, RefusedAgain
  <2>2. stored' \in Snapshots
    BY <2>1, EnsureType
  <2> QED
    BY <1>5, <2>2, Zenon DEF Supervise, Enter, RefusedAgain
<1>6. CASE Engage
  <2>1. [stored EXCEPT !.breaker = TRUE] \in Snapshots
    BY DEF Snapshots
  <2> QED
    BY <1>6, <2>1, Zenon DEF Engage
<1>7. CASE Kill
  BY <1>7 DEF Kill
<1>8. CASE KillSkipped
  <2>1. stored.day \in 0..MaxDay
    BY DEF Snapshots
  <2> QED
    BY <1>8, <2>1 DEF KillSkipped
<1>9. CASE Die
  <2>1. stored.day \in 0..MaxDay
    BY DEF Snapshots
  <2> QED
    BY <1>9, <2>1 DEF Die
<1>10. ASSUME NEW readable \in BOOLEAN, Boot(readable) PROVE LossShapes'
  <2>1. Known(IF readable THEN equity ELSE None) \in Worth
    BY KnownType
  <2>2. stored' \in Snapshots
    BY <1>10, <2>1, SnapshotType, Zenon DEF Boot
  <2>3. reading' \in Worth \cup {None} /\ failures' \in 0..MaxFailures
    BY <1>10 DEF Boot
  <2> QED
    BY <1>10, <2>2, <2>3, Zenon DEF Boot
<1>11. CASE UNCHANGED lossVars
  BY <1>11, Zenon DEF lossVars
<1> QED
  BY <1>1, <1>2, <1>3, <1>4, <1>5, <1>6, <1>7, <1>8, <1>9, <1>10, <1>11, Zenon DEF LossNext, EvaluateEntry

\* Nor the flags.
LEMMA LossTypeStep == LossTypeOK /\ [LossNext]_lossVars => LossTypeOK'
<1> SUFFICES ASSUME LossTypeOK, [LossNext]_lossVars PROVE LossTypeOK'
  OBVIOUS
<1>1. LossFlags /\ LossShapes
  BY LossTypeParts
<1>2. LossFlags' /\ LossShapes'
  BY <1>1, LossFlagsStep, LossShapesStep
<1>3. LossTypeOK' <=> LossFlags' /\ LossShapes'
  BY LossTypeParts, PTL
<1> QED
  BY <1>2, <1>3

(* Every variable keeps its shape, whatever the bounds.                    *)
THEOREM LossTypes == LossSpec => []LossTypeOK
BY LossTypeStep, LossInitType, PTL DEF LossSpec

-----------------------------------------------------------------------------
(* The breaker.                                                            *)

(* No snapshot and no release is of a day to come.                         *)
DaysPast == stored.day <= day /\ cleared <= day

(* A stored breaker has its kill switch, is about to get it, or lost it:   *)
(* the operator released it since, or it was never engaged.                *)
Latched ==
    stored.breaker =>
        at = "engaging" \/ switch \/ cleared >= stored.day \/ torn = stored.day

BreakerInv == LossTypeOK /\ DaysPast /\ Latched

\* A snapshot is of an earlier day, or of today.
LEMMA DaysPastStep ==
    ASSUME LossShapes, DaysPast, [LossNext]_lossVars
    PROVE  DaysPast'
<1>1. day \in Int /\ stored.day \in Int /\ cleared \in Int /\ MaxDay \in Int
  BY DailyLossAssumption DEF LossShapes, Snapshots
<1>2. stored'.day \in {stored.day, day}
  <2>1. ASSUME NEW e, EnsureSnapshot(e) PROVE stored'.day \in {stored.day, day}
    BY <2>1, SnapshotOf DEF EnsureSnapshot
  <2>2. ASSUME NEW e \in Worth, Move(e) PROVE stored' = stored
    BY <2>2, Zenon DEF Move
  <2>3. CASE Midnight \/ Close \/ Grow \/ Disengage \/ Refresh \/ Kill \/ KillSkipped \/ Die
    BY <2>3, Zenon DEF Midnight, Close, Grow, Disengage, Refresh, Kill, KillSkipped, Die
  <2>4. CASE Supervise \/ Enter \/ RefusedAgain
    BY <2>1, <2>4, Zenon DEF Supervise, Enter, RefusedAgain
  <2>5. CASE Engage
    <3>1. [stored EXCEPT !.breaker = TRUE].day = stored.day
      BY DEF LossShapes, Snapshots
    <3> QED
      BY <2>5, <3>1, Zenon DEF Engage
  <2>6. ASSUME NEW readable \in BOOLEAN, Boot(readable) PROVE stored'.day \in {stored.day, day}
    BY <2>6, SnapshotOf, Zenon DEF Boot
  <2>7. CASE UNCHANGED lossVars
    BY <2>7, Zenon DEF lossVars
  <2> QED
    BY <2>2, <2>3, <2>4, <2>5, <2>6, <2>7, Zenon DEF LossNext, EvaluateEntry
<1>3. /\ day' = day \/ day' = day + 1
      /\ cleared' = cleared \/ (cleared' = day /\ day' = day)
  <2>1. CASE Midnight
    BY <2>1, Zenon DEF Midnight
  <2>2. CASE Disengage
    BY <2>2, Zenon DEF Disengage
  <2>3. ASSUME NEW e \in Worth, Move(e) PROVE day' = day /\ cleared' = cleared
    BY <2>3, Zenon DEF Move
  <2>4. CASE Close \/ Grow \/ Refresh \/ Supervise \/ EvaluateEntry \/ Die
    BY <2>4, Zenon DEF Close, Grow, Refresh, Supervise, EvaluateEntry, Enter, RefusedAgain, Engage, Kill, KillSkipped, Die
  <2>5. ASSUME NEW readable \in BOOLEAN, Boot(readable) PROVE day' = day /\ cleared' = cleared
    BY <2>5, Zenon DEF Boot
  <2>6. CASE UNCHANGED lossVars
    BY <2>6, Zenon DEF lossVars
  <2> QED
    BY <2>1, <2>2, <2>3, <2>4, <2>5, <2>6, Zenon DEF LossNext
<1> QED
  BY <1>1, <1>2, <1>3 DEF DaysPast

\* A new snapshot has no breaker; the one there was keeps what latches it.
LEMMA EnsureLatched ==
    ASSUME LossShapes, Latched, NEW e, EnsureSnapshot(e),
           UNCHANGED <<at, switch, cleared, torn>>
    PROVE  Latched'
<1>1. CASE stored.day = day
  BY <1>1, Zenon DEF EnsureSnapshot, Latched
<1>2. CASE stored.day # day
  BY <1>2, SnapshotOf DEF EnsureSnapshot, Latched
<1> QED
  BY <1>1, <1>2

\* A stored breaker gets its switch next, or its record says what parted them.
LEMMA LatchedStep ==
    ASSUME LossShapes, DaysPast, Latched, [LossNext]_lossVars
    PROVE  Latched'
<1> USE DEF Latched, engineView
<1>1. ASSUME NEW e \in Worth, Move(e) PROVE Latched'
  BY <1>1, Zenon DEF Move
<1>2. CASE Midnight \/ Close \/ Grow \/ Refresh
  BY <1>2, Zenon DEF Midnight, Close, Grow, Refresh
<1>3. CASE Disengage
  <2>1. cleared' >= stored'.day
    <3>1. day \in Int /\ stored.day \in Int
      BY DailyLossAssumption DEF LossShapes, Snapshots
    <3>2. cleared' = day /\ stored' = stored
      BY <1>3, Zenon DEF Disengage
    <3> QED
      BY <3>1, <3>2 DEF DaysPast
  <2> QED
    BY <2>1, Zenon
<1>4. CASE Supervise \/ Enter \/ RefusedAgain
  BY <1>4, EnsureLatched, Zenon DEF Supervise, Enter, RefusedAgain
<1>5. CASE Engage \/ Kill
  BY <1>5, Zenon DEF Engage, Kill
<1>6. CASE KillSkipped
  BY <1>6, Zenon DEF KillSkipped
<1>7. CASE Die
  <2>1. torn' = stored.day \/ (torn' = torn /\ at # "engaging")
    BY <1>7, Zenon DEF Die
  <2>2. UNCHANGED <<stored, switch, cleared>>
    BY <1>7, Zenon DEF Die
  <2> QED
    BY <2>1, <2>2, Zenon
<1>8. ASSUME NEW readable \in BOOLEAN, Boot(readable) PROVE Latched'
  <2>1. at # "engaging" /\ UNCHANGED <<switch, cleared, torn>>
    BY <1>8, Zenon DEF Boot
  <2>2. stored' = stored \/ ~stored'.breaker
    BY <1>8, Zenon DEF Boot, Snapshot
  <2> QED
    BY <2>1, <2>2, Zenon
<1>9. CASE UNCHANGED lossVars
  BY <1>9, Zenon DEF lossVars
<1> QED
  BY <1>1, <1>2, <1>3, <1>4, <1>5, <1>6, <1>7, <1>8, <1>9, Zenon DEF LossNext, EvaluateEntry

\* So it is of every behaviour.
LEMMA BreakerInvariant == LossSpec => []BreakerInv
<1>1. LossInit => DaysPast /\ Latched
  <2>1. NoSnapshot.day = 0 /\ NoSnapshot.breaker = FALSE
    BY DEF NoSnapshot
  <2>2. LossInit => stored.day = 0 /\ stored.breaker = FALSE /\ day = 1 /\ cleared = 0
    BY <2>1, Zenon DEF LossInit
  <2> QED
    BY <2>2 DEF DaysPast, Latched
<1>2. BreakerInv /\ [LossNext]_lossVars => DaysPast' /\ Latched'
  BY LossTypeParts, DaysPastStep, LatchedStep DEF BreakerInv
<1> QED
  BY <1>1, <1>2, LossTypes, PTL DEF LossSpec, BreakerInv

(* On the day of the breaker no entry is made, unless the operator         *)
(* released the kill switch or it was never engaged.                       *)
THEOREM BreakerKeepsEntriesOut == LossSpec => BreakerHolds
<1>1. ASSUME BreakerInv, [LossNext]_lossVars, ~open /\ open', stored.day = day, stored.breaker
      PROVE  cleared = day \/ torn = day
  <2>1. Enter
    <3>1. ASSUME NEW e \in Worth, Move(e) PROVE open' = open
      BY <3>1, Zenon DEF Move
    <3>2. CASE Midnight \/ Close \/ Grow \/ Disengage \/ Refresh \/ Supervise \/ Die
      BY <1>1, <3>2, Zenon DEF Midnight, Close, Grow, Disengage, Refresh, Supervise, Die
    <3>3. CASE RefusedAgain \/ Engage \/ Kill \/ KillSkipped
      BY <1>1, <3>3, Zenon DEF RefusedAgain, Engage, Kill, KillSkipped
    <3>4. ASSUME NEW readable \in BOOLEAN, Boot(readable) PROVE open' = open
      BY <3>4, Zenon DEF Boot
    <3>5. CASE UNCHANGED lossVars
      BY <1>1, <3>5, Zenon DEF lossVars
    <3> QED
      BY <1>1, <3>1, <3>2, <3>3, <3>4, <3>5, Zenon DEF LossNext, EvaluateEntry
  <2>2. at # "engaging" /\ ~switch
    BY <2>1, Zenon DEF Enter, LastGuard
  <2>3. cleared >= stored.day \/ torn = stored.day
    BY <1>1, <2>2, Zenon DEF BreakerInv, Latched
  <2>4. day \in Int /\ cleared \in Int
    BY <1>1, LossTypeParts, DailyLossAssumption DEF BreakerInv, LossShapes
  <2> QED
    BY <1>1, <2>3, <2>4 DEF BreakerInv, DaysPast
<1> QED
  BY <1>1, BreakerInvariant, PTL DEF LossSpec, BreakerHolds

-----------------------------------------------------------------------------
(* Memory and store.                                                       *)

\* No step leaves the breaker in memory other than the one in the store.
LEMMA BreakerIsStoredStep ==
    ASSUME LossShapes, BreakerIsStored, [LossNext]_lossVars
    PROVE  BreakerIsStored'
<1> USE DEF BreakerIsStored, engineView
<1>1. ASSUME NEW e \in Worth, Move(e) PROVE BreakerIsStored'
  BY <1>1, Zenon DEF Move
<1>2. CASE Midnight \/ Close \/ Grow \/ Disengage \/ Refresh
  BY <1>2, Zenon DEF Midnight, Close, Grow, Disengage, Refresh
<1>3. CASE Supervise \/ Enter \/ RefusedAgain
  <2>1. CASE stored.day = day
    BY <1>3, <2>1, Zenon DEF Supervise, Enter, RefusedAgain, EnsureSnapshot
  <2>2. CASE stored.day # day
    <3>1. EnsureSnapshot(Known(reading))
      BY <1>3, Zenon DEF Supervise, Enter, RefusedAgain
    <3>2. breaker' = FALSE /\ stored' = Snapshot(Known(reading))
      BY <2>2, <3>1, Zenon DEF EnsureSnapshot
    <3> QED
      BY <3>2, SnapshotOf, Zenon
  <2> QED
    BY <2>1, <2>2
<1>4. CASE Engage
  <2>1. [stored EXCEPT !.breaker = TRUE].breaker
    BY DEF LossShapes, Snapshots
  <2> QED
    BY <1>4, <2>1, Zenon DEF Engage
<1>5. CASE Kill \/ KillSkipped
  BY <1>5, Zenon DEF Kill, KillSkipped
<1>6. CASE Die
  BY <1>6, Zenon DEF Die
<1>7. ASSUME NEW readable \in BOOLEAN, Boot(readable) PROVE BreakerIsStored'
  BY <1>7, Zenon DEF Boot, Snapshot, Restored
<1>8. CASE UNCHANGED lossVars
  BY <1>8, Zenon DEF lossVars
<1> QED
  BY <1>1, <1>2, <1>3, <1>4, <1>5, <1>6, <1>7, <1>8, Zenon DEF LossNext, EvaluateEntry

(* While the process lives, the breaker in memory is the one in the store. *)
THEOREM BreakerStored == LossSpec => []BreakerIsStored
<1>1. LossInit => BreakerIsStored
  BY DEF LossInit, BreakerIsStored
<1>2. LossTypeOK /\ BreakerIsStored /\ [LossNext]_lossVars => BreakerIsStored'
  BY LossTypeParts, BreakerIsStoredStep
<1> QED
  BY <1>1, <1>2, LossTypes, PTL DEF LossSpec

-----------------------------------------------------------------------------
(* The engine's loop.                                                      *)

(* Behind the end no trade gets in: the stream is off, and the last id     *)
(* accepted is the one that shutdown() stored.                             *)
NothingBehindFlush == phase = "ended" => link = "off" /\ flushed = accepted

\* Trades are held until the gates are evaluated, and let through only if those of a real run passed.
Guarded ==
    /\ phase \in {"initialized", "evidence"} => holding
    /\ phase \in {"releasing", "running"} => passed /\ ~dryRun
    /\ ~holding => passed /\ ~dryRun

AnyTrade == \E place \in Places : OnTrade(place)

AnyRelease == \E k \in 1..MaxTrade, place \in Places : Release(k, place)

AnyVerdict == \E ok \in BOOLEAN : Gates(ok)

-----------------------------------------------------------------------------
\* A loop that was not started holds trades and has nothing behind the flush.
LEMMA InitGuarded == LoopInit => Guarded /\ NothingBehindFlush
  BY DEF LoopInit, Guarded, NothingBehindFlush

\* Nothing but the gates lets trades through.
LEMMA StepGuarded == Guarded /\ [LoopNext]_loopVars => Guarded'
<1>1. SUFFICES ASSUME Guarded, [LoopNext]_loopVars PROVE Guarded'
  OBVIOUS
<1>a. CASE StartStream
  BY <1>1, <1>a DEF Guarded, StartStream, gate
<1>b. CASE ConnectStream \/ Trade \/ BreakOff \/ Reconnect \/ Hold \/ Signal
  <2>1. UNCHANGED <<phase, gate>>
    BY <1>b DEF ConnectStream, Trade, BreakOff, Reconnect, Hold, Signal
  <2> QED
    BY <1>1, <2>1 DEF Guarded, gate
<1>c. CASE StopSeen \/ Shutdown
  <2>1. phase' \in {"stopping", "ended"} /\ UNCHANGED gate
    BY <1>c DEF StopSeen, Shutdown
  <2> QED
    BY <1>1, <2>1 DEF Guarded, gate
<1>d. CASE AnyTrade
  <2>1. UNCHANGED <<phase, gate>>
    BY <1>d DEF AnyTrade, OnTrade
  <2> QED
    BY <1>1, <2>1 DEF Guarded, gate
<1>e. CASE AnyVerdict
  <2>1. PICK ok \in BOOLEAN : Gates(ok)
    BY <1>e DEF AnyVerdict
  <2>2. phase = "evidence" /\ UNCHANGED <<dryRun, holding>> /\ passed' = ok
    BY <2>1 DEF Gates
  <2>3. holding
    BY <1>1, <2>2 DEF Guarded
  <2>4. CASE ok /\ ~dryRun
    BY <2>2, <2>3, <2>4 DEF Guarded
  <2>5. CASE ~(ok /\ ~dryRun)
    <3>1. phase' = "stopping"
      BY <2>1, <2>5 DEF Gates
    <3> QED
      BY <2>2, <2>3, <3>1 DEF Guarded
  <2> QED
    BY <2>4, <2>5
<1>f. CASE AnyRelease
  <2>1. phase = "releasing" /\ phase' \in {"running", "stopping"} /\ UNCHANGED <<dryRun, passed>>
    BY <1>f DEF AnyRelease, Release
  <2> QED
    BY <1>1, <2>1 DEF Guarded
<1>g. CASE UNCHANGED loopVars
  BY <1>1, <1>g DEF Guarded, loopVars, gate
<1> QED
  BY <1>1, <1>a, <1>b, <1>c, <1>d, <1>e, <1>f, <1>g, Zenon
  DEF LoopNext, AnyTrade, AnyVerdict, AnyRelease

\* What a step processes it processes behind the gates.
LEMMA StepGated ==
    Guarded /\ [LoopNext]_loopVars =>
        (<<accepted, candles>>' # <<accepted, candles>> => passed /\ ~dryRun)
<1>1. SUFFICES ASSUME Guarded, [LoopNext]_loopVars, <<accepted, candles>>' # <<accepted, candles>>
               PROVE  passed /\ ~dryRun
  OBVIOUS
<1>2. CASE AnyTrade
  <2>1. ~holding
    BY <1>2 DEF AnyTrade, OnTrade
  <2> QED
    BY <1>1, <2>1 DEF Guarded
<1>3. CASE AnyRelease
  <2>1. phase = "releasing"
    BY <1>3 DEF AnyRelease, Release
  <2> QED
    BY <1>1, <2>1 DEF Guarded
<1>4. CASE ~AnyTrade /\ ~AnyRelease
  <2>1. UNCHANGED intake
    BY <1>1, <1>4
    DEF LoopNext, AnyTrade, AnyRelease, StartStream, ConnectStream, Trade, BreakOff, Reconnect,
        Hold, StopSeen, Signal, Shutdown, Gates, loopVars
  <2> QED
    BY <1>1, <2>1 DEF intake
<1> QED
  BY <1>2, <1>3, <1>4

\* A loop that has ended takes no trade.
LEMMA StepFlushed == NothingBehindFlush /\ [LoopNext]_loopVars => NothingBehindFlush'
<1>1. SUFFICES ASSUME NothingBehindFlush, [LoopNext]_loopVars, phase' = "ended"
               PROVE  link' = "off" /\ flushed' = accepted'
  BY DEF NothingBehindFlush
<1>2. CASE Shutdown
  BY <1>2 DEF Shutdown, intake
<1>3. CASE ~Shutdown
  <2>1. phase = "ended"
    BY <1>1, <1>3
    DEF LoopNext, StartStream, ConnectStream, Trade, BreakOff, Reconnect, Hold, StopSeen, Signal,
        OnTrade, Gates, Release, loopVars
  <2>2. link = "off" /\ flushed = accepted
    BY <1>1, <2>1 DEF NothingBehindFlush
  <2>3. UNCHANGED <<link, flushed, accepted>>
    BY <1>1, <1>3, <2>1, <2>2
    DEF LoopNext, StartStream, ConnectStream, Trade, BreakOff, Reconnect, Hold, StopSeen, Signal,
        OnTrade, Gates, Release, loopVars, linkVars, intake
  <2> QED
    BY <2>2, <2>3
<1> QED
  BY <1>2, <1>3

(* For any number of trades, breaks and errors: before the safety gates    *)
(* have passed, and in a dry run, no trade is processed, whether it is     *)
(* held, arrives while the gates are evaluated, or is released.            *)
THEOREM Ungated == LoopSpec => NothingUngated
  BY InitGuarded, StepGuarded, StepGated, PTL DEF LoopSpec, NothingUngated

(* When the engine has ended, what it accepted is in the store for good.   *)
THEOREM FlushIsLast == LoopSpec => []NothingBehindFlush
  BY InitGuarded, StepFlushed, PTL DEF LoopSpec

-----------------------------------------------------------------------------
(* The order of the trades.  What the process has taken in is a record;    *)
(* the invariant says of it that it is sound, and of the trades that wait, *)
(* held or in the socket, that they are newer and in order.                *)

Rising(s) == \A i, j \in 1..Len(s) : i < j => s[i] < s[j]

IntakeType == [accepted : Nat, holes : SUBSET Nat, candles : Seq(Nat), dropped : SUBSET Nat]

Covered(s) ==
    s.candles # <<>> =>
        \A t \in s.candles[1]..s.accepted :
            t \in s.holes \cup s.dropped \/ \E i \in 1..Len(s.candles) : s.candles[i] = t

Sound(s) ==
    /\ s \in IntakeType
    /\ Rising(s.candles)
    /\ \A i \in 1..Len(s.candles) : 0 < s.candles[i] /\ s.candles[i] <= s.accepted
    /\ Covered(s)

\* Waiting trades: in order, behind number n, and no newer than the exchange's last.
Waiting(q, n) == q \in Seq(Nat) /\ Rising(q) /\ \A i \in 1..Len(q) : n < q[i] /\ q[i] <= traded

NotYet == [accepted |-> 0, holes |-> {}, candles |-> <<>>, dropped |-> {}]

OrderInv ==
    /\ traded \in Nat /\ accepted \in Nat /\ accepted <= traded
    /\ Sound(Intake)
    /\ Waiting(buffer, accepted) /\ Waiting(inSocket, accepted)
    /\ \A i \in 1..Len(buffer), j \in 1..Len(inSocket) : buffer[i] < inSocket[j]
    /\ holding => Intake = NotYet
    /\ ~holding => buffer = <<>>

-----------------------------------------------------------------------------
\* The parts of process_aggtrade.
LEMMA DetectedIs ==
    ASSUME NEW s \in IntakeType, NEW t \in Nat
    PROVE  /\ Detected(s, t) \in IntakeType
           /\ Detected(s, t).accepted = t
           /\ Detected(s, t).holes = s.holes \cup (IF s.accepted = 0 THEN {} ELSE (s.accepted + 1)..(t - 1))
           /\ Detected(s, t).candles = s.candles /\ Detected(s, t).dropped = s.dropped
<1> DEFINE hole == IF s.accepted = 0 THEN {} ELSE (s.accepted + 1)..(t - 1)
<1>1. hole \in SUBSET Nat
  BY DEF IntakeType
<1>2. Detected(s, t) = [s EXCEPT !.accepted = t, !.holes = @ \cup hole]
  BY DEF Detected
<1> HIDE DEF hole
<1>3. /\ Detected(s, t) \in IntakeType
      /\ Detected(s, t).accepted = t
      /\ Detected(s, t).holes = s.holes \cup hole
      /\ Detected(s, t).candles = s.candles /\ Detected(s, t).dropped = s.dropped
  BY <1>1, <1>2 DEF IntakeType
<1> QED
  BY <1>3 DEF hole

\* What a trade that reaches the candles changes of the intake.
LEMMA BuiltIs ==
    ASSUME NEW s \in IntakeType, NEW t \in Nat
    PROVE  /\ Built(s, t) \in IntakeType
           /\ Built(s, t).candles = Append(s.candles, t)
           /\ Built(s, t).accepted = s.accepted /\ Built(s, t).holes = s.holes
           /\ Built(s, t).dropped = s.dropped
<1> DEFINE c == Append(s.candles, t)
<1>1. c \in Seq(Nat)
  BY DEF IntakeType
<1>2. Built(s, t) = [s EXCEPT !.candles = c]
  BY DEF Built
<1> HIDE DEF c
<1>3. /\ Built(s, t) \in IntakeType
      /\ Built(s, t).candles = c
      /\ Built(s, t).accepted = s.accepted /\ Built(s, t).holes = s.holes
      /\ Built(s, t).dropped = s.dropped
  BY <1>1, <1>2 DEF IntakeType
<1> QED
  BY <1>3 DEF c

\* What a trade that ends in an error changes.
LEMMA RaisedIs ==
    ASSUME NEW s \in IntakeType, NEW t \in Nat
    PROVE  /\ Raised(s, t) \in IntakeType
           /\ Raised(s, t).dropped = s.dropped \cup {t}
           /\ Raised(s, t).accepted = s.accepted /\ Raised(s, t).holes = s.holes
           /\ Raised(s, t).candles = s.candles
BY DEF Raised, IntakeType

\* A newer trade leaves what was taken in sound, wherever an error stops it.
LEMMA ProcessedSound ==
    ASSUME NEW s, Sound(s), NEW t \in Nat, s.accepted < t, NEW place
    PROVE  /\ Sound(Processed(s, t, place))
           /\ Processed(s, t, place).accepted \in Nat /\ Processed(s, t, place).accepted <= t
<1>1. s \in IntakeType /\ s.accepted \in Nat /\ s.candles \in Seq(Nat) /\ 0 < t
  BY DEF Sound, IntakeType
<1>2. CASE place = "store"
  <2>1. /\ Processed(s, t, place) \in IntakeType
        /\ Processed(s, t, place).accepted = s.accepted /\ Processed(s, t, place).holes = s.holes
        /\ Processed(s, t, place).candles = s.candles /\ Processed(s, t, place).dropped = s.dropped \cup {t}
    BY <1>1, <1>2, RaisedIs DEF Processed
  <2>2. Covered(Processed(s, t, place))
    BY <2>1 DEF Sound, Covered
  <2> QED
    BY <1>1, <2>1, <2>2 DEF Sound
<1>3. CASE place # "store"
  <2> DEFINE d == Detected(s, t)
             p == Processed(s, t, place)
  <2>1. /\ d \in IntakeType /\ d.accepted = t
        /\ d.holes = s.holes \cup (IF s.accepted = 0 THEN {} ELSE (s.accepted + 1)..(t - 1))
        /\ d.candles = s.candles /\ d.dropped = s.dropped
    BY <1>1, DetectedIs
  <2>2. CASE place = "actions"
    <3>1. /\ p \in IntakeType /\ p.accepted = t /\ p.holes = d.holes /\ p.candles = s.candles
          /\ p.dropped = s.dropped \cup {t}
      <4>1. p = Raised(d, t)
        BY <1>3, <2>2 DEF Processed
      <4> HIDE DEF d, p
      <4> QED
        BY <2>1, <4>1, RaisedIs
    <3>2. \A i \in 1..Len(p.candles) : 0 < p.candles[i] /\ p.candles[i] <= p.accepted
      <4> HIDE DEF d, p
      <4>1. \A i \in 1..Len(s.candles) : s.candles[i] \in Nat /\ 0 < s.candles[i] /\ s.candles[i] <= s.accepted
        BY <1>1 DEF Sound
      <4> QED
        BY <1>1, <3>1, <4>1
    <3>3. Covered(p)
      <4> HIDE DEF d, p
      <4> SUFFICES ASSUME s.candles # <<>>, NEW u \in s.candles[1]..t
                   PROVE  \/ u \in p.holes \cup p.dropped
                          \/ \E i \in 1..Len(p.candles) : p.candles[i] = u
        BY <3>1 DEF Covered
      <4>1. 1 \in 1..Len(s.candles) /\ s.candles[1] \in Nat
        BY <1>1
      <4>2. 0 < s.candles[1] /\ s.candles[1] <= s.accepted
        BY <4>1 DEF Sound
      <4>3. u \in Int /\ s.accepted # 0
        BY <1>1, <4>1, <4>2
      <4>4. CASE u <= s.accepted
        <5>1. u \in s.candles[1]..s.accepted
          BY <1>1, <4>1, <4>3, <4>4
        <5>2. \/ u \in s.holes \cup s.dropped
              \/ \E i \in 1..Len(s.candles) : s.candles[i] = u
          BY <5>1 DEF Sound, Covered
        <5> QED
          BY <2>1, <3>1, <5>2
      <4>5. CASE ~(u <= s.accepted)
        <5>1. u = t \/ u \in (s.accepted + 1)..(t - 1)
          BY <1>1, <4>1, <4>3, <4>5
        <5> QED
          BY <2>1, <3>1, <4>3, <5>1
      <4> QED
        BY <4>4, <4>5
    <3>4. Rising(p.candles)
      <4> HIDE DEF d, p
      <4> QED
        BY <3>1 DEF Sound
    <3> HIDE DEF d, p
    <3>5. Sound(p) /\ p.accepted \in Nat /\ p.accepted <= t
      BY <3>1, <3>2, <3>3, <3>4 DEF Sound
    <3> QED
      BY <3>5 DEF p
  <2>3. CASE place # "actions"
    <3>1. /\ p \in IntakeType /\ p.accepted = t /\ p.holes = d.holes
          /\ p.candles = Append(s.candles, t) /\ p.dropped = s.dropped
      <4>1. p = Built(d, t)
        BY <1>3, <2>3 DEF Processed
      <4> HIDE DEF d, p
      <4> QED
        BY <2>1, <4>1, BuiltIs
    <3> DEFINE n == Len(s.candles)
    <3>2. /\ n \in Nat /\ Len(p.candles) = n + 1 /\ p.candles[n + 1] = t
          /\ \A i \in 1..n : p.candles[i] = s.candles[i]
          /\ p.candles \in Seq(Nat)
      <4> HIDE DEF p, d
      <4> QED
        BY <1>1, <3>1
    <3> HIDE DEF d, p
    <3>3. \A i \in 1..n : s.candles[i] \in Nat /\ 0 < s.candles[i] /\ s.candles[i] <= s.accepted
      BY <1>1 DEF Sound
    <3>4. \A i, j \in 1..n : i < j => s.candles[i] < s.candles[j]
      BY DEF Sound, Rising
    <3> HIDE DEF n
    <3>5. \A i \in 1..(n + 1) : i \in 1..n \/ i = n + 1
      BY <3>2
    <3>6. \A i \in 1..(n + 1) : 0 < p.candles[i] /\ p.candles[i] <= t
      <4> SUFFICES ASSUME NEW i \in 1..(n + 1) PROVE 0 < p.candles[i] /\ p.candles[i] <= t
        OBVIOUS
      <4>1. CASE i \in 1..n
        <5>1. p.candles[i] = s.candles[i] /\ s.candles[i] \in Nat
              /\ 0 < s.candles[i] /\ s.candles[i] <= s.accepted
          BY <3>2, <3>3, <4>1
        <5> QED
          BY <1>1, <5>1
      <4>2. CASE i = n + 1
        <5>1. p.candles[i] = t
          BY <3>2, <4>2
        <5> QED
          BY <1>1, <5>1
      <4> QED
        BY <3>5, <4>1, <4>2
    <3>7. \A i, j \in 1..(n + 1) : i < j => p.candles[i] < p.candles[j]
      <4> SUFFICES ASSUME NEW i \in 1..(n + 1), NEW j \in 1..(n + 1), i < j
                   PROVE  p.candles[i] < p.candles[j]
        OBVIOUS
      <4>1. i \in 1..n
        BY <3>2
      <4>2. CASE j \in 1..n
        BY <3>2, <3>4, <4>1, <4>2
      <4>3. CASE j = n + 1
        BY <1>1, <3>2, <3>3, <4>1, <4>3
      <4> QED
        BY <3>5, <4>2, <4>3
    <3>8. Covered(p)
      <4> SUFFICES ASSUME NEW u \in p.candles[1]..t
                   PROVE  \/ u \in p.holes \cup p.dropped
                          \/ \E i \in 1..Len(p.candles) : p.candles[i] = u
        BY <3>1 DEF Covered
      <4>1. CASE u = t
        <5>1. n + 1 \in 1..Len(p.candles)
          BY <3>2
        <5> QED
          BY <3>2, <4>1, <5>1
      <4>2. CASE u # t /\ n = 0
        BY <1>1, <3>2, <4>2
      <4>3. CASE u # t /\ n # 0
        <5>1. 1 \in 1..n
          BY <3>2, <4>3
        <5>2. p.candles[1] = s.candles[1] /\ 0 < s.candles[1] /\ s.candles[1] <= s.accepted
              /\ s.candles[1] \in Nat
          BY <3>2, <3>3, <5>1
        <5>3. s.accepted # 0 /\ u \in Int /\ s.candles # <<>>
          BY <1>1, <4>3, <5>2 DEF n
        <5>4. CASE u <= s.accepted
          <6>1. u \in s.candles[1]..s.accepted
            BY <1>1, <5>2, <5>3, <5>4
          <6>2. \/ u \in s.holes \cup s.dropped
                \/ \E i \in 1..n : s.candles[i] = u
            BY <5>3, <6>1 DEF Sound, Covered, n
          <6>3. \A i \in 1..n : i \in 1..Len(p.candles)
            BY <3>2
          <6> QED
            BY <2>1, <3>1, <3>2, <6>2, <6>3
        <5>5. CASE ~(u <= s.accepted)
          <6>1. u \in (s.accepted + 1)..(t - 1)
            BY <1>1, <4>3, <5>2, <5>3, <5>5
          <6> QED
            BY <2>1, <3>1, <5>3, <6>1
        <5> QED
          BY <5>4, <5>5
      <4> QED
        BY <4>1, <4>2, <4>3
    <3>9. Sound(p) /\ p.accepted \in Nat /\ p.accepted <= t
      BY <3>1, <3>2, <3>6, <3>7, <3>8 DEF Sound, Rising
    <3> QED
      BY <3>9 DEF p
  <2> QED
    BY <2>2, <2>3
<1> QED
  BY <1>2, <1>3

-----------------------------------------------------------------------------
(* The release, in one go.  Before number k of the held trades it has made *)
(* the one before it the last accepted, the gaps between them holes, and   *)
(* all of them candles.                                                    *)

\* The release as its recursive definition has it.
Releasing(k) ==
    CHOOSE made :
        made = [i \in 1..k |-> IF i = 1 THEN Intake ELSE Processed(made[i - 1], buffer[i - 1], "nowhere")]

\* The recursive function of the release at its k-th trade.
LEMMA AheadIs == \A k : Ahead(k) = Releasing(k)[k]
  BY DEF Ahead, Releasing

MadeOf(i) ==
    [accepted |-> IF i = 1 THEN 0 ELSE buffer[i - 1],
     holes |-> {t \in Nat : \E j \in 2..(i - 1) : buffer[j - 1] < t /\ t < buffer[j]},
     candles |-> SubSeq(buffer, 1, i - 1),
     dropped |-> {}]

\* What the first trades of the release make of the intake is an intake.
LEMMA MadeOfIs ==
    ASSUME NEW i, buffer \in Seq(Nat), i \in 1..Len(buffer)
    PROVE  MadeOf(i) \in IntakeType
<1>1. SubSeq(buffer, 1, i - 1) \in Seq(Nat)
  OBVIOUS
<1>2. (IF i = 1 THEN 0 ELSE buffer[i - 1]) \in Nat
  OBVIOUS
<1> QED
  BY <1>1, <1>2 DEF MadeOf, IntakeType

\* A record is its four fields.
LEMMA SameIntake ==
    ASSUME NEW r \in IntakeType, NEW s \in IntakeType, r.accepted = s.accepted, r.holes = s.holes,
           r.candles = s.candles, r.dropped = s.dropped
    PROVE  r = s
BY DEF IntakeType

\* Each of them is processed on what those before it made.
LEMMA MadeOfSteps ==
    ASSUME NEW i, buffer \in Seq(Nat), i \in 2..Len(buffer), \A j \in 1..Len(buffer) : 0 < buffer[j]
    PROVE  MadeOf(i) = Processed(MadeOf(i - 1), buffer[i - 1], "nowhere")
<1> DEFINE s == MadeOf(i - 1)
           t == buffer[i - 1]
           d == Detected(s, t)
           b == Built(d, t)
<1>1. /\ i - 1 \in 1..Len(buffer) /\ i \in 1..Len(buffer) /\ i \in Nat /\ Len(buffer) \in Nat
      /\ (i = 1) = FALSE
  OBVIOUS
<1>2. t \in Nat /\ 0 < t
  BY <1>1
<1>3. s \in IntakeType /\ MadeOf(i) \in IntakeType
  BY <1>1, MadeOfIs
<1>4. /\ s.accepted = (IF i - 1 = 1 THEN 0 ELSE buffer[i - 1 - 1])
      /\ s.holes = {u \in Nat : \E j \in 2..(i - 1 - 1) : buffer[j - 1] < u /\ u < buffer[j]}
      /\ s.candles = SubSeq(buffer, 1, i - 1 - 1) /\ s.dropped = {}
  BY DEF MadeOf
<1>5. /\ MadeOf(i).accepted = t
      /\ MadeOf(i).holes = {u \in Nat : \E j \in 2..(i - 1) : buffer[j - 1] < u /\ u < buffer[j]}
      /\ MadeOf(i).candles = SubSeq(buffer, 1, i - 1) /\ MadeOf(i).dropped = {}
  BY <1>1 DEF MadeOf
<1> HIDE DEF s, t, d, b
<1>6. /\ d \in IntakeType /\ d.accepted = t
      /\ d.holes = s.holes \cup (IF s.accepted = 0 THEN {} ELSE (s.accepted + 1)..(t - 1))
      /\ d.candles = s.candles /\ d.dropped = s.dropped
  BY <1>2, <1>3, DetectedIs DEF d
<1>7. /\ b \in IntakeType /\ b.accepted = d.accepted /\ b.holes = d.holes
      /\ b.candles = Append(d.candles, t) /\ b.dropped = d.dropped
  BY <1>2, <1>6, BuiltIs DEF b
<1>8. SubSeq(buffer, 1, i - 1) = Append(SubSeq(buffer, 1, i - 1 - 1), t)
  BY <1>1 DEF t
<1>9. MadeOf(i).holes = b.holes
  <2> DEFINE H(k) == {u \in Nat : \E j \in 2..k : buffer[j - 1] < u /\ u < buffer[j]}
  <2>1. CASE i = 2
    <3>1. s.accepted = 0 /\ 2..(i - 1) = {} /\ 2..(i - 1 - 1) = {}
      BY <1>4, <2>1
    <3> QED
      BY <1>4, <1>5, <1>6, <1>7, <3>1
  <2>2. CASE i # 2
    <3>1. s.accepted = buffer[i - 1 - 1] /\ i - 1 - 1 \in 1..Len(buffer) /\ i - 1 \in 2..(i - 1)
      BY <1>1, <1>4, <2>2
    <3>2. s.accepted \in Nat /\ s.accepted # 0
      BY <3>1
    <3>3. \A u : u \in (s.accepted + 1)..(t - 1) <=> u \in Nat /\ s.accepted < u /\ u < t
      BY <1>2, <3>2
    <3>4. \A j : j \in 2..(i - 1) <=> j \in 2..(i - 1 - 1) \/ j = i - 1
      BY <1>1, <3>1
    <3>5. \A u : u \in H(i - 1) <=> u \in H(i - 1 - 1) \/ (u \in Nat /\ s.accepted < u /\ u < t)
      BY <3>1, <3>4 DEF t
    <3>6. b.holes = H(i - 1 - 1) \cup (s.accepted + 1)..(t - 1) /\ MadeOf(i).holes = H(i - 1)
      BY <1>4, <1>5, <1>6, <1>7, <3>2
    <3> HIDE DEF H
    <3> QED
      BY <3>3, <3>5, <3>6
  <2> QED
    BY <2>1, <2>2
<1>10. MadeOf(i) = b
  <2> HIDE DEF MadeOf
  <2>1. MadeOf(i).candles = b.candles /\ MadeOf(i).accepted = b.accepted /\ MadeOf(i).dropped = b.dropped
    BY <1>4, <1>5, <1>6, <1>7, <1>8
  <2> QED
    BY <1>3, <1>7, <1>9, <2>1, SameIntake
<1> QED
  BY <1>10 DEF b, d, s, t, Processed

\* What is missing, and what raised an error, are trades up to number m.
Numbered(s, m) == s.holes \subseteq 1..m /\ s.dropped \subseteq 1..m

\* A newer trade keeps them so.
LEMMA ProcessedNumbered ==
    ASSUME NEW s, Sound(s), NEW m \in Nat, Numbered(s, m), NEW t \in 1..m, NEW place
    PROVE  Numbered(Processed(s, t, place), m)
<1>1. s \in IntakeType /\ s.accepted \in Nat /\ t \in Nat
  BY DEF Sound, IntakeType
<1> DEFINE d == Detected(s, t)
<1>2. /\ d \in IntakeType /\ d.dropped = s.dropped
      /\ d.holes = s.holes \cup (IF s.accepted = 0 THEN {} ELSE (s.accepted + 1)..(t - 1))
  BY <1>1, DetectedIs
<1>3. Processed(s, t, place) \in {Raised(s, t), Raised(d, t), Built(d, t)}
  BY DEF Processed
<1> HIDE DEF d
<1>4. Numbered(d, m)
  BY <1>1, <1>2 DEF Numbered
<1>5. /\ Raised(s, t).dropped = s.dropped \cup {t} /\ Raised(s, t).holes = s.holes
      /\ Raised(d, t).dropped = d.dropped \cup {t} /\ Raised(d, t).holes = d.holes
      /\ Built(d, t).dropped = d.dropped /\ Built(d, t).holes = d.holes
  BY <1>1, <1>2, RaisedIs, BuiltIs
<1>6. Numbered(Raised(s, t), m) /\ Numbered(Raised(d, t), m) /\ Numbered(Built(d, t), m)
  BY <1>4, <1>5 DEF Numbered
<1> QED
  BY <1>3, <1>6

\* What the release has made of the trades before number k is sound, and older than it.
LEMMA AheadSound ==
    ASSUME Intake = NotYet, traded \in Nat, Waiting(buffer, 0), NEW k \in 1..Len(buffer)
    PROVE  Sound(Ahead(k)) /\ Ahead(k).accepted < buffer[k] /\ Numbered(Ahead(k), traded)
<1> DEFINE IsMade(made) ==
               made = [i \in 1..k |-> IF i = 1 THEN Intake
                                      ELSE Processed(made[i - 1], buffer[i - 1], "nowhere")]
           form == [i \in 1..k |-> MadeOf(i)]
           Good(s, i) == Sound(s) /\ s.accepted < buffer[i] /\ Numbered(s, traded)
<1>1. /\ buffer \in Seq(Nat) /\ Rising(buffer) /\ k \in Nat /\ k >= 1 /\ Len(buffer) \in Nat /\ k <= Len(buffer)
      /\ \A i \in 1..Len(buffer) : buffer[i] \in Nat /\ 0 < buffer[i]
  BY DEF Waiting
<1>2. MadeOf(1) = Intake
  <2>1. SubSeq(buffer, 1, 1 - 1) = <<>>
    BY <1>1
  <2>2. {t \in Nat : \E j \in 2..(1 - 1) : buffer[j - 1] < t /\ t < buffer[j]} = {}
    OBVIOUS
  <2> QED
    BY <2>1, <2>2 DEF MadeOf, NotYet
<1>3. \A i \in 2..k : MadeOf(i) = Processed(MadeOf(i - 1), buffer[i - 1], "nowhere")
  <2>1. \A i \in 2..k : i \in 2..Len(buffer)
    BY <1>1
  <2> QED
    BY <1>1, <2>1, MadeOfSteps
<1>4. IsMade(form)
  <2>1. \A i \in 1..k : i # 1 => i \in 2..k /\ i - 1 \in 1..k
    BY <1>1
  <2> HIDE DEF MadeOf
  <2>2. \A i \in 1..k : form[i] = IF i = 1 THEN Intake
                                  ELSE Processed(form[i - 1], buffer[i - 1], "nowhere")
    BY <1>2, <1>3, <2>1
  <2> QED
    BY <2>2
<1>5. IsMade(Releasing(k))
  <2> HIDE DEF form
  <2> QED
    BY <1>4 DEF Releasing
<1> DEFINE made == Releasing(k)
           Bad == {i \in Nat : i \in 1..k /\ ~Good(made[i], i)}
<1>6. made[1] = Intake /\ \A i \in 1..k : i # 1 => made[i] = Processed(made[i - 1], buffer[i - 1], "nowhere")
  <2> HIDE DEF made
  <2>1. made = [i \in 1..k |-> IF i = 1 THEN Intake
                               ELSE Processed(made[i - 1], buffer[i - 1], "nowhere")]
    BY <1>5 DEF made
  <2> QED
    BY <1>1, <2>1
<1> HIDE DEF made, IsMade, form
<1>7. Good(made[1], 1)
  <2>1. Sound(NotYet) /\ NotYet.accepted = 0 /\ Numbered(NotYet, traded)
    BY DEF Sound, NotYet, IntakeType, Rising, Covered, Numbered
  <2>2. 0 < buffer[1]
    BY <1>1
  <2> QED
    BY <1>6, <2>1, <2>2
<1>8. Bad = {}
  <2> SUFFICES ASSUME Bad # {} PROVE FALSE
    OBVIOUS
  <2>1. PICK i \in Bad : \A j \in Bad : i <= j
    <3>1. Bad \in SUBSET Nat
      OBVIOUS
    <3> HIDE DEF Bad
    <3> QED
      BY <3>1, LeastNumber
  <2>2. i \in 1..k /\ i # 1 /\ ~Good(made[i], i)
    BY <1>7, <2>1
  <2>3. i - 1 \in 1..k /\ i - 1 \in Nat /\ ~(i <= i - 1) /\ i - 1 < i
        /\ i \in 1..Len(buffer) /\ i - 1 \in 1..Len(buffer)
    BY <1>1, <2>2
  <2>4. Good(made[i - 1], i - 1)
    <3> HIDE DEF Good
    <3> QED
      BY <2>1, <2>3
  <2>5. buffer[i - 1] \in Nat /\ buffer[i - 1] < buffer[i] /\ buffer[i] \in Nat
        /\ buffer[i - 1] \in 1..traded
    BY <1>1, <2>3 DEF Rising, Waiting
  <2>6. Sound(made[i]) /\ made[i].accepted \in Nat /\ made[i].accepted <= buffer[i - 1]
    BY <1>6, <2>2, <2>4, <2>5, ProcessedSound
  <2>7. made[i].accepted < buffer[i]
    BY <2>5, <2>6
  <2>8. Numbered(made[i], traded)
    BY <1>6, <2>2, <2>4, <2>5, ProcessedNumbered
  <2> QED
    BY <2>2, <2>6, <2>7, <2>8
<1>9. k \in 1..k /\ k \in Nat
  BY <1>1
<1>10. Good(made[k], k)
  <2> HIDE DEF Good
  <2> QED
    BY <1>8, <1>9
<1> QED
  BY <1>10, AheadIs DEF made

-----------------------------------------------------------------------------
(* The steps.                                                              *)

\* The first of the waiting trades is newer, and the rest wait behind it.
LEMMA WaitingTail ==
    ASSUME NEW q, NEW n \in Nat, Waiting(q, n), q # <<>>
    PROVE  /\ Head(q) \in Nat /\ n < Head(q) /\ Head(q) <= traded
           /\ Waiting(Tail(q), Head(q))
           /\ \A j \in 1..Len(Tail(q)) : j + 1 \in 1..Len(q) /\ Tail(q)[j] = q[j + 1]
<1>1. q \in Seq(Nat) /\ Len(q) \in Nat /\ Len(q) >= 1
  BY DEF Waiting
<1>2. Head(q) = q[1] /\ q[1] \in Nat /\ 1 \in 1..Len(q)
  BY <1>1
<1>3. Tail(q) \in Seq(Nat) /\ Len(Tail(q)) = Len(q) - 1
  BY <1>1
<1>4. \A j \in 1..Len(Tail(q)) : j + 1 \in 1..Len(q) /\ 1 < j + 1 /\ Tail(q)[j] = q[j + 1]
  BY <1>1, <1>3
<1>5. Rising(Tail(q))
  <2> SUFFICES ASSUME NEW i \in 1..Len(Tail(q)), NEW j \in 1..Len(Tail(q)), i < j
               PROVE  Tail(q)[i] < Tail(q)[j]
    BY DEF Rising
  <2>1. i + 1 < j + 1
    BY <1>1, <1>3
  <2> QED
    BY <1>4, <2>1 DEF Waiting, Rising
<1>6. \A j \in 1..Len(Tail(q)) : Head(q) < Tail(q)[j] /\ Tail(q)[j] <= traded
  BY <1>2, <1>4 DEF Waiting, Rising
<1> QED
  BY <1>2, <1>3, <1>4, <1>5, <1>6 DEF Waiting

\* A newer trade may wait behind those that do.
LEMMA WaitingAppend ==
    ASSUME NEW q, NEW n \in Nat, Waiting(q, n), traded' \in Nat, traded \in Nat, traded <= traded',
           NEW t \in Nat, n < t, t <= traded', \A i \in 1..Len(q) : q[i] < t
    PROVE  /\ Append(q, t) \in Seq(Nat) /\ Rising(Append(q, t))
           /\ \A i \in 1..Len(Append(q, t)) : n < Append(q, t)[i] /\ Append(q, t)[i] <= traded'
           /\ \A i \in 1..Len(Append(q, t)) : (i \in 1..Len(q) /\ Append(q, t)[i] = q[i])
                                              \/ Append(q, t)[i] = t
<1> DEFINE L == Len(q)
           r == Append(q, t)
<1>1. q \in Seq(Nat) /\ L \in Nat
  BY DEF Waiting
<1>2. /\ r \in Seq(Nat) /\ Len(r) = L + 1 /\ r[L + 1] = t
      /\ \A i \in 1..L : r[i] = q[i]
  BY <1>1
<1>3. \A i \in 1..L : q[i] \in Nat /\ n < q[i] /\ q[i] <= traded
  BY <1>1 DEF Waiting
<1>4. \A i, j \in 1..L : i < j => q[i] < q[j]
  BY DEF Waiting, Rising
<1> HIDE DEF r, L
<1>5. \A i \in 1..(L + 1) : i \in 1..L \/ i = L + 1
  BY <1>1
<1>6. \A i \in 1..(L + 1) : n < r[i] /\ r[i] <= traded'
  <2> SUFFICES ASSUME NEW i \in 1..(L + 1) PROVE n < r[i] /\ r[i] <= traded'
    OBVIOUS
  <2>1. CASE i \in 1..L
    <3>1. r[i] = q[i] /\ q[i] \in Nat /\ n < q[i] /\ q[i] <= traded
      BY <1>2, <1>3, <2>1
    <3> QED
      BY <3>1
  <2>2. CASE i = L + 1
    BY <1>2, <2>2
  <2> QED
    BY <1>5, <2>1, <2>2
<1>7. \A i, j \in 1..(L + 1) : i < j => r[i] < r[j]
  <2> SUFFICES ASSUME NEW i \in 1..(L + 1), NEW j \in 1..(L + 1), i < j PROVE r[i] < r[j]
    OBVIOUS
  <2>1. i \in 1..L
    BY <1>1
  <2>2. CASE j \in 1..L
    BY <1>2, <1>4, <2>1, <2>2
  <2>3. CASE j = L + 1
    <3>1. r[i] = q[i] /\ r[j] = t
      BY <1>2, <2>1, <2>3
    <3> QED
      BY <2>1, <3>1 DEF L
  <2> QED
    BY <1>5, <2>2, <2>3
<1>8. \A i \in 1..(L + 1) : (i \in 1..L /\ r[i] = q[i]) \/ r[i] = t
  BY <1>2, <1>5
<1> QED
  BY <1>2, <1>6, <1>7, <1>8 DEF Rising, r, L

\* Nothing waits.
LEMMA WaitingNone == \A n : Waiting(<<>>, n) /\ Waiting(<<>>, n)' /\ Len(<<>>) = 0
  BY DEF Waiting, Rising

\* What a step takes in is what it makes the record.
LEMMA IntakeAfter ==
    ASSUME NEW s \in IntakeType, TakeIn(s)
    PROVE  Intake' = s /\ accepted' = s.accepted
<1>1. Intake' = [accepted |-> s.accepted, holes |-> s.holes, candles |-> s.candles, dropped |-> s.dropped]
  BY DEF TakeIn, Intake
<1> QED
  BY <1>1 DEF IntakeType, TakeIn

\* A trade of the exchange waits in the socket behind the others.
LEMMA TradeOrdered ==
    ASSUME OrderInv, Trade
    PROVE  OrderInv'
<1>1. /\ traded' = traded + 1 /\ traded \in Nat /\ accepted \in Nat /\ accepted <= traded
      /\ UNCHANGED <<buffer, intake, gate>>
  BY DEF Trade, OrderInv
<1>2. Intake' = Intake /\ accepted' = accepted /\ holding' = holding
  BY <1>1 DEF intake, gate, Intake
<1>3. \A q : Waiting(q, accepted) => q \in Seq(Nat) /\ \A i \in 1..Len(q) : q[i] \in Nat /\ q[i] <= traded
  BY DEF Waiting
<1>4. Waiting(buffer, accepted) /\ Waiting(inSocket, accepted)
  BY DEF OrderInv
<1>5. Waiting(buffer, accepted)'
  BY <1>1, <1>2, <1>3, <1>4 DEF Waiting
<1>6. /\ Waiting(inSocket, accepted)'
      /\ \A i \in 1..Len(inSocket') : (i \in 1..Len(inSocket) /\ inSocket'[i] = inSocket[i])
                                      \/ inSocket'[i] = traded'
  <2>1. CASE inSocket' = inSocket
    BY <1>1, <1>2, <1>3, <1>4, <2>1 DEF Waiting
  <2>2. CASE inSocket' = Append(inSocket, traded')
    <3>1. \A i \in 1..Len(inSocket) : inSocket[i] < traded'
      BY <1>1, <1>3, <1>4
    <3>2. traded' \in Nat /\ accepted < traded' /\ traded <= traded'
      BY <1>1
    <3> DEFINE r == Append(inSocket, traded')
    <3>3. /\ r \in Seq(Nat) /\ Rising(r)
          /\ \A i \in 1..Len(r) : accepted < r[i] /\ r[i] <= traded'
          /\ \A i \in 1..Len(r) : (i \in 1..Len(inSocket) /\ r[i] = inSocket[i]) \/ r[i] = traded'
      BY <1>1, <1>4, <3>1, <3>2, WaitingAppend, SMTT(30)
    <3>4. inSocket' = r
      BY <2>2
    <3> HIDE DEF r
    <3> QED
      BY <1>2, <3>3, <3>4 DEF Waiting
  <2> QED
    BY <1>1, <2>1, <2>2 DEF Trade
<1>7. \A i \in 1..Len(buffer), j \in 1..Len(inSocket') : buffer[i] < inSocket'[j]
  <2> SUFFICES ASSUME NEW i \in 1..Len(buffer), NEW j \in 1..Len(inSocket')
               PROVE  buffer[i] < inSocket'[j]
    OBVIOUS
  <2>1. CASE j \in 1..Len(inSocket) /\ inSocket'[j] = inSocket[j]
    BY <2>1 DEF OrderInv
  <2>2. CASE inSocket'[j] = traded'
    <3>1. buffer[i] \in Nat /\ buffer[i] <= traded
      BY <1>3, <1>4
    <3> QED
      BY <1>1, <2>2, <3>1
  <2> QED
    BY <1>6, <2>1, <2>2
<1> QED
  BY <1>1, <1>2, <1>5, <1>6, <1>7 DEF OrderInv

\* While trades are held one goes behind the other held ones.
LEMMA HoldOrdered ==
    ASSUME OrderInv, Hold
    PROVE  OrderInv'
<1> DEFINE t == Head(inSocket)
<1>1. /\ inSocket # <<>> /\ buffer' = Append(buffer, t) /\ inSocket' = Tail(inSocket) /\ holding
      /\ UNCHANGED <<traded, gate, intake>>
  BY DEF Hold
<1>2. Intake' = Intake /\ accepted' = accepted /\ holding' = holding /\ traded' = traded
  BY <1>1 DEF intake, gate, Intake
<1>3. /\ traded \in Nat /\ accepted \in Nat /\ accepted <= traded
      /\ Waiting(buffer, accepted) /\ Waiting(inSocket, accepted)
  BY DEF OrderInv
<1>4. /\ t \in Nat /\ accepted < t /\ t <= traded
      /\ Waiting(Tail(inSocket), t)
      /\ \A j \in 1..Len(Tail(inSocket)) : j + 1 \in 1..Len(inSocket) /\ Tail(inSocket)[j] = inSocket[j + 1]
  BY <1>1, <1>3, WaitingTail
<1>5. \A i \in 1..Len(buffer) : buffer[i] < t
  <2>1. 1 \in 1..Len(inSocket) /\ t = inSocket[1]
    BY <1>1, <1>3 DEF Waiting
  <2> QED
    BY <2>1 DEF OrderInv
<1> DEFINE r == Append(buffer, t)
<1>6. /\ r \in Seq(Nat) /\ Rising(r)
      /\ \A i \in 1..Len(r) : accepted < r[i] /\ r[i] <= traded'
      /\ \A i \in 1..Len(r) : (i \in 1..Len(buffer) /\ r[i] = buffer[i]) \/ r[i] = t
  <2>1. traded' \in Nat /\ traded <= traded' /\ t <= traded'
    BY <1>2, <1>3, <1>4
  <2> HIDE DEF t
  <2> QED
    BY <1>3, <1>4, <1>5, <2>1, WaitingAppend
<1>7. buffer' = r
  BY <1>1
<1> HIDE DEF r, t
<1>8. Waiting(buffer, accepted)'
  BY <1>2, <1>6, <1>7 DEF Waiting
<1>9. Waiting(inSocket, accepted)'
  <2>1. \A j \in 1..Len(Tail(inSocket)) : Tail(inSocket)[j] \in Nat
    BY <1>4 DEF Waiting
  <2> QED
    BY <1>1, <1>2, <1>3, <1>4, <2>1 DEF Waiting
<1>10. \A i \in 1..Len(r), j \in 1..Len(Tail(inSocket)) : r[i] < Tail(inSocket)[j]
  <2> SUFFICES ASSUME NEW i \in 1..Len(r), NEW j \in 1..Len(Tail(inSocket))
               PROVE  r[i] < Tail(inSocket)[j]
    OBVIOUS
  <2>1. CASE i \in 1..Len(buffer) /\ r[i] = buffer[i]
    BY <1>4, <2>1 DEF OrderInv
  <2>2. CASE r[i] = t
    BY <1>4, <2>2 DEF Waiting
  <2> QED
    BY <1>6, <2>1, <2>2
<1> QED
  BY <1>1, <1>2, <1>3, <1>7, <1>8, <1>9, <1>10 DEF OrderInv

\* A trade that is let through is taken in after what came before it.
LEMMA OnTradeOrdered ==
    ASSUME OrderInv, NEW place \in Places, OnTrade(place)
    PROVE  OrderInv'
<1> DEFINE t == Head(inSocket)
           s == Processed(Intake, t, place)
<1>1. /\ ~holding /\ inSocket # <<>> /\ TakeIn(s) /\ inSocket' = Tail(inSocket)
      /\ UNCHANGED <<traded, gate, buffer>>
  BY DEF OnTrade
<1>2. /\ traded \in Nat /\ accepted \in Nat /\ Sound(Intake) /\ Waiting(inSocket, accepted) /\ buffer = <<>>
      /\ Intake.accepted = accepted
  BY <1>1 DEF OrderInv, Intake
<1>3. t \in Nat /\ accepted < t /\ t <= traded /\ Waiting(Tail(inSocket), t)
  BY <1>1, <1>2, WaitingTail
<1>4. Sound(s) /\ s.accepted \in Nat /\ s.accepted <= t
  <2> HIDE DEF t
  <2> QED
    BY <1>2, <1>3, ProcessedSound
<1>5. Intake' = s /\ accepted' = s.accepted
  <2> HIDE DEF s
  <2> QED
    BY <1>1, <1>4, IntakeAfter DEF Sound
<1> HIDE DEF s, t
<1>6. Waiting(inSocket, accepted)'
  <2>1. \A j \in 1..Len(Tail(inSocket)) : Tail(inSocket)[j] \in Nat
    BY <1>3 DEF Waiting
  <2> QED
    BY <1>1, <1>3, <1>4, <1>5, <2>1 DEF Waiting
<1>7. holding' = holding /\ buffer' = <<>> /\ traded' = traded
  BY <1>1, <1>2 DEF gate
<1>8. Sound(Intake)'
  BY <1>4, <1>5 DEF Sound, IntakeType, Rising, Covered
<1>9. accepted' \in Nat /\ accepted' <= traded'
  BY <1>2, <1>3, <1>4, <1>5, <1>7
<1> QED
  BY <1>1, <1>2, <1>6, <1>7, <1>8, <1>9, WaitingNone DEF OrderInv, Waiting, Rising

\* The held trades are taken in one after another, up to an error.
LEMMA ReleaseOrdered ==
    ASSUME OrderInv, NEW k \in 1..MaxTrade, NEW place \in Places, Release(k, place)
    PROVE  OrderInv'
<1> DEFINE t == buffer[k]
           s == Processed(Ahead(k), t, place)
<1>1. /\ k \in 1..Len(buffer) /\ TakeIn(s) /\ buffer' = <<>> /\ holding' = FALSE
      /\ UNCHANGED <<traded, inSocket>>
  BY DEF Release, linkVars
<1>2. /\ traded \in Nat /\ accepted \in Nat /\ Waiting(buffer, accepted) /\ Waiting(inSocket, accepted)
  BY DEF OrderInv
<1>3. holding
  <2>1. buffer # <<>>
    BY <1>1
  <2> QED
    BY <2>1 DEF OrderInv
<1>4. Intake = NotYet /\ accepted = 0
  BY <1>3 DEF OrderInv, Intake, NotYet
<1>5. t \in Nat /\ t <= traded
  BY <1>1, <1>2 DEF Waiting
<1>6. Sound(Ahead(k)) /\ Ahead(k).accepted < t
  BY <1>1, <1>2, <1>4, AheadSound
<1>7. Sound(s) /\ s.accepted \in Nat /\ s.accepted <= t
  <2> HIDE DEF t
  <2> QED
    BY <1>5, <1>6, ProcessedSound
<1>8. Intake' = s /\ accepted' = s.accepted
  <2> HIDE DEF s
  <2> QED
    BY <1>1, <1>7, IntakeAfter DEF Sound
<1>9. \A j \in 1..Len(inSocket) : t < inSocket[j] /\ inSocket[j] \in Nat
  BY <1>1, <1>2 DEF OrderInv, Waiting
<1> HIDE DEF s, t
<1>10. Waiting(inSocket, accepted)'
  <2>1. traded' = traded /\ inSocket' = inSocket /\ accepted' \in Nat /\ accepted' <= t
    BY <1>1, <1>7, <1>8
  <2>2. \A j \in 1..Len(inSocket) : accepted' < inSocket[j]
    BY <1>5, <1>9, <2>1
  <2> QED
    BY <1>2, <2>1, <2>2 DEF Waiting
<1>11. Sound(Intake)'
  BY <1>7, <1>8 DEF Sound, IntakeType, Rising, Covered
<1>12. accepted' \in Nat /\ accepted' <= traded'
  BY <1>1, <1>2, <1>5, <1>7, <1>8
<1> QED
  BY <1>1, <1>2, <1>10, <1>11, <1>12 DEF OrderInv, Waiting, Rising

\* A socket that is opened, breaks or is closed has nothing to deliver.
LEMMA EmptiedOrdered ==
    ASSUME OrderInv, UNCHANGED <<traded, buffer, intake, holding>>, inSocket' = inSocket \/ inSocket' = <<>>
    PROVE  OrderInv'
<1>1. Intake' = Intake /\ accepted' = accepted
  BY DEF intake, Intake
<1>2. Waiting(buffer, accepted)'
  BY <1>1 DEF OrderInv, Waiting, Rising
<1>3. Waiting(inSocket, accepted)'
  <2>1. CASE inSocket' = inSocket
    BY <1>1, <2>1 DEF OrderInv, Waiting, Rising
  <2>2. CASE inSocket' = <<>>
    BY <1>1, <2>2 DEF Waiting, Rising
  <2> QED
    BY <2>1, <2>2
<1>4. \A i \in 1..Len(buffer'), j \in 1..Len(inSocket') : buffer'[i] < inSocket'[j]
  BY DEF OrderInv
<1> QED
  BY <1>1, <1>2, <1>3, <1>4 DEF OrderInv, Sound, IntakeType, Rising, Covered

\* Every step keeps the order of the trades.
LEMMA OrderStep == OrderInv /\ [LoopNext]_loopVars => OrderInv'
<1> SUFFICES ASSUME OrderInv, [LoopNext]_loopVars PROVE OrderInv'
  OBVIOUS
<1>1. CASE StartStream \/ ConnectStream \/ BreakOff \/ Reconnect \/ StopSeen \/ Signal \/ Shutdown
           \/ AnyVerdict \/ UNCHANGED loopVars
  <2>1. /\ UNCHANGED <<traded, buffer, intake, holding>>
        /\ inSocket' = inSocket \/ inSocket' = <<>>
    BY <1>1 DEF StartStream, ConnectStream, BreakOff, Reconnect, StopSeen, Signal, Shutdown,
                AnyVerdict, Gates, loopVars, linkVars, gate
  <2> QED
    BY <2>1, EmptiedOrdered
<1>2. CASE AnyTrade
  BY <1>2, OnTradeOrdered DEF AnyTrade
<1>3. CASE AnyRelease
  BY <1>3, ReleaseOrdered DEF AnyRelease
<1> QED
  BY <1>1, <1>2, <1>3, TradeOrdered, HoldOrdered DEF LoopNext, AnyTrade, AnyRelease, AnyVerdict

(* What the strategy sees is the exchange's sequence, for any number of    *)
(* trades, breaks and errors: candles hold the trades in order and once,   *)
(* the held ones before the later ones, and a trade that is not in them is *)
(* reported missing or raised an error.                                    *)
THEOREM TakenInOrder == LoopSpec => []TradesInOrder
<1>1. LoopInit => OrderInv
  BY DEF LoopInit, OrderInv, Intake, NotYet, Sound, IntakeType, Rising, Covered, Waiting
<1>2. OrderInv => TradesInOrder
  <2> SUFFICES ASSUME OrderInv PROVE TradesInOrder
    OBVIOUS
  <2>1. Sound(Intake) /\ Intake.candles = candles /\ Intake.accepted = accepted
        /\ Intake.holes = holes /\ Intake.dropped = dropped
    BY DEF OrderInv, Intake
  <2>2. \A i, j \in 1..Len(candles) : i < j => candles[i] < candles[j]
    BY <2>1 DEF Sound, Rising
  <2>3. candles # <<>> => \A t \in candles[1]..accepted : Contains(candles, t) \/ t \in holes \cup dropped
    BY <2>1 DEF Sound, Covered, Contains
  <2> QED
    BY <2>2, <2>3 DEF TradesInOrder
<1> QED
  BY <1>1, <1>2, OrderStep, PTL DEF LoopSpec

-----------------------------------------------------------------------------
(* The shape of the loop's variables.                                      *)

LoopFlags == {dryRun, holding, passed} \subseteq BOOLEAN /\ stopAsked \in BOOLEAN

\* With the order of the trades this bounds every number.
LoopShapes ==
    /\ traded \in 0..MaxTrade /\ flushed \in 0..MaxTrade
    /\ Numbered(Intake, traded)
    /\ link \in {"off", "connecting", "open", "backoff"}
    /\ phase \in {"initialized", "evidence", "releasing", "running", "stopping", "ended"}
    /\ brokeOff \in 0..MaxBreaksOff /\ raises \in 0..MaxRaises

\* The flags of the loop stay flags.
LEMMA LoopFlagsStep == LoopFlags /\ [LoopNext]_loopVars => LoopFlags'
<1> SUFFICES ASSUME LoopFlags, [LoopNext]_loopVars PROVE LoopFlags'
  OBVIOUS
<1> USE DEF LoopFlags, gate
<1>1. CASE AnyTrade
  <2>1. UNCHANGED <<gate, stopAsked>>
    BY <1>1, Zenon DEF AnyTrade, OnTrade
  <2> QED
    BY <2>1, Zenon
<1>2. CASE AnyRelease
  <2>1. UNCHANGED <<dryRun, passed, stopAsked>> /\ holding' = FALSE
    BY <1>2, Zenon DEF AnyRelease, Release
  <2> QED
    BY <2>1, Zenon
<1>3. CASE AnyVerdict
  <2>1. UNCHANGED <<dryRun, holding, stopAsked>> /\ passed' \in BOOLEAN
    BY <1>3, Zenon DEF AnyVerdict, Gates
  <2> QED
    BY <2>1, Zenon
<1>4. CASE Signal \/ Shutdown
  <2>1. UNCHANGED gate /\ stopAsked' = TRUE
    BY <1>4, Zenon DEF Signal, Shutdown
  <2> QED
    BY <2>1, Zenon
<1>5. CASE StartStream \/ ConnectStream \/ Trade \/ BreakOff \/ Reconnect \/ Hold \/ StopSeen \/ UNCHANGED loopVars
  <2>1. UNCHANGED <<gate, stopAsked>>
    BY <1>5, Zenon DEF StartStream, ConnectStream, Trade, BreakOff, Reconnect, Hold, StopSeen, loopVars
  <2> QED
    BY <2>1, Zenon
<1> QED
  BY <1>1, <1>2, <1>3, <1>4, <1>5, Zenon DEF LoopNext, AnyTrade, AnyRelease, AnyVerdict

\* What is taken in is numbered up to the exchange's last.
LEMMA TakenNumbered ==
    ASSUME OrderInv, LoopShapes, NEW s \in IntakeType, TakeIn(s), Numbered(s, traded), traded' = traded
    PROVE  Numbered(Intake, traded)'
<1>1. Intake' = s
  BY IntakeAfter
<1>2. Intake'.holes = s.holes /\ Intake'.dropped = s.dropped
  BY <1>1
<1> QED
  BY <1>2 DEF Numbered

\* Errors are bounded in number.
LEMMA RaisesStep ==
    ASSUME raises \in 0..MaxRaises, NEW place, Raises(place)
    PROVE  raises' \in 0..MaxRaises
BY LoopAssumption DEF Raises

\* The shapes of the loop are kept, with the order of the trades to bound them.
LEMMA LoopShapesStep == OrderInv /\ LoopShapes /\ [LoopNext]_loopVars => LoopShapes'
<1> SUFFICES ASSUME OrderInv, LoopShapes, [LoopNext]_loopVars PROVE LoopShapes'
  OBVIOUS
<1> USE LoopAssumption
<1>0. /\ traded \in Nat /\ accepted \in Nat /\ accepted <= traded /\ traded \in 0..MaxTrade
      /\ Sound(Intake) /\ Numbered(Intake, traded)
  BY DEF OrderInv, LoopShapes
<1>1. CASE AnyTrade
  <2>1. PICK place \in Places : OnTrade(place)
    BY <1>1 DEF AnyTrade
  <2> DEFINE t == Head(inSocket)
             s == Processed(Intake, t, place)
  <2>2. /\ ~holding /\ inSocket # <<>> /\ TakeIn(s) /\ Raises(place)
        /\ UNCHANGED <<traded, link, brokeOff, phase, flushed>>
    BY <2>1 DEF OnTrade
  <2>3. t \in 1..traded /\ Intake.accepted < t
    <3>1. Waiting(inSocket, accepted)
      BY DEF OrderInv
    <3>2. t \in Nat /\ accepted < t /\ t <= traded
      BY <1>0, <2>2, <3>1, WaitingTail
    <3> QED
      BY <1>0, <3>2 DEF Intake
  <2> HIDE DEF t
  <2>4. Numbered(s, traded) /\ Sound(s)
    <3>1. t \in Nat
      BY <1>0, <2>3
    <3> QED
      BY <1>0, <2>3, <3>1, ProcessedNumbered, ProcessedSound
  <2> HIDE DEF s
  <2>5. Numbered(Intake, traded)'
    BY <2>2, <2>4, TakenNumbered DEF Sound
  <2>6. raises' \in 0..MaxRaises
    BY <2>2, RaisesStep DEF LoopShapes
  <2> QED
    BY <2>2, <2>5, <2>6 DEF LoopShapes
<1>2. CASE AnyRelease
  <2>1. PICK k \in 1..MaxTrade, place \in Places : Release(k, place)
    BY <1>2 DEF AnyRelease
  <2> DEFINE t == buffer[k]
             s == Processed(Ahead(k), t, place)
  <2>2. /\ k \in 1..Len(buffer) /\ TakeIn(s) /\ Raises(place) /\ phase' \in {"running", "stopping"}
        /\ UNCHANGED <<traded, link, brokeOff, flushed>>
    BY <2>1 DEF Release, linkVars
  <2>3. holding /\ Waiting(buffer, accepted)
    <3>1. buffer # <<>>
      BY <2>2
    <3> QED
      BY <3>1 DEF OrderInv
  <2>4. Intake = NotYet /\ accepted = 0
    BY <2>3 DEF OrderInv, Intake, NotYet
  <2>5. Sound(Ahead(k)) /\ Ahead(k).accepted < t /\ Numbered(Ahead(k), traded)
    BY <1>0, <2>2, <2>3, <2>4, AheadSound
  <2>6. t \in 1..traded /\ t \in Nat
    BY <1>0, <2>2, <2>3, <2>4 DEF Waiting
  <2> HIDE DEF t
  <2>7. Numbered(s, traded) /\ Sound(s)
    <3> DEFINE a == Ahead(k)
    <3>1. Sound(a) /\ a.accepted < t /\ Numbered(a, traded) /\ s = Processed(a, t, place)
      BY <2>5
    <3> HIDE DEF a, s
    <3> QED
      BY <1>0, <2>6, <3>1, ProcessedNumbered, ProcessedSound
  <2> HIDE DEF s
  <2>8. Numbered(Intake, traded)'
    BY <2>2, <2>7, TakenNumbered DEF Sound
  <2>9. raises' \in 0..MaxRaises
    BY <2>2, RaisesStep DEF LoopShapes
  <2> QED
    BY <2>2, <2>8, <2>9 DEF LoopShapes
<1>3. CASE Trade
  <2>1. /\ traded' = traded + 1 /\ traded < MaxTrade /\ UNCHANGED <<intake, link, brokeOff, phase, flushed>>
    BY <1>3 DEF Trade
  <2>2. Intake' = Intake /\ raises' = raises
    BY <2>1 DEF intake, Intake
  <2>3. traded' \in 0..MaxTrade /\ 1..traded \subseteq 1..traded'
    BY <1>0, <2>1
  <2>4. Numbered(Intake, traded)'
    BY <1>0, <2>2, <2>3 DEF Numbered
  <2> QED
    BY <2>1, <2>2, <2>3, <2>4 DEF LoopShapes
<1>4. CASE StartStream \/ ConnectStream \/ BreakOff \/ Reconnect \/ Hold \/ StopSeen \/ Signal \/ Shutdown
           \/ AnyVerdict \/ UNCHANGED loopVars
  <2>1. UNCHANGED <<traded, intake>> /\ (flushed' = flushed \/ flushed' = accepted)
        /\ (brokeOff' = brokeOff \/ (brokeOff < MaxBreaksOff /\ brokeOff' = brokeOff + 1))
        /\ (link' = link \/ link' \in {"off", "connecting", "open", "backoff"})
        /\ (phase' = phase \/ phase' \in {"evidence", "releasing", "running", "stopping", "ended"})
    BY <1>4, Zenon DEF StartStream, ConnectStream, BreakOff, Reconnect, Hold, StopSeen, Signal, Shutdown,
                AnyVerdict, Gates, loopVars, linkVars
  <2>2. Intake' = Intake /\ raises' = raises
    BY <2>1 DEF intake, Intake
  <2>3. Numbered(Intake, traded)'
    BY <1>0, <2>1, <2>2 DEF Numbered
  <2>4. flushed' \in 0..MaxTrade
    BY <1>0, <2>1 DEF LoopShapes
  <2> QED
    BY <2>1, <2>2, <2>3, <2>4 DEF LoopShapes
<1> QED
  BY <1>1, <1>2, <1>3, <1>4, Zenon DEF LoopNext, AnyTrade, AnyRelease, AnyVerdict

\* Flags, shapes and order make up the type invariant.
LEMMA LoopTypeShows == LoopFlags /\ LoopShapes /\ OrderInv => LoopTypeOK
<1> SUFFICES ASSUME LoopFlags, LoopShapes, OrderInv PROVE LoopTypeOK
  OBVIOUS
<1> DEFINE ids == 1..MaxTrade
<1>1. /\ traded \in Nat /\ traded <= MaxTrade /\ MaxTrade \in Nat /\ accepted \in Nat /\ accepted <= traded
      /\ Waiting(buffer, accepted) /\ Waiting(inSocket, accepted) /\ Sound(Intake) /\ Numbered(Intake, traded)
  BY LoopAssumption DEF LoopShapes, OrderInv
<1>2. ASSUME NEW q \in Seq(Nat), \A i \in 1..Len(q) : 0 < q[i] /\ q[i] <= traded
      PROVE  q \in Seq(ids)
  <2>1. \A i \in 1..Len(q) : q[i] \in ids
    BY <1>1, <1>2
  <2> HIDE DEF ids
  <2>2. Len(q) \in Nat /\ DOMAIN q = 1..Len(q) /\ q = [i \in 1..Len(q) |-> q[i]]
    OBVIOUS
  <2>3. q \in [1..Len(q) -> ids]
    BY <2>1, <2>2
  <2> QED
    BY <2>2, <2>3
<1>3. buffer \in Seq(ids) /\ inSocket \in Seq(ids)
  <2>1. \A q : Waiting(q, accepted) => q \in Seq(Nat) /\ \A i \in 1..Len(q) : 0 < q[i] /\ q[i] <= traded
    BY <1>1 DEF Waiting
  <2> QED
    BY <1>1, <1>2, <2>1
<1>4. candles \in Seq(ids)
  <2>1. candles \in Seq(Nat) /\ \A i \in 1..Len(candles) : 0 < candles[i] /\ candles[i] <= accepted
    BY <1>1 DEF Sound, IntakeType, Intake
  <2>2. \A i \in 1..Len(candles) : 0 < candles[i] /\ candles[i] <= traded
    BY <1>1, <2>1
  <2> QED
    BY <1>2, <2>1, <2>2
<1>5. holes \subseteq ids /\ dropped \subseteq ids
  <2>1. 1..traded \subseteq ids
    BY <1>1
  <2> HIDE DEF ids
  <2> QED
    BY <1>1, <2>1 DEF Numbered, Intake
<1>6. accepted \in 0..MaxTrade
  BY <1>1
<1> DEFINE numbers == LoopFlags
<1> HIDE DEF ids, numbers
<1>7. numbers
  BY DEF numbers
<1>8. numbers <=> {dryRun, holding, passed} \subseteq BOOLEAN /\ stopAsked \in BOOLEAN
  BY Zenon DEF numbers, LoopFlags
<1> QED
  BY <1>3, <1>4, <1>5, <1>6, <1>7, <1>8, Zenon DEF LoopTypeOK, LoopShapes, ids

\* They hold of a loop that was not started.
LEMMA LoopInitially == LoopInit => OrderInv /\ LoopFlags /\ LoopShapes
<1> SUFFICES ASSUME LoopInit PROVE OrderInv /\ LoopFlags /\ LoopShapes
  OBVIOUS
<1>1. OrderInv
  BY DEF LoopInit, OrderInv, Intake, NotYet, Sound, IntakeType, Rising, Covered, Waiting
<1>2. LoopFlags
  BY Zenon DEF LoopInit, LoopFlags
<1>3. LoopShapes
  BY LoopAssumption DEF LoopInit, LoopShapes, Numbered, Intake
<1> QED
  BY <1>1, <1>2, <1>3

\* So it is of every behaviour.
LEMMA LoopTypesHold == LoopInit /\ [][LoopNext]_loopVars => []LoopTypeOK
BY LoopInitially, OrderStep, LoopFlagsStep, LoopShapesStep, LoopTypeShows, PTL

(* Every variable of the loop keeps its shape, whatever the bounds.        *)
THEOREM LoopTypes == LoopSpec => []LoopTypeOK
BY LoopTypesHold, PTL DEF LoopSpec

-----------------------------------------------------------------------------
(* The alert of the private stream.                                        *)

(* A good report is what opens a socket and what a renewal makes; a bad    *)
(* one on an open socket comes with the request to rotate, or with a       *)
(* renewal that failed, and what ends that state requests it.              *)
LEMMA AlertSettlesStep == AlertSettles /\ [StreamNext]_streamVars => AlertSettles'
<1> SUFFICES ASSUME AlertSettles, [StreamNext]_streamVars PROVE AlertSettles'
  OBVIOUS
<1> USE DEF AlertSettles, Off, keepTask, healthView, exchangeKeys, Report
<1>1. CASE Start \/ StartFails \/ Stop \/ OrphanMint
  <2>1. sock' \in {"begin", "never", "stopping", "off"}
    BY <1>1, Zenon DEF Start, StartFails, Stop, OrphanMint
  <2> QED
    BY <2>1
<1>2. CASE Begin \/ MintKey \/ BackoffEnds \/ Leave
  <2>1. sock' \in {"minting", "minted", "begin"}
    BY <1>2, Zenon DEF Begin, MintKey, BackoffEnds, Leave
  <2> QED
    BY <2>1
<1>3. CASE Proceed
  <2>1. sock' \in {"backoff", "connecting"}
    BY <1>3, Zenon DEF Proceed, Retry
  <2> QED
    BY <2>1
<1>4. CASE Connect
  BY <1>4, Zenon DEF Connect
<1>5. CASE MintFails \/ Break
  <2>1. sock' = "backoff"
    BY <1>5, Zenon DEF MintFails, Break, Retry
  <2> QED
    BY <2>1
<1>6. CASE Expire
  <2>1. CASE rotate' = TRUE
    BY <2>1, Zenon
  <2>2. CASE UNCHANGED <<key, rotate, healthView>>
    BY <1>6, <2>2, Zenon DEF Expire
  <2> QED
    BY <1>6, <2>1, <2>2, Zenon DEF Expire
<1>7. CASE Renew
  BY <1>7, Zenon DEF Renew
<1>8. CASE RenewalFails
  BY <1>8, Zenon DEF RenewalFails
<1>9. CASE Rotate
  BY <1>9, Zenon DEF Rotate
<1>10. CASE Tick \/ UNCHANGED streamVars
  BY <1>10, Zenon DEF Tick, streamVars
<1> QED
  BY <1>1, <1>2, <1>3, <1>4, <1>5, <1>6, <1>7, <1>8, <1>9, <1>10, Zenon DEF StreamNext, SocketLoop, Keepalive

-----------------------------------------------------------------------------
(* The alerts.                                                             *)

\* The shapes of the engine's side and of the watcher's.
AlerterShapes ==
    /\ trouble \subseteq Conditions /\ seen \subseteq Conditions /\ raised \subseteq Conditions
    /\ stamp \in [Conditions -> Unsent..Window] /\ changes \in 0..MaxChanges
    /\ audit \in Seq(Conditions \cup {"SLOT"}) /\ Len(audit) <= MaxLog
    /\ table \in [FillOrders -> Statuses \cup {"NONE"}]

WatcherShapes ==
    /\ watching \in BOOLEAN /\ mark \in 0..Len(audit)
    /\ keys \subseteq FillOrders \X Statuses
    /\ asked \in Seq({"operator", "stranger"}) /\ Len(asked) <= MaxCommands
    /\ confirmed \in 0..Len(asked) /\ lastUpdate \in 0..Len(asked)
    /\ IsABag(told) /\ BagToSet(told) \subseteq Things /\ lives \in 0..MaxLives

\* The type invariant, alerter and watcher apart.
LEMMA AlertTypeParts == AlertTypeOK <=> AlerterShapes /\ WatcherShapes
BY Zenon DEF AlertTypeOK, AlerterShapes, WatcherShapes

(* What is suppressed is up: an alarm that is not, has no stamp or an old  *)
(* one.                                                                    *)
Stamped == \A c \in Conditions \ raised : stamp[c] = Unsent \/ stamp[c] >= Window

\* Every message of this life is behind its mark, its key or the last command read.
Marked ==
    \A t \in BagToSet(told) :
        /\ told[t] = 1
        /\ t[1] = "event" => t[2] <= mark
        /\ t[1] = "fill" => <<t[2], "FILLED">> \in keys
        /\ t[1] = "answer" => t[2] <= lastUpdate /\ asked[t[2]] = "operator"

AlertInv == AlertTypeOK /\ AlarmsAreTrue /\ Stamped /\ Marked

\* A message that is told again would be behind its mark.
LEMMA MarkedIsOnce == Marked => ToldOnce
BY DEF Marked, ToldOnce

\* What Tell adds is in the bag once more.
LEMMA TellIs ==
    ASSUME NEW what
    PROVE  /\ BagToSet(Tell(what)) = BagToSet(told) \cup what
           /\ \A t \in what : t \notin BagToSet(told) => Tell(what)[t] = 0 + 1
           /\ \A t \in BagToSet(told) : t \notin what => Tell(what)[t] = told[t] + 0
BY DEF Tell, BagToSet, SetToBag, (+)

\* Telling keeps a bag of messages one.
LEMMA TellIsABag ==
    ASSUME NEW what, IsABag(told)
    PROVE  IsABag(Tell(what))
<1>1. \A t \in DOMAIN told : told[t] \in Nat /\ told[t] > 0
  BY DEF IsABag
<1>2. Tell(what) = [t \in (DOMAIN told) \cup what |->
                      (IF t \in DOMAIN told THEN told[t] ELSE 0) + (IF t \in what THEN 1 ELSE 0)]
  BY DEF Tell, SetToBag, (+)
<1>3. DOMAIN Tell(what) = (DOMAIN told) \cup what
  BY <1>2
<1>4. \A t \in (DOMAIN told) \cup what : Tell(what)[t] \in {n \in Nat : n > 0}
  BY <1>1, <1>2
<1> QED BY <1>2, <1>3, <1>4 DEF IsABag

\* At first nothing is told.
LEMMA NothingTold == IsABag(EmptyBag) /\ BagToSet(EmptyBag) = {}
BY DEF IsABag, EmptyBag, SetToBag, BagToSet

\* A watcher and a supervisor that were not started fit.
LEMMA AlertInitInv == AlertInit => AlertInv
<1> SUFFICES ASSUME AlertInit PROVE AlertInv
  OBVIOUS
<1>1. IsABag(told) /\ BagToSet(told) = {}
  BY NothingTold DEF AlertInit
<1>2. AlertTypeOK
  <2>1. stamp \in [Conditions -> Unsent..Window]
    BY AlertingAssumption DEF AlertInit, Unsent
  <2>2. audit = <<>> /\ asked = <<>> /\ Len(<<>>) = 0
        /\ audit \in Seq(Conditions \cup {"SLOT"}) /\ asked \in Seq({"operator", "stranger"})
    BY DEF AlertInit
  <2>3. table \in [FillOrders -> Statuses \cup {"NONE"}]
    BY DEF AlertInit
  <2>4. AlerterShapes
    BY <2>1, <2>2, <2>3, AlertingAssumption DEF AlertInit, AlerterShapes
  <2>5. WatcherShapes
    <3>1. watching = FALSE /\ mark = 0 /\ keys = {} /\ confirmed = 0 /\ lastUpdate = 0 /\ lives = 0
      BY DEF AlertInit
    <3>2. MaxLives \in Nat /\ MaxCommands \in Nat
      BY AlertingAssumption
    <3>3. Len(audit) = 0 /\ Len(asked) = 0
      BY <2>2
    <3>4. BagToSet(told) \subseteq Things
      BY <1>1
    <3>5. mark \in 0..Len(audit) /\ confirmed \in 0..Len(asked) /\ lastUpdate \in 0..Len(asked)
      BY <3>1, <3>3
    <3>6. keys \subseteq FillOrders \X Statuses
      BY <3>1
    <3>7. Len(asked) <= MaxCommands /\ lives \in 0..MaxLives
      BY <3>1, <3>2, <3>3
    <3>8. watching \in BOOLEAN
      BY <3>1, Zenon
    <3> QED
      BY <1>1, <2>2, <3>4, <3>5, <3>6, <3>7, <3>8, Zenon DEF WatcherShapes
  <2> QED
    BY <2>4, <2>5, AlertTypeParts
<1>3. AlarmsAreTrue /\ Stamped
  BY DEF AlertInit, AlarmsAreTrue, Stamped
<1>4. Marked
  BY <1>1 DEF Marked
<1> QED BY <1>2, <1>3, <1>4 DEF AlertInv

\* The audit log grows at its end only.
LEMMA NewsIs ==
    ASSUME AlertTypeOK
    PROVE  SetToSeq(Alerts \cup Recovers) \in Seq(Conditions)
<1> DEFINE S == Alerts \cup Recovers
           N == Cardinality(S)
<1>1. S \subseteq Conditions
  BY DEF AlertTypeOK, Alerts, Recovers
<1> HIDE DEF S
<1>2. IsFiniteSet(S)
  BY <1>1, AlertingAssumption, FS_Subset
<1>3. N \in Nat /\ \E f \in [1..N -> S] : IsInjective(f)
  BY <1>2, FS_CardinalityType DEF ExistsBijection, Bijection, Injection
<1>4. SetToSeq(S) \in [1..N -> S]
  BY <1>3 DEF SetToSeq
<1>5. SetToSeq(S) \in [1..N -> Conditions]
  BY <1>1, <1>4
<1>6. SetToSeq(S) \in Seq(Conditions)
  <2> HIDE DEF N
  <2> QED BY <1>3, <1>5
<1> QED
  BY <1>6 DEF S

\* A round of the supervisor raises what it finds and lowers what is gone.
LEMMA CheckStep == ASSUME AlertInv, Check PROVE AlertInv'
<1> USE DEF AlertInv
<1> DEFINE news == SetToSeq(Alerts \cup Recovers)
<1>1. raised' = trouble
  <2>1. \A c \in trouble : c \in raised \/ c \in Alerts
    BY DEF Stamped, Alerts, AlertTypeOK
  <2>2. raised' = (raised \cup Alerts) \ Recovers
    BY DEF Check
  <2> QED
    BY <2>1, <2>2 DEF Recovers, Alerts
<1>2. AlarmsAreTrue'
  BY <1>1 DEF AlarmsAreTrue, Check
<1>3. stamp' = [c \in Conditions |->
                  IF StampAfter(c) = Unsent \/ StampAfter(c) >= Window THEN StampAfter(c) ELSE StampAfter(c) + 1]
  BY DEF Check
<1>4. \A c \in Conditions : stamp[c] \in Unsent..Window /\ Unsent = -1 /\ Window \in Nat \ {0}
  BY AlertingAssumption DEF AlertTypeOK, Unsent
<1>5. \A c \in Conditions : StampAfter(c) \in Unsent..Window
  BY <1>4 DEF StampAfter
<1>6. stamp' \in [Conditions -> Unsent..Window]
  <2>1. \A c \in Conditions :
          (IF StampAfter(c) = Unsent \/ StampAfter(c) >= Window THEN StampAfter(c) ELSE StampAfter(c) + 1)
              \in Unsent..Window
    BY <1>4, <1>5
  <2> QED
    BY <1>3, <2>1
<1>7. Stamped'
  <2> SUFFICES ASSUME NEW c \in Conditions, c \notin raised'
               PROVE  stamp'[c] = Unsent \/ stamp'[c] >= Window
    BY DEF Stamped
  <2>1. c \notin trouble /\ c \notin Alerts
    BY <1>1 DEF Alerts
  <2>2. StampAfter(c) = Unsent \/ StampAfter(c) >= Window
    BY <2>1 DEF StampAfter, Recovers, Stamped
  <2> QED
    BY <1>3, <2>2
<1>8. audit' \in Seq(Conditions \cup {"SLOT"}) /\ Len(audit') <= MaxLog /\ Len(audit) <= Len(audit')
  <2>1. news \in Seq(Conditions \cup {"SLOT"}) /\ audit \in Seq(Conditions \cup {"SLOT"})
    BY NewsIs DEF AlertTypeOK
  <2>2. audit' = IF Len(audit) + Len(news) <= MaxLog THEN audit \o news ELSE audit
    BY DEF Check
  <2>3. audit \o news \in Seq(Conditions \cup {"SLOT"}) /\ Len(audit \o news) = Len(audit) + Len(news)
    <3> HIDE DEF news
    <3> QED BY <2>1
  <2>4. Len(news) \in Nat /\ Len(audit) \in Nat /\ Len(audit) <= MaxLog /\ MaxLog \in Nat
    <3> HIDE DEF news
    <3> QED BY <2>1, AlertingAssumption DEF AlertTypeOK
  <2> HIDE DEF news
  <2> QED
    BY <2>1, <2>2, <2>3, <2>4
<1>9. AlerterShapes'
  BY <1>1, <1>6, <1>8 DEF AlerterShapes, AlertTypeOK, Check
<1>10. WatcherShapes'
  <2>1. UNCHANGED <<watching, mark, keys, asked, confirmed, lastUpdate, told, lives>> 
    BY DEF Check, inbox
  <2>2. Len(audit) \in Nat /\ Len(audit') \in Nat
    BY <1>8 DEF AlertTypeOK
  <2> QED
    BY <1>8, <2>1, <2>2, AlertTypeParts DEF WatcherShapes
<1>11. AlertTypeOK'
  BY <1>9, <1>10 DEF AlertTypeOK, AlerterShapes, WatcherShapes
<1>12. Marked'
  BY DEF Marked, Check, inbox
<1> QED
  BY <1>2, <1>7, <1>11, <1>12

\* What goes on in the engine, but for the checks.
LEMMA EngineStep ==
    ASSUME AlertInv,
           \/ \E c \in Conditions : Change(c)
           \/ Reset \/ SlotEvent
           \/ \E o \in FillOrders, s \in Statuses : OrderMoves(o, s)
    PROVE  AlertInv'
<1> USE DEF AlertInv
<1>1. ASSUME NEW c \in Conditions, Change(c) PROVE AlertInv'
  <2>0. /\ changes < MaxChanges /\ changes' = changes + 1
        /\ trouble' = IF c \in trouble THEN trouble \ {c} ELSE trouble \cup {c}
        /\ UNCHANGED <<seen, stamp, raised, audit, table, watching, mark, keys, asked, confirmed, lastUpdate, told, lives>>
    BY <1>1, Zenon DEF Change, inbox
  <2>3. AlerterShapes /\ WatcherShapes
    BY AlertTypeParts
  <2>4. AlerterShapes'
    BY <2>0, <2>3, AlertingAssumption DEF AlerterShapes
  <2>5. WatcherShapes'
    BY <2>0, <2>3, Zenon DEF WatcherShapes, Things, BagToSet, IsABag
  <2>1. AlertTypeOK'
    BY <2>4, <2>5, Zenon DEF AlertTypeOK, AlerterShapes, WatcherShapes
  <2>2. AlarmsAreTrue' /\ Stamped' /\ Marked'
    BY <1>1 DEF Change, AlarmsAreTrue, Stamped, Marked, inbox
  <2> QED BY <2>1, <2>2
<1>2. ASSUME Reset PROVE AlertInv'
  <2>1. AlertTypeOK'
    BY <1>2, AlertingAssumption DEF Reset, AlertTypeOK, inbox, Things, BagToSet, Unsent
  <2>2. AlarmsAreTrue' /\ Stamped' /\ Marked'
    BY <1>2 DEF Reset, AlarmsAreTrue, Stamped, Marked, inbox
  <2> QED BY <2>1, <2>2
<1>3. ASSUME SlotEvent PROVE AlertInv'
  <2>1. AlertTypeOK'
    <3>1. /\ Len(audit) < MaxLog /\ audit' = Append(audit, "SLOT")
          /\ UNCHANGED <<trouble, changes, seen, stamp, raised, table>>
          /\ UNCHANGED <<watching, mark, keys, asked, confirmed, lastUpdate, told, lives>>
      BY <1>3, Zenon DEF SlotEvent, alerter, inbox
    <3>2. AlerterShapes /\ WatcherShapes
      BY AlertTypeParts
    <3>3. audit \in Seq(Conditions \cup {"SLOT"}) => Len(audit) \in Nat /\ Len(audit') = Len(audit) + 1
      BY <3>1
    <3>4. AlerterShapes'
      BY <3>1, <3>2, <3>3, AlertingAssumption DEF AlerterShapes
    <3>5. WatcherShapes'
      BY <3>1, <3>2, <3>3, AlertingAssumption DEF WatcherShapes, AlerterShapes, Things, BagToSet
    <3> QED BY <3>4, <3>5, Zenon DEF AlertTypeOK, AlerterShapes, WatcherShapes
  <2>2. AlarmsAreTrue' /\ Stamped' /\ Marked'
    BY <1>3 DEF SlotEvent, AlarmsAreTrue, Stamped, Marked, inbox, alerter
  <2> QED BY <2>1, <2>2
<1>4. ASSUME NEW o \in FillOrders, NEW s \in Statuses, OrderMoves(o, s) PROVE AlertInv'
  <2>1. AlertTypeOK'
    BY <1>4, AlertingAssumption DEF OrderMoves, AlertTypeOK, alerter, inbox, Things, BagToSet
  <2>2. AlarmsAreTrue' /\ Stamped' /\ Marked'
    BY <1>4 DEF OrderMoves, AlarmsAreTrue, Stamped, Marked, inbox, alerter
  <2> QED BY <2>1, <2>2
<1> QED
  BY <1>1, <1>2, <1>3, <1>4

(* A poll of the watcher: its new messages were not told before, and its   *)
(* marks move over them.                                                   *)
LEMMA PollStep ==
    ASSUME AlertInv, PollEvents \/ PollOrders \/ \E k \in 1..MaxCommands, answered \in BOOLEAN : PollCommands(k, answered)
    PROVE  AlertInv'
<1> USE DEF AlertInv
<1>a. IsABag(told) /\ BagToSet(told) \subseteq Things
  BY DEF AlertTypeOK
<1>1. ASSUME PollEvents PROVE AlertInv'
  <2> DEFINE what == {<<"event", i>> : i \in NewEvents}
  <2>1. told' = Tell(what) /\ mark' = Len(audit)
        /\ UNCHANGED <<alerter, audit, table, watching, keys, asked, confirmed, lastUpdate, lives>>
    BY <1>1 DEF PollEvents, inbox
  <2>2. Len(audit) \in Nat /\ Len(audit) <= MaxLog /\ mark \in 0..Len(audit) /\ MaxLog \in Nat
    BY AlertingAssumption DEF AlertTypeOK
  <2>3. \A t \in what : t[1] = "event" /\ t[2] \in 1..Len(audit) /\ t[2] > mark /\ t = <<"event", t[2]>>
    BY DEF NewEvents
  <2>4. \A t \in what : t \notin BagToSet(told)
    <3> SUFFICES ASSUME NEW t \in what, t \in BagToSet(told) PROVE FALSE
      OBVIOUS
    <3>1. t[1] = "event" /\ t[2] \in 1..Len(audit) /\ t[2] > mark
      BY <2>3
    <3>2. t[2] <= mark
      BY <3>1 DEF Marked
    <3> QED BY <2>2, <3>1, <3>2
  <2>5. what \subseteq Things
    <3>1. \A t \in what : t \in {"event"} \X (1..MaxLog)
      BY <2>2, <2>3
    <3> QED BY <3>1 DEF Things
  <2> HIDE DEF what
  <2>6. AlertTypeOK'
    <3>1. IsABag(told') /\ BagToSet(told') \subseteq Things
      BY <1>a, <2>1, <2>5, TellIs, TellIsABag
    <3> QED BY <2>1, <2>2, <3>1 DEF AlertTypeOK, alerter, Things
  <2>7. Marked'
    <3> SUFFICES ASSUME NEW t \in BagToSet(told')
                 PROVE  /\ told'[t] = 1
                        /\ t[1] = "event" => t[2] <= mark'
                        /\ t[1] = "fill" => <<t[2], "FILLED">> \in keys'
                        /\ t[1] = "answer" => t[2] <= lastUpdate' /\ asked'[t[2]] = "operator"
      BY DEF Marked
    <3>1. CASE t \in what
      BY <2>1, <2>2, <2>3, <2>4, <3>1, TellIs
    <3>2. CASE t \notin what
      <4>1. t \in BagToSet(told) /\ told'[t] = told[t] + 0
        BY <2>1, <3>2, TellIs
      <4>2. t[1] = "event" => t[2] \in Int
        BY <1>a, <4>1 DEF Things
      <4> QED BY <2>1, <2>2, <4>1, <4>2 DEF Marked
    <3> QED BY <3>1, <3>2
  <2> QED BY <2>1, <2>6, <2>7 DEF AlarmsAreTrue, Stamped, alerter
<1>2. ASSUME PollOrders PROVE AlertInv'
  <2> DEFINE new == {o \in FillOrders : table[o] # "NONE" /\ Key(o) \notin keys}
             what == {<<"fill", o>> : o \in {p \in new : table[p] = "FILLED"}}
  <2>1. told' = Tell(what) /\ keys' = keys \cup {Key(o) : o \in new}
        /\ UNCHANGED <<alerter, audit, table, watching, mark, asked, confirmed, lastUpdate, lives>>
    BY <1>2 DEF PollOrders, inbox
  <2>2. \A t \in what : /\ t[1] = "fill" /\ t[2] \in FillOrders /\ t = <<"fill", t[2]>>
                        /\ <<t[2], "FILLED">> \notin keys /\ <<t[2], "FILLED">> \in keys'
    <3> SUFFICES ASSUME NEW o \in new, table[o] = "FILLED"
                 PROVE  <<o, "FILLED">> \notin keys /\ <<o, "FILLED">> \in keys'
      OBVIOUS
    <3>1. Key(o) = <<o, "FILLED">>
      BY DEF Key
    <3>2. Key(o) \notin keys
      OBVIOUS
    <3>3. Key(o) \in keys'
      BY <2>1
    <3> QED BY <3>1, <3>2, <3>3
  <2>3. \A t \in what : t \notin BagToSet(told)
    BY <2>2 DEF Marked
  <2>4. what \subseteq Things
    <3>1. \A t \in what : t \in {"fill"} \X FillOrders
      BY <2>2
    <3> QED BY <3>1 DEF Things
  <2>5. keys' \subseteq FillOrders \X Statuses
    <3>1. \A o \in new : table[o] \in Statuses
      BY DEF AlertTypeOK
    <3>2. \A o \in new : Key(o) \in FillOrders \X Statuses
      BY <3>1 DEF Key
    <3>3. keys \subseteq FillOrders \X Statuses
      BY DEF AlertTypeOK
    <3> HIDE DEF new
    <3> QED BY <2>1, <3>2, <3>3
  <2>6. keys \subseteq keys'
    BY <2>1
  <2> HIDE DEF what, new
  <2>7. AlertTypeOK'
    <3>1. IsABag(told') /\ BagToSet(told') \subseteq Things
      BY <1>a, <2>1, <2>4, TellIs, TellIsABag
    <3> QED BY <2>1, <2>5, <3>1 DEF AlertTypeOK, alerter, Things
  <2>8. Marked'
    <3> SUFFICES ASSUME NEW t \in BagToSet(told')
                 PROVE  /\ told'[t] = 1
                        /\ t[1] = "event" => t[2] <= mark'
                        /\ t[1] = "fill" => <<t[2], "FILLED">> \in keys'
                        /\ t[1] = "answer" => t[2] <= lastUpdate' /\ asked'[t[2]] = "operator"
      BY DEF Marked
    <3>1. CASE t \in what
      BY <2>1, <2>2, <2>3, <3>1, TellIs
    <3>2. CASE t \notin what
      BY <2>1, <2>6, <3>2, TellIs DEF Marked
    <3> QED BY <3>1, <3>2
  <2> QED BY <2>1, <2>7, <2>8 DEF AlarmsAreTrue, Stamped, alerter
<1>3. ASSUME NEW k \in 1..MaxCommands, NEW answered \in BOOLEAN, PollCommands(k, answered) PROVE AlertInv'
  <2> DEFINE done == {i \in 1..Len(asked) : Pending(i) /\ (i < k \/ (i = k /\ answered))}
             what == {<<"answer", i>> : i \in {j \in done : asked[j] = "operator"}}
  <2>1. told' = Tell(what) /\ lastUpdate' = k /\ Pending(k)
        /\ confirmed' = (IF lastUpdate > confirmed THEN lastUpdate ELSE confirmed)
        /\ UNCHANGED <<alerter, audit, table, watching, mark, keys, asked, lives>>
    BY <1>3, Zenon DEF PollCommands
  <2>2. /\ Len(asked) \in Nat /\ Len(asked) <= MaxCommands /\ MaxCommands \in Nat
        /\ lastUpdate \in 0..Len(asked) /\ confirmed \in 0..Len(asked)
    BY AlertingAssumption DEF AlertTypeOK
  <2>3. \A t \in what : /\ t[1] = "answer" /\ t[2] \in 1..Len(asked) /\ t = <<"answer", t[2]>>
                        /\ t[2] > lastUpdate /\ t[2] <= k /\ asked[t[2]] = "operator"
    BY <2>2 DEF Pending
  <2>4. \A t \in what : t \notin BagToSet(told)
    <3> SUFFICES ASSUME NEW t \in what, t \in BagToSet(told) PROVE FALSE
      OBVIOUS
    <3>1. t[1] = "answer" /\ t[2] \in 1..Len(asked) /\ t[2] > lastUpdate
      BY <2>3
    <3>2. t[2] <= lastUpdate
      BY <3>1 DEF Marked
    <3> QED BY <2>2, <3>1, <3>2
  <2>5. what \subseteq Things
    <3>1. \A t \in what : t \in {"answer"} \X (1..MaxCommands)
      BY <2>2, <2>3
    <3> QED BY <3>1 DEF Things
  <2> HIDE DEF what, done
  <2>6. AlertTypeOK'
    <3>1. IsABag(told') /\ BagToSet(told') \subseteq Things
      BY <1>a, <2>1, <2>5, TellIs, TellIsABag
    <3>2. lastUpdate' \in 0..Len(asked) /\ confirmed' \in 0..Len(asked)
      BY <2>1, <2>2 DEF Pending
    <3> QED BY <2>1, <3>1, <3>2 DEF AlertTypeOK, alerter, Things
  <2>7. Marked'
    <3> SUFFICES ASSUME NEW t \in BagToSet(told')
                 PROVE  /\ told'[t] = 1
                        /\ t[1] = "event" => t[2] <= mark'
                        /\ t[1] = "fill" => <<t[2], "FILLED">> \in keys'
                        /\ t[1] = "answer" => t[2] <= lastUpdate' /\ asked'[t[2]] = "operator"
      BY DEF Marked
    <3>1. CASE t \in what
      BY <2>1, <2>2, <2>3, <2>4, <3>1, TellIs
    <3>2. CASE t \notin what
      <4>1. t \in BagToSet(told) /\ told'[t] = told[t] + 0
        BY <2>1, <3>2, TellIs
      <4>2. t[1] = "answer" => t[2] \in Int
        BY <1>a, <4>1 DEF Things
      <4>3. lastUpdate < k
        BY <2>1, <2>2 DEF Pending
      <4> QED BY <2>1, <2>2, <4>1, <4>2, <4>3 DEF Marked
    <3> QED BY <3>1, <3>2
  <2> QED BY <2>1, <2>6, <2>7 DEF AlarmsAreTrue, Stamped, alerter
<1> QED
  BY <1>1, <1>2, <1>3

\* The watcher starts and dies, and commands are sent to it.
LEMMA WatchStep ==
    ASSUME AlertInv,
           \/ \E store \in BOOLEAN, net \in BOOLEAN : Watch(store, net)
           \/ WatcherDies
           \/ \E who \in {"operator", "stranger"} : Send(who)
    PROVE  AlertInv'
<1> USE DEF AlertInv
<1>a. IsABag(told) /\ BagToSet(told) \subseteq Things
  BY DEF AlertTypeOK
<1>1. ASSUME NEW store \in BOOLEAN, NEW net \in BOOLEAN, Watch(store, net) PROVE AlertInv'
  <2>1. told' = EmptyBag /\ IsABag(told') /\ BagToSet(told') = {}
    BY <1>1, NothingTold DEF Watch
  <2>2. AlertTypeOK'
    <3>1. Len(audit) \in Nat /\ Len(asked) \in Nat
      BY DEF AlertTypeOK
    <3>2. UNCHANGED <<alerter, audit, table, asked>> /\ lives' \in 0..MaxLives /\ watching' \in BOOLEAN /\ keys' = {}
      BY <1>1, AlertingAssumption DEF Watch, AlertTypeOK
    <3>3. mark' \in 0..Len(audit) /\ lastUpdate' \in 0..Len(asked) /\ confirmed' \in 0..Len(asked)
      BY <1>1, <3>1 DEF Watch, AlertTypeOK
    <3> QED BY <2>1, <3>2, <3>3 DEF AlertTypeOK, alerter
  <2>3. AlarmsAreTrue' /\ Stamped'
    BY <1>1 DEF Watch, alerter, AlarmsAreTrue, Stamped
  <2>4. Marked'
    BY <2>1 DEF Marked
  <2> QED BY <2>2, <2>3, <2>4
<1>2. ASSUME WatcherDies PROVE AlertInv'
  <2>1. AlertTypeOK'
    BY <1>2 DEF WatcherDies, AlertTypeOK, alerter, inbox, Things, BagToSet
  <2>2. AlarmsAreTrue' /\ Stamped' /\ Marked'
    BY <1>2 DEF WatcherDies, AlarmsAreTrue, Stamped, Marked, inbox, alerter
  <2> QED BY <2>1, <2>2
<1>3. ASSUME NEW who \in {"operator", "stranger"}, Send(who) PROVE AlertInv'
  <2>1. /\ asked' = Append(asked, who) /\ asked' \in Seq({"operator", "stranger"}) /\ Len(asked') = Len(asked) + 1
        /\ Len(asked) \in Nat /\ \A i \in 1..Len(asked) : asked'[i] = asked[i]
    BY <1>3 DEF Send, AlertTypeOK
  <2>2. UNCHANGED <<alerter, audit, table, watching, mark, keys, confirmed, lastUpdate, told, lives>>
    BY <1>3 DEF Send
  <2>3. AlertTypeOK'
    <3>1. Len(asked') <= MaxCommands /\ confirmed' \in 0..Len(asked') /\ lastUpdate' \in 0..Len(asked')
      BY <1>3, <2>1, <2>2, AlertingAssumption DEF Send, AlertTypeOK
    <3> QED BY <2>1, <2>2, <3>1 DEF AlertTypeOK, alerter, Things, BagToSet
  <2>4. AlarmsAreTrue' /\ Stamped'
    BY <2>2 DEF alerter, AlarmsAreTrue, Stamped
  <2>5. Marked'
    <3> SUFFICES ASSUME NEW t \in BagToSet(told), t[1] = "answer" PROVE asked'[t[2]] = asked[t[2]]
      BY <2>2 DEF Marked, BagToSet
    <3>1. t[2] \in 1..MaxCommands /\ t[2] <= lastUpdate
      BY <1>a DEF Things, Marked, AlertTypeOK
    <3>2. t[2] \in 1..Len(asked)
      BY <2>1, <3>1 DEF AlertTypeOK
    <3> QED BY <2>1, <3>2
  <2> QED BY <2>3, <2>4, <2>5
<1> QED
  BY <1>1, <1>2, <1>3

\* Every step keeps what the alarms and the marks say.
LEMMA AlertStep == AlertInv /\ [AlertNext]_alertVars => AlertInv'
<1> SUFFICES ASSUME AlertInv, [AlertNext]_alertVars PROVE AlertInv'
  OBVIOUS
<1>1. CASE UNCHANGED alertVars
  BY <1>1 DEF alertVars, alerter, inbox, AlertInv, AlertTypeOK, AlarmsAreTrue, Stamped, Marked, Things, BagToSet
<1>2. CASE AlertNext
  BY <1>2, CheckStep, EngineStep, PollStep, WatchStep DEF AlertNext
<1> QED BY <1>1, <1>2

-----------------------------------------------------------------------------
\* So it is of every behaviour.
LEMMA AlertHolds == AlertInit /\ [][AlertNext]_alertVars => []AlertInv
<1> QED BY AlertInitInv, AlertStep, PTL

-----------------------------------------------------------------------------
(* The simulated brokers.                                                  *)

Accounts == [lots : 0..MaxLots, cost : Nat, balance : Int, flow : Int]
Booked == [lots : Nat, cost : Nat]
Submitted == {"intended", "answered", "recorded", "applied"}

\* The lots and the cost a fill leaves.
LotsAfter(lots, side, n) == IF side = "BUY" THEN lots + n ELSE IF n > lots THEN 0 ELSE lots - n

Given(lots, cost, n) == IF lots = 0 THEN 0 ELSE (cost * n) \div lots

CostAfter(lots, cost, side, n, p) ==
    IF side = "BUY" THEN cost + n * p
    ELSE cost - Given(lots, cost, IF n > lots THEN lots ELSE n)

HasLots(x) == {"lots", "cost"} \subseteq DOMAIN x /\ x = [k \in DOMAIN x |-> x[k]] /\ x.lots \in Nat /\ x.cost \in Nat

\* A fill changes lots and cost, of an account as of a position.
LEMMA FillIs ==
    ASSUME NEW x, HasLots(x), NEW side, NEW n \in Nat, NEW p \in Nat
    PROVE  /\ DOMAIN OnPaperFill(x, side, n, p) = DOMAIN x
           /\ OnPaperFill(x, side, n, p).lots = LotsAfter(x.lots, side, n)
           /\ OnPaperFill(x, side, n, p).cost = CostAfter(x.lots, x.cost, side, n, p)
           /\ \A k \in (DOMAIN x) \ {"lots", "cost"} : OnPaperFill(x, side, n, p)[k] = x[k]
           /\ OnPaperFill(x, side, n, p) = [k \in DOMAIN x |-> OnPaperFill(x, side, n, p)[k]]
<1>1. CASE side = "BUY"
  BY <1>1 DEF OnPaperFill, Bought, LotsAfter, CostAfter, HasLots
<1>2. CASE side # "BUY"
  <2> DEFINE k == AtMost(x, n)
             r == Released(x, k)
  <2>1. OnPaperFill(x, side, n, p) = [x EXCEPT !.lots = x.lots - k, !.cost = x.cost - r]
    BY <1>2 DEF OnPaperFill, Sold
  <2>2. k = IF n > x.lots THEN x.lots ELSE n
    BY DEF AtMost
  <2>3. r = Given(x.lots, x.cost, k)
    BY DEF Released, Given
  <2>4. CostAfter(x.lots, x.cost, side, n, p) = x.cost - r
    BY <1>2, <2>2, <2>3 DEF CostAfter
  <2>5. LotsAfter(x.lots, side, n) = x.lots - k
    BY <1>2, <2>2 DEF LotsAfter, HasLots
  <2> HIDE DEF k, r
  <2> QED BY <2>1, <2>4, <2>5 DEF HasLots
<1> QED BY <1>1, <1>2

\* A part of the lots has at most the cost of all of them.
LEMMA GivenIsPart ==
    ASSUME NEW lots \in Nat, NEW cost \in Nat, NEW n \in Nat, n <= lots
    PROVE  Given(lots, cost, n) \in Nat /\ Given(lots, cost, n) <= cost
<1>1. CASE lots = 0
  BY <1>1 DEF Given
<1>2. CASE lots > 0
  <2> DEFINE q == (cost * n) \div lots
  <2>1. cost * n \in Nat /\ cost * n <= cost * lots
    OBVIOUS
  <2>2. q \in Int /\ lots * q <= cost * n /\ cost * n < lots * q + lots
    BY <1>2, <2>1
  <2>3. q >= 0
    <3>1. SUFFICES ASSUME q <= -1 PROVE FALSE
      BY <2>2
    <3>2. lots * q <= -lots
      BY <3>1, <1>2, <2>2
    <3> QED BY <3>2, <2>1, <2>2, <1>2
  <2>4. q <= cost
    <3>1. SUFFICES ASSUME q >= cost + 1 PROVE FALSE
      BY <2>2
    <3>2. lots * q >= lots * (cost + 1)
      BY <3>1, <1>2, <2>2
    <3>3. lots * (cost + 1) = cost * lots + lots
      OBVIOUS
    <3> QED BY <3>2, <3>3, <2>1, <2>2, <1>2
  <2> QED BY <1>2, <2>2, <2>3, <2>4 DEF Given
<1> QED BY <1>1, <1>2

\* No fill: nothing changes.
LEMMA NoFill ==
    ASSUME NEW lots \in Nat, NEW cost \in Nat, NEW side, NEW p \in Nat
    PROVE  LotsAfter(lots, side, 0) = lots /\ CostAfter(lots, cost, side, 0, p) = cost
<1>1. cost * 0 = 0 /\ 0 * p = 0
  OBVIOUS
<1>2. lots # 0 => 0 \div lots = 0
  OBVIOUS
<1> QED BY <1>1, <1>2 DEF LotsAfter, CostAfter, Given

\* Both stay natural.
LEMMA AfterType ==
    ASSUME NEW lots \in Nat, NEW cost \in Nat, NEW side, NEW n \in Nat, NEW p \in Nat
    PROVE  LotsAfter(lots, side, n) \in Nat /\ CostAfter(lots, cost, side, n, p) \in Nat
<1>1. n * p \in Nat
  OBVIOUS
<1>2. \A k \in Nat : k <= lots => Given(lots, cost, k) \in Nat /\ Given(lots, cost, k) <= cost
  BY GivenIsPart
<1> QED BY <1>1, <1>2 DEF LotsAfter, CostAfter

\* Accounts and positions are what a fill is worked on.
LEMMA AccountHasLots ==
    ASSUME NEW x, x \in Accounts \/ x \in Booked \/ x \in PaperPosition
    PROVE  HasLots(x)
BY PaperAssumption DEF Accounts, Booked, PaperPosition, HasLots

\* A fill keeps the shape of a position and of what the ledger replays to.
LEMMA FillType ==
    ASSUME NEW x, NEW side, NEW n \in Nat, NEW p \in Nat
    PROVE  /\ x \in Booked => OnPaperFill(x, side, n, p) \in Booked
           /\ x \in PaperPosition /\ LotsAfter(x.lots, side, n) <= MaxLots
                  => OnPaperFill(x, side, n, p) \in PaperPosition
<1> DEFINE y == OnPaperFill(x, side, n, p)
<1>1. ASSUME x \in Booked \/ x \in PaperPosition
      PROVE  /\ y = [k \in {"lots", "cost"} |-> y[k]] /\ y.lots = LotsAfter(x.lots, side, n)
             /\ y.lots \in Nat /\ y.cost \in Nat
  <2>1. HasLots(x) /\ DOMAIN x = {"lots", "cost"}
    BY <1>1, AccountHasLots DEF Booked, PaperPosition
  <2>2. x.lots \in Nat /\ x.cost \in Nat
    BY <2>1 DEF HasLots
  <2>3. /\ DOMAIN y = DOMAIN x /\ y = [k \in DOMAIN x |-> y[k]]
        /\ y.lots = LotsAfter(x.lots, side, n) /\ y.cost = CostAfter(x.lots, x.cost, side, n, p)
    BY <2>1, FillIs
  <2>4. LotsAfter(x.lots, side, n) \in Nat /\ CostAfter(x.lots, x.cost, side, n, p) \in Nat
    BY <2>2, AfterType
  <2> HIDE DEF y
  <2> QED BY <2>1, <2>3, <2>4
<1>2. ASSUME x \in Booked PROVE y \in Booked
  <2> HIDE DEF y
  <2>1. y = [lots |-> y.lots, cost |-> y.cost]
    BY <1>1, <1>2
  <2> QED BY <1>1, <1>2, <2>1 DEF Booked
<1>3. ASSUME x \in PaperPosition, LotsAfter(x.lots, side, n) <= MaxLots PROVE y \in PaperPosition
  <2> HIDE DEF y
  <2>1. y = [lots |-> y.lots, cost |-> y.cost]
    BY <1>1, <1>3
  <2>2. y.lots \in 0..MaxLots
    BY <1>1, <1>3, PaperAssumption
  <2> QED BY <1>1, <1>3, <2>1, <2>2 DEF PaperPosition
<1> QED BY <1>2, <1>3

\* The price of an arrival is natural, for no price is below the impact.
LEMMA ArrivalType ==
    ASSUME PaperTypeOK, NEW side, NEW p \in Prices
    PROVE  Arrival(side, p) \in Nat
BY PaperAssumption DEF Arrival, PaperTypeOK

\* The account a fill leaves.
LEMMA FilledIs ==
    ASSUME PaperTypeOK, NEW side, NEW n \in Nat, NEW p \in Nat, LotsAfter(acct.lots, side, n) <= MaxLots
    PROVE  LET y == Filled(side, n, p)
           IN  /\ y \in Accounts
               /\ y.lots = LotsAfter(acct.lots, side, n)
               /\ y.cost = CostAfter(acct.lots, acct.cost, side, n, p)
               /\ y.flow = acct.flow + Flow(side, n, p)
               /\ paperMode = "PAPER" => y.balance = acct.balance + Charged(side, n, p)
<1> DEFINE x == OnPaperFill(acct, side, n, p)
           y == Filled(side, n, p)
<1>1. acct \in Accounts /\ HasLots(acct) /\ DOMAIN acct = {"lots", "cost", "balance", "flow"}
  BY AccountHasLots DEF PaperTypeOK, Accounts
<1>2. /\ DOMAIN x = {"lots", "cost", "balance", "flow"} /\ x = [k \in DOMAIN x |-> x[k]]
      /\ x.lots = LotsAfter(acct.lots, side, n) /\ x.cost = CostAfter(acct.lots, acct.cost, side, n, p)
      /\ x.balance = acct.balance /\ x.flow = acct.flow
  BY <1>1, FillIs
<1>3. y = [x EXCEPT !.balance = IF paperMode = "PAPER" THEN x.balance + Charged(side, n, p) ELSE x.balance,
                    !.flow = x.flow + Flow(side, n, p)]
  BY DEF Filled
<1>4. acct.balance \in Int /\ acct.flow \in Int /\ acct.lots \in Nat /\ acct.cost \in Nat
  BY <1>1 DEF Accounts
<1>5. n * p \in Nat /\ Fee(n * p) \in Nat
  BY PaperAssumption DEF Fee
<1>6. Released(acct, n) \in Int
  BY <1>4 DEF Released
<1>7. Flow(side, n, p) \in Int
  BY <1>5 DEF Flow
<1>8. \A m \in Int : Leveraged(m) \in Int
  BY PaperAssumption DEF Leveraged
<1>9. Charged(side, n, p) \in Int
  BY <1>5, <1>6, <1>8 DEF Charged
<1>10. LotsAfter(acct.lots, side, n) \in 0..MaxLots /\ CostAfter(acct.lots, acct.cost, side, n, p) \in Nat
  <2>1. LotsAfter(acct.lots, side, n) \in Nat /\ CostAfter(acct.lots, acct.cost, side, n, p) \in Nat
    BY <1>4, AfterType
  <2> QED BY <2>1, PaperAssumption
<1> HIDE DEF x, y
<1>11. /\ y.lots = x.lots /\ y.cost = x.cost /\ y.flow = x.flow + Flow(side, n, p)
       /\ y.balance = IF paperMode = "PAPER" THEN x.balance + Charged(side, n, p) ELSE x.balance
       /\ y = [lots |-> y.lots, cost |-> y.cost, balance |-> y.balance, flow |-> y.flow]
  BY <1>2, <1>3
<1>12. y \in Accounts
  BY <1>2, <1>4, <1>7, <1>9, <1>10, <1>11 DEF Accounts
<1> QED BY <1>2, <1>11, <1>12 DEF y

\* What a fill takes from the balance and the cost, it takes from the wealth.
LEMMA FilledConserves ==
    ASSUME PaperTypeOK, paperMode = "PAPER", Conserved(acct), NEW side, NEW n \in Nat, NEW p \in Nat,
           LotsAfter(acct.lots, side, n) <= MaxLots, side # "BUY" => n <= acct.lots
    PROVE  Conserved(Filled(side, n, p))
<1> DEFINE y == Filled(side, n, p)
           f == Fee(n * p)
           w == n * p
           r == Released(acct, n)
<1>1. /\ y.cost = CostAfter(acct.lots, acct.cost, side, n, p) /\ y.flow = acct.flow + Flow(side, n, p)
      /\ y.balance = acct.balance + Charged(side, n, p)
  BY FilledIs
<1>2. acct.balance \in Int /\ acct.flow \in Int /\ acct.lots \in Nat /\ acct.cost \in Nat
  BY DEF PaperTypeOK
<1>3. f \in Nat /\ w \in Nat /\ PaperLeverage \in Nat /\ Deposit \in Nat
  BY PaperAssumption DEF Fee
<1>4. acct.balance + acct.cost = PaperLeverage * (Deposit + acct.flow + acct.cost)
  BY DEF Conserved, Leveraged
<1>5. CASE side = "BUY"
  <2>1. y.cost = acct.cost + w /\ y.flow = acct.flow + (-w - f)
        /\ y.balance = acct.balance - (w + PaperLeverage * f)
    BY <1>1, <1>2, <1>3, <1>5 DEF CostAfter, Flow, Charged, Leveraged
  <2> HIDE DEF y, f, w
  <2>2. Deposit + y.flow + y.cost = (Deposit + acct.flow + acct.cost) - f
    BY <1>2, <1>3, <2>1
  <2>3. PaperLeverage * ((Deposit + acct.flow + acct.cost) - f)
          = PaperLeverage * (Deposit + acct.flow + acct.cost) - PaperLeverage * f
    BY <1>2, <1>3
  <2>4. PaperLeverage * f \in Int /\ PaperLeverage * (Deposit + acct.flow + acct.cost) \in Int
    BY <1>2, <1>3
  <2>5. y.balance + y.cost = PaperLeverage * (Deposit + y.flow + y.cost)
    BY <1>2, <1>3, <1>4, <2>1, <2>2, <2>3, <2>4
  <2> QED BY <2>5 DEF Conserved, Leveraged, y
<1>6. CASE side # "BUY"
  <2>1. r \in Int /\ r = Given(acct.lots, acct.cost, n)
    BY <1>2 DEF Released, Given
  <2>2. (IF n > acct.lots THEN acct.lots ELSE n) = n
    BY <1>2, <1>6
  <2>3. y.cost = acct.cost - r /\ y.flow = acct.flow + (w - f)
        /\ y.balance = acct.balance + (r + PaperLeverage * (w - r - f))
    BY <1>1, <1>6, <2>1, <2>2 DEF CostAfter, Flow, Charged, Leveraged
  <2> HIDE DEF y, f, w, r
  <2>4. Deposit + y.flow + y.cost = (Deposit + acct.flow + acct.cost) + (w - r - f)
    BY <1>2, <1>3, <2>1, <2>3
  <2>5. PaperLeverage * ((Deposit + acct.flow + acct.cost) + (w - r - f))
          = PaperLeverage * (Deposit + acct.flow + acct.cost) + PaperLeverage * (w - r - f)
    BY <1>2, <1>3, <2>1
  <2>6. PaperLeverage * (w - r - f) \in Int /\ PaperLeverage * (Deposit + acct.flow + acct.cost) \in Int
    BY <1>2, <1>3, <2>1
  <2>7. y.balance + y.cost = PaperLeverage * (Deposit + y.flow + y.cost)
    BY <1>2, <1>3, <1>4, <2>1, <2>3, <2>4, <2>5, <2>6
  <2> QED BY <2>7 DEF Conserved, Leveraged, y
<1> QED BY <1>5, <1>6

-----------------------------------------------------------------------------
\* The order under way fits the step it is at.
OrderFits ==
    /\ where \in {"idle", "down"} => ord = NoOrder
    /\ where \in Submitted => ord.side \in {"BUY", "SELL"} /\ ord.ref \in Prices
    /\ where = "intended" =>
         /\ ord.filled = 0
         /\ ord.side = "BUY" => held.lots + ord.lots <= MaxLots
         /\ ord.side = "SELL" => held.lots > 0
    /\ where \in {"answered", "recorded"} =>
         /\ ord.side = "BUY" => held.lots + ord.filled <= MaxLots
         /\ ord.side = "SELL" => held.lots > 0 /\ ord.filled <= held.lots
    /\ where \in {"recorded", "applied"} => ord.filled > 0

\* The broker's fill is behind the engine's, or not, by the lots of the answer.
LotsAgree ==
    /\ where \in {"idle", "intended", "applied"} => held.lots = acct.lots
    /\ where \in {"answered", "recorded"} => acct.lots = LotsAfter(held.lots, ord.side, ord.filled)

SameCost(x) == x.lots = acct.lots /\ x.cost = acct.cost

\* The answer applied to x makes it what the broker has.
Behind(x) ==
    /\ acct.lots = LotsAfter(x.lots, ord.side, ord.filled)
    /\ acct.cost = CostAfter(x.lots, x.cost, ord.side, ord.filled, Arrival(ord.side, ord.ref))

CostsAgree ==
    /\ unsaved = 0 /\ ~lapsed =>
         /\ where \in {"idle", "intended", "applied"} => SameCost(held) /\ SameCost(booked)
         /\ where \in {"answered", "recorded"} => Behind(held) /\ Behind(booked)
         /\ where = "down" => SameCost(booked)
    /\ unsaved = 0 /\ paperMode = "PAPER" => snap = acct
    /\ paperMode = "SHADOW" => booked = held

LevelsFit ==
    ~slotted =>
        /\ where \in {"idle", "intended", "answered", "recorded"} =>
             /\ held.lots > 0 => levels \/ missing
             /\ levels => held.lots > 0
             /\ bare <=> held.lots > 0
        /\ where = "applied" =>
             /\ ord.side = "BUY" => held.lots > 0
             /\ ord.side = "SELL" => bare /\ (levels \/ missing)

PaperShape == PaperTypeOK /\ booked \in Booked

PaperInv == PaperShape /\ WealthIsConserved /\ OrderFits /\ LotsAgree /\ CostsAgree /\ LevelsFit

\* A new account fits.
LEMMA PaperInitInv == PaperInit => PaperInv
<1> SUFFICES ASSUME PaperInit PROVE PaperInv
  OBVIOUS
<1> USE PaperAssumption
<1>1. FreshAccount \in Accounts /\ FreshAccount.lots = 0 /\ FreshAccount.cost = 0 /\ FreshAccount.flow = 0
      /\ FreshAccount.balance = PaperLeverage * Deposit
  BY DEF FreshAccount, Account, NoLots, Accounts, Leveraged
<1>2. NoLots \in PaperPosition /\ NoLots \in Booked /\ NoLots.lots = 0 /\ NoLots.cost = 0
  BY DEF NoLots, PaperPosition, Booked
<1>3. NoOrder \in [side : {"NONE", "BUY", "SELL"}, lots : 0..MaxLots, ref : Prices \cup {0}, filled : 0..MaxLots]
  BY DEF NoOrder
<1>4. paperMode \in {"PAPER", "SHADOW"} /\ slotted \in BOOLEAN /\ levels \in BOOLEAN /\ missing \in BOOLEAN
      /\ bare \in BOOLEAN /\ doubt \in BOOLEAN /\ lapsed \in BOOLEAN
  BY Zenon DEF PaperInit
<1>5. acct = FreshAccount /\ snap = FreshAccount /\ held = NoLots /\ booked = NoLots /\ ord = NoOrder /\ where = "idle"
      /\ sent = 0 /\ falls = 0 /\ unsaved = 0
  BY DEF PaperInit
<1>6. sent \in 0..MaxOrders /\ falls \in 0..MaxFalls /\ unsaved \in 0..MaxUnsaved
  BY <1>5
<1>7. acct \in Accounts /\ snap \in Accounts /\ held \in PaperPosition /\ booked \in Booked
      /\ booked.lots \in Nat /\ booked.cost \in Nat
  BY <1>1, <1>2, <1>5
<1>8. where \in {"idle", "intended", "answered", "recorded", "applied", "down"}
  BY <1>5
<1>9. PaperShape
  BY <1>3, <1>4, <1>5, <1>6, <1>7, <1>8, Zenon DEF PaperShape, PaperTypeOK, Accounts
<1>10. WealthIsConserved
  BY <1>1, <1>5 DEF WealthIsConserved, Conserved, Leveraged
<1>11. OrderFits
  BY <1>5 DEF OrderFits, Submitted
<1>12. LotsAgree /\ CostsAgree
  BY <1>1, <1>2, <1>5 DEF LotsAgree, CostsAgree, SameCost
<1>13. LevelsFit
  <2>1. levels = FALSE /\ missing = FALSE /\ bare = FALSE /\ ~(held.lots > 0) /\ where = "idle" /\ where # "applied"
    <3>1. levels = FALSE /\ missing = FALSE /\ bare = FALSE
      BY Zenon DEF PaperInit
    <3>2. ~(held.lots > 0) /\ where = "idle" /\ where # "applied"
      BY <1>2, <1>5
    <3> QED BY <3>1, <3>2
  <2> QED BY <2>1, Zenon DEF LevelsFit
<1> QED BY <1>9, <1>10, <1>11, <1>12, <1>13 DEF PaperInv

\* The flags and the numbers of the shape, apart: the provers are told of each where it matters.
PaperFlags ==
    /\ paperMode \in {"PAPER", "SHADOW"} /\ slotted \in BOOLEAN
    /\ levels \in BOOLEAN /\ missing \in BOOLEAN /\ bare \in BOOLEAN /\ doubt \in BOOLEAN /\ lapsed \in BOOLEAN

PaperAmounts ==
    /\ acct \in Accounts /\ snap \in Accounts /\ held \in PaperPosition /\ booked \in Booked
    /\ ord \in [side : {"NONE", "BUY", "SELL"}, lots : 0..MaxLots, ref : Prices \cup {0}, filled : 0..MaxLots]
    /\ where \in {"idle", "intended", "answered", "recorded", "applied", "down"}
    /\ sent \in 0..MaxOrders /\ falls \in 0..MaxFalls /\ unsaved \in 0..MaxUnsaved

\* The shapes, flags and amounts apart.
LEMMA PaperShapeParts == PaperShape <=> PaperFlags /\ PaperAmounts
<1>1. booked \in Booked => booked.lots \in Nat /\ booked.cost \in Nat
  BY DEF Booked
<1> QED
  BY <1>1, Zenon DEF PaperShape, PaperTypeOK, PaperFlags, PaperAmounts, Accounts

\* The flags stay flags.
LEMMA PaperFlagsStep ==
    ASSUME PaperShape, PaperNext
    PROVE  PaperFlags'
<1> USE PaperShapeParts DEF PaperFlags, levelVars, brokerVars
<1>1. ASSUME NEW n \in 1..MaxLots, NEW p \in Prices, Intend(n, p) PROVE PaperFlags'
  BY <1>1, Zenon DEF Intend
<1>2. CASE Place
  BY <1>2, Zenon DEF Place
<1>3. CASE Record \/ ApplyAnswer
  BY <1>3, Zenon DEF Record, ApplyAnswer
<1>4. CASE Protect
  <2>1. /\ levels' \in BOOLEAN /\ bare' \in BOOLEAN /\ missing' \in BOOLEAN
    BY <1>4, Zenon DEF Protect
  <2> QED BY <1>4, <2>1, Zenon DEF Protect
<1>5. CASE Fall
  <2>1. doubt' \in BOOLEAN /\ lapsed' \in BOOLEAN
    BY <1>5, Zenon DEF Fall
  <2> QED BY <1>5, <2>1, Zenon DEF Fall
<1>6. CASE Rise
  <2>1. /\ levels' \in BOOLEAN /\ bare' \in BOOLEAN /\ missing' \in BOOLEAN
    <3>1. CASE slotted
      BY <1>6, <3>1, Zenon DEF Rise, RestartLevels
    <3>2. CASE ~slotted
      <4>1. /\ levels' = (levels /\ held'.lots > 0)
            /\ missing' = (held'.lots > 0 /\ ~levels)
            /\ bare' = (held'.lots > 0)
        BY <1>6, <3>2, Zenon DEF Rise, RestartLevels
      <4> DEFINE some == held'.lots > 0
      <4>2. some \in BOOLEAN
        OBVIOUS
      <4> HIDE DEF some
      <4>3. levels' = (levels /\ some) /\ missing' = (some /\ ~levels) /\ bare' = some
        BY <4>1 DEF some
      <4> QED BY <4>2, <4>3, Zenon
    <3> QED BY <3>1, <3>2, Zenon
  <2> QED BY <1>6, <2>1, Zenon DEF Rise
<1> QED BY <1>1, <1>2, <1>3, <1>4, <1>5, <1>6, Zenon DEF PaperNext

\* What the steps of a submission need of the constants.
LEMMA PaperBounds ==
    /\ MaxLots \in Nat \ {0} /\ MaxOrders \in Nat /\ MaxFalls \in Nat /\ MaxUnsaved \in Nat
    /\ Prices \subseteq Nat
BY PaperAssumption

PaperBooksInv == PaperAmounts /\ OrderFits /\ LotsAgree /\ CostsAgree

\* An intent moves no money and no lots.
LEMMA IntendBooks ==
    ASSUME PaperBooksInv, NEW n \in 1..MaxLots, NEW p \in Prices, Intend(n, p)
    PROVE  PaperBooksInv'
<1> USE PaperBounds DEF PaperBooksInv
<1>1. /\ where = "idle" /\ where' = "intended" /\ sent < MaxOrders /\ sent' = sent + 1
      /\ UNCHANGED <<paperMode, acct, snap, unsaved, held, booked, lapsed, falls>>
  BY Zenon DEF Intend, brokerVars
<1>2. acct.lots \in 0..MaxLots /\ held.lots \in 0..MaxLots /\ held.lots = acct.lots
  BY <1>1 DEF PaperAmounts, Accounts, PaperPosition, LotsAgree
<1>3. ord' \in [side : {"BUY", "SELL"}, lots : 0..MaxLots, ref : Prices, filled : {0}]
      /\ (ord'.side = "BUY" => held.lots + ord'.lots <= MaxLots) /\ (ord'.side = "SELL" => held.lots > 0)
  <2>1. CASE IntendEntry(n, p)
    BY <1>2, <2>1 DEF IntendEntry
  <2>2. CASE IntendExit(n, p)
    BY <1>2, <2>2 DEF IntendExit, AtMost
  <2> QED BY <2>1, <2>2 DEF Intend
<1>4. PaperAmounts'
  BY <1>1, <1>3 DEF PaperAmounts
<1>5. OrderFits'
  BY <1>1, <1>3 DEF OrderFits, Submitted
<1>6. LotsAgree'
  BY <1>1, <1>2 DEF LotsAgree
<1>7. CostsAgree'
  BY <1>1, Zenon DEF CostsAgree, SameCost
<1> QED BY <1>4, <1>5, <1>6, <1>7

\* What is sold is no more than the broker holds, and what is bought leaves it within the bound.
LEMMA WorkableIs ==
    ASSUME PaperBooksInv, where = "intended"
    PROVE  LET n == Workable(ord.side, ord.lots)
           IN  /\ n \in 0..MaxLots /\ LotsAfter(acct.lots, ord.side, n) <= MaxLots
               /\ ord.side \in {"BUY", "SELL"} /\ ord.ref \in Prices /\ held.lots = acct.lots
               /\ ord.side # "BUY" => n <= acct.lots
               /\ ord.side = "SELL" => held.lots > 0
               /\ ord.side = "BUY" => held.lots + n <= MaxLots
<1> USE PaperBounds DEF PaperBooksInv
<1>1. acct.lots \in 0..MaxLots /\ held.lots = acct.lots /\ ord.lots \in 0..MaxLots
  BY DEF PaperAmounts, Accounts, LotsAgree
<1>2. ord.side \in {"BUY", "SELL"} /\ ord.ref \in Prices
      /\ (ord.side = "BUY" => held.lots + ord.lots <= MaxLots) /\ (ord.side = "SELL" => held.lots > 0)
  BY DEF OrderFits, Submitted
<1> QED BY <1>1, <1>2 DEF Workable, AtMost, LotsAfter

\* A simulated fill moves the account of the broker, which is ahead until it is booked.
LEMMA PlaceBooks ==
    ASSUME PaperShape, PaperBooksInv, Place
    PROVE  PaperBooksInv'
<1> USE PaperBounds DEF PaperBooksInv
<1> DEFINE p == Arrival(ord.side, ord.ref)
           n == Workable(ord.side, ord.lots)
<1>1. /\ where = "intended" /\ where' = "answered"
      /\ UNCHANGED <<paperMode, held, booked, lapsed, sent, falls>>
  BY Zenon DEF Place
<1>2. /\ n \in 0..MaxLots /\ LotsAfter(acct.lots, ord.side, n) <= MaxLots
      /\ ord.side \in {"BUY", "SELL"} /\ ord.ref \in Prices /\ held.lots = acct.lots
      /\ ord.side # "BUY" => n <= acct.lots
      /\ ord.side = "SELL" => held.lots > 0
      /\ ord.side = "BUY" => held.lots + n <= MaxLots
  BY <1>1, WorkableIs
<1>3. p \in Nat
  BY <1>2, ArrivalType DEF PaperShape
<1>4. held.lots \in 0..MaxLots /\ acct.lots \in 0..MaxLots /\ held.cost \in Nat /\ booked.lots \in Nat /\ booked.cost \in Nat
      /\ acct.cost \in Nat /\ paperMode \in {"PAPER", "SHADOW"}
  BY DEF PaperAmounts, Accounts, PaperPosition, Booked, PaperShape, PaperTypeOK
<1>5. ord.filled = 0 /\ ord \in [side : {"NONE", "BUY", "SELL"}, lots : 0..MaxLots, ref : Prices \cup {0}, filled : 0..MaxLots]
  BY <1>1 DEF OrderFits, PaperAmounts
<1>6. CASE Refuses(ord.side, n, p)
  <2>1. UNCHANGED <<acct, snap, unsaved, ord>>
    BY <1>6, Zenon DEF Place, brokerVars
  <2>2. PaperAmounts'
    BY <1>1, <2>1 DEF PaperAmounts
  <2>3. OrderFits'
    BY <1>1, <1>2, <1>4, <1>5, <2>1 DEF OrderFits, Submitted
  <2>4. \A m \in Nat, c \in Nat : LotsAfter(m, ord.side, 0) = m /\ CostAfter(m, c, ord.side, 0, p) = c
    BY <1>3, NoFill
  <2>5. LotsAgree'
    BY <1>1, <1>2, <1>4, <1>5, <2>1, <2>4 DEF LotsAgree
  <2>6. p' = p
    BY <1>1, <2>1 DEF Arrival
  <2>7. SameCost(held) => Behind(held)'
    BY <1>1, <1>4, <1>5, <2>1, <2>4, <2>6 DEF SameCost, Behind
  <2>8. SameCost(booked) => Behind(booked)'
    BY <1>1, <1>4, <1>5, <2>1, <2>4, <2>6 DEF SameCost, Behind
  <2>9. CostsAgree'
    BY <1>1, <2>1, <2>7, <2>8 DEF CostsAgree
  <2> QED BY <2>2, <2>3, <2>5, <2>9
<1>7. CASE ~Refuses(ord.side, n, p)
  <2>1. /\ acct' = Filled(ord.side, n, p) /\ ord' = [ord EXCEPT !.filled = n]
        /\ IF paperMode = "PAPER" THEN SaveSnapshot(acct') ELSE UNCHANGED <<snap, unsaved>>
    BY <1>7, Zenon DEF Place
  <2>2. /\ acct' \in Accounts /\ acct'.lots = LotsAfter(acct.lots, ord.side, n)
        /\ acct'.cost = CostAfter(acct.lots, acct.cost, ord.side, n, p)
    BY <1>2, <1>3, <2>1, FilledIs DEF PaperShape
  <2>3. ord'.filled = n /\ ord'.side = ord.side /\ ord'.ref = ord.ref
        /\ ord' \in [side : {"NONE", "BUY", "SELL"}, lots : 0..MaxLots, ref : Prices \cup {0}, filled : 0..MaxLots]
    BY <1>2, <1>5, <2>1
  <2> HIDE DEF n
  <2>4. snap' \in Accounts /\ unsaved' \in 0..MaxUnsaved
        /\ (unsaved' = 0 => unsaved = 0) /\ (unsaved' = 0 /\ paperMode = "PAPER" => snap' = acct')
    <3>1. CASE paperMode = "PAPER"
      <4>1. CASE snap' = acct' /\ UNCHANGED unsaved
        BY <2>2, <4>1 DEF PaperAmounts
      <4>2. CASE unsaved < MaxUnsaved /\ unsaved' = unsaved + 1 /\ UNCHANGED snap
        BY <4>2 DEF PaperAmounts
      <4> QED BY <2>1, <3>1, <4>1, <4>2 DEF SaveSnapshot
    <3>2. CASE paperMode # "PAPER"
      BY <2>1, <3>2 DEF PaperAmounts
    <3> QED BY <3>1, <3>2
  <2>5. PaperAmounts'
    BY <1>1, <2>2, <2>3, <2>4 DEF PaperAmounts
  <2>6. OrderFits'
    BY <1>1, <1>2, <1>4, <2>3 DEF OrderFits, Submitted
  <2>7. LotsAgree'
    BY <1>1, <1>2, <2>2, <2>3 DEF LotsAgree
  <2>8. Arrival(ord.side, ord.ref)' = p
    BY <1>1, <2>3 DEF Arrival
  <2>9. SameCost(held) => Behind(held)'
    BY <1>1, <2>2, <2>3, <2>8 DEF SameCost, Behind
  <2>10. SameCost(booked) => Behind(booked)'
    BY <1>1, <2>2, <2>3, <2>8 DEF SameCost, Behind
  <2>11. CostsAgree'
    BY <1>1, <2>4, <2>9, <2>10 DEF CostsAgree
  <2> QED BY <2>5, <2>6, <2>7, <2>11
<1> QED BY <1>6, <1>7

\* Its row goes to the ledger.
LEMMA RecordBooks ==
    ASSUME PaperShape, PaperBooksInv, Record
    PROVE  PaperBooksInv'
<1> USE PaperBounds DEF PaperBooksInv
<1>1. /\ where = "answered" /\ where' = (IF ord.filled = 0 THEN "idle" ELSE "recorded")
      /\ ord' = (IF ord.filled = 0 THEN NoOrder ELSE ord)
      /\ UNCHANGED <<paperMode, acct, snap, unsaved, held, booked, lapsed, sent, falls>>
  BY Zenon DEF Record, brokerVars
<1>2. NoOrder \in [side : {"NONE", "BUY", "SELL"}, lots : 0..MaxLots, ref : Prices \cup {0}, filled : 0..MaxLots]
  BY DEF NoOrder
<1>3. PaperAmounts'
  BY <1>1, <1>2 DEF PaperAmounts
<1>4. held.lots \in Nat /\ held.cost \in Nat /\ booked.lots \in Nat /\ booked.cost \in Nat /\ acct.lots \in Nat /\ ord.filled \in Nat
  BY DEF PaperAmounts, PaperPosition, Booked, Accounts
<1>5. ord.side \in {"BUY", "SELL"} /\ ord.ref \in Prices
  BY <1>1 DEF OrderFits, Submitted
<1>6. Arrival(ord.side, ord.ref) \in Nat
  BY <1>5, ArrivalType DEF PaperShape
<1>7. OrderFits'
  BY <1>1, <1>4 DEF OrderFits, Submitted
<1>8. CASE ord.filled = 0
  <2>1. \A m \in Nat, c \in Nat : /\ LotsAfter(m, ord.side, ord.filled) = m
                                  /\ CostAfter(m, c, ord.side, ord.filled, Arrival(ord.side, ord.ref)) = c
    BY <1>6, <1>8, NoFill
  <2>2. LotsAgree'
    BY <1>1, <1>4, <1>8, <2>1 DEF LotsAgree
  <2>3. (Behind(held) => SameCost(held)) /\ (Behind(booked) => SameCost(booked))
    BY <1>4, <2>1 DEF Behind, SameCost
  <2>4. CostsAgree'
    BY <1>1, <1>8, <2>3 DEF CostsAgree, SameCost
  <2> QED BY <1>3, <1>7, <2>2, <2>4
<1>9. CASE ord.filled # 0
  <2>1. LotsAgree'
    BY <1>1, <1>9 DEF LotsAgree
  <2>2. CostsAgree'
    BY <1>1, <1>9 DEF CostsAgree, Behind, Arrival
  <2> QED BY <1>3, <1>7, <2>1, <2>2
<1> QED BY <1>8, <1>9

\* The engine books what the broker moved.
LEMMA ApplyBooks ==
    ASSUME PaperShape, PaperBooksInv, ApplyAnswer
    PROVE  PaperBooksInv'
<1> USE PaperBounds DEF PaperBooksInv
<1> DEFINE p == Arrival(ord.side, ord.ref)
           n == ord.filled
<1>1. /\ where = "recorded" /\ where' = "applied"
      /\ held' = OnPaperFill(held, ord.side, n, p) /\ booked' = OnPaperFill(booked, ord.side, n, p)
      /\ UNCHANGED <<paperMode, acct, snap, unsaved, ord, lapsed, sent, falls>>
  BY Zenon DEF ApplyAnswer, brokerVars
<1>2. ord.side \in {"BUY", "SELL"} /\ ord.ref \in Prices /\ n > 0
      /\ (ord.side = "BUY" => held.lots + n <= MaxLots) /\ (ord.side = "SELL" => held.lots > 0 /\ n <= held.lots)
      /\ acct.lots = LotsAfter(held.lots, ord.side, n)
  BY <1>1 DEF OrderFits, Submitted, LotsAgree
<1>3. p \in Nat
  BY <1>2, ArrivalType DEF PaperShape
<1>4. held \in PaperPosition /\ booked \in Booked /\ n \in Nat /\ acct \in Accounts /\ held.lots \in 0..MaxLots
      /\ acct.lots \in 0..MaxLots
  BY DEF PaperAmounts, PaperPosition, Accounts
<1>5. HasLots(held) /\ HasLots(booked)
  BY <1>4, AccountHasLots
<1> HIDE DEF p, n
<1>6. /\ held'.lots = LotsAfter(held.lots, ord.side, n) /\ held'.cost = CostAfter(held.lots, held.cost, ord.side, n, p)
      /\ booked'.lots = LotsAfter(booked.lots, ord.side, n)
      /\ booked'.cost = CostAfter(booked.lots, booked.cost, ord.side, n, p)
  <2>1. /\ OnPaperFill(held, ord.side, n, p).lots = LotsAfter(held.lots, ord.side, n)
        /\ OnPaperFill(held, ord.side, n, p).cost = CostAfter(held.lots, held.cost, ord.side, n, p)
    BY <1>3, <1>4, <1>5, FillIs
  <2>2. /\ OnPaperFill(booked, ord.side, n, p).lots = LotsAfter(booked.lots, ord.side, n)
        /\ OnPaperFill(booked, ord.side, n, p).cost = CostAfter(booked.lots, booked.cost, ord.side, n, p)
    BY <1>3, <1>4, <1>5, FillIs
  <2> QED BY <1>1, <2>1, <2>2 DEF n, p
<1>7. held' \in PaperPosition /\ booked' \in Booked
  BY <1>1, <1>2, <1>3, <1>4, FillType
<1>8. PaperAmounts'
  BY <1>1, <1>7 DEF PaperAmounts
<1>9. OrderFits'
  BY <1>1, <1>2 DEF OrderFits, Submitted, n
<1>10. LotsAgree'
  BY <1>1, <1>2, <1>6 DEF LotsAgree
<1>11. (Behind(held) => SameCost(held)') /\ (Behind(booked) => SameCost(booked)')
  BY <1>1, <1>6 DEF Behind, SameCost, n, p
<1>12. paperMode = "SHADOW" /\ booked = held => booked' = held'
  BY <1>1
<1>13. CostsAgree'
  BY <1>1, <1>11, <1>12 DEF CostsAgree
<1> QED BY <1>8, <1>9, <1>10, <1>13

\* Levels move no lots.
LEMMA ProtectBooks ==
    ASSUME PaperBooksInv, Protect
    PROVE  PaperBooksInv'
<1> USE DEF PaperBooksInv
<1>1. /\ where = "applied" /\ where' = "idle" /\ ord' = NoOrder
      /\ UNCHANGED <<paperMode, acct, snap, unsaved, held, booked, lapsed, sent, falls>>
  BY Zenon DEF Protect, brokerVars
<1>2. NoOrder \in [side : {"NONE", "BUY", "SELL"}, lots : 0..MaxLots, ref : Prices \cup {0}, filled : 0..MaxLots]
  BY PaperBounds DEF NoOrder
<1>3. PaperAmounts'
  BY <1>1, <1>2 DEF PaperAmounts
<1>4. OrderFits' /\ LotsAgree'
  BY <1>1 DEF OrderFits, Submitted, LotsAgree
<1>5. CostsAgree'
  BY <1>1 DEF CostsAgree, SameCost
<1> QED BY <1>3, <1>4, <1>5

\* A death drops the order under way, and says whether lots were lost with it.
LEMMA FallBooks ==
    ASSUME PaperShape, PaperBooksInv, Fall
    PROVE  PaperBooksInv'
<1> USE DEF PaperBooksInv
<1>1. /\ where # "down" /\ where' = "down" /\ ord' = NoOrder /\ falls < MaxFalls /\ falls' = falls + 1
      /\ UNCHANGED <<paperMode, acct, snap, unsaved, held, booked, sent>>
  BY Zenon DEF Fall, brokerVars
<1>2. ~lapsed' => ~lapsed
  BY Zenon DEF Fall
<1>3. ~lapsed' => ~(where \in {"answered", "recorded"} /\ ord.filled > 0)
  BY Zenon DEF Fall
<1>4. NoOrder \in [side : {"NONE", "BUY", "SELL"}, lots : 0..MaxLots, ref : Prices \cup {0}, filled : 0..MaxLots]
  BY PaperBounds DEF NoOrder
<1>5. PaperAmounts'
  BY <1>1, <1>4, PaperBounds DEF PaperAmounts
<1>6. OrderFits' /\ LotsAgree'
  BY <1>1 DEF OrderFits, Submitted, LotsAgree
<1>7. ASSUME unsaved = 0, ~lapsed' PROVE SameCost(booked)
  <2>1. booked.lots \in Nat /\ booked.cost \in Nat /\ ord.filled \in Nat
    BY DEF PaperAmounts, Booked
  <2>2. CASE where \in {"answered", "recorded"}
    <3>1. ord.filled = 0 /\ Behind(booked)
      BY <1>2, <1>3, <1>7, <2>1, <2>2 DEF CostsAgree
    <3>2. ord.ref \in Prices
      BY <2>2 DEF OrderFits, Submitted
    <3>3. Arrival(ord.side, ord.ref) \in Nat
      BY <3>2, ArrivalType DEF PaperShape
    <3>4. /\ LotsAfter(booked.lots, ord.side, 0) = booked.lots
          /\ CostAfter(booked.lots, booked.cost, ord.side, 0, Arrival(ord.side, ord.ref)) = booked.cost
      BY <2>1, <3>3, NoFill
    <3> QED BY <3>1, <3>4 DEF Behind, SameCost
  <2>3. CASE where \in {"idle", "intended", "applied"}
    BY <1>2, <1>7, <2>3 DEF CostsAgree
  <2> QED BY <1>1, <2>2, <2>3 DEF PaperAmounts
<1>8. SameCost(booked)' <=> SameCost(booked)
  BY <1>1 DEF SameCost
<1>9. CostsAgree'
  BY <1>1, <1>7, <1>8, <1>2 DEF CostsAgree
<1> QED BY <1>5, <1>6, <1>9

\* A start takes the snapshot for right in PAPER and the ledger in SHADOW.
LEMMA RiseBooks ==
    ASSUME PaperShape, PaperBooksInv, Rise
    PROVE  PaperBooksInv'
<1> USE DEF PaperBooksInv
<1>1. /\ where = "down" /\ where' = "idle" /\ RestartBroker
      /\ UNCHANGED <<paperMode, snap, unsaved, booked, ord, lapsed, sent, falls>>
  BY Zenon DEF Rise
<1>2. ord = NoOrder /\ snap \in Accounts /\ booked \in Booked /\ held \in PaperPosition
  BY <1>1 DEF OrderFits, PaperAmounts
<1>3. CASE paperMode = "PAPER"
  <2>1. acct' = snap /\ held' = Agreed(booked, snap)
    BY <1>1, <1>3, Zenon DEF RestartBroker
  <2>2. snap.lots \in 0..MaxLots /\ snap.cost \in Nat /\ booked.lots \in Nat /\ booked.cost \in Nat
    BY <1>2 DEF Accounts, Booked
  <2>3. held' \in PaperPosition /\ held'.lots = snap.lots
    BY <1>2, <2>1, <2>2 DEF Agreed, PaperPosition, Booked
  <2>4. PaperAmounts'
    BY <1>1, <1>2, <2>1, <2>3 DEF PaperAmounts
  <2>5. OrderFits' /\ LotsAgree'
    BY <1>1, <1>2, <2>1, <2>3 DEF OrderFits, Submitted, LotsAgree
  <2>6. ASSUME unsaved = 0, ~lapsed PROVE SameCost(booked)' /\ held' = booked
    <3>1. SameCost(booked) /\ snap = acct
      BY <1>1, <1>3, <2>6 DEF CostsAgree
    <3> QED BY <1>1, <2>1, <3>1 DEF SameCost, Agreed
  <2>7. CostsAgree'
    BY <1>1, <1>3, <2>1, <2>6 DEF CostsAgree, SameCost
  <2> QED BY <2>4, <2>5, <2>7
<1>4. CASE paperMode # "PAPER"
  <2>1. acct' = Account(booked, Deposit, -booked.cost) /\ held' = booked
    BY <1>1, <1>4, Zenon DEF RestartBroker
  <2>2. paperMode = "SHADOW"
    BY <1>4 DEF PaperShape, PaperTypeOK
  <2>3. booked = held
    BY <2>2 DEF CostsAgree
  <2>4. acct'.lots = booked.lots /\ acct'.cost = booked.cost /\ acct' \in Accounts
    BY <1>2, <2>1, <2>3, PaperAssumption DEF Account, Accounts, PaperPosition, Leveraged
  <2>5. PaperAmounts'
    BY <1>1, <1>2, <2>1, <2>3, <2>4 DEF PaperAmounts
  <2>6. OrderFits' /\ LotsAgree'
    BY <1>1, <1>2, <2>1, <2>4 DEF OrderFits, Submitted, LotsAgree
  <2>7. SameCost(held)' /\ SameCost(booked)'
    BY <1>1, <2>1, <2>4 DEF SameCost
  <2>8. CostsAgree'
    BY <1>1, <1>4, <2>1, <2>7 DEF CostsAgree
  <2> QED BY <2>5, <2>6, <2>8
<1> QED BY <1>3, <1>4

\* Money goes into lots and fees, and comes back out of lots.
LEMMA PaperWealthStep ==
    ASSUME PaperShape, PaperBooksInv, WealthIsConserved, PaperNext
    PROVE  WealthIsConserved'
<1>1. UNCHANGED paperMode
  BY Zenon DEF PaperNext, Intend, Place, Record, ApplyAnswer, Protect, Fall, Rise
<1>2. SUFFICES ASSUME paperMode = "PAPER", Conserved(acct), Conserved(snap)
               PROVE  Conserved(acct)' /\ Conserved(snap)'
  BY <1>1 DEF WealthIsConserved
<1>3. CASE Place /\ ~Refuses(ord.side, Workable(ord.side, ord.lots), Arrival(ord.side, ord.ref))
  <2> DEFINE p == Arrival(ord.side, ord.ref)
             n == Workable(ord.side, ord.lots)
  <2>1. where = "intended" /\ acct' = Filled(ord.side, n, p) /\ SaveSnapshot(acct')
    BY <1>2, <1>3, Zenon DEF Place
  <2>2. /\ n \in 0..MaxLots /\ LotsAfter(acct.lots, ord.side, n) <= MaxLots /\ ord.ref \in Prices
        /\ ord.side # "BUY" => n <= acct.lots
    BY <2>1, WorkableIs
  <2>3. p \in Nat /\ n \in Nat
    BY <2>2, ArrivalType DEF PaperShape
  <2> HIDE DEF n, p
  <2>4. Conserved(acct)'
    <3>1. Conserved(Filled(ord.side, n, p))
      BY <1>2, <2>2, <2>3, FilledConserves DEF PaperShape
    <3> QED BY <2>1, <3>1 DEF Conserved, Leveraged
  <2>5. snap' = acct' \/ snap' = snap
    BY <2>1 DEF SaveSnapshot
  <2> QED BY <1>2, <2>4, <2>5 DEF Conserved, Leveraged
<1>4. CASE Place /\ Refuses(ord.side, Workable(ord.side, ord.lots), Arrival(ord.side, ord.ref))
  <2>1. UNCHANGED <<acct, snap>>
    BY <1>4, Zenon DEF Place, brokerVars
  <2> QED BY <1>2, <2>1 DEF Conserved, Leveraged
<1>5. CASE Rise
  <2>1. acct' = snap /\ snap' = snap
    BY <1>2, <1>5, Zenon DEF Rise, RestartBroker
  <2> QED BY <1>2, <2>1 DEF Conserved, Leveraged
<1>6. CASE (\E n \in 1..MaxLots, p \in Prices : Intend(n, p)) \/ Record \/ ApplyAnswer \/ Protect \/ Fall
  <2>1. UNCHANGED <<acct, snap>>
    BY <1>6, Zenon DEF Intend, Record, ApplyAnswer, Protect, Fall, brokerVars
  <2> QED BY <1>2, <2>1 DEF Conserved, Leveraged
<1> QED BY <1>3, <1>4, <1>5, <1>6 DEF PaperNext

\* Every step keeps the books together.
LEMMA PaperBooksStep ==
    ASSUME PaperShape, PaperBooksInv, PaperNext
    PROVE  PaperBooksInv'
BY IntendBooks, PlaceBooks, RecordBooks, ApplyBooks, ProtectBooks, FallBooks, RiseBooks, Zenon DEF PaperNext

\* Levels stand for a position, or its lack of them is recorded.
LEMMA PaperLevelsStep ==
    ASSUME PaperShape, PaperBooksInv, LevelsFit, PaperNext
    PROVE  LevelsFit'
<1> DEFINE standing == held.lots > 0
           step == where \in {"idle", "intended", "answered", "recorded"}
           done == where = "applied"
           buys == ord.side = "BUY"
           sells == ord.side = "SELL"
<1>1. standing \in BOOLEAN /\ step \in BOOLEAN /\ done \in BOOLEAN /\ buys \in BOOLEAN /\ sells \in BOOLEAN
  OBVIOUS
<1>2. LevelsFit <=> (~slotted => /\ step => (standing => levels \/ missing) /\ (levels => standing) /\ (bare <=> standing)
                                 /\ done => (buys => standing) /\ (sells => bare /\ (levels \/ missing)))
  BY Zenon DEF LevelsFit
<1>3. LevelsFit' <=> (~slotted' => /\ step' => (standing' => levels' \/ missing') /\ (levels' => standing') /\ (bare' <=> standing')
                                   /\ done' => (buys' => standing') /\ (sells' => bare' /\ (levels' \/ missing')))
  BY Zenon DEF LevelsFit
<1>4. ASSUME UNCHANGED <<slotted, levels, missing, bare, standing>>, step, step', ~done' PROVE LevelsFit'
  <2> HIDE DEF standing, step, done, buys, sells
  <2> QED BY <1>2, <1>3, <1>4, Zenon
<1>5. CASE (\E n \in 1..MaxLots, p \in Prices : Intend(n, p)) \/ Record
  <2>1. UNCHANGED <<slotted, levels, missing, bare, held>> /\ where \in {"idle", "answered"}
        /\ where' \in {"idle", "intended", "recorded"}
    BY <1>5, Zenon DEF Intend, Record, levelVars
  <2>2. step /\ step' /\ ~done' /\ standing' = standing
    BY <2>1
  <2> HIDE DEF standing, step, done
  <2> QED BY <1>4, <2>1, <2>2, Zenon
<1>6. CASE Place
  <2>1. UNCHANGED <<slotted, levels, missing, bare, held>> /\ where = "intended" /\ where' = "answered"
    BY <1>6, Zenon DEF Place, levelVars
  <2>2. step /\ step' /\ ~done' /\ standing' = standing
    BY <2>1
  <2> HIDE DEF standing, step, done
  <2> QED BY <1>4, <2>1, <2>2, Zenon
<1>7. CASE ApplyAnswer
  <2>1. UNCHANGED <<slotted, levels, missing, bare, ord>> /\ where = "recorded" /\ where' = "applied"
        /\ held' = OnPaperFill(held, ord.side, ord.filled, Arrival(ord.side, ord.ref))
    BY <1>7, Zenon DEF ApplyAnswer, levelVars
  <2>2. ord.filled > 0 /\ ord.ref \in Prices /\ (sells => standing) /\ ord.filled \in Nat /\ held \in PaperPosition
    BY <2>1 DEF PaperBooksInv, OrderFits, Submitted, PaperAmounts
  <2>3. Arrival(ord.side, ord.ref) \in Nat /\ HasLots(held)
    BY <2>2, ArrivalType, AccountHasLots DEF PaperShape
  <2>4. held'.lots = LotsAfter(held.lots, ord.side, ord.filled)
    BY <2>1, <2>2, <2>3, FillIs
  <2>5. step /\ ~step' /\ done' /\ buys' = buys /\ sells' = sells /\ (buys => standing')
    BY <2>1, <2>2, <2>4 DEF LotsAfter, PaperPosition
  <2>6. sells => standing
    BY <2>2
  <2> HIDE DEF standing, step, done, buys, sells
  <2> QED BY <1>2, <1>3, <2>1, <2>5, <2>6, Zenon
<1>8. CASE Protect
  <2>1. UNCHANGED <<slotted, held>> /\ where = "applied" /\ where' = "idle"
    BY <1>8, Zenon DEF Protect
  <2>2. done /\ ~done' /\ step' /\ standing' = standing /\ (buys \/ sells) /\ ~(buys /\ sells)
    BY <2>1 DEF PaperBooksInv, OrderFits, Submitted
  <2>3. CASE slotted
    BY <2>1, <2>3, Zenon DEF LevelsFit
  <2>4. CASE ~slotted /\ sells /\ standing
    <3>1. UNCHANGED <<levels, missing, bare>>
      BY <1>8, <2>4, Zenon DEF Protect, levelVars
    <3> HIDE DEF standing, step, done, buys, sells
    <3> QED BY <1>2, <1>3, <2>1, <2>2, <2>4, <3>1, Zenon
  <2>5. CASE ~slotted /\ ~(sells /\ standing)
    <3>1. levels' = buys /\ bare' = buys /\ missing' = (missing /\ buys)
      BY <1>8, <2>5, Zenon DEF Protect
    <3> HIDE DEF standing, step, done, buys, sells
    <3>2. ~slotted => (buys => standing)
      BY <1>2, <2>2, Zenon
    <3> QED BY <1>2, <1>3, <2>1, <2>2, <2>5, <3>1, <3>2, Zenon
  <2> QED BY <2>3, <2>4, <2>5, Zenon
<1>9. CASE Fall
  <2>1. where' = "down"
    BY <1>9, Zenon DEF Fall
  <2>2. ~step' /\ ~done'
    BY <2>1
  <2> HIDE DEF standing, step, done, buys, sells
  <2> QED BY <1>3, <2>2, Zenon
<1>10. CASE Rise
  <2>1. UNCHANGED slotted /\ RestartLevels /\ where' = "idle"
    BY <1>10, Zenon DEF Rise
  <2>2. step' /\ ~done'
    BY <2>1
  <2>3. CASE slotted
    BY <2>1, <2>3, Zenon DEF LevelsFit
  <2>4. CASE ~slotted
    <3>1. levels' = (levels /\ standing') /\ missing' = (standing' /\ ~levels) /\ bare' = standing'
      BY <2>1, <2>4, Zenon DEF RestartLevels
    <3> HIDE DEF standing, step, done, buys, sells
    <3> QED BY <1>3, <2>2, <3>1, Zenon
  <2> QED BY <2>3, <2>4, Zenon
<1> QED BY <1>5, <1>6, <1>7, <1>8, <1>9, <1>10, Zenon DEF PaperNext

\* The invariant, part by part.
LEMMA PaperBooksParts == PaperInv <=> PaperShape /\ PaperBooksInv /\ WealthIsConserved /\ LevelsFit
<1>1. PaperShape => PaperAmounts
  BY PaperShapeParts, Zenon
<1> QED BY <1>1, Zenon DEF PaperInv, PaperBooksInv

\* Every step keeps them all.
LEMMA PaperStep ==
    ASSUME PaperInv, [PaperNext]_paperVars
    PROVE  PaperInv'
<1>1. CASE PaperNext
  <2>1. PaperFlags' /\ PaperBooksInv' /\ WealthIsConserved' /\ LevelsFit'
    BY <1>1, PaperBooksParts, PaperFlagsStep, PaperBooksStep, PaperWealthStep, PaperLevelsStep, Zenon
  <2>2. PaperAmounts'
    BY <2>1, Zenon DEF PaperBooksInv
  <2>3. PaperShape'
    <3>1. booked'.lots \in Nat /\ booked'.cost \in Nat
      BY <2>2 DEF PaperAmounts, Booked
    <3> QED BY <2>1, <2>2, <3>1, Zenon DEF PaperShape, PaperTypeOK, PaperFlags, PaperAmounts, Accounts
  <2> QED BY <2>1, <2>3, Zenon DEF PaperInv, PaperBooksInv
<1>2. CASE UNCHANGED paperVars
  <2>1. UNCHANGED <<paperMode, slotted, acct, snap, unsaved, held, booked, levels, missing, bare, ord, where, doubt, lapsed,
                    sent, falls>>
    BY <1>2, Zenon DEF paperVars, brokerVars, levelVars
  <2>2. PaperShape'
    <3>1. PaperShape
      BY Zenon DEF PaperInv
    <3>2. UNCHANGED <<acct, snap, unsaved, held, booked, ord, where, sent, falls>>
      BY <2>1
    <3>3. UNCHANGED <<paperMode, slotted, levels, missing, bare, doubt, lapsed>>
      BY <2>1
    <3>4. PaperAmounts'
      BY <3>1, <3>2, PaperShapeParts DEF PaperAmounts
    <3>5. PaperFlags'
      BY <3>1, <3>3, PaperShapeParts, Zenon DEF PaperFlags
    <3>6. booked'.lots \in Nat /\ booked'.cost \in Nat
      BY <3>4 DEF PaperAmounts, Booked
    <3> QED BY <3>4, <3>5, <3>6, Zenon DEF PaperShape, PaperTypeOK, PaperFlags, PaperAmounts, Accounts
  <2>3. WealthIsConserved' /\ OrderFits'
    BY <2>1, Zenon DEF PaperInv, WealthIsConserved, Conserved, Leveraged, OrderFits
  <2>4. LotsAgree' /\ CostsAgree'
    BY <2>1, Zenon DEF PaperInv, LotsAgree, CostsAgree, SameCost, Behind, Arrival
  <2>5. LevelsFit'
    BY <2>1, Zenon DEF PaperInv, LevelsFit
  <2> QED BY <2>2, <2>3, <2>4, <2>5 DEF PaperInv
<1> QED BY <1>1, <1>2

\* So it is of every behaviour.
LEMMA PaperInvHolds == PaperInit /\ [][PaperNext]_paperVars => []PaperInv
<1>1. PaperInv /\ [PaperNext]_paperVars => PaperInv'
  BY PaperStep
<1> QED BY <1>1, PaperInitInv, PTL

\* What the run checks of it.
LEMMA PaperInvShows == PaperInv => WealthIsConserved /\ BooksAgree /\ LevelsFollowPosition
<1> SUFFICES ASSUME PaperInv PROVE WealthIsConserved /\ BooksAgree /\ LevelsFollowPosition
  OBVIOUS
<1>1. WealthIsConserved
  BY Zenon DEF PaperInv
<1>2. BooksAgree
  <2>1. LotsAgree /\ CostsAgree
    BY Zenon DEF PaperInv
  <2> QED BY <2>1, Zenon DEF LotsAgree, CostsAgree, SameCost, BooksAgree
<1>3. LevelsFollowPosition
  BY Zenon DEF PaperInv, LevelsFit, LevelsFollowPosition
<1> QED BY <1>1, <1>2, <1>3

-----------------------------------------------------------------------------
(* All the parts.                                                          *)

\* Every component starts as it does alone.
LEMMA PartsInitShows ==
    PartsInit => /\ StreamInit /\ LossInit /\ PaperInit /\ AlertInit /\ LoopInit
                 /\ GapInit /\ ReplayInit /\ KlineInit /\ EvidenceInit /\ FiguresInit /\ StartInit
BY Zenon DEF PartsInit

\* A step of the composition is a step, or none, of each of them.
LEMMA PartsStepShows ==
    [PartsNext]_partsVars =>
        /\ [StreamNext]_streamVars /\ [LossNext]_lossVars /\ [PaperNext]_paperVars
        /\ [AlertNext]_alertVars /\ [LoopNext]_loopVars /\ [RepairNext]_repairVars
        /\ [ReplayNext]_replayVars /\ [KlineNext]_klineVars /\ [EvidenceNext]_evidenceVars
        /\ [FiguresNext]_figuresVars /\ [StartNext]_startVars
<1>1. CASE PartsNext
  BY <1>1, Zenon DEF PartsNext, Chosen
<1>2. CASE UNCHANGED partsVars
  BY <1>2, Zenon DEF partsVars
<1> QED
  BY <1>1, <1>2

(* The simulated books agree with each other, conserve the deposit, and no *)
(* position stands unseen without its levels, for any prices, fees, number *)
(* of orders, deaths and failed saves.                                     *)
THEOREM PaperBooks == PartsSpec => []PaperBooksHold
<1>1. PaperInv => PaperBooksHold
  BY PaperInvShows DEF PaperBooksHold
<1>2. PartsSpec => PaperInit /\ [][PaperNext]_paperVars
  BY PartsInitShows, PartsStepShows, PTL DEF PartsSpec
<1> QED
  BY <1>1, <1>2, PaperInvHolds, PTL

(* What the operator hears is true, for any conditions, orders, lengths of *)
(* the log and lives of the watcher, and any faults of the private stream. *)
THEOREM AlertsTrue == PartsSpec => []AlertsAreTrue
<1>1. AlertInv /\ AlertSettles => AlertsAreTrue
  BY MarkedIsOnce DEF AlertsAreTrue, AlertInv
<1>2. StreamInit => AlertSettles
  BY DEF StreamInit, AlertSettles
<1>3. PartsSpec => AlertInit /\ [][AlertNext]_alertVars /\ StreamInit /\ [][StreamNext]_streamVars
  BY PartsInitShows, PartsStepShows, PTL DEF PartsSpec
<1> QED
  BY <1>1, <1>2, <1>3, AlertHolds, AlertSettlesStep, PTL

(* What a funded start rests on is true, for any bars, trades, curves,     *)
(* candles, starts and lengths of life of an observation.                  *)
THEOREM HonestEvidence == PartsSpec => []EvidenceIsHonest
<1>1. ReplayInv /\ FiguresInv /\ StartInv => EvidenceIsHonest
  BY ReplayInvShows, CurveShows, ComparisonShows, StartInvShows DEF EvidenceIsHonest
<1>2. PartsSpec => /\ ReplayInit /\ [][ReplayNext]_replayVars
                   /\ FiguresInit /\ [][FiguresNext]_figuresVars
                   /\ StartInit /\ [][StartNext]_startVars
  BY PartsInitShows, PartsStepShows, PTL DEF PartsSpec
<1> QED
  BY <1>1, <1>2, ReplayHolds, FiguresHolds, StartHolds, PTL

(* Every variable of every component keeps its shape.                      *)
THEOREM PartsTypes == PartsSpec => []PartsTypeOK
<1>1. PartsSpec => [](PaperInv /\ AlertInv /\ ReplayInv /\ FiguresInv /\ StartInv)
  <2>1. PartsSpec => /\ PaperInit /\ [][PaperNext]_paperVars
                     /\ AlertInit /\ [][AlertNext]_alertVars
                     /\ ReplayInit /\ [][ReplayNext]_replayVars
                     /\ FiguresInit /\ [][FiguresNext]_figuresVars
                     /\ StartInit /\ [][StartNext]_startVars
    BY PartsInitShows, PartsStepShows, PTL DEF PartsSpec
  <2> QED
    BY <2>1, PaperInvHolds, AlertHolds, ReplayHolds, FiguresHolds, StartHolds, PTL
<1>2. PartsSpec => [](StreamTypeOK /\ LossTypeOK)
  <2>1. PartsSpec => /\ StreamInit /\ [][StreamNext]_streamVars
                     /\ LossInit /\ [][LossNext]_lossVars
    BY PartsInitShows, PartsStepShows, PTL DEF PartsSpec
  <2> QED
    BY <2>1, StreamInitType, StreamTypeStep, LossInitType, LossTypeStep, PTL
<1>3. PartsSpec => [](LoopTypeOK /\ KlineTypeOK)
  <2>1. PartsSpec => /\ LoopInit /\ [][LoopNext]_loopVars
                     /\ KlineInit /\ [][KlineNext]_klineVars
    BY PartsInitShows, PartsStepShows, PTL DEF PartsSpec
  <2> QED
    BY <2>1, LoopTypesHold, KlineTypesHold, PTL
<1>4. PartsSpec => [](RepairTypeOK /\ EvidenceTypeOK)
  <2>1. PartsSpec => /\ GapInit /\ [][RepairNext]_repairVars
                     /\ EvidenceInit /\ [][EvidenceNext]_evidenceVars
    BY PartsInitShows, PartsStepShows, PTL DEF PartsSpec
  <2> QED
    <3>1. EvidenceTypeOK /\ [EvidenceNext]_evidenceVars => EvidenceTypeOK'
      BY EvidenceTypeStep
    <3> QED
      BY <2>1, <3>1, ShapeInit, StepKeepsShape, ShapeIsTypes, EvidenceInitType, PTL
<1>5. /\ StreamTypeOK /\ LossTypeOK /\ LoopTypeOK /\ KlineTypeOK /\ RepairTypeOK /\ EvidenceTypeOK
      /\ PaperInv /\ AlertInv /\ ReplayInv /\ FiguresInv /\ StartInv
      => PartsTypeOK
  <2>1. PaperInv => PaperTypeOK
    BY Zenon DEF PaperInv, PaperShape
  <2>2. AlertInv => AlertTypeOK
    BY Zenon DEF AlertInv
  <2>3. ReplayInv => ReplayTypeOK
    BY ReplayTypeParts, Zenon DEF ReplayInv
  <2>4. FiguresInv => FiguresTypeOK
    BY FiguresTypeShows
  <2>5. StartInv => StartTypeOK
    BY Zenon DEF StartInv
  <2> QED
    BY <2>1, <2>2, <2>3, <2>4, <2>5, Zenon DEF PartsTypeOK
<1> QED
  BY <1>1, <1>2, <1>3, <1>4, <1>5, PTL
=============================================================================
