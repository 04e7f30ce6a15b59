-------------------------- MODULE MarketDataProofs --------------------------
(***************************************************************************)
(* What holds of the trade pipeline for any trades, bar length, gap limit  *)
(* and number of attempts and restarts: the shape of the state, that no    *)
(* trade is lost in silence, that the flags follow the gaps, that what a   *)
(* bar lacks was reported, and that the bars follow one another.           *)
(***************************************************************************)
EXTENDS MarketData, TLAPS

-----------------------------------------------------------------------------
(* Types.                                                                  *)

\* The ids between two trades are trades.
LEMMA RangeType ==
    ASSUME NEW r, r.from \in Trades, r.to \in Trades
    PROVE  Ids(r) \subseteq Trades
<1> SUFFICES ASSUME NEW t \in Ids(r) PROVE t \in Trades
  OBVIOUS
<1>1. Newest \in Nat /\ r.from \in 1 .. Newest /\ r.to \in 1 .. Newest /\ t \in r.from .. r.to
  BY TradesAssumption DEF Ids, Trades
<1> QED
  BY <1>1 DEF Trades

\* A trade leaves the minute builder a minute.
LEMMA AddTradeType ==
    ASSUME MarketTypeOK, NEW t \in Trades, AddTrade(t)
    PROVE  minute' \in [open : Int, got : SUBSET Trades]
<1>1. minute \in [open : Int, got : SUBSET Trades] /\ Minute[t] \in Int
  BY TradesAssumption DEF MarketTypeOK
<1>2. [open |-> Minute[t], got |-> {t}] \in [open : Int, got : SUBSET Trades]
  BY <1>1
<1>3. [minute EXCEPT !.got = @ \cup {t}] \in [open : Int, got : SUBSET Trades]
  BY <1>1
<1> QED
  BY <1>1, <1>2, <1>3, Zenon DEF AddTrade

\* The bar a closed minute leaves, and the one it completes, are bars.
LEMMA BarTypes ==
    ASSUME MarketTypeOK
    PROVE  /\ BarAfter(minute, Whole) \in [open : Int, got : SUBSET Trades, whole : BOOLEAN]
           /\ Completed(minute, Whole) \in [open : Int, got : SUBSET Trades, whole : BOOLEAN]
<1>1. BarOf(minute.open) \in Int
  BY BarsAssumption DEF MarketTypeOK, BarOf
<1>2. Whole \in BOOLEAN
  BY DEF Whole, MarketTypeOK
<1>3. Opened(minute, Whole) \in [open : Int, got : SUBSET Trades, whole : BOOLEAN]
  BY <1>1, <1>2 DEF Opened, MarketTypeOK
<1>4. Joined(minute, Whole) \in [open : Int, got : SUBSET Trades, whole : BOOLEAN]
  BY <1>2 DEF Joined, MarketTypeOK
<1>5. NoBar \in [open : Int, got : SUBSET Trades, whole : BOOLEAN]
  BY DEF NoBar
<1> QED
  BY <1>3, <1>4, <1>5 DEF BarAfter, Completed, MarketTypeOK

\* The gate adds bars to the strategy's history: those it had stay of their kind
\* when the bars of the exchange and the one that was built are of that kind.
LEMMA EvaluateKeeps ==
    ASSUME NEW B, history \in Seq(B) \ {<<>>}, NEW b, b.open \in Int, LastBar \in Int,
           \A o \in Int : Rest(o) \in B, NEW suspect, Local(b) \in B, Evaluate(b, suspect)
    PROVE  history' \in Seq(B) \ {<<>>}
<1>1. Fillers(b) \in Seq(B)
  <2> DEFINE n == b.open - LastBar - 1
  <2>1. n \in Int
    OBVIOUS
  <2>2. \A i \in 1 .. n : Rest(LastBar + i) \in B
    BY <2>1
  <2>3. CASE n \in Nat
    BY <2>2, <2>3 DEF Fillers
  <2>4. CASE n \notin Nat
    <3>1. 1 .. n = 1 .. 0
      BY <2>1, <2>4
    <3>2. Fillers(b) = [i \in 1 .. 0 |-> Rest(LastBar + i)]
      BY <3>1 DEF Fillers
    <3> QED
      BY <3>2
  <2> QED
    BY <2>3, <2>4
<1>2. \A bs \in Seq(B), c \in B : /\ history \o bs \in Seq(B) \ {<<>>}
                                  /\ history \o bs \o <<c>> \in Seq(B) \ {<<>>}
  <2> SUFFICES ASSUME NEW bs \in Seq(B), NEW c \in B
               PROVE  /\ history \o bs \in Seq(B) \ {<<>>}
                      /\ history \o bs \o <<c>> \in Seq(B) \ {<<>>}
    OBVIOUS
  <2>1. history \o bs \in Seq(B) /\ Len(history \o bs) = Len(history) + Len(bs)
    OBVIOUS
  <2>2. <<c>> \in Seq(B) /\ Len(<<c>>) = 1
    OBVIOUS
  <2>3. history \o bs \o <<c>> \in Seq(B) /\ Len(history \o bs \o <<c>>) = Len(history \o bs) + 1
    BY <2>1, <2>2
  <2>4. Len(history) \in Nat \ {0} /\ Len(bs) \in Nat /\ Len(<<>>) = 0
    OBVIOUS
  <2> QED
    BY <2>1, <2>3, <2>4
<1> DEFINE c == IF suspect THEN Rest(b.open) ELSE Local(b)
<1>3. c \in B
  OBVIOUS
<1>4. \/ history' = history
      \/ history' = history \o Fillers(b) \o <<c>>
      \/ history' = history \o Fillers(b)
  BY DEF Evaluate
<1> HIDE DEF c
<1> QED
  BY <1>1, <1>2, <1>3, <1>4

\* In particular they stay bars.
LEMMA EvaluateTypes ==
    ASSUME MarketTypeOK, NEW b \in [open : Int, got : SUBSET Trades, whole : BOOLEAN],
           NEW suspect, Evaluate(b, suspect)
    PROVE  history' \in Seq(Bars) \ {<<>>} /\ historyGap' \in BOOLEAN
<1>1. Len(history) \in DOMAIN history /\ history \in Seq(Bars) /\ history # <<>>
  BY DEF MarketTypeOK
<1>2. LastBar \in Int
  <2>1. history[Len(history)] \in Bars
    BY <1>1
  <2> QED
    BY <2>1 DEF LastBar, Bars
<1>3. \A o \in Int : Rest(o) \in Bars
  BY DEF Rest, Bars
<1>4. Local(b) \in Bars
  BY DEF Local, Bars
<1>5. historyGap' \in BOOLEAN
  BY DEF Evaluate
<1> QED
  BY <1>1, <1>2, <1>3, <1>4, <1>5, EvaluateKeeps

\* A range that is missing is a gap with all its attempts.
LEMMA MissedType ==
    ASSUME MarketTypeOK, NEW t \in Trades, GapStatus(t) = "GAP"
    PROVE  Missed(t) \in Gap
<1>1. lastId \in Nat /\ lastId # 0 /\ t > lastId + 1 /\ Newest \in Nat /\ t \in 1 .. Newest
  BY TradesAssumption DEF MarketTypeOK, GapStatus, Trades
<1>2. lastId + 1 \in Trades /\ t - 1 \in Trades
  BY <1>1 DEF Trades
<1>3. 0 \in 0 .. MaxAttempts - 1
  BY BoundsAssumption
<1> QED
  BY <1>2, <1>3 DEF Missed, Gap

\* What the detector makes of a trade.
LEMMA DetectTypes ==
    ASSUME MarketTypeOK, NEW t \in Trades, Detect(t)
    PROVE  /\ lastId' \in 0 .. Newest /\ since' \in 0 .. Newest + 1
           /\ gaps' \subseteq Gap /\ desynced' \in BOOLEAN /\ dataDesynced' \in BOOLEAN
           /\ reported' \subseteq Trades /\ abandoned' \subseteq Trades
<1>1. lastId' \in 0 .. Newest /\ since' \in 0 .. Newest + 1
  BY TradesAssumption DEF MarketTypeOK, Detect, Later, Trades
<1>2. CASE GapStatus(t) # "GAP"
  BY <1>1, <1>2 DEF MarketTypeOK, Detect
<1>3. CASE GapStatus(t) = "GAP"
  <2>1. Missed(t) \in Gap
    BY <1>3, MissedType
  <2>2. Ids(Missed(t)) \subseteq Trades
    BY <2>1, RangeType DEF Gap
  <2> QED
    BY <1>1, <1>3, <2>1, <2>2 DEF MarketTypeOK, Detect
<1> QED
  BY <1>2, <1>3

LEMMA DeliverTypes ==
    ASSUME MarketTypeOK, NEW t \in Trades, Deliver(t)
    PROVE  MarketTypeOK'
<1>1. stream' \in 0 .. Newest /\ base' \in 0 .. Newest /\ stored' \subseteq Trades /\ restarts' \in 0 .. MaxRestarts
  BY DEF MarketTypeOK, Deliver, Later, Trades
<1>2. /\ lastId' \in 0 .. Newest /\ since' \in 0 .. Newest + 1
      /\ gaps' \subseteq Gap /\ desynced' \in BOOLEAN /\ dataDesynced' \in BOOLEAN
      /\ reported' \subseteq Trades /\ abandoned' \subseteq Trades
  BY DetectTypes DEF Deliver
<1>3. minute' \in [open : Int, got : SUBSET Trades]
  BY AddTradeType DEF Deliver
<1>4. jobs' \subseteq Job /\ recovering' \subseteq Trades \X Trades
  <2>1. Scheduled(t) \subseteq Gap
    BY <1>2 DEF Scheduled
  <2>2. \A g \in Gap : Recovery(g, t) \in Job /\ Key(g) \in Trades \X Trades
    BY DEF Gap, Job, Recovery, Key
  <2> QED
    BY <2>1, <2>2 DEF MarketTypeOK, Deliver
<1>5. /\ mark' \in 0 .. Newest /\ partial' \in BOOLEAN /\ historyGap' \in BOOLEAN
      /\ bar' \in [open : Int, got : SUBSET Trades, whole : BOOLEAN]
      /\ history' \in Seq(Bars) \ {<<>>}
  <2>1. CASE ~Crosses(t)
    BY <2>1 DEF MarketTypeOK, Deliver, candles
  <2>2. CASE Crosses(t)
    <3>1. CloseMinute
      BY <2>2 DEF Deliver
    <3>2. history' \in Seq(Bars) \ {<<>>} /\ historyGap' \in BOOLEAN
      <4>1. CASE Completed(minute, Whole).whole
        <5>1. Evaluate(Completed(minute, Whole), desynced' \/ dataDesynced')
          BY <3>1, <4>1 DEF CloseMinute
        <5> QED
          BY <5>1, BarTypes, EvaluateTypes
      <4>2. CASE ~Completed(minute, Whole).whole
        BY <3>1, <4>2 DEF CloseMinute, MarketTypeOK
      <4> QED
        BY <4>1, <4>2
    <3> QED
      BY <1>2, <3>1, <3>2, BarTypes DEF CloseMinute
  <2> QED
    BY <2>1, <2>2
<1> QED
  BY <1>1, <1>2, <1>3, <1>4, <1>5 DEF MarketTypeOK

\* The steps of a recovery keep every shape.
LEMMA RecoverTypes ==
    ASSUME MarketTypeOK, NEW j \in jobs, Recover(j)
    PROVE  MarketTypeOK'
<1>1. j \in Job /\ Ids(j) \subseteq Trades /\ Key(j) \in Trades \X Trades
  <2>1. j \in Job
    BY DEF MarketTypeOK
  <2>2. j.from \in Trades /\ j.to \in Trades
    BY <2>1 DEF Job
  <2> QED
    BY <2>1, <2>2, RangeType DEF Key
<1>2. \A k \in Job : Moves(j, k) => jobs' \subseteq Job
  BY DEF Moves, MarketTypeOK
<1>3. CASE Begin(j)
  <2>1. [j EXCEPT !.at = "fetching", !.have = stored \cap Ids(j)] \in Job
    BY <1>1 DEF Job
  <2>2. jobs' \subseteq Job
    BY <1>2, <1>3, <2>1 DEF Begin
  <2> QED
    BY <1>1, <1>3, <2>2 DEF Begin, MarketTypeOK, detector, candles, durable
<1>4. CASE Fetch(j)
  <2>1. PICK got \in SUBSET Ids(j) :
           /\ stored' = stored \cup got
           /\ Moves(j, [j EXCEPT !.at = "feeding", !.left = got, !.missing = Lacking(j, got)])
    BY <1>4 DEF Fetch
  <2>2. Lacking(j, got) \subseteq Trades
    BY <1>1 DEF Lacking
  <2>3. [j EXCEPT !.at = "feeding", !.left = got, !.missing = Lacking(j, got)] \in Job
    BY <1>1, <2>2 DEF Job
  <2>4. jobs' \subseteq Job
    BY <1>2, <2>1, <2>3
  <2> QED
    BY <1>1, <1>4, <2>1, <2>4 DEF Fetch, MarketTypeOK, detector, candles
<1>5. CASE Feed(j)
  <2>1. PICK t \in j.left : AddTrade(t) /\ Moves(j, [j EXCEPT !.left = @ \ {t}])
    BY <1>5 DEF Feed
  <2>2. t \in Trades
    BY <1>1, <2>1 DEF Job
  <2>3. minute' \in [open : Int, got : SUBSET Trades]
    BY <2>1, <2>2, AddTradeType
  <2>4. [j EXCEPT !.left = @ \ {t}] \in Job
    BY <1>1 DEF Job
  <2>5. jobs' \subseteq Job
    BY <1>2, <2>1, <2>4
  <2> QED
    BY <1>5, <2>3, <2>5 DEF Feed, MarketTypeOK, detector, candles, durable
<1>6. ASSUME Over(j), gaps' \subseteq Gap, desynced' \in BOOLEAN, dataDesynced' \in BOOLEAN,
             abandoned' \subseteq Trades
      PROVE  MarketTypeOK'
  <2>1. [j EXCEPT !.at = "done"] \in Job
    BY <1>1 DEF Job
  <2>2. jobs' \subseteq Job
    BY <1>2, <1>6, <2>1 DEF Over
  <2> QED
    BY <1>6, <2>2 DEF Over, MarketTypeOK, candles
<1>7. CASE Recovered(j)
  BY <1>6, <1>7 DEF Recovered, MarketTypeOK
<1>8. CASE Abandoned(j)
  BY <1>1, <1>6, <1>8 DEF Abandoned, MarketTypeOK
<1>9. CASE Narrowed(j)
  <2>1. PICK lo, hi \in j.missing :
           gaps' = (gaps \ Its(j)) \cup
                     {[from |-> lo, to |-> hi, tries |-> g.tries + 1] : g \in Its(j)}
    BY <1>9 DEF Narrowed
  <2>2. lo \in Trades /\ hi \in Trades
    BY <1>1 DEF Job
  <2>3. \A g \in Its(j) : [from |-> lo, to |-> hi, tries |-> g.tries + 1] \in Gap
    <3> SUFFICES ASSUME NEW g \in Its(j)
                 PROVE  [from |-> lo, to |-> hi, tries |-> g.tries + 1] \in Gap
      OBVIOUS
    <3>1. g \in Gap /\ ~(g.tries + 1 >= MaxAttempts)
      BY <1>9 DEF Narrowed, LastAttempt, Its, MarketTypeOK
    <3>2. g.tries + 1 \in 0 .. MaxAttempts - 1
      BY <3>1, BoundsAssumption DEF Gap
    <3> QED
      BY <2>2, <3>2 DEF Gap
  <2>4. gaps' \subseteq Gap
    BY <2>1, <2>3 DEF MarketTypeOK
  <2> QED
    BY <1>6, <1>9, <2>4 DEF Narrowed, MarketTypeOK
<1>10. CASE Return(j)
  BY <1>10 DEF Return, MarketTypeOK, detector, candles, durable
<1> QED
  BY <1>3, <1>4, <1>5, <1>7, <1>8, <1>9, <1>10 DEF Recover

LEMMA RestartTypes ==
    ASSUME MarketTypeOK, Restart
    PROVE  MarketTypeOK'
<1>1. /\ lastId' \in 0 .. Newest /\ mark' \in 0 .. Newest /\ since' \in 0 .. Newest + 1
      /\ stream' \in 0 .. Newest /\ base' \in 0 .. Newest
  <2>1. Newest \in Nat /\ lastId \in 0 .. Newest /\ mark \in 0 .. Newest /\ stream \in 0 .. Newest
    BY TradesAssumption DEF MarketTypeOK
  <2>2. mark' \in {mark, lastId} /\ lastId' \in {0, mark'} /\ base' = 0 /\ stream' = stream
    BY DEF Restart
  <2>3. mark' \in 0 .. Newest /\ lastId' \in 0 .. Newest
    BY <2>1, <2>2
  <2>4. since' = IF lastId' = 0 THEN 0 ELSE lastId' + 1
    BY DEF Restart
  <2>5. 0 \in 0 .. Newest /\ 0 \in 0 .. Newest + 1 /\ \A i \in 0 .. Newest : i + 1 \in 0 .. Newest + 1
    BY <2>1
  <2>6. since' \in 0 .. Newest + 1
    BY <2>3, <2>4, <2>5
  <2> QED
    BY <2>1, <2>2, <2>3, <2>5, <2>6
<1>2. restarts' \in 0 .. MaxRestarts
  BY BoundsAssumption DEF Restart, MarketTypeOK
<1>3. minute' \in [open : Int, got : SUBSET Trades]
  BY DEF Restart, NoMinute
<1>4. bar' \in [open : Int, got : SUBSET Trades, whole : BOOLEAN]
  BY DEF Restart, NoBar
<1>5. history' \in Seq(Bars) \ {<<>>}
  <2>1. stream \in Trades
    BY TradesAssumption DEF Restart, MarketTypeOK, Trades
  <2>2. BarOf(Minute[stream]) - 1 \in Int
    BY <2>1, TradesAssumption, BarsAssumption DEF BarOf
  <2>3. Rest(BarOf(Minute[stream]) - 1) \in Bars
    BY <2>2 DEF Rest, Bars
  <2> QED
    BY <2>3 DEF Restart
<1> QED
  BY <1>1, <1>2, <1>3, <1>4, <1>5 DEF Restart, MarketTypeOK

LEMMA InitTypes == MarketInit => MarketTypeOK
<1> SUFFICES ASSUME MarketInit PROVE MarketTypeOK
  OBVIOUS
<1>1. Minute[1] \in Nat
  BY TradesAssumption DEF Trades
<1>2. Rest(BarOf(Minute[1]) - 1) \in Bars
  BY <1>1, BarsAssumption DEF Rest, Bars, BarOf
<1>3. history \in Seq(Bars) \ {<<>>}
  BY <1>2 DEF MarketInit
<1>4. Newest \in Nat /\ MaxRestarts \in Nat
  BY TradesAssumption, BoundsAssumption
<1>5. NoMinute \in [open : Int, got : SUBSET Trades]
  BY DEF NoMinute
<1>6. NoBar \in [open : Int, got : SUBSET Trades, whole : BOOLEAN]
  BY DEF NoBar
<1> QED
  <2>1. 0 \in 0 .. Newest /\ 0 \in 0 .. Newest + 1 /\ 0 \in 0 .. MaxRestarts
    BY <1>4
  <2> QED
    BY <1>3, <1>5, <1>6, <2>1 DEF MarketInit, MarketTypeOK

LEMMA NextTypes == MarketTypeOK /\ [MarketNext]_marketVars => MarketTypeOK'
<1> SUFFICES ASSUME MarketTypeOK, [MarketNext]_marketVars PROVE MarketTypeOK'
  OBVIOUS
<1>1. CASE MarketNext
  BY <1>1, DeliverTypes, RecoverTypes, RestartTypes DEF MarketNext
<1>2. CASE UNCHANGED marketVars
  BY <1>2 DEF marketVars, detector, candles, durable, MarketTypeOK
<1> QED
  BY <1>1, <1>2

\* The state of the trade pipeline keeps its shape; in particular an active gap
\* always has attempts left, so that one of them is the last.
THEOREM MarketTypes == MarketSpec => []MarketTypeOK
<1>1. MarketInit => MarketTypeOK
  BY InitTypes
<1>2. MarketTypeOK /\ [MarketNext]_marketVars => MarketTypeOK'
  BY NextTypes
<1> QED
  BY <1>1, <1>2, PTL DEF MarketSpec

-----------------------------------------------------------------------------
(* The flags.  Inductive as it stands: every handler and every recovery    *)
(* sets them by the gaps it leaves.                                        *)

LEMMA FlagsStep == FlagsFollowGaps /\ [MarketNext]_marketVars => FlagsFollowGaps'
<1> SUFFICES ASSUME FlagsFollowGaps, [MarketNext]_marketVars PROVE FlagsFollowGaps'
  OBVIOUS
<1>1. ASSUME NEW t \in Trades, Deliver(t)
      PROVE  FlagsFollowGaps'
  <2>1. Detect(t)
    BY <1>1 DEF Deliver
  <2>2. CASE GapStatus(t) # "GAP"
    BY <2>1, <2>2 DEF Detect, FlagsFollowGaps
  <2>3. CASE GapStatus(t) = "GAP" /\ Recoverable(Missed(t))
    <3>1. gaps' = gaps \cup {Missed(t)} /\ desynced' = TRUE /\ dataDesynced' = TRUE
      BY <2>1, <2>3 DEF Detect
    <3> QED
      BY <3>1 DEF FlagsFollowGaps
  <2>4. CASE GapStatus(t) = "GAP" /\ ~Recoverable(Missed(t))
    <3>1. gaps' = gaps /\ desynced' = (gaps # {}) /\ dataDesynced' = (gaps # {})
      BY <2>1, <2>4 DEF Detect
    <3> QED
      BY <3>1 DEF FlagsFollowGaps
  <2> QED
    BY <2>2, <2>3, <2>4
<1>2. ASSUME NEW j \in jobs, Recover(j)
      PROVE  FlagsFollowGaps'
  <2>1. CASE Recovered(j)
    BY <2>1 DEF Recovered, FlagsFollowGaps
  <2>2. CASE Abandoned(j)
    BY <2>2 DEF Abandoned, FlagsFollowGaps
  <2>3. CASE Narrowed(j)
    BY <2>3 DEF Narrowed, FlagsFollowGaps
  <2>4. CASE Begin(j) \/ Fetch(j) \/ Feed(j) \/ Return(j)
    <3>1. UNCHANGED <<gaps, desynced, dataDesynced>>
      BY <2>4 DEF Begin, Fetch, Feed, Return, detector
    <3> QED
      BY <3>1 DEF FlagsFollowGaps
  <2> QED
    BY <1>2, <2>1, <2>2, <2>3, <2>4 DEF Recover
<1>3. CASE Restart
  BY <1>3 DEF Restart, FlagsFollowGaps
<1>4. CASE UNCHANGED marketVars
  BY <1>4 DEF marketVars, detector, FlagsFollowGaps
<1> QED
  BY <1>1, <1>2, <1>3, <1>4 DEF MarketNext

\* However recoveries overlap, the detector is desynchronised exactly while a gap
\* is active, and the engine's health says so too.
THEOREM FlagsFollow == MarketSpec => []FlagsFollowGaps
<1>1. MarketInit => FlagsFollowGaps
  BY DEF MarketInit, FlagsFollowGaps
<1> QED
  BY <1>1, FlagsStep, PTL DEF MarketSpec

-----------------------------------------------------------------------------
(* Nothing is lost in silence.  A recovery ends with what it knew when it  *)
(* fetched; JobsKnow says that this stays true: what it does not call      *)
(* missing is stored for good.                                             *)

JobKnows(j) ==
    /\ j.have \subseteq stored
    /\ j.at \in {"feeding", "done"} => Ids(j) \ j.missing \subseteq stored

JobsKnow == \A j \in jobs : JobKnows(j)

LossInv == MarketTypeOK /\ JobsKnow /\ NothingSilentlyLost

\* What is stored stays stored, so what a recovery knew it still knows.
LEMMA KnowledgeStays ==
    ASSUME JobsKnow, stored \subseteq stored', NEW js, jobs' \subseteq jobs \cup js,
           \A k \in js : JobKnows(k)'
    PROVE  JobsKnow'
BY DEF JobsKnow, JobKnows, Ids

\* A trade that is delivered: the ids before it are in the gap it reveals, or
\* were given up with it.
LEMMA DeliverLoss ==
    ASSUME LossInv, NEW t \in Trades, Deliver(t)
    PROVE  JobsKnow' /\ NothingSilentlyLost'
<1>1. JobsKnow'
  <2> DEFINE new == {Recovery(g, t) : g \in Scheduled(t)}
  <2>1. stored \subseteq stored' /\ jobs' = jobs \cup new
    BY DEF Deliver
  <2>2. \A k \in new : k.have = {} /\ k.at = "queued"
    BY DEF Recovery
  <2>3. \A k \in new : JobKnows(k)'
    BY <2>2 DEF JobKnows
  <2> HIDE DEF new
  <2> QED
    BY <2>1, <2>3, KnowledgeStays DEF LossInv
<1>2. NothingSilentlyLost'
  <2>1. stored' = stored \cup {t} /\ Detect(t)
    BY DEF Deliver
  <2>2. lastId \in Nat /\ since \in Nat /\ t \in Nat /\ t > 0
    BY TradesAssumption DEF LossInv, MarketTypeOK, Trades
  <2>3. lastId' = Later(lastId, t) /\ since' = (IF GapStatus(t) = "FIRST" THEN t ELSE since)
    BY <2>1 DEF Detect
  <2>4. CASE lastId = 0
    <3>1. GapStatus(t) = "FIRST" /\ lastId' = t /\ since' = t
      BY <2>2, <2>3, <2>4 DEF GapStatus, Later
    <3>2. t .. t = {t}
      BY <2>2
    <3> QED
      BY <2>1, <3>1, <3>2 DEF NothingSilentlyLost
  <2>5. CASE lastId # 0
    <3>1. since' = since /\ abandoned \subseteq abandoned' /\ gaps \subseteq gaps' /\ stored \subseteq stored'
      BY <2>1, <2>2, <2>3, <2>5 DEF GapStatus, Detect
    <3>2. ASSUME NEW u \in since .. lastId
          PROVE  u \in stored' \cup abandoned' \/ \E g \in gaps' : u \in Ids(g)
      BY <2>2, <2>5, <3>1, <3>2 DEF LossInv, NothingSilentlyLost
    <3>3. ASSUME NEW u \in (lastId + 1) .. (t - 1), t > lastId + 1
          PROVE  u \in abandoned' \/ \E g \in gaps' : u \in Ids(g)
      <4>1. GapStatus(t) = "GAP"
        BY <2>2, <2>5, <3>3 DEF GapStatus
      <4>2. u \in Ids(Missed(t))
        BY DEF Ids, Missed
      <4>3. Ids(Missed(t)) \subseteq abandoned' \/ Missed(t) \in gaps'
        BY <2>1, <4>1 DEF Detect
      <4> QED
        BY <4>2, <4>3
    <3>4. t \in stored'
      BY <2>1
    <3>5. ASSUME NEW u \in since .. lastId'
          PROVE  \/ u \in since .. lastId
                 \/ u = t
                 \/ t > lastId + 1 /\ u \in (lastId + 1) .. (t - 1)
      BY <2>2, <2>3, <3>5 DEF Later
    <3> QED
      BY <3>1, <3>2, <3>3, <3>4, <3>5 DEF NothingSilentlyLost
  <2> QED
    BY <2>4, <2>5
<1> QED
  BY <1>1, <1>2

\* A recovery that ends: what leaves the gap is stored or given up.
LEMMA RecoverLoss ==
    ASSUME LossInv, NEW j \in jobs, Recover(j)
    PROVE  JobsKnow' /\ NothingSilentlyLost'
<1>1. j \in Job /\ JobKnows(j)
  BY DEF LossInv, MarketTypeOK, JobsKnow
<1>2. ASSUME NEW k, Moves(j, k), stored \subseteq stored', JobKnows(k)'
      PROVE  JobsKnow'
  <2>1. jobs' \subseteq jobs \cup {k}
    BY <1>2 DEF Moves
  <2>2. \A i \in jobs : JobKnows(i)'
    BY <1>2 DEF LossInv, JobsKnow, JobKnows, Ids
  <2> QED
    BY <1>2, <2>1, <2>2 DEF JobsKnow
<1>3. ASSUME UNCHANGED <<lastId, since>>, stored \subseteq stored', abandoned \subseteq abandoned',
             \A g \in gaps : \A t \in Ids(g) :
                t \in stored' \cup abandoned' \/ \E h \in gaps' : t \in Ids(h)
      PROVE  NothingSilentlyLost'
  BY <1>3 DEF LossInv, NothingSilentlyLost
<1>4. CASE Begin(j)
  <2>1. PICK k : k = [j EXCEPT !.at = "fetching", !.have = stored \cap Ids(j)]
    OBVIOUS
  <2>2. k.at = "fetching" /\ k.have \subseteq stored
    BY <1>1, <2>1 DEF Job
  <2>3. Moves(j, k) /\ UNCHANGED <<detector, durable>>
    BY <1>4, <2>1 DEF Begin
  <2>4. stored \subseteq stored' /\ JobKnows(k)'
    BY <2>2, <2>3 DEF JobKnows, durable
  <2>5. JobsKnow'
    BY <1>2, <2>3, <2>4
  <2> QED
    BY <1>3, <2>3, <2>5 DEF detector, durable
<1>5. CASE Fetch(j)
  <2>1. PICK got \in SUBSET Ids(j) :
           /\ stored' = stored \cup got
           /\ Moves(j, [j EXCEPT !.at = "feeding", !.left = got, !.missing = Lacking(j, got)])
    BY <1>5 DEF Fetch
  <2>2. PICK k : k = [j EXCEPT !.at = "feeding", !.left = got, !.missing = Lacking(j, got)]
    OBVIOUS
  <2>3. /\ k.have = j.have /\ k.missing = Lacking(j, got)
        /\ k.from = j.from /\ k.to = j.to
    BY <1>1, <2>2 DEF Job
  <2>4. Ids(k) = Ids(j)
    BY <2>3 DEF Ids
  <2>5. Ids(k) \ k.missing \subseteq stored'
    BY <1>1, <2>1, <2>3, <2>4 DEF Lacking, JobKnows
  <2>6. JobKnows(k)'
    BY <1>1, <2>1, <2>3, <2>5 DEF JobKnows, Ids
  <2>7. Moves(j, k) /\ stored \subseteq stored'
    BY <2>1, <2>2
  <2>8. JobsKnow'
    BY <1>2, <2>6, <2>7
  <2> QED
    BY <1>3, <1>5, <2>1, <2>8 DEF Fetch, detector
<1>6. CASE Feed(j)
  <2>1. PICK t \in j.left : Moves(j, [j EXCEPT !.left = @ \ {t}])
    BY <1>6 DEF Feed
  <2>2. PICK k : k = [j EXCEPT !.left = @ \ {t}]
    OBVIOUS
  <2>3. /\ k.have = j.have /\ k.missing = j.missing /\ k.at = j.at
        /\ k.from = j.from /\ k.to = j.to
    BY <1>1, <2>2 DEF Job
  <2>4. UNCHANGED <<detector, durable>>
    BY <1>6 DEF Feed
  <2>5. JobKnows(k)'
    BY <1>1, <2>3, <2>4 DEF JobKnows, Ids, durable
  <2>6. Moves(j, k) /\ stored \subseteq stored'
    BY <2>1, <2>4, <2>2 DEF durable
  <2>7. JobsKnow'
    BY <1>2, <2>5, <2>6
  <2> QED
    BY <1>3, <2>4, <2>7 DEF detector, durable
<1>7. ASSUME Over(j)
      PROVE  JobsKnow' /\ UNCHANGED <<lastId, since, stored>> /\ Ids(j) \ j.missing \subseteq stored'
  <2> DEFINE k == [j EXCEPT !.at = "done"]
  <2>1. /\ k.have = j.have /\ k.missing = j.missing /\ k.from = j.from /\ k.to = j.to
    BY <1>1 DEF Job
  <2>2. Moves(j, k) /\ stored' = stored /\ UNCHANGED <<lastId, since>> /\ j.at = "feeding"
    BY <1>7 DEF Over
  <2>3. JobKnows(k)'
    BY <1>1, <2>1, <2>2 DEF JobKnows, Ids
  <2> HIDE DEF k
  <2>4. JobsKnow'
    BY <1>2, <2>2, <2>3
  <2> QED
    BY <1>1, <2>2, <2>4 DEF JobKnows
<1>8. \A g \in Its(j) : Ids(g) = Ids(j)
  BY DEF Its, Key, Ids
<1>9. CASE Recovered(j)
  <2>1. Over(j) /\ j.missing = {} /\ gaps' = gaps \ Its(j) /\ abandoned' = abandoned
    BY <1>9 DEF Recovered
  <2>2. Ids(j) \subseteq stored'
    BY <1>7, <2>1
  <2>3. \A g \in gaps : g \in gaps' \/ Ids(g) = Ids(j)
    BY <1>8, <2>1
  <2> QED
    BY <1>3, <1>7, <2>1, <2>2, <2>3
<1>10. CASE Abandoned(j)
  <2>1. Over(j) /\ gaps' = gaps \ Its(j) /\ abandoned' = abandoned \cup Ids(j)
    BY <1>10 DEF Abandoned
  <2>2. \A g \in gaps : g \in gaps' \/ Ids(g) = Ids(j)
    BY <1>8, <2>1
  <2> QED
    BY <1>3, <1>7, <2>1, <2>2
<1>11. CASE Narrowed(j)
  <2>1. Over(j) /\ abandoned' = abandoned
    BY <1>11 DEF Narrowed
  <2>2. PICK lo, hi \in j.missing :
           /\ \A t \in j.missing : lo <= t /\ t <= hi
           /\ gaps' = (gaps \ Its(j)) \cup
                        {[from |-> lo, to |-> hi, tries |-> g.tries + 1] : g \in Its(j)}
    BY <1>11 DEF Narrowed
  <2>3. \A t \in j.missing : t \in lo .. hi
    <3>1. j.missing \subseteq Int
      BY <1>1 DEF Job, Trades
    <3> QED
      BY <2>2, <3>1
  <2>4. ASSUME NEW g \in gaps, NEW t \in Ids(g)
        PROVE  t \in stored' \cup abandoned' \/ \E h \in gaps' : t \in Ids(h)
    <3>1. CASE g \notin Its(j)
      BY <2>2, <2>4, <3>1
    <3>2. CASE g \in Its(j) /\ t \in j.missing
      <4> DEFINE h == [from |-> lo, to |-> hi, tries |-> g.tries + 1]
      <4>1. h \in gaps'
        BY <2>2, <3>2
      <4>2. t \in Ids(h)
        BY <2>3, <3>2 DEF Ids
      <4> QED
        BY <4>1, <4>2
    <3>3. CASE g \in Its(j) /\ t \notin j.missing
      BY <1>7, <1>8, <2>1, <2>4, <3>3
    <3> QED
      BY <3>1, <3>2, <3>3
  <2> QED
    BY <1>3, <1>7, <2>1, <2>4
<1>12. CASE Return(j)
  <2>1. jobs' \subseteq jobs /\ UNCHANGED <<detector, durable>>
    BY <1>12 DEF Return
  <2>2. JobsKnow'
    BY <2>1 DEF LossInv, JobsKnow, JobKnows, Ids, durable
  <2> QED
    BY <1>3, <2>1, <2>2 DEF detector, durable
<1> QED
  BY <1>4, <1>5, <1>6, <1>9, <1>10, <1>11, <1>12 DEF Recover

LEMMA LossStep == LossInv /\ [MarketNext]_marketVars => LossInv'
<1> SUFFICES ASSUME LossInv, [MarketNext]_marketVars PROVE LossInv'
  OBVIOUS
<1>1. MarketTypeOK'
  BY NextTypes DEF LossInv
<1>2. CASE \E t \in Trades : Deliver(t)
  BY <1>1, <1>2, DeliverLoss DEF LossInv
<1>3. CASE \E j \in jobs : Recover(j)
  BY <1>1, <1>3, RecoverLoss DEF LossInv
<1>4. CASE Restart
  <2>1. jobs' = {} /\ (lastId' = 0 \/ since' = lastId' + 1)
    BY <1>4 DEF Restart
  <2>2. lastId' \in Int
    BY <1>1 DEF MarketTypeOK
  <2>3. lastId' > 0 => since' .. lastId' = {}
    BY <2>1, <2>2
  <2>4. JobsKnow' /\ NothingSilentlyLost'
    BY <2>1, <2>3 DEF JobsKnow, NothingSilentlyLost
  <2> QED
    BY <1>1, <2>4 DEF LossInv
<1>5. CASE UNCHANGED marketVars
  BY <1>1, <1>5 DEF LossInv, marketVars, detector, durable, JobsKnow, JobKnows, NothingSilentlyLost, Ids
<1> QED
  BY <1>2, <1>3, <1>4, <1>5 DEF MarketNext

\* Every trade the detector answers for is stored, in an active gap, or given up by
\* name: whatever the pages bring, however recoveries overlap, and across restarts.
THEOREM NothingLost == MarketSpec => []NothingSilentlyLost
<1>1. MarketInit => LossInv
  BY InitTypes DEF MarketInit, LossInv, JobsKnow, NothingSilentlyLost
<1>2. LossInv => NothingSilentlyLost
  BY DEF LossInv
<1> QED
  BY <1>1, <1>2, LossStep, PTL DEF MarketSpec

-----------------------------------------------------------------------------
(* Bars.  A minute belongs to the bar that its quotient names; the lemmas  *)
(* about quotients say all that is used of the division.                   *)

LEMMA DivFacts ==
    ASSUME NEW a \in Int, NEW n \in Nat \ {0}
    PROVE  /\ a \div n \in Int /\ a % n \in 0 .. n - 1
           /\ a = n * (a \div n) + (a % n)
<1>1. a \div n \in Int /\ a % n \in 0 .. n - 1
  OBVIOUS
<1>2. a = n * (a \div n) + (a % n)
  OBVIOUS
<1> QED
  BY <1>1, <1>2

\* A later minute is in no earlier bar.
LEMMA DivMono ==
    ASSUME NEW a \in Int, NEW b \in Int, NEW n \in Nat \ {0}, a <= b
    PROVE  a \div n <= b \div n
<1> DEFINE p == a \div n
           q == b \div n
           x == n * p
           y == n * q
           r == a % n
           s == b % n
<1>1. p \in Int /\ q \in Int /\ x \in Int /\ y \in Int /\ r \in 0 .. n - 1 /\ s \in 0 .. n - 1
  BY DivFacts
<1>2. a = x + r /\ b = y + s
  BY DivFacts
<1> HIDE DEF p, q, r, s
<1>3. q < p => x >= y + n
  <2>1. q < p => n * p >= n * (q + 1) /\ n * (q + 1) = n * q + n
    BY <1>1
  <2> QED
    BY <1>1, <2>1
<1> HIDE DEF x, y
<1>4. ~(x >= y + n)
  BY <1>1, <1>2
<1>5. ~(q < p)
  BY <1>3, <1>4
<1>6. p <= q
  BY <1>1, <1>5
<1> QED
  BY <1>6 DEF p, q

\* A minute behind the last, or in front of the first, of a bar is in another one.
LEMMA BoundaryDivides ==
    ASSUME NEW a \in Int, NEW b \in Int, NEW n \in Nat \ {0}, a < b, a % n = n - 1 \/ b % n = 0
    PROVE  a \div n < b \div n
<1> DEFINE p == a \div n
           q == b \div n
           x == n * p
           y == n * q
           r == a % n
           s == b % n
<1>1. p \in Int /\ q \in Int /\ x \in Int /\ y \in Int /\ r \in 0 .. n - 1 /\ s \in 0 .. n - 1
  BY DivFacts
<1>2. a = x + r /\ b = y + s /\ (r = n - 1 \/ s = 0)
  BY DivFacts
<1> HIDE DEF p, q, r, s
<1>3. q <= p => x >= y
  BY <1>1
<1> HIDE DEF x, y
<1>4. ~(x >= y)
  BY <1>1, <1>2
<1>5. ~(q <= p)
  BY <1>3, <1>4
<1>6. p < q
  BY <1>1, <1>5
<1> QED
  BY <1>6 DEF p, q

\* The bars of minutes, in the model's terms.
LEMMA BarOrder ==
    ASSUME NEW m \in Int, NEW k \in Int
    PROVE  /\ BarOf(m) \in Int /\ BarOf(k) \in Int
           /\ m <= k => BarOf(m) <= BarOf(k)
           /\ m < k /\ (m % BarMinutes = BarMinutes - 1 \/ k % BarMinutes = 0) => BarOf(m) < BarOf(k)
<1>1. BarMinutes \in Nat \ {0}
  BY BarsAssumption
<1>2. BarOf(m) \in Int /\ BarOf(k) \in Int
  BY <1>1, DivFacts DEF BarOf
<1>3. ASSUME m <= k PROVE BarOf(m) <= BarOf(k)
  BY <1>1, <1>3, DivMono DEF BarOf
<1>4. ASSUME m < k, m % BarMinutes = BarMinutes - 1 \/ k % BarMinutes = 0
      PROVE  BarOf(m) < BarOf(k)
  BY <1>1, <1>4, BoundaryDivides DEF BarOf
<1> QED
  BY <1>2, <1>3, <1>4

\* Trades are executed in the order of their ids.
LEMMA MinuteOrder ==
    ASSUME NEW t \in Trades, NEW u \in Trades
    PROVE  /\ t \in Nat /\ u \in Nat /\ t > 0 /\ Minute[t] \in Nat /\ Minute[u] \in Nat
           /\ t <= u => Minute[t] <= Minute[u]
           /\ Minute[t] < Minute[u] => t < u
<1>1. t \in Nat /\ u \in Nat /\ t > 0
  BY TradesAssumption DEF Trades
<1>2. Minute[t] \in Nat /\ Minute[u] \in Nat
  BY TradesAssumption
<1>3. t <= u => Minute[t] <= Minute[u]
  BY TradesAssumption
<1>4. u <= t => Minute[u] <= Minute[t]
  BY TradesAssumption
<1> QED
  BY <1>1, <1>2, <1>3, <1>4

-----------------------------------------------------------------------------
(* The minute builder keeps up with the detector.  Before the first trade  *)
(* of a process there is nothing; from it on the minute under way is that  *)
(* of the newest trade, and what is missing, or is being fed from a        *)
(* recovery, is older.  So only a delivered trade closes a minute.         *)

InTouch ==
    /\ lastId <= stream /\ mark <= stream
    /\ base = 0 => minute = NoMinute /\ bar = NoBar /\ partial /\ jobs = {}
    /\ base # 0 => lastId \in Trades /\ minute.open = Minute[lastId]

OldRange(j) == j.to <= lastId /\ j.left \subseteq Ids(j) /\ j.missing \subseteq Ids(j)

OldRanges ==
    /\ \A g \in gaps : g.to <= lastId
    /\ \A j \in jobs : OldRange(j)

TouchInv == MarketTypeOK /\ InTouch /\ OldRanges

\* What the builder and the detector make of a delivered trade.
LEMMA DeliverMinute ==
    ASSUME TouchInv, NEW t \in Trades, Deliver(t)
    PROVE  /\ lastId \in Nat /\ lastId' \in Trades /\ lastId <= lastId' /\ t <= lastId'
           /\ base' # 0 /\ minute'.open = Minute[lastId']
           /\ base = 0 => lastId' = t /\ stream < t
           /\ lastId < t => lastId' = t
           /\ t <= lastId => lastId' = lastId
           /\ Crosses(t) => /\ base # 0 /\ lastId < t /\ minute.open < Minute[t]
                            /\ minute' = [open |-> Minute[t], got |-> {t}]
           /\ base # 0 /\ ~Crosses(t) => /\ minute'.open = minute.open /\ minute.got \subseteq minute'.got
                                         /\ Minute[t] = minute.open => t \in minute'.got
<1>1. /\ lastId \in 0 .. Newest /\ Newest \in Nat /\ stream \in Nat /\ base \in Nat
      /\ t \in 1 .. Newest /\ Minute[t] \in Nat
      /\ minute \in [open : Int, got : SUBSET Trades]
  BY TradesAssumption DEF TouchInv, MarketTypeOK, Trades
<1>2. lastId' = Later(lastId, t) /\ AddTrade(t) /\ base' = (IF base = 0 THEN t ELSE base)
      /\ (t > stream \/ base # 0)
  BY DEF Deliver, Detect
<1>3. /\ lastId' \in Trades /\ lastId <= lastId' /\ t <= lastId' /\ base' # 0
      /\ lastId < t => lastId' = t
      /\ t <= lastId => lastId' = lastId
  BY <1>1, <1>2 DEF Later, Trades
<1>4. lastId <= stream
  BY DEF TouchInv, InTouch
<1>5. CASE base = 0
  <2>1. minute.open = -1 /\ ~Crosses(t)
    BY <1>5 DEF TouchInv, InTouch, NoMinute, Crosses
  <2>2. minute' = [open |-> Minute[t], got |-> {t}]
    BY <1>2, <2>1 DEF AddTrade
  <2>3. stream < t /\ lastId < t
    BY <1>1, <1>2, <1>4, <1>5
  <2> QED
    BY <1>1, <1>3, <1>5, <2>1, <2>2, <2>3
<1>6. CASE base # 0
  <2>1. lastId \in Trades /\ minute.open = Minute[lastId] /\ Minute[lastId] \in Nat
    BY <1>6, MinuteOrder DEF TouchInv, InTouch
  <2>2. CASE Crosses(t)
    <3>1. minute' = [open |-> Minute[t], got |-> {t}] /\ minute.open < Minute[t]
      BY <1>1, <1>2, <2>1, <2>2 DEF AddTrade, Crosses
    <3>2. lastId < t
      BY <2>1, <3>1, MinuteOrder
    <3> QED
      BY <1>1, <1>3, <1>6, <2>2, <3>1, <3>2
  <2>3. CASE ~Crosses(t)
    <3>1. Minute[t] <= minute.open /\ minute.open # -1
      BY <1>1, <2>1, <2>3 DEF Crosses
    <3>2. minute' = IF Minute[t] = minute.open THEN [minute EXCEPT !.got = @ \cup {t}] ELSE minute
      BY <1>2, <2>3, <3>1 DEF AddTrade
    <3>3. /\ minute'.open = minute.open /\ minute.got \subseteq minute'.got
          /\ Minute[t] = minute.open => t \in minute'.got
      BY <1>1, <3>2
    <3>4. lastId < t => Minute[t] = minute.open
      BY <1>1, <2>1, <3>1, MinuteOrder
    <3>5. minute'.open = Minute[lastId']
      BY <1>1, <1>3, <2>1, <3>3, <3>4
    <3> QED
      BY <1>1, <1>3, <1>6, <2>3, <3>3, <3>5
  <2> QED
    BY <2>2, <2>3
<1> QED
  BY <1>5, <1>6

\* A recovery never moves the minute: what it feeds is not newer than the newest.
LEMMA RecoverMinute ==
    ASSUME TouchInv, NEW j \in jobs, Recover(j)
    PROVE  /\ base # 0 /\ UNCHANGED <<stream, base, lastId, candles, mark, reported>>
           /\ minute'.open = minute.open /\ minute.got \subseteq minute'.got
<1>1. base # 0 /\ j \in Job /\ OldRange(j) /\ minute \in [open : Int, got : SUBSET Trades]
  BY DEF TouchInv, InTouch, OldRanges, MarketTypeOK
<1>2. UNCHANGED <<stream, base, lastId, candles, mark, reported>>
  <2>1. CASE Recovered(j) \/ Abandoned(j) \/ Narrowed(j)
    BY <2>1 DEF Recovered, Abandoned, Narrowed, Over
  <2>2. CASE Begin(j) \/ Fetch(j) \/ Feed(j) \/ Return(j)
    BY <2>2 DEF Begin, Fetch, Feed, Return, detector, durable
  <2> QED
    BY <2>1, <2>2 DEF Recover
<1>3. CASE Feed(j)
  <2>1. PICK t \in j.left : AddTrade(t)
    BY <1>3 DEF Feed
  <2>2. lastId \in Trades /\ minute.open = Minute[lastId] /\ t \in Trades /\ t \in Ids(j) /\ j.to <= lastId
    BY <1>1, <2>1 DEF TouchInv, InTouch, Job, OldRange
  <2>3. t <= lastId
    BY <1>1, <2>2 DEF Ids, Job, Trades
  <2>4. Minute[t] <= minute.open /\ Minute[t] \in Nat /\ minute.open \in Nat
    BY <2>2, <2>3, MinuteOrder
  <2>5. minute' = IF Minute[t] = minute.open THEN [minute EXCEPT !.got = @ \cup {t}] ELSE minute
    BY <2>1, <2>4 DEF AddTrade, Crosses
  <2> QED
    BY <1>1, <1>2, <2>5
<1>4. CASE ~Feed(j)
  <2>1. minute' = minute
    BY <1>4 DEF Recover, Begin, Fetch, Recovered, Abandoned, Narrowed, Over, Return
  <2> QED
    BY <1>1, <1>2, <2>1
<1> QED
  BY <1>3, <1>4

LEMMA DeliverTouch ==
    ASSUME TouchInv, NEW t \in Trades, Deliver(t)
    PROVE  InTouch' /\ OldRanges'
<1>1. /\ lastId \in Nat /\ lastId' \in Trades /\ lastId <= lastId' /\ t <= lastId'
      /\ base' # 0 /\ minute'.open = Minute[lastId'] /\ t \in Nat /\ stream \in Nat
  BY DeliverMinute, MinuteOrder DEF TouchInv, MarketTypeOK
<1>2. InTouch'
  <2>1. lastId <= stream /\ lastId' = Later(lastId, t) /\ stream' = Later(stream, t)
    BY DEF TouchInv, InTouch, Deliver, Detect
  <2>2. mark <= stream /\ mark \in Nat /\ (mark' = mark \/ mark' = lastId')
    BY DEF TouchInv, InTouch, MarketTypeOK, Deliver, CloseMinute
  <2>3. lastId' <= stream' /\ stream <= stream'
    BY <1>1, <2>1 DEF Later
  <2>4. stream' \in Nat
    BY <1>1, <2>1 DEF Later
  <2>5. mark' <= stream'
    BY <1>1, <2>2, <2>3, <2>4
  <2> QED
    BY <1>1, <2>3, <2>5 DEF InTouch
<1>3. \A g \in gaps' : g.to \in Int /\ g.to <= lastId'
  <2>1. gaps' \subseteq gaps \cup {Missed(t)}
    BY DEF Deliver, Detect
  <2>2. Missed(t).to = t - 1
    BY DEF Missed
  <2>3. \A g \in gaps : g.to \in Int /\ g.to <= lastId
    BY DEF TouchInv, OldRanges, MarketTypeOK, Gap, Trades
  <2>4. lastId' \in Int
    BY <1>1 DEF Trades
  <2> QED
    BY <1>1, <2>1, <2>2, <2>3, <2>4
<1>4. ASSUME NEW j \in jobs' PROVE OldRange(j)'
  <2>1. CASE j \in jobs
    <3>1. OldRange(j) /\ j.to \in Int /\ lastId' \in Int
      BY <1>1, <2>1 DEF TouchInv, OldRanges, MarketTypeOK, Job, Trades
    <3> QED
      BY <1>1, <3>1 DEF OldRange, Ids
  <2>2. CASE j \notin jobs
    <3>1. PICK g \in gaps' : j = Recovery(g, t)
      BY <1>4, <2>2 DEF Deliver, Scheduled
    <3>2. j.to = g.to /\ j.left = {} /\ j.missing = {}
      BY <3>1 DEF Recovery
    <3> QED
      BY <1>3, <3>1, <3>2 DEF OldRange
  <2> QED
    BY <2>1, <2>2
<1> QED
  BY <1>2, <1>3, <1>4 DEF OldRanges

LEMMA RecoverTouch ==
    ASSUME TouchInv, NEW j \in jobs, Recover(j)
    PROVE  InTouch' /\ OldRanges'
<1>1. /\ base # 0 /\ UNCHANGED <<stream, base, lastId, candles, mark, reported>>
      /\ minute'.open = minute.open
  BY RecoverMinute
<1>2. InTouch'
  BY <1>1 DEF TouchInv, InTouch
<1>3. j \in Job /\ OldRange(j)
  BY DEF TouchInv, OldRanges, MarketTypeOK
<1>4. ASSUME NEW k, Moves(j, k), k.to = j.to, k.from = j.from,
             k.left \subseteq Ids(j), k.missing \subseteq Ids(j)
      PROVE  \A i \in jobs' : OldRange(i)'
  <2>1. jobs' \subseteq jobs \cup {k}
    BY <1>4 DEF Moves
  <2>2. OldRange(k)'
    BY <1>1, <1>3, <1>4 DEF OldRange, Ids
  <2>3. \A i \in jobs : OldRange(i)'
    BY <1>1 DEF TouchInv, OldRanges, OldRange, Ids
  <2> QED
    BY <2>1, <2>2, <2>3
<1>5. CASE Begin(j)
  <2>1. PICK k : k = [j EXCEPT !.at = "fetching", !.have = stored \cap Ids(j)]
    OBVIOUS
  <2>2. k.to = j.to /\ k.from = j.from /\ k.left = j.left /\ k.missing = j.missing
    BY <1>3, <2>1 DEF Job
  <2>3. Moves(j, k) /\ gaps' = gaps
    BY <1>5, <2>1 DEF Begin, detector
  <2>4. \A i \in jobs' : OldRange(i)'
    BY <1>3, <1>4, <2>2, <2>3 DEF OldRange
  <2> QED
    BY <1>1, <1>2, <2>3, <2>4 DEF TouchInv, OldRanges
<1>6. CASE Fetch(j)
  <2>1. PICK got \in SUBSET Ids(j) :
           Moves(j, [j EXCEPT !.at = "feeding", !.left = got, !.missing = Lacking(j, got)])
    BY <1>6 DEF Fetch
  <2>2. PICK k : k = [j EXCEPT !.at = "feeding", !.left = got, !.missing = Lacking(j, got)]
    OBVIOUS
  <2>3. k.to = j.to /\ k.from = j.from /\ k.left = got /\ k.missing = Lacking(j, got)
    BY <1>3, <2>2 DEF Job
  <2>4. Moves(j, k) /\ gaps' = gaps
    BY <1>6, <2>1, <2>2 DEF Fetch, detector
  <2>5. \A i \in jobs' : OldRange(i)'
    BY <1>4, <2>3, <2>4 DEF Lacking
  <2> QED
    BY <1>1, <1>2, <2>4, <2>5 DEF TouchInv, OldRanges
<1>7. CASE Feed(j)
  <2>1. PICK t \in j.left : Moves(j, [j EXCEPT !.left = @ \ {t}])
    BY <1>7 DEF Feed
  <2>2. PICK k : k = [j EXCEPT !.left = @ \ {t}]
    OBVIOUS
  <2>3. k.to = j.to /\ k.from = j.from /\ k.left \subseteq j.left /\ k.missing = j.missing
    BY <1>3, <2>2 DEF Job
  <2>4. Moves(j, k) /\ gaps' = gaps
    BY <1>7, <2>1, <2>2 DEF Feed, detector
  <2>5. \A i \in jobs' : OldRange(i)'
    BY <1>3, <1>4, <2>3, <2>4 DEF OldRange
  <2> QED
    BY <1>1, <1>2, <2>4, <2>5 DEF TouchInv, OldRanges
<1>8. ASSUME Over(j), \A g \in gaps' : g \in gaps \/ g.to \in Ids(j)
      PROVE  OldRanges'
  <2>1. PICK k : k = [j EXCEPT !.at = "done"]
    OBVIOUS
  <2>2. k.to = j.to /\ k.from = j.from /\ k.left = j.left /\ k.missing = j.missing
    BY <1>3, <2>1 DEF Job
  <2>3. Moves(j, k)
    BY <1>8, <2>1 DEF Over
  <2>4. \A i \in jobs' : OldRange(i)'
    BY <1>3, <1>4, <2>2, <2>3 DEF OldRange
  <2>5. \A g \in gaps : g.to <= lastId
    BY DEF TouchInv, OldRanges
  <2>6. \A i \in Ids(j) : i <= lastId
    <3>1. lastId \in Int /\ j.from \in Int /\ j.to \in Int /\ j.to <= lastId
      BY <1>3 DEF TouchInv, MarketTypeOK, Job, Trades, OldRange
    <3> QED
      BY <3>1 DEF Ids
  <2> QED
    BY <1>1, <1>8, <2>4, <2>5, <2>6 DEF OldRanges
<1>9. CASE Recovered(j) \/ Abandoned(j)
  BY <1>2, <1>8, <1>9 DEF Recovered, Abandoned
<1>10. CASE Narrowed(j)
  <2>1. PICK lo, hi \in j.missing :
           gaps' = (gaps \ Its(j)) \cup
                     {[from |-> lo, to |-> hi, tries |-> g.tries + 1] : g \in Its(j)}
    BY <1>10 DEF Narrowed
  <2>2. hi \in Ids(j) /\ Over(j)
    BY <1>3, <1>10 DEF OldRange, Narrowed
  <2>3. \A g \in gaps' : g \in gaps \/ g.to = hi
    BY <2>1
  <2> QED
    BY <1>2, <1>8, <2>2, <2>3
<1>11. CASE Return(j)
  BY <1>1, <1>2, <1>11 DEF Return, detector, TouchInv, OldRanges, OldRange, Ids
<1> QED
  BY <1>5, <1>6, <1>7, <1>9, <1>10, <1>11 DEF Recover

LEMMA TouchStep == TouchInv /\ [MarketNext]_marketVars => TouchInv'
<1> SUFFICES ASSUME TouchInv, [MarketNext]_marketVars PROVE TouchInv'
  OBVIOUS
<1>1. MarketTypeOK'
  BY NextTypes DEF TouchInv
<1>2. CASE \E t \in Trades : Deliver(t)
  BY <1>1, <1>2, DeliverTouch DEF TouchInv
<1>3. CASE \E j \in jobs : Recover(j)
  BY <1>1, <1>3, RecoverTouch DEF TouchInv
<1>4. CASE Restart
  <2>1. /\ lastId \in Nat /\ stream \in Nat /\ mark \in Nat /\ lastId <= stream /\ mark <= stream
    BY DEF TouchInv, MarketTypeOK, InTouch
  <2>2. base' = 0 /\ minute' = NoMinute /\ bar' = NoBar /\ partial' = TRUE /\ jobs' = {} /\ gaps' = {}
        /\ stream' = stream /\ mark' \in {mark, lastId} /\ lastId' \in {0, mark'}
    BY <1>4 DEF Restart
  <2> QED
    BY <1>1, <2>1, <2>2 DEF TouchInv, InTouch, OldRanges
<1>5. CASE UNCHANGED marketVars
  BY <1>1, <1>5 DEF marketVars, detector, candles, durable, TouchInv, InTouch, OldRanges, OldRange, Ids
<1> QED
  BY <1>2, <1>3, <1>4, <1>5 DEF MarketNext

-----------------------------------------------------------------------------
(* What a bar lacks was reported.  A minute that was seen from its start   *)
(* has every trade of it up to the newest, or its gap was reported; a bar  *)
(* that is whole so far has every trade of its closed minutes.             *)

MinuteTold ==
    ~partial => \A u \in Trades :
        Minute[u] = minute.open /\ u <= lastId => u \in minute.got \cup reported

BarTold ==
    bar.whole => \A u \in Trades :
        BarOf(Minute[u]) = bar.open /\ Minute[u] < minute.open => u \in bar.got \cup reported

MissingInv == TouchInv /\ MinuteTold /\ BarTold /\ MissingWasReported

\* A trade that was skipped is in the report of the gap.
LEMMA SkippedIsReported ==
    ASSUME TouchInv, NEW t \in Trades, Deliver(t), base # 0
    PROVE  /\ reported \subseteq reported'
           /\ \A u \in Trades : lastId < u /\ u < t => u \in reported'
<1>1. Detect(t) /\ lastId \in Trades /\ lastId # 0 /\ t \in Int /\ lastId \in Int
  BY MinuteOrder DEF Deliver, TouchInv, InTouch
<1>2. reported \subseteq reported'
  BY <1>1 DEF Detect
<1>3. ASSUME NEW u \in Trades, lastId < u, u < t
      PROVE  u \in reported'
  <2>1. u \in Int
    BY MinuteOrder
  <2>2. GapStatus(t) = "GAP"
    BY <1>1, <1>3, <2>1 DEF GapStatus
  <2>3. u \in Ids(Missed(t))
    BY <1>1, <1>3, <2>1 DEF Ids, Missed
  <2> QED
    BY <1>1, <2>2, <2>3 DEF Detect
<1> QED
  BY <1>2, <1>3

\* When a trade closes the minute, every trade of the minute, if it was seen from
\* its start, is in it or reported, and so is every one of the minutes skipped.
LEMMA ClosedMinuteTold ==
    ASSUME MissingInv, NEW t \in Trades, Deliver(t), Crosses(t)
    PROVE  /\ Whole => \A u \in Trades : Minute[u] = minute.open => u \in minute.got \cup reported'
           /\ \A u \in Trades : minute.open < Minute[u] /\ Minute[u] < Minute[t] => u \in reported'
<1>1. base # 0 /\ lastId < t /\ minute.open < Minute[t] /\ lastId \in Trades /\ minute.open = Minute[lastId]
  BY DeliverMinute DEF MissingInv, TouchInv, InTouch
<1>2. reported \subseteq reported' /\ \A u \in Trades : lastId < u /\ u < t => u \in reported'
  BY <1>1, SkippedIsReported DEF MissingInv
<1>3. ASSUME Whole, NEW u \in Trades, Minute[u] = minute.open
      PROVE  u \in minute.got \cup reported'
  <2>1. u < t
    BY <1>1, <1>3, MinuteOrder
  <2>2. CASE u <= lastId
    BY <1>2, <1>3, <2>2 DEF MissingInv, MinuteTold, Whole
  <2>3. CASE ~(u <= lastId)
    <3>1. lastId < u
      BY <1>1, <2>3, MinuteOrder
    <3> QED
      BY <1>2, <2>1, <3>1
  <2> QED
    BY <2>2, <2>3
<1>4. ASSUME NEW u \in Trades, minute.open < Minute[u], Minute[u] < Minute[t]
      PROVE  u \in reported'
  <2>1. lastId < u /\ u < t
    BY <1>1, <1>4, MinuteOrder
  <2> QED
    BY <1>2, <2>1
<1> QED
  BY <1>3, <1>4

\* The new minute, and the one that goes on, are told.
LEMMA DeliverMinuteTold ==
    ASSUME MissingInv, NEW t \in Trades, Deliver(t)
    PROVE  MinuteTold'
<1>1. CASE base = 0
  <2>1. partial /\ ~Crosses(t)
    BY <1>1, DeliverMinute DEF MissingInv, TouchInv, InTouch
  <2>2. partial' = partial
    BY <2>1 DEF Deliver, candles
  <2> QED
    BY <2>1, <2>2 DEF MinuteTold
<1>2. CASE base # 0 /\ Crosses(t)
  <2>1. /\ lastId < t /\ lastId' = t /\ minute.open < Minute[t]
        /\ minute' = [open |-> Minute[t], got |-> {t}]
        /\ lastId \in Trades /\ minute.open = Minute[lastId]
    BY <1>2, DeliverMinute DEF MissingInv, TouchInv, InTouch
  <2>2. minute'.open = Minute[t] /\ minute'.got = {t}
    BY <2>1
  <2>3. ASSUME NEW u \in Trades, Minute[u] = Minute[t], u <= t
        PROVE  u \in {t} \cup reported'
    <3>1. lastId < u
      BY <2>1, <2>3, MinuteOrder
    <3>2. u = t \/ u < t
      BY <2>3, MinuteOrder
    <3> QED
      BY <1>2, <3>1, <3>2, SkippedIsReported DEF MissingInv
  <2> QED
    BY <2>1, <2>2, <2>3 DEF MinuteTold
<1>3. CASE base # 0 /\ ~Crosses(t)
  <2>1. /\ minute'.open = minute.open /\ minute.got \subseteq minute'.got
        /\ Minute[t] = minute.open => t \in minute'.got
        /\ lastId < t => lastId' = t
        /\ t <= lastId => lastId' = lastId
        /\ lastId \in Trades
    BY <1>3, DeliverMinute DEF MissingInv, TouchInv, InTouch
  <2>2. partial' = partial
    BY <1>3 DEF Deliver, candles
  <2>3. ASSUME NEW u \in Trades, ~partial, Minute[u] = minute.open, u <= lastId'
        PROVE  u \in minute'.got \cup reported'
    <3>1. reported \subseteq reported' /\ \A w \in Trades : lastId < w /\ w < t => w \in reported'
      BY <1>3, SkippedIsReported DEF MissingInv
    <3>2. u <= lastId \/ u = t \/ (lastId < u /\ u < t)
      BY <2>1, <2>3, MinuteOrder
    <3>3. CASE u <= lastId
      BY <2>1, <2>3, <3>1, <3>3 DEF MissingInv, MinuteTold
    <3>4. CASE u = t
      BY <2>1, <2>3, <3>4
    <3>5. CASE lastId < u /\ u < t
      BY <3>1, <3>5
    <3> QED
      BY <3>2, <3>3, <3>4, <3>5
  <2> QED
    BY <2>1, <2>2, <2>3 DEF MinuteTold
<1> QED
  BY <1>1, <1>2, <1>3

\* The bar that a closed minute leaves is told.
LEMMA DeliverBarTold ==
    ASSUME MissingInv, NEW t \in Trades, Deliver(t)
    PROVE  BarTold'
<1>1. CASE base = 0
  <2>1. bar = NoBar /\ ~Crosses(t)
    BY <1>1, DeliverMinute DEF MissingInv, TouchInv, InTouch
  <2>2. bar'.whole = FALSE
    BY <2>1 DEF Deliver, candles, NoBar
  <2> QED
    BY <2>2 DEF BarTold
<1>2. CASE base # 0 /\ ~Crosses(t)
  <2>1. minute'.open = minute.open /\ bar' = bar
    BY <1>2, DeliverMinute DEF MissingInv, Deliver, candles
  <2>2. reported \subseteq reported'
    BY <1>2, SkippedIsReported DEF MissingInv
  <2> QED
    BY <2>1, <2>2 DEF MissingInv, BarTold
<1>3. CASE base # 0 /\ Crosses(t)
  <2>1. minute'.open = Minute[t] /\ minute.open < Minute[t] /\ minute.open \in Int
    BY <1>3, DeliverMinute DEF MissingInv, TouchInv, MarketTypeOK
  <2>2. bar' = BarAfter(minute, Whole)
    BY <1>3 DEF Deliver, CloseMinute
  <2>3. reported \subseteq reported'
    BY <1>3, SkippedIsReported DEF MissingInv
  <2>4. ASSUME NEW u \in Trades, ~(Minute[u] < minute.open), Minute[u] < Minute[t], Whole
        PROVE  u \in minute.got \cup reported'
    <3>1. Minute[u] = minute.open \/ minute.open < Minute[u]
      BY <2>1, <2>4, MinuteOrder
    <3> QED
      BY <1>3, <2>4, <3>1, ClosedMinuteTold
  <2>5. CASE bar.open # BarOf(minute.open)
    <3>1. /\ bar'.open = BarOf(minute.open) /\ bar'.got = minute.got
          /\ bar'.whole = (Whole /\ minute.open % BarMinutes = 0)
      BY <2>2, <2>5 DEF BarAfter, Opened
    <3>2. ASSUME NEW u \in Trades, BarOf(Minute[u]) = BarOf(minute.open), Minute[u] < Minute[t],
                 Whole, minute.open % BarMinutes = 0
          PROVE  u \in minute.got \cup reported'
      <4>1. Minute[u] \in Int
        BY MinuteOrder
      <4>2. BarOf(Minute[u]) \in Int /\ ~(BarOf(Minute[u]) < BarOf(minute.open))
        BY <2>1, <3>2, <4>1, BarOrder
      <4>3. ~(Minute[u] < minute.open)
        BY <2>1, <3>2, <4>1, <4>2, BarOrder
      <4> QED
        BY <2>4, <3>2, <4>3
    <3> QED
      BY <2>1, <3>1, <3>2 DEF BarTold
  <2>6. CASE bar.open = BarOf(minute.open) /\ Ends(minute)
    <3>1. bar'.whole = FALSE
      BY <2>2, <2>6 DEF BarAfter, NoBar
    <3> QED
      BY <3>1 DEF BarTold
  <2>7. CASE bar.open = BarOf(minute.open) /\ ~Ends(minute)
    <3>1. bar' = Joined(minute, Whole)
      BY <2>2, <2>7 DEF BarAfter
    <3>2. bar'.open = bar.open /\ bar'.got = bar.got \cup minute.got /\ bar'.whole = (bar.whole /\ Whole)
      BY <3>1 DEF Joined, MissingInv, TouchInv, MarketTypeOK
    <3>3. ASSUME NEW u \in Trades, BarOf(Minute[u]) = bar.open, Minute[u] < Minute[t], bar.whole, Whole
          PROVE  u \in bar.got \cup minute.got \cup reported'
      <4>1. CASE Minute[u] < minute.open
        BY <2>3, <3>3, <4>1 DEF MissingInv, BarTold
      <4>2. CASE ~(Minute[u] < minute.open)
        BY <2>4, <3>3, <4>2
      <4> QED
        BY <4>1, <4>2
    <3> QED
      BY <2>1, <3>2, <3>3 DEF BarTold
  <2> QED
    BY <2>5, <2>6, <2>7
<1> QED
  BY <1>1, <1>2, <1>3

\* What a completed bar lacks was reported by the trade that completes it at last.
LEMMA CompletedTold ==
    ASSUME MissingInv, NEW t \in Trades, Deliver(t), Crosses(t), Completed(minute, Whole).whole
    PROVE  Local(Completed(minute, Whole)).missing \subseteq reported'
<1> DEFINE b == Completed(minute, Whole)
<1>1. /\ base # 0 /\ minute.open < Minute[t] /\ minute.open \in Int
  BY DeliverMinute DEF MissingInv, TouchInv, MarketTypeOK
<1>2. reported \subseteq reported'
  BY <1>1, SkippedIsReported DEF MissingInv
<1>3. Local(b).missing = {u \in Trades : BarOf(Minute[u]) = b.open} \ b.got
  BY DEF Local
<1>4. CASE bar.open # -1 /\ bar.open < BarOf(minute.open)
  <2>1. b = bar
    BY <1>4 DEF Completed
  <2>2. ASSUME NEW u \in Trades, BarOf(Minute[u]) = bar.open
        PROVE  u \in bar.got \cup reported'
    <3>1. Minute[u] \in Int /\ BarOf(Minute[u]) \in Int /\ BarOf(minute.open) \in Int
      BY <1>1, MinuteOrder, BarOrder
    <3>2. ~(minute.open <= Minute[u])
      BY <1>1, <1>4, <2>2, <3>1, BarOrder
    <3>3. Minute[u] < minute.open
      BY <1>1, <3>1, <3>2
    <3> QED
      BY <1>2, <2>1, <2>2, <3>3 DEF MissingInv, BarTold
  <2>3. Local(b).missing \subseteq reported'
    <3> HIDE DEF b
    <3> QED
      BY <1>3, <2>1, <2>2
  <2> QED
    BY <2>3
<1>5. CASE ~(bar.open # -1 /\ bar.open < BarOf(minute.open))
  <2>1. Ends(minute)
    BY <1>5 DEF Completed, NoBar
  <2>2. b = Joined(minute, Whole)
    BY <1>5, <2>1 DEF Completed
  <2>3. b.open = bar.open /\ b.got = bar.got \cup minute.got /\ b.whole = (bar.whole /\ Whole)
    BY <2>2 DEF Joined, MissingInv, TouchInv, MarketTypeOK
  <2>4. bar.whole /\ Whole
    BY <2>3
  <2>5. ASSUME NEW u \in Trades, BarOf(Minute[u]) = bar.open
        PROVE  u \in bar.got \cup minute.got \cup reported'
    <3>1. Minute[u] \in Int /\ BarOf(Minute[u]) \in Int /\ BarOf(minute.open) \in Int
      BY <1>1, MinuteOrder, BarOrder
    <3>2. bar.open = BarOf(minute.open) /\ minute.open % BarMinutes = BarMinutes - 1
      BY <2>1 DEF Ends
    <3>3. ~(minute.open < Minute[u])
      BY <1>1, <2>5, <3>1, <3>2, BarOrder
    <3>4. Minute[u] < minute.open \/ Minute[u] = minute.open
      BY <1>1, <3>1, <3>3
    <3>5. CASE Minute[u] < minute.open
      BY <1>2, <2>4, <2>5, <3>5 DEF MissingInv, BarTold
    <3>6. CASE Minute[u] = minute.open
      BY <2>4, <3>6, ClosedMinuteTold
    <3> QED
      BY <3>4, <3>5, <3>6
  <2>6. Local(b).missing \subseteq reported'
    <3> HIDE DEF b
    <3> QED
      BY <1>3, <2>3, <2>5
  <2> QED
    BY <2>6
<1> QED
  BY <1>4, <1>5

\* A history of bars that lack reported trades only is one of such bars.
LEMMA ToldHistory ==
    ASSUME MarketTypeOK
    PROVE  \A R : (\A i \in DOMAIN history : history[i].missing \subseteq R)
                    <=> history \in Seq({x \in Bars : x.missing \subseteq R}) \ {<<>>}
<1> SUFFICES ASSUME NEW R
             PROVE  (\A i \in DOMAIN history : history[i].missing \subseteq R)
                      <=> history \in Seq({x \in Bars : x.missing \subseteq R}) \ {<<>>}
  OBVIOUS
<1> DEFINE B == {x \in Bars : x.missing \subseteq R}
<1>1. history \in Seq(Bars) \ {<<>>}
  BY DEF MarketTypeOK
<1>2. ASSUME \A i \in DOMAIN history : history[i].missing \subseteq R
      PROVE  history \in Seq(B)
  <2>1. \A i \in 1 .. Len(history) : history[i] \in B
    BY <1>1, <1>2
  <2> HIDE DEF B
  <2> QED
    BY <1>1, <2>1
<1>3. ASSUME history \in Seq(B)
      PROVE  \A i \in DOMAIN history : history[i].missing \subseteq R
  <2>1. \A i \in DOMAIN history : history[i] \in B
    <3> HIDE DEF B
    <3> QED
      BY <1>3
  <2> QED
    BY <2>1
<1> QED
  BY <1>1, <1>2, <1>3

LEMMA DeliverHistoryTold ==
    ASSUME MissingInv, MarketTypeOK', NEW t \in Trades, Deliver(t)
    PROVE  MissingWasReported'
<1>1. reported \subseteq reported'
  BY DEF Deliver, Detect
<1>2. CASE history' = history
  BY <1>1, <1>2 DEF MissingInv, MissingWasReported
<1>3. CASE history' # history
  <2> DEFINE b == Completed(minute, Whole)
             B == {x \in Bars : x.missing \subseteq reported'}
  <2>1. Crosses(t) /\ b.whole /\ Evaluate(b, desynced' \/ dataDesynced')
    BY <1>3 DEF Deliver, CloseMinute, candles
  <2>2. b \in [open : Int, got : SUBSET Trades, whole : BOOLEAN]
    BY BarTypes DEF MissingInv, TouchInv
  <2>3. Local(b) \in B
    <3>1. Local(b) \in Bars
      BY <2>2 DEF Local, Bars
    <3> QED
      BY <2>1, <3>1, CompletedTold
  <2>4. \A o \in Int : Rest(o) \in B
    BY DEF Rest, Bars
  <2>5. history \in Seq(B) \ {<<>>}
    <3>1. \A i \in DOMAIN history : history[i].missing \subseteq reported'
      BY <1>1 DEF MissingInv, MissingWasReported
    <3> QED
      BY <3>1, ToldHistory DEF MissingInv, TouchInv
  <2>6. LastBar \in Int
    <3>1. history \in Seq(Bars) /\ history # <<>>
      BY DEF MissingInv, TouchInv, MarketTypeOK
    <3>2. Len(history) \in DOMAIN history
      BY <3>1
    <3>3. history[Len(history)] \in Bars
      BY <3>1, <3>2
    <3> QED
      BY <3>3 DEF LastBar, Bars
  <2>7. b.open \in Int
    BY <2>2
  <2> HIDE DEF b, B
  <2>8. history' \in Seq(B) \ {<<>>}
    BY <2>1, <2>3, <2>4, <2>5, <2>6, <2>7, EvaluateKeeps
  <2>9. \A i \in DOMAIN history' : history'[i] \in B
    BY <2>8
  <2> QED
    BY <2>9 DEF MissingWasReported, B
<1> QED
  BY <1>2, <1>3

LEMMA MissingStep == MissingInv /\ [MarketNext]_marketVars => MissingInv'
<1> SUFFICES ASSUME MissingInv, [MarketNext]_marketVars PROVE MissingInv'
  OBVIOUS
<1>1. TouchInv' /\ MarketTypeOK'
  BY TouchStep DEF MissingInv, TouchInv
<1>2. ASSUME NEW t \in Trades, Deliver(t) PROVE MissingInv'
  BY <1>1, <1>2, DeliverMinuteTold, DeliverBarTold, DeliverHistoryTold DEF MissingInv
<1>3. ASSUME NEW j \in jobs, Recover(j) PROVE MissingInv'
  <2>1. /\ UNCHANGED <<lastId, partial, bar, history, reported>>
        /\ minute'.open = minute.open /\ minute.got \subseteq minute'.got
    BY <1>3, RecoverMinute DEF MissingInv, candles
  <2> QED
    BY <1>1, <2>1 DEF MissingInv, MinuteTold, BarTold, MissingWasReported
<1>4. CASE Restart
  <2>1. partial' = TRUE /\ bar'.whole = FALSE
    BY <1>4 DEF Restart, NoBar
  <2>2. \A i \in DOMAIN history' : history'[i].missing = {}
    BY <1>4 DEF Restart, Rest
  <2> QED
    BY <1>1, <2>1, <2>2 DEF MissingInv, MinuteTold, BarTold, MissingWasReported
<1>5. CASE UNCHANGED marketVars
  BY <1>1, <1>5 DEF marketVars, detector, candles, durable, MissingInv, MinuteTold, BarTold,
                    MissingWasReported
<1> QED
  BY <1>2, <1>3, <1>4, <1>5 DEF MarketNext

\* A bar that was built here lacks a trade only when its gap was reported: never for
\* joining the stream in the middle of a minute or of a bar, for a restart, for a late
\* or a repeated trade, or for a recovery that feeds the minute from its own thread.
THEOREM MissingReported == MarketSpec => []MissingWasReported
<1>1. MarketInit => MissingInv
  <2> SUFFICES ASSUME MarketInit PROVE MissingInv
    OBVIOUS
  <2>1. MarketTypeOK
    BY InitTypes
  <2>2. TouchInv
    BY <2>1 DEF MarketInit, TouchInv, InTouch, OldRanges
  <2>3. \A i \in DOMAIN history : history[i].missing = {}
    BY DEF MarketInit, Rest
  <2>4. bar.whole = FALSE /\ partial = TRUE
    BY DEF MarketInit, NoBar
  <2> QED
    BY <2>2, <2>3, <2>4 DEF MissingInv, MinuteTold, BarTold, MissingWasReported
<1>2. MissingInv => MissingWasReported
  BY DEF MissingInv
<1> QED
  BY <1>1, <1>2, MissingStep, PTL DEF MarketSpec

-----------------------------------------------------------------------------
(* The strategy's bars follow one another.  Whatever is still to be built  *)
(* is behind the last bar the strategy has.                                *)

BarsAhead ==
    /\ base = 0 => \A u \in Trades : stream < u => LastBar < BarOf(Minute[u])
    /\ base # 0 => LastBar < BarOf(minute.open)
    /\ bar.open # -1 => LastBar < bar.open /\ bar.open <= BarOf(minute.open)

ContiguousInv == TouchInv /\ BarsAhead /\ HistoryContiguous

LEMMA HistoryType ==
    ASSUME MarketTypeOK
    PROVE  /\ history \in Seq(Bars) /\ Len(history) \in Nat \ {0} /\ LastBar \in Int
           /\ \A i \in 1 .. Len(history) : history[i].open \in Int
<1>1. history \in Seq(Bars) /\ history # <<>>
  BY DEF MarketTypeOK
<1>2. Len(history) \in Nat \ {0}
  BY <1>1
<1>3. \A i \in 1 .. Len(history) : history[i].open \in Int
  <2>1. \A i \in 1 .. Len(history) : history[i] \in Bars
    BY <1>1
  <2> QED
    BY <2>1 DEF Bars
<1> QED
  BY <1>1, <1>2, <1>3 DEF LastBar

\* The gate closes the hole in front of a bar that is ahead, and nothing else.
LEMMA EvaluateContiguous ==
    ASSUME MarketTypeOK, HistoryContiguous, NEW b, b.open \in Int, LastBar < b.open,
           NEW suspect, Evaluate(b, suspect)
    PROVE  HistoryContiguous' /\ LastBar' \in Int /\ LastBar' <= b.open
<1> DEFINE L == Len(history)
           n == b.open - LastBar - 1
           F == Fillers(b)
           x == IF suspect THEN Rest(b.open) ELSE Local(b)
<1>1. /\ history \in Seq(Bars) /\ L \in Nat \ {0} /\ LastBar \in Int
      /\ \A i \in 1 .. L : history[i].open \in Int
  BY HistoryType
<1>2. n \in Nat
  BY <1>1
<1>3. F = [i \in 1 .. n |-> Rest(LastBar + i)]
  BY DEF Fillers
<1>4. x.open = b.open
  BY DEF Rest, Local
<1>5. \/ history' = history
      \/ history' = history \o F \o <<x>>
      \/ history' = history \o F
  BY DEF Evaluate
<1>6. LastBar = history[L].open
  BY DEF LastBar
<1>7. \A i \in 2 .. L : history[i].open = history[i - 1].open + 1
  BY DEF HistoryContiguous
<1>8. \A i \in 1 .. n : F[i].open = LastBar + i
  BY <1>3 DEF Rest
<1>9. F \in Seq(Bars) /\ Len(F) = n
  <2>1. \A i \in 1 .. n : Rest(LastBar + i) \in Bars
    BY <1>1, <1>2 DEF Rest, Bars
  <2> QED
    BY <1>2, <1>3, <2>1
<1> HIDE DEF x, F
<1> DEFINE H == history \o F
<1>10. /\ DOMAIN H = 1 .. L + n /\ Len(H) = L + n
       /\ \A i \in 1 .. L : H[i] = history[i]
       /\ \A i \in L + 1 .. L + n : H[i] = F[i - L]
       /\ H \in Seq(Bars)
  <2>0. H \in Seq(Bars) /\ Len(H) = L + Len(F)
    <3>1. \A p, q \in Seq(Bars) : p \o q \in Seq(Bars) /\ Len(p \o q) = Len(p) + Len(q)
      OBVIOUS
    <3> QED
      BY <1>1, <1>9, <3>1
  <2>1. H \in Seq(Bars) /\ Len(H) = L + n
    <3> HIDE DEF H, L, n
    <3> QED
      BY <1>9, <2>0
  <2>2. \A i \in 1 .. L : H[i] = history[i]
    BY <1>1, <1>9
  <2>3. \A i \in L + 1 .. L + n : H[i] = F[i - L]
    BY <1>1, <1>9
  <2> HIDE DEF H
  <2> QED
    BY <2>1, <2>2, <2>3
<1>11. \A i \in L .. L + n : H[i].open = LastBar + (i - L)
  <2> SUFFICES ASSUME NEW i \in L .. L + n
               PROVE  H[i].open = LastBar + (i - L)
    OBVIOUS
  <2>1. CASE i = L
    BY <1>1, <1>6, <1>10, <2>1
  <2>2. CASE i # L
    <3>1. i \in L + 1 .. L + n /\ i - L \in 1 .. n
      BY <1>1, <1>2, <2>2
    <3> QED
      BY <1>8, <1>10, <3>1
  <2> QED
    BY <2>1, <2>2
<1>12. \A i \in 2 .. L + n : H[i].open = H[i - 1].open + 1
  <2> SUFFICES ASSUME NEW i \in 2 .. L + n
               PROVE  H[i].open = H[i - 1].open + 1
    OBVIOUS
  <2>1. CASE i <= L
    <3>1. i \in 1 .. L /\ i - 1 \in 1 .. L /\ i \in 2 .. L
      BY <1>1, <2>1
    <3> QED
      BY <1>7, <1>10, <3>1
  <2>2. CASE ~(i <= L)
    <3>1. i \in L .. L + n /\ i - 1 \in L .. L + n
      BY <1>1, <1>2, <2>2
    <3>2. H[i].open = LastBar + (i - L) /\ H[i - 1].open = LastBar + (i - 1 - L)
      BY <1>11, <3>1
    <3> HIDE DEF H
    <3> QED
      BY <1>1, <3>1, <3>2
  <2> QED
    BY <2>1, <2>2
<1>13. CASE history' = history
  BY <1>1, <1>13 DEF HistoryContiguous, LastBar
<1>14. CASE history' = H
  <2>1. LastBar' = H[L + n].open
    BY <1>10, <1>14 DEF LastBar
  <2>2. L + n \in L .. L + n
    BY <1>1, <1>2
  <2>3. LastBar' = LastBar + n
    <3> HIDE DEF H
    <3>1. H[L + n].open = LastBar + ((L + n) - L)
      BY <1>11, <2>2
    <3> QED
      BY <1>1, <1>2, <2>1, <3>1
  <2>4. HistoryContiguous'
    BY <1>10, <1>12, <1>14 DEF HistoryContiguous
  <2> QED
    BY <1>1, <1>2, <2>3, <2>4
<1>15. CASE history' = H \o <<x>>
  <2>1. H \in Seq(Bars) /\ Len(H) = L + n /\ x \in Bars \cup {x}
    BY <1>10
  <2> DEFINE K == H \o <<x>>
  <2>2. /\ Len(K) = L + n + 1 /\ K[L + n + 1] = x
        /\ \A i \in 1 .. L + n : K[i] = H[i]
    <3> HIDE DEF H
    <3>1. H \in Seq(Bars \cup {x}) /\ <<x>> \in Seq(Bars \cup {x})
      BY <2>1
    <3>2. L + n \in Nat
      BY <1>1, <1>2
    <3> QED
      BY <2>1, <3>1, <3>2
  <2>3. LastBar' = b.open
    BY <1>4, <1>15, <2>2 DEF LastBar
  <2>4. ASSUME NEW i \in 2 .. L + n + 1
        PROVE  K[i].open = K[i - 1].open + 1
    <3>1. CASE i \in 2 .. L + n
      <4>1. i \in 1 .. L + n /\ i - 1 \in 1 .. L + n
        BY <1>1, <1>2, <3>1
      <4> QED
        BY <1>12, <2>2, <3>1, <4>1
    <3>2. CASE i \notin 2 .. L + n
      <4>1. i = L + n + 1 /\ i - 1 = L + n /\ L + n \in 1 .. L + n /\ L + n \in L .. L + n
        BY <1>1, <1>2, <3>2
      <4>2. K[i - 1].open = LastBar + ((L + n) - L)
        <5> HIDE DEF H, K
        <5>1. H[L + n].open = LastBar + ((L + n) - L)
          BY <1>11, <4>1
        <5> QED
          BY <2>2, <4>1, <5>1
      <4>3. K[i].open = b.open
        BY <1>4, <2>2, <4>1
      <4> HIDE DEF K
      <4> QED
        BY <1>1, <1>2, <4>2, <4>3
    <3> QED
      BY <3>1, <3>2
  <2>5. HistoryContiguous'
    BY <1>15, <2>2, <2>4 DEF HistoryContiguous
  <2> QED
    BY <2>3, <2>5
<1> QED
  BY <1>5, <1>13, <1>14, <1>15

\* A trade that closes a minute: the bar it may complete is ahead of the strategy's
\* last, and what comes after it is ahead of that bar.
LEMMA CloseKeepsAhead ==
    ASSUME ContiguousInv, NEW t \in Trades, Deliver(t), Crosses(t)
    PROVE  /\ HistoryContiguous'
           /\ LastBar' < BarOf(Minute[t])
           /\ bar'.open # -1 => LastBar' < bar'.open /\ bar'.open <= BarOf(Minute[t])
<1> DEFINE m == minute.open
           b == Completed(minute, Whole)
<1>1. base # 0 /\ m < Minute[t] /\ m \in Int /\ Minute[t] \in Int /\ MarketTypeOK /\ LastBar \in Int
      /\ bar.open \in Int
  <2>1. MarketTypeOK
    BY DEF ContiguousInv, TouchInv
  <2>2. base # 0 /\ m < Minute[t]
    BY DeliverMinute DEF ContiguousInv
  <2>3. m \in Int /\ bar.open \in Int
    BY <2>1 DEF MarketTypeOK
  <2> QED
    BY <2>1, <2>2, <2>3, MinuteOrder, HistoryType
<1>2. /\ BarOf(m) \in Int /\ BarOf(Minute[t]) \in Int /\ BarOf(m) <= BarOf(Minute[t])
      /\ m % BarMinutes = BarMinutes - 1 => BarOf(m) < BarOf(Minute[t])
  BY <1>1, BarOrder
<1>3. /\ LastBar < BarOf(m)
      /\ bar.open # -1 => LastBar < bar.open /\ bar.open <= BarOf(m)
  BY <1>1 DEF ContiguousInv, BarsAhead
<1>4. /\ bar' = BarAfter(minute, Whole)
      /\ b.whole => Evaluate(b, desynced' \/ dataDesynced')
      /\ ~b.whole => history' = history
  BY DEF Deliver, CloseMinute
<1>5. ASSUME b.whole, b.open = bar.open, LastBar < bar.open
      PROVE  HistoryContiguous' /\ LastBar' \in Int /\ LastBar' <= bar.open
  <2> HIDE DEF b
  <2> QED
    BY <1>1, <1>4, <1>5, EvaluateContiguous DEF ContiguousInv
<1>6. ASSUME ~b.whole
      PROVE  HistoryContiguous' /\ LastBar' = LastBar
  BY <1>4, <1>6 DEF ContiguousInv, HistoryContiguous, LastBar
<1>7. CASE bar.open # -1 /\ bar.open < BarOf(m)
  <2>1. b = bar
    BY <1>7 DEF Completed
  <2>2. bar'.open = BarOf(m)
    BY <1>1, <1>2, <1>4, <1>7 DEF BarAfter, Opened
  <2>3. HistoryContiguous' /\ LastBar' \in Int /\ LastBar' < BarOf(m)
    <3>1. CASE b.whole
      <4>1. HistoryContiguous' /\ LastBar' \in Int /\ LastBar' <= bar.open
        BY <1>3, <1>5, <1>7, <2>1, <3>1
      <4> QED
        BY <1>1, <1>2, <1>7, <4>1
    <3>2. CASE ~b.whole
      BY <1>1, <1>3, <1>6, <3>2
    <3> QED
      BY <3>1, <3>2
  <2> QED
    BY <1>2, <2>2, <2>3
<1>8. CASE ~(bar.open # -1 /\ bar.open < BarOf(m)) /\ Ends(minute)
  <2>1. bar.open = BarOf(m) /\ m % BarMinutes = BarMinutes - 1
    BY <1>8 DEF Ends
  <2>2. b = Joined(minute, Whole)
    BY <1>8 DEF Completed
  <2>3. b.open = bar.open
    BY <2>2 DEF Joined, ContiguousInv, TouchInv, MarketTypeOK
  <2>4. bar'.open = -1
    BY <1>4, <1>8, <2>1 DEF BarAfter, NoBar
  <2>5. HistoryContiguous' /\ LastBar' \in Int /\ LastBar' <= BarOf(m)
    <3>1. CASE b.whole
      BY <1>3, <1>5, <2>1, <2>3, <3>1
    <3>2. CASE ~b.whole
      BY <1>1, <1>2, <1>3, <1>6, <3>2
    <3> QED
      BY <3>1, <3>2
  <2> QED
    BY <1>2, <2>1, <2>4, <2>5
<1>9. CASE ~(bar.open # -1 /\ bar.open < BarOf(m)) /\ ~Ends(minute)
  <2>1. b.whole = FALSE
    BY <1>9 DEF Completed, NoBar
  <2>2. HistoryContiguous' /\ LastBar' = LastBar
    BY <1>6, <2>1
  <2>3. bar'.open = BarOf(m)
    <3>1. CASE bar.open # BarOf(m)
      BY <1>4, <3>1 DEF BarAfter, Opened
    <3>2. CASE bar.open = BarOf(m)
      <4>1. bar' = Joined(minute, Whole)
        BY <1>4, <1>9, <3>2 DEF BarAfter
      <4>2. bar'.open = bar.open
        BY <1>1, <4>1 DEF Joined, MarketTypeOK
      <4> HIDE DEF m
      <4> QED
        BY <3>2, <4>2
    <3> QED
      BY <3>1, <3>2
  <2> QED
    BY <1>1, <1>2, <1>3, <2>2, <2>3
<1> QED
  BY <1>7, <1>8, <1>9

LEMMA DeliverContiguous ==
    ASSUME ContiguousInv, NEW t \in Trades, Deliver(t)
    PROVE  BarsAhead' /\ HistoryContiguous'
<1>1. CASE Crosses(t)
  <2>1. base' # 0 /\ minute'.open = Minute[t]
    BY <1>1, DeliverMinute DEF ContiguousInv
  <2> QED
    BY <1>1, <2>1, CloseKeepsAhead DEF BarsAhead
<1>2. CASE ~Crosses(t)
  <2>1. UNCHANGED <<bar, history>>
    BY <1>2 DEF Deliver, candles
  <2>2. HistoryContiguous' /\ LastBar' = LastBar
    BY <2>1 DEF ContiguousInv, HistoryContiguous, LastBar
  <2>3. CASE base = 0
    <3>1. base' # 0 /\ minute'.open = Minute[t] /\ stream < t /\ bar = NoBar
      BY <2>3, DeliverMinute DEF ContiguousInv, TouchInv, InTouch
    <3>2. LastBar < BarOf(Minute[t])
      BY <2>3, <3>1 DEF ContiguousInv, BarsAhead
    <3>3. bar'.open = -1
      BY <2>1, <3>1 DEF NoBar
    <3> QED
      BY <2>2, <3>1, <3>2, <3>3 DEF BarsAhead
  <2>4. CASE base # 0
    <3>1. base' # 0 /\ minute'.open = minute.open
      BY <1>2, <2>4, DeliverMinute DEF ContiguousInv
    <3> QED
      BY <2>1, <2>2, <2>4, <3>1 DEF ContiguousInv, BarsAhead
  <2> QED
    BY <2>3, <2>4
<1> QED
  BY <1>1, <1>2

LEMMA ContiguousStep == ContiguousInv /\ [MarketNext]_marketVars => ContiguousInv'
<1> SUFFICES ASSUME ContiguousInv, [MarketNext]_marketVars PROVE ContiguousInv'
  OBVIOUS
<1>1. TouchInv'
  BY TouchStep DEF ContiguousInv
<1>2. ASSUME NEW t \in Trades, Deliver(t) PROVE ContiguousInv'
  BY <1>1, <1>2, DeliverContiguous DEF ContiguousInv
<1>3. ASSUME NEW j \in jobs, Recover(j) PROVE ContiguousInv'
  <2>1. UNCHANGED <<stream, base, bar, history>> /\ minute'.open = minute.open
    BY <1>3, RecoverMinute DEF ContiguousInv, candles
  <2> QED
    BY <1>1, <2>1 DEF ContiguousInv, BarsAhead, HistoryContiguous, LastBar
<1>4. CASE Restart
  <2>1. /\ base' = 0 /\ stream' = stream /\ bar'.open = -1
        /\ history' = <<Rest(BarOf(Minute[stream]) - 1)>>
    BY <1>4 DEF Restart, NoBar
  <2>2. stream \in Trades
    BY <1>4 DEF Restart, ContiguousInv, TouchInv, MarketTypeOK, Trades
  <2>3. Len(history') = 1 /\ history'[1].open = BarOf(Minute[stream]) - 1
    BY <2>1 DEF Rest
  <2>4. HistoryContiguous'
    BY <2>3 DEF HistoryContiguous
  <2>5. LastBar' = BarOf(Minute[stream]) - 1
    BY <2>3 DEF LastBar
  <2>6. ASSUME NEW u \in Trades, stream < u
        PROVE  LastBar' < BarOf(Minute[u])
    <3>1. Minute[stream] \in Int /\ Minute[u] \in Int /\ Minute[stream] <= Minute[u]
      BY <2>2, <2>6, MinuteOrder
    <3>2. /\ BarOf(Minute[stream]) \in Int /\ BarOf(Minute[u]) \in Int
          /\ BarOf(Minute[stream]) <= BarOf(Minute[u])
      BY <3>1, BarOrder
    <3> QED
      BY <2>5, <3>2
  <2> QED
    BY <1>1, <2>1, <2>4, <2>6 DEF ContiguousInv, BarsAhead
<1>5. CASE UNCHANGED marketVars
  BY <1>1, <1>5 DEF marketVars, detector, candles, ContiguousInv, BarsAhead, HistoryContiguous, LastBar
<1> QED
  BY <1>2, <1>3, <1>4, <1>5 DEF MarketNext

\* The strategy's bars follow one another without hole or repetition: whichever bars
\* are dropped as suspect, wherever the stream jumps, and across restarts.
THEOREM BarsFollowOneAnother == MarketSpec => []HistoryContiguous
<1>1. MarketInit => ContiguousInv
  <2> SUFFICES ASSUME MarketInit PROVE ContiguousInv
    OBVIOUS
  <2>1. TouchInv
    BY InitTypes DEF MarketInit, TouchInv, InTouch, OldRanges
  <2>2. Len(history) = 1 /\ history[1].open = BarOf(Minute[1]) - 1
    BY DEF MarketInit, Rest
  <2>3. 1 \in Trades
    BY TradesAssumption DEF Trades
  <2>4. ASSUME NEW u \in Trades PROVE LastBar < BarOf(Minute[u])
    <3>1. Minute[1] \in Int /\ Minute[u] \in Int /\ Minute[1] <= Minute[u]
      <4>1. 1 <= u
        BY DEF Trades
      <4> QED
        BY <2>3, <4>1, MinuteOrder
    <3>2. BarOf(Minute[1]) \in Int /\ BarOf(Minute[u]) \in Int /\ BarOf(Minute[1]) <= BarOf(Minute[u])
      BY <3>1, BarOrder
    <3> QED
      BY <2>2, <3>2 DEF LastBar
  <2>5. base = 0 /\ bar.open = -1
    BY DEF MarketInit, NoBar
  <2> QED
    BY <2>1, <2>2, <2>4, <2>5 DEF ContiguousInv, BarsAhead, HistoryContiguous
<1>2. ContiguousInv => HistoryContiguous
  BY DEF ContiguousInv
<1> QED
  BY <1>1, <1>2, ContiguousStep, PTL DEF MarketSpec
=============================================================================
