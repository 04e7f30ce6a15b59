---------------------------- MODULE MCEngineParts ----------------------------
(***************************************************************************)
(* The components that share no state in these models, checked in one run: *)
(* a behaviour is a behaviour of one of them, chosen at the start, and the *)
(* others stay as they are.                                                *)
(***************************************************************************)
EXTENDS UserStream, DailyLoss, PaperEngine, Alerting, EngineLoop, GapRepair,
        ReplayTrades, KlineHistory, ParityEvidence, ParityFigures, LiveStart

VARIABLE part

Parts == {"stream", "loss", "paper", "alerts", "loop", "gap", "replay", "klines", "evidence", "figures",
          "start"}

\* The execution models of the three manifests.
ManifestModels ==
    {[entry |-> "signal_close", exit |-> "signal_reference", force |-> FALSE],
     [entry |-> "next_open", exit |-> "signal_reference", force |-> TRUE],
     [entry |-> "next_open", exit |-> "next_open", force |-> TRUE]}

\* A file that is too short, a whole one, and one with a hole.
CandleFiles == {{1}, {1, 2}, {1, 3}}

\* A component that is not chosen starts in one state only.
PartsInit ==
    /\ part \in Parts
    /\ StreamInit /\ LossInit /\ PaperInit /\ AlertInit /\ LoopInit
    /\ GapInit /\ ReplayInit /\ KlineInit /\ EvidenceInit /\ FiguresInit /\ StartInit
    /\ part # "paper" => paperMode = "PAPER" /\ ~slotted
    /\ part # "loop" => ~dryRun
    /\ part # "gap" => inStore = {}
    /\ part # "replay" => model.exit = "next_open"
    /\ part # "figures" => compounding

\* A canonical candle, and what a replay may make of it: off by little, or by too much.
Canonical(t) == [at |-> t, ends |-> 1, price |-> 2, volume |-> 4]
CanonicalCandles == {Canonical(t) : t \in 1..2}
NearCandles ==
    UNION {{c, [c EXCEPT !.ends = 2], [c EXCEPT !.price = 3], [c EXCEPT !.price = 4],
            [c EXCEPT !.volume = 6], [c EXCEPT !.volume = 1]} : c \in CanonicalCandles}

Chosen(p, Step, vars) == IF part = p THEN Step ELSE UNCHANGED vars

PartsNext ==
    /\ UNCHANGED part
    /\ Chosen("stream", StreamNext, streamVars)
    /\ Chosen("loss", LossNext, lossVars)
    /\ Chosen("paper", PaperNext, paperVars)
    /\ Chosen("alerts", AlertNext, alertVars)
    /\ Chosen("loop", LoopNext, loopVars)
    /\ Chosen("gap", RepairNext, repairVars)
    /\ Chosen("replay", ReplayNext, replayVars)
    /\ Chosen("klines", KlineNext, klineVars)
    /\ Chosen("evidence", EvidenceNext, evidenceVars)
    /\ Chosen("figures", FiguresNext, figuresVars)
    /\ Chosen("start", StartNext, startVars)

\* The fairness of each component, while it is the chosen one.
PartsFairness ==
    /\ WF_streamVars(part = "stream" /\ SocketLoop)
    /\ WF_streamVars(part = "stream" /\ Keepalive)
    /\ WF_streamVars(part = "stream" /\ Tick)
    /\ WF_alertVars(part = "alerts" /\ Check)
    /\ WF_alertVars(part = "alerts" /\ PollEvents)
    /\ WF_alertVars(part = "alerts" /\ PollOrders)
    /\ WF_loopVars(part = "loop" /\ StartStream)
    /\ WF_loopVars(part = "loop" /\ StopSeen)
    /\ WF_loopVars(part = "loop" /\ Shutdown)
    /\ WF_loopVars(part = "loop" /\ \E ok \in BOOLEAN : Gates(ok))
    /\ WF_loopVars(part = "loop" /\ \E k \in 1..MaxTrade, p \in Places : Release(k, p))
    /\ WF_repairVars(part = "gap" /\ Attempt)
    /\ WF_repairVars(part = "gap" /\ Worker)

partsVars ==
    <<part, streamVars, lossVars, paperVars, alertVars, loopVars, repairVars, replayVars,
      klineVars, evidenceVars, figuresVars, startVars>>

PartsSpec == PartsInit /\ [][PartsNext]_partsVars /\ PartsFairness
-----------------------------------------------------------------------------
\* The shape of every component's variables.
PartsTypeOK ==
    /\ StreamTypeOK /\ LossTypeOK /\ PaperTypeOK /\ AlertTypeOK /\ LoopTypeOK
    /\ RepairTypeOK /\ ReplayTypeOK /\ KlineTypeOK /\ EvidenceTypeOK
    /\ FiguresTypeOK /\ StartTypeOK

(* The simulated books agree and lose no money, and a position never       *)
(* stands without its levels unseen, after every order and restart.        *)
PaperBooksHold == WealthIsConserved /\ BooksAgree /\ LevelsFollowPosition

(* What the operator hears is true: alarms are the conditions found, no    *)
(* message of the watcher is sent twice, and the alert of the private      *)
(* stream follows the socket.                                              *)
AlertsAreTrue == AlarmsAreTrue /\ ToldOnce /\ AlertSettles

(* What a funded start rests on is true: PASS is said of the benchmark's   *)
(* own trades only, drawdown and sizes are those of the whole curve, the   *)
(* candles compared are the canonical ones one to one, and the             *)
(* observations the gates read are this start's.                           *)
EvidenceIsHonest == TradesAreHonest /\ CurveIsTrue /\ ComparisonIsExact /\ FundedStartIsEvidenced

(* Nothing is stuck: the private stream's socket comes back to the live    *)
(* key, a fill is told, a stop comes, and a gap ends, each by the fairness *)
(* of its own component.                                                   *)
PartsSettle ==
    /\ StreamSettles
    /\ FillsAreTold
    /\ StopComes
    /\ part = "gap" => GapEnds
=============================================================================
