------------------------------ MODULE LiveStart ------------------------------
(***************************************************************************)
(* The start of a LIVE engine on one instance database, after other        *)
(* processes have run on it: the check before anything connects, the       *)
(* initialisation with its reconciliation, the wait for the streams while  *)
(* trades are held, and the gates, which read what this process and its    *)
(* predecessors recorded, and how long ago.                                *)
(*                                                                         *)
(* The gates on files are in ParityEvidence, those on orders in            *)
(* AccountAudit; here are the gates whose evidence grows old.              *)
(***************************************************************************)
EXTENDS Integers, Sequences, SequencesExt, FiniteSets

CONSTANTS
    Simulated,    \* the modes gates 14 and 21 ask for: SHADOW, PAPER
    StreamTtl,    \* EXPIRY of market_data and private_stream
    ReconcileTtl, \* EXPIRY of reconciliation
    AttestTtl,    \* EXPIRY of the soak and chaos evidence
    LastTick,     \* bound on time
    StartMax      \* bound on starts

ASSUME StartAssumption ==
    /\ {StreamTtl, ReconcileTtl, AttestTtl, LastTick, StartMax} \subseteq Nat \ {0}
    /\ "LIVE" \notin Simulated /\ StreamTtl <= ReconcileTtl /\ ReconcileTtl <= AttestTtl

Streams == {"public", "private"}
Modes == Simulated \cup {"LIVE"}
Never == 0

VARIABLES
    tick,     \* time
    engine,   \* the process: off, starting, awaiting (trades are held), running, trading
    mode,     \* its mode, and when and as which start it began
    began, startCount,
    beats,    \* record_heartbeat: the last of each stream, of whatever process
    reported, \* the streams that have reported in this process
    heldTrade, \* a trade is in the hold buffer
    recons,   \* RECONCILIATION_COMPLETED events: when, and whether clean
    ran,      \* modes of the SYSTEM_INITIALIZED events
    telemetry,  \* there are rows, in this database or one beside it
    attested, \* soak and chaos evidence
    halted,   \* the kill switch is engaged
    opened    \* when the gates let this process trade

startVars == <<tick, engine, mode, began, startCount, beats, reported, heldTrade, recons, ran,
               telemetry, attested, halted, opened>>
onRecord == <<recons, ran, telemetry, attested>>

Within(at, ttl) == at # Never /\ tick - at <= ttl
-----------------------------------------------------------------------------
StartInit ==
    /\ tick = 1 /\ engine = "off" /\ mode = "LIVE" /\ began = Never /\ startCount = 0
    /\ beats = [s \in Streams |-> Never] /\ reported = {} /\ heldTrade = FALSE
    /\ recons = <<>> /\ ran = {} /\ telemetry = FALSE /\ attested = Never
    /\ halted = FALSE /\ opened = Never

TickOn ==
    /\ tick < LastTick
    /\ tick' = tick + 1
    /\ UNCHANGED <<engine, mode, began, startCount, beats, reported, heldTrade, onRecord, halted, opened>>

\* The operator engages or clears the kill switch.
TurnKill ==
    /\ halted' = ~halted
    /\ UNCHANGED <<tick, engine, mode, began, startCount, beats, reported, heldTrade, onRecord, opened>>

\* record_evidence, after a soak and a chaos exercise.
Attest ==
    /\ attested' = tick
    /\ UNCHANGED <<tick, engine, mode, began, startCount, beats, reported, heldTrade, recons, ran,
                   telemetry, halted, opened>>

\* main, with preflight_live_authorization.
StartEngine(m) ==
    /\ engine = "off" /\ startCount < StartMax
    /\ m = "LIVE" => ~halted
    /\ engine' = "starting" /\ mode' = m /\ began' = tick /\ startCount' = startCount + 1
    /\ UNCHANGED <<tick, beats, reported, heldTrade, onRecord, halted, opened>>

(* initialize: reconcile_all records how it ended, clean or not, and then  *)
(* the run is recorded with its mode.                                      *)
Initialise(clean) ==
    /\ engine = "starting"
    /\ recons' = Append(recons, [at |-> tick, clean |-> clean])
    /\ ran' = ran \cup {mode}
    /\ engine' = IF mode = "LIVE" THEN "awaiting" ELSE "running"
    /\ UNCHANGED <<tick, mode, began, startCount, beats, reported, heldTrade, telemetry, attested, halted, opened>>

\* An order is submitted in another mode, here or at an instance beside it.
Measured ==
    /\ engine = "running" /\ ~telemetry
    /\ telemetry' = TRUE
    /\ UNCHANGED <<tick, engine, mode, began, startCount, beats, reported, heldTrade, recons, ran,
                   attested, halted, opened>>

\* A trade, or a lifecycle event of the private stream; a trade is held until the gates have passed.
StreamReports(s) ==
    /\ engine \in {"awaiting", "running", "trading"}
    /\ s = "private" => mode = "LIVE"
    /\ beats' = [beats EXCEPT ![s] = tick] /\ reported' = reported \cup {s}
    /\ heldTrade' = (heldTrade \/ (s = "public" /\ engine = "awaiting"))
    /\ UNCHANGED <<tick, engine, mode, began, startCount, onRecord, halted, opened>>

-----------------------------------------------------------------------------
(* The gates whose evidence is an observation.                             *)

\* Gates 10 and 12, and 20 and 27: age_s, of this process's heartbeat or else of the stored one.
StreamFresh(s) == Within(beats[s], StreamTtl)

\* Gates 14 and 21.
ModesTested == Simulated \subseteq ran

\* Mutant of Reconciled: any clean reconciliation that is recent enough.
ReconciledOnce == \E i \in DOMAIN recons : recons[i].clean /\ Within(recons[i].at, ReconcileTtl)

\* Gates 19 and 28: the latest one.
Reconciled == recons # <<>> /\ Last(recons).clean /\ Within(Last(recons).at, ReconcileTtl)

\* Gate 34.
SoakRecorded == Within(attested, AttestTtl)

\* With gates 22 and 33.
GatesPass ==
    /\ ~halted
    /\ \A s \in Streams : StreamFresh(s)
    /\ ModesTested /\ Reconciled /\ SoakRecorded /\ telemetry

\* _await_stream_evidence: a trade is held and the private stream has an age.
StreamsSeen == heldTrade /\ beats["private"] # Never

(* The wait ends with the evidence or after 45 seconds; then the gates     *)
(* are evaluated, and the held trades processed, without a break.          *)
OpenGates(timeout, dryRun) ==
    /\ engine = "awaiting" /\ (timeout \/ StreamsSeen)
    /\ IF GatesPass /\ ~dryRun
         THEN engine' = "trading" /\ opened' = tick /\ UNCHANGED reported
         ELSE engine' = "off" /\ reported' = {} /\ UNCHANGED opened
    /\ heldTrade' = FALSE
    /\ UNCHANGED <<tick, mode, began, startCount, beats, onRecord, halted>>

\* A failed initialisation, an operator's stop or a death.
StopEngine ==
    /\ engine # "off"
    /\ engine' = "off" /\ reported' = {} /\ heldTrade' = FALSE /\ opened' = Never
    /\ UNCHANGED <<tick, mode, began, startCount, beats, onRecord, halted>>

StartNext ==
    \/ TickOn \/ TurnKill \/ Attest \/ Measured \/ StopEngine
    \/ \E m \in Modes : StartEngine(m)
    \/ \E clean \in BOOLEAN : Initialise(clean)
    \/ \E s \in Streams : StreamReports(s)
    \/ \E timeout, dryRun \in BOOLEAN : OpenGates(timeout, dryRun)

StartSpec == StartInit /\ [][StartNext]_startVars
-----------------------------------------------------------------------------
(* Properties.                                                             *)

\* The shape of every variable.
StartTypeOK ==
    /\ tick \in 1..LastTick /\ engine \in {"off", "starting", "awaiting", "running", "trading"}
    /\ mode \in Modes /\ began \in 0..tick /\ startCount \in 0..StartMax
    /\ beats \in [Streams -> 0..tick] /\ reported \subseteq Streams
    /\ heldTrade \in BOOLEAN /\ halted \in BOOLEAN /\ telemetry \in BOOLEAN
    /\ recons \in Seq([at : 1..tick, clean : BOOLEAN]) /\ Len(recons) <= startCount
    /\ ran \subseteq Modes /\ attested \in 0..tick /\ opened \in 0..tick

(* Funded trading rests on this start's own account: a LIVE engine trades  *)
(* only behind a clean reconciliation of its own, whatever an earlier      *)
(* process recorded, after runs in both simulated modes, with a soak and   *)
(* chaos record that had not expired, and with no trade left behind in the *)
(* hold buffer.                                                            *)
FundedStartIsEvidenced ==
    engine = "trading" =>
        /\ mode = "LIVE" /\ ~heldTrade
        /\ Last(recons).at >= began /\ Last(recons).clean /\ Len(recons) > Cardinality(Simulated)
        /\ attested # Never /\ opened - attested <= AttestTtl

(* main.py says of the wait for the streams that the gates then fail       *)
(* closed on the missing evidence and say which stream was silent: an      *)
(* engine trades only when both streams have reported to it.               *)
StreamsReported == engine = "trading" => reported = Streams
=============================================================================
