----------------------------- MODULE UserStream -----------------------------
(***************************************************************************)
(* The private stream of an authenticated account: the listen key, its     *)
(* renewal every half hour, the socket loop with its backoff, and what the *)
(* engine makes of the stream's reports: the private_stream heartbeat,     *)
(* without which no entry is allowed, and the PRIVATE_STREAM_DOWN alert.   *)
(*                                                                         *)
(* REST calls run in worker threads, so the renewal of a key, its rotation *)
(* and the minting of a new one interleave with the socket loop at every   *)
(* await.  One tick of time is the longest that an attempt to connect and  *)
(* the backoff before it may take: 60 s, 10 s for a key, 35 s to open the  *)
(* socket.  Several attempts fit between two renewals.                     *)
(***************************************************************************)
EXTENDS Naturals

CONSTANTS
    MaxKeys,        \* bound on listen keys minted by the exchange
    MaxFaults,      \* bound on calls that fail and connections that break
    MaxRuns,        \* bound on starts of the process
    Fresh,          \* freshness_s of private_stream, in ticks
    Interval        \* keepalive_interval_s, in ticks

ASSUME UserStreamAssumption ==
    /\ MaxKeys \in Nat \ {0} /\ MaxFaults \in Nat
    /\ MaxRuns \in Nat \ {0} /\ Fresh \in Nat \ {0} /\ Interval \in Nat \ {0}

VARIABLES
    key,        \* self.listen_key, 0 for None
    rotate,     \* self._rotate
    sock,       \* where the socket loop is
    skey,       \* the key in the URL of the socket
    keeper,     \* where the keepalive loop is
    sleep,      \* ticks until the next renewal
    quiet,      \* ticks since the last heartbeat of private_stream
    alert,      \* PRIVATE_STREAM_DOWN is active
    acted,      \* an attempt to connect ended since the last tick
    live,       \* external: the account's listen key, 0 for none
    minted,     \* external: keys minted so far
    blind,      \* ticks since the start of the loops or the last open socket
    faults, runs

keepTask == <<keeper, sleep>>
healthView == <<quiet, alert>>
exchangeKeys == <<live, minted>>
streamVars == <<key, rotate, sock, skey, keepTask, healthView, acted, exchangeKeys, blind, faults, runs>>

-----------------------------------------------------------------------------
StreamKeys == 0..MaxKeys

Off == {"off", "never", "stopping"}

Trying == {"begin", "minting", "minted", "connecting", "backoff"}

Capped(n) == IF n > Fresh THEN n ELSE n + 1

StreamInit ==
    /\ key = 0 /\ rotate = FALSE /\ sock = "off" /\ skey = 0 /\ keeper = "off" /\ sleep = 0
    /\ quiet = Fresh + 1 /\ alert = FALSE /\ acted = FALSE
    /\ live = 0 /\ minted = 0
    /\ blind = Fresh + 1
    /\ faults = 0 /\ runs = 0

(* on_user_stream_lifecycle.  Good or bad, every report is a heartbeat; it *)
(* clears or raises the alert.                                             *)
Report(good) ==
    /\ quiet' = 0 /\ alert' = ~good

Fault == faults < MaxFaults /\ faults' = faults + 1

\* External: a POST returns the account's key, or a new one.
Mint == IF live # 0 THEN UNCHANGED exchangeKeys
        ELSE minted < MaxKeys /\ minted' = minted + 1 /\ live' = minted + 1

-----------------------------------------------------------------------------
(* Start and stop.                                                         *)

\* The first key is minted before the loops are there.
Start ==
    /\ sock = "off" /\ runs < MaxRuns
    /\ runs' = runs + 1
    /\ Mint /\ key' = live' /\ rotate' = FALSE
    /\ Report(TRUE)
    /\ sock' = "begin" /\ skey' = 0 /\ blind' = 0 /\ acted' = FALSE
    /\ keeper' = "asleep" /\ sleep' = Interval
    /\ UNCHANGED faults

\* Without it the engine goes on, and nothing starts the stream later.
StartFails ==
    /\ sock = "off" /\ runs < MaxRuns
    /\ runs' = runs + 1
    /\ Fault
    /\ key' = 0 /\ rotate' = FALSE
    /\ sock' = "never" /\ skey' = 0 /\ acted' = FALSE
    /\ alert' = FALSE
    /\ UNCHANGED <<keepTask, quiet, exchangeKeys, blind>>

(* Both tasks are cancelled and awaited.  A mint under way goes on in its  *)
(* thread.                                                                 *)
Stop ==
    /\ sock \notin {"off", "stopping"}
    /\ rotate' = TRUE
    /\ sock' = IF sock = "minting" THEN "stopping" ELSE "off"
    /\ keeper' = "off" /\ sleep' = 0
    /\ UNCHANGED <<key, skey, healthView, exchangeKeys, acted, blind, faults, runs>>

OrphanMint ==
    /\ sock = "stopping"
    /\ sock' = "off"
    /\ \/ Mint /\ key' = live' /\ Report(TRUE)
       \/ UNCHANGED <<key, healthView, exchangeKeys>>
    /\ UNCHANGED <<rotate, skey, keepTask, acted, blind, faults, runs>>

-----------------------------------------------------------------------------
(* _stream_loop.                                                           *)

\* An attempt ends in the except clause.
Retry == sock' = "backoff" /\ acted' = TRUE /\ Report(FALSE)

Begin ==
    /\ sock = "begin"
    /\ sock' = IF key = 0 THEN "minting" ELSE "minted"
    /\ UNCHANGED <<key, rotate, skey, keepTask, healthView, exchangeKeys, acted, blind, faults, runs>>

\* In its thread: the key is there before the loop goes on.
MintKey ==
    /\ sock = "minting"
    /\ Mint /\ key' = live'
    /\ Report(TRUE)
    /\ sock' = "minted"
    /\ UNCHANGED <<rotate, skey, keepTask, acted, blind, faults, runs>>

MintFails ==
    /\ sock = "minting" /\ Fault
    /\ Retry
    /\ UNCHANGED <<key, rotate, skey, keepTask, exchangeKeys, blind, runs>>

(* The request to rotate is taken back and the URL built, which raises     *)
(* when a rotation took the key away meanwhile.                            *)
Proceed ==
    /\ sock = "minted"
    /\ rotate' = FALSE
    /\ IF key = 0 THEN Retry /\ UNCHANGED skey
       ELSE sock' = "connecting" /\ skey' = key /\ UNCHANGED <<healthView, acted>>
    /\ UNCHANGED <<key, keepTask, exchangeKeys, blind, faults, runs>>

\* Mutant of Connect: the flag is cleared when the socket opens.
ConnectClearing ==
    /\ sock = "connecting"
    /\ sock' = "connected" /\ blind' = 0 /\ rotate' = FALSE /\ acted' = TRUE
    /\ Report(TRUE)
    /\ UNCHANGED <<key, skey, keepTask, exchangeKeys, faults, runs>>

Connect ==
    /\ sock = "connecting"
    /\ sock' = "connected"
    /\ blind' = 0 /\ acted' = TRUE
    /\ Report(TRUE)
    /\ UNCHANGED <<key, rotate, skey, keepTask, exchangeKeys, faults, runs>>

\* The socket does not open, or breaks, or a handler raises.
Break ==
    /\ sock \in {"connecting", "connected"} /\ Fault
    /\ Retry
    /\ UNCHANGED <<key, rotate, skey, keepTask, exchangeKeys, blind, runs>>

BackoffEnds ==
    /\ sock = "backoff"
    /\ sock' = "begin"
    /\ UNCHANGED <<key, rotate, skey, keepTask, healthView, exchangeKeys, acted, blind, faults, runs>>

\* The loop sees the request to rotate and closes the socket.
Leave ==
    /\ sock = "connected" /\ rotate
    /\ sock' = "begin"
    /\ Report(FALSE)
    /\ UNCHANGED <<key, rotate, skey, keepTask, exchangeKeys, acted, blind, faults, runs>>

(* External: the account's key expires.  The socket on it may be told      *)
(* (listenKeyExpired), and rotates; a socket elsewhere never hears of it.  *)
Expire ==
    /\ live # 0 /\ minted < MaxKeys
    /\ live' = 0
    /\ UNCHANGED <<sock, skey, keepTask, minted, acted, blind, faults, runs>>
    /\ \/ /\ sock = "connected" /\ skey = live
          /\ key' = 0 /\ rotate' = TRUE /\ Report(FALSE)
       \/ UNCHANGED <<key, rotate, healthView>>

-----------------------------------------------------------------------------
(* _keepalive_loop.                                                        *)

\* The PUT renews the account's key, whichever this is.
Renew ==
    /\ keeper = "asleep" /\ sleep = 0 /\ key # 0 /\ live # 0
    /\ Report(TRUE)
    /\ sleep' = Interval
    /\ UNCHANGED <<key, rotate, sock, skey, keeper, exchangeKeys, acted, blind, faults, runs>>

\* Nothing to renew, the PUT refused for want of a key, or not got through.
RenewalFails ==
    /\ keeper = "asleep" /\ sleep = 0
    /\ \/ key = 0 /\ UNCHANGED <<healthView, faults>>
       \/ key # 0 /\ live = 0 /\ Report(FALSE) /\ UNCHANGED faults
       \/ key # 0 /\ Fault /\ Report(FALSE)
    /\ keeper' = "failed"
    /\ UNCHANGED <<key, rotate, sock, skey, sleep, exchangeKeys, acted, blind, runs>>

Rotate ==
    /\ keeper = "failed"
    /\ key' = 0 /\ rotate' = TRUE
    /\ keeper' = "asleep" /\ sleep' = Interval
    /\ UNCHANGED <<sock, skey, healthView, exchangeKeys, acted, blind, faults, runs>>

-----------------------------------------------------------------------------
\* Time passes.  A connected socket beats every 15 s, whatever it receives.
Tick ==
    /\ sock \in Trying => acted
    /\ acted' = FALSE
    /\ sleep' = IF sleep = 0 THEN 0 ELSE sleep - 1
    /\ quiet' = IF sock = "connected" THEN 0 ELSE Capped(quiet)
    /\ blind' = IF sock = "connected" THEN 0 ELSE Capped(blind)
    /\ UNCHANGED <<key, rotate, sock, skey, keeper, alert, exchangeKeys, faults, runs>>

SocketLoop == Begin \/ MintKey \/ Proceed \/ Connect \/ BackoffEnds \/ Leave

Keepalive == Renew \/ RenewalFails \/ Rotate

StreamNext ==
    \/ Start \/ StartFails \/ Stop \/ OrphanMint
    \/ SocketLoop \/ MintFails \/ Break \/ Expire
    \/ Keepalive \/ Tick

(* The loops of a running process go on, and calls that do not fail        *)
(* return.  The PUT after a half hour is sure to come, its success is not. *)
StreamFairness ==
    /\ WF_streamVars(SocketLoop) /\ WF_streamVars(Keepalive) /\ WF_streamVars(Tick)

StreamSpec == StreamInit /\ [][StreamNext]_streamVars /\ StreamFairness
-----------------------------------------------------------------------------
(* Properties.                                                             *)

\* can_open_new_risk, as far as the private stream goes.
MayEnter == quiet <= Fresh

\* The shape of every variable.
StreamTypeOK ==
    /\ key \in StreamKeys /\ skey \in StreamKeys /\ live \in StreamKeys /\ minted \in StreamKeys
    /\ rotate \in BOOLEAN /\ alert \in BOOLEAN /\ acted \in BOOLEAN
    /\ sock \in Off \cup Trying \cup {"connected"}
    /\ keeper \in {"off", "asleep", "failed"}
    /\ sleep \in 0..Interval
    /\ quiet \in 0..(Fresh + 1) /\ blind \in 0..(Fresh + 1)
    /\ faults \in 0..MaxFaults /\ runs \in 0..MaxRuns

(* A socket that stays open is on the key the engine keeps alive: whatever *)
(* rotation, renewal and minting do to the key while the socket is being   *)
(* opened, an older key is left again, because the request is pending.     *)
SocketOnCurrentKey ==
    sock \in {"connecting", "connected"} => skey = key \/ rotate

(* The alert follows the stream once it has settled: on an open socket     *)
(* that is not about to rotate it is not active, whichever failures were   *)
(* reported by either loop on the way there.                               *)
AlertSettles ==
    sock = "connected" /\ ~rotate /\ keeper # "failed" => ~alert

(* The socket comes to be on the account's live key again and again, when  *)
(* calls do not fail for ever, unless the engine stops or never started    *)
(* its stream: an expiry nobody was told of is found by the renewal.       *)
StreamSettles ==
    []<>(sock \in Off \/ (sock = "connected" /\ skey = live /\ live # 0))

(* Refuted.  "A dead private execution feed on an authenticated account is *)
(* a disconnect": fills would be invisible, so no entry is allowed once    *)
(* the socket has been away for longer than a heartbeat may be old.        *)
DeadStreamBlocks ==
    blind > Fresh /\ sock \in Trying => ~MayEnter
=============================================================================
