------------------------------ MODULE DailyLoss ------------------------------
(***************************************************************************)
(* The daily loss limit of an authenticated account: the start-of-day      *)
(* snapshot of equity, the breaker and the kill switch behind it, from the *)
(* entry guards, the supervisor and a start.                               *)
(*                                                                         *)
(* Equity is a small number that the market moves while a position is      *)
(* open; the engine knows the reading of its last refresh, and whether     *)
(* that reading is fresh.  The snapshot is one row of the store.           *)
(***************************************************************************)
EXTENDS Integers

CONSTANTS
    MaxEquity,      \* bound on equity
    Limit,          \* max_daily_drawdown_usd
    MaxDay,         \* the last UTC day of the instance
    MaxDeaths,      \* bound on deaths of the process
    MaxFailures     \* bound on account reads and commits that fail

ASSUME DailyLossAssumption ==
    /\ MaxEquity \in Nat \ {0} /\ Limit \in 1..MaxEquity
    /\ MaxDay \in Nat \ {0} /\ MaxDeaths \in Nat /\ MaxFailures \in Nat

VARIABLES
    day,        \* the UTC day
    equity,     \* external: what the account is worth
    open,       \* a position is open
    reading,    \* account_equity, None before the first reading
    fresh,      \* mark price and reading are young enough
    stored,     \* the snapshot in the store
    breaker,    \* breaker_engaged
    switch,     \* the kill switch file
    at,         \* where evaluate_entry is
    cleared,    \* the last day the operator released the kill switch
    torn,       \* the last day the breaker was stored and its kill switch not
    deaths, failures

engineView == <<reading, fresh, breaker>>
lossVars == <<day, equity, open, engineView, stored, switch, at, cleared, torn, deaths, failures>>

-----------------------------------------------------------------------------
None == -1

Worth == 0..MaxEquity

NoSnapshot == [day |-> 0, equity |-> 0, breaker |-> FALSE]

LossInit ==
    /\ day = 1 /\ equity = MaxEquity /\ open = FALSE
    /\ reading = None /\ fresh = FALSE /\ breaker = FALSE
    /\ stored = NoSnapshot
    /\ switch = FALSE
    /\ at = "down"
    /\ cleared = 0 /\ torn = 0 /\ deaths = 0 /\ failures = 0

-----------------------------------------------------------------------------
(* The world.                                                              *)

Move(e) ==
    /\ open /\ e \in {equity - 1, equity + 1} \cap Worth
    /\ equity' = e
    /\ UNCHANGED <<day, open, engineView, stored, switch, at, cleared, torn, deaths, failures>>

Midnight ==
    /\ day < MaxDay
    /\ day' = day + 1
    /\ UNCHANGED <<equity, open, engineView, stored, switch, at, cleared, torn, deaths, failures>>

Close ==
    /\ at = "idle" /\ open
    /\ open' = FALSE
    /\ UNCHANGED <<day, equity, engineView, stored, switch, at, cleared, torn, deaths, failures>>

Grow ==
    /\ fresh
    /\ fresh' = FALSE
    /\ UNCHANGED <<day, equity, open, reading, breaker, stored, switch, at, cleared, torn, deaths, failures>>

\* The operator runs --disengage-kill.
Disengage ==
    /\ switch
    /\ switch' = FALSE /\ cleared' = day
    /\ UNCHANGED <<day, equity, open, engineView, stored, at, torn, deaths, failures>>

-----------------------------------------------------------------------------
(* EquityTracker.                                                          *)

Known(r) == IF r = None THEN 0 ELSE r

Snapshot(e) == [day |-> day, equity |-> e, breaker |-> FALSE]

(* ensure_daily_snapshot: the first call of a day takes the last reading,  *)
(* whatever its age, or 0, for the equity the day began with.              *)
EnsureSnapshot(e) ==
    IF stored.day = day THEN UNCHANGED <<stored, breaker>>
    ELSE stored' = Snapshot(e) /\ breaker' = FALSE

\* refresh, at each close of a bar.
Refresh ==
    /\ at = "idle"
    /\ reading' = equity /\ fresh' = TRUE
    /\ UNCHANGED <<day, equity, open, breaker, stored, switch, at, cleared, torn, deaths, failures>>

\* HealthSupervisor.check describes an engaged breaker by equity.snapshot().
Supervise ==
    /\ at = "idle" /\ breaker /\ reading # None
    /\ EnsureSnapshot(Known(reading))
    /\ UNCHANGED <<day, equity, open, reading, fresh, switch, at, cleared, torn, deaths, failures>>

-----------------------------------------------------------------------------
(* evaluate_entry; check_daily_loss is the last of its guards.             *)

\* The guards before it let the entry through.
LastGuard == ~switch /\ ~open /\ fresh /\ reading # None

Base == IF stored.day = day THEN stored.equity ELSE Known(reading)

Down == Base - Known(reading)

Enter ==
    /\ at = "idle" /\ LastGuard /\ Down < Limit
    /\ EnsureSnapshot(Known(reading))
    /\ open' = TRUE
    /\ UNCHANGED <<day, equity, reading, fresh, switch, at, cleared, torn, deaths, failures>>

\* Refused, the breaker being engaged already.
RefusedAgain ==
    /\ at = "idle" /\ LastGuard /\ Down >= Limit /\ breaker
    /\ EnsureSnapshot(Known(reading))
    /\ UNCHANGED <<day, equity, open, reading, fresh, switch, at, cleared, torn, deaths, failures>>

\* Engaged and stored; the incident and the kill switch are still to come.
Engage ==
    /\ at = "idle" /\ LastGuard /\ Down >= Limit /\ ~breaker
    /\ breaker' = TRUE
    /\ stored' = [stored EXCEPT !.breaker = TRUE]
    /\ at' = "engaging"
    /\ UNCHANGED <<day, equity, open, reading, fresh, switch, cleared, torn, deaths, failures>>

\* Mutant of Kill: the breaker alone is thought to be enough.
KillForgotten ==
    /\ at = "engaging"
    /\ at' = "idle"
    /\ UNCHANGED <<day, equity, open, engineView, stored, switch, cleared, torn, deaths, failures>>

Kill ==
    /\ at = "engaging"
    /\ switch' = TRUE
    /\ at' = "idle"
    /\ UNCHANGED <<day, equity, open, engineView, stored, cleared, torn, deaths, failures>>

\* The incident cannot be recorded: the error leaves check_daily_loss.
KillSkipped ==
    /\ at = "engaging" /\ failures < MaxFailures
    /\ failures' = failures + 1
    /\ torn' = stored.day
    /\ at' = "idle"
    /\ UNCHANGED <<day, equity, open, engineView, stored, switch, cleared, deaths>>

-----------------------------------------------------------------------------
(* Death and start.                                                        *)

Die ==
    /\ at # "down" /\ deaths < MaxDeaths
    /\ deaths' = deaths + 1
    /\ torn' = IF at = "engaging" THEN stored.day ELSE torn
    /\ at' = "down"
    /\ reading' = None /\ fresh' = FALSE /\ breaker' = FALSE
    /\ UNCHANGED <<day, equity, open, stored, switch, cleared, failures>>

\* restore: the breaker is what the snapshot of whichever day says.
Restored == stored.breaker

(* restore, refresh and ensure_daily_snapshot, one after the other; the    *)
(* account may not be readable.                                            *)
Boot(readable) ==
    /\ at = "down"
    /\ IF readable THEN reading' = equity /\ fresh' = TRUE /\ UNCHANGED failures
       ELSE failures < MaxFailures /\ failures' = failures + 1 /\ UNCHANGED <<reading, fresh>>
    /\ stored' = IF stored.day = day THEN stored ELSE Snapshot(Known(IF readable THEN equity ELSE None))
    /\ breaker' = (stored.day = day /\ Restored)
    /\ at' = "idle"
    /\ UNCHANGED <<day, equity, open, switch, cleared, torn, deaths>>

-----------------------------------------------------------------------------
EvaluateEntry == Enter \/ RefusedAgain \/ Engage \/ Kill \/ KillSkipped

LossNext ==
    \/ \E e \in Worth : Move(e)
    \/ Midnight \/ Close \/ Grow \/ Disengage
    \/ Refresh \/ Supervise \/ EvaluateEntry \/ Die
    \/ \E readable \in BOOLEAN : Boot(readable)

LossSpec == LossInit /\ [][LossNext]_lossVars
-----------------------------------------------------------------------------
(* Properties.                                                             *)

\* The shape of every variable.
LossTypeOK ==
    /\ day \in 1..MaxDay /\ equity \in Worth /\ open \in BOOLEAN
    /\ reading \in Worth \cup {None} /\ fresh \in BOOLEAN
    /\ stored \in [day : 0..MaxDay, equity : Worth, breaker : BOOLEAN]
    /\ breaker \in BOOLEAN /\ switch \in BOOLEAN
    /\ at \in {"down", "idle", "engaging"}
    /\ cleared \in 0..MaxDay /\ torn \in 0..MaxDay
    /\ deaths \in 0..MaxDeaths /\ failures \in 0..MaxFailures

(* The breaker outlives the process, in its own day and in no other: what  *)
(* is in memory is what is stored, through deaths, starts and rollovers    *)
(* begun by any of three callers.                                          *)
BreakerIsStored == at # "down" => (breaker <=> stored.breaker)

(* "New entries are blocked for the rest of the UTC day": on the day of    *)
(* the breaker none is made, however equity recovers, unless the operator  *)
(* released the kill switch, or the process died or failed between storing *)
(* the breaker and engaging the switch, after which nothing engages it.    *)
BreakerHolds ==
    [][~open /\ open' /\ stored.day = day /\ stored.breaker
          => cleared = day \/ torn = day]_lossVars
=============================================================================
