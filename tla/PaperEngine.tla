----------------------------- MODULE PaperEngine -----------------------------
(***************************************************************************)
(* The engine over its simulated brokers: the PAPER account with its       *)
(* balance, margin and snapshot, the SHADOW book, the engine's own         *)
(* position beside them, the recorded protective levels, and a death       *)
(* between any two writes.                                                 *)
(*                                                                         *)
(* One lot is the smallest order; a price is a multiple of 16, so that the *)
(* averages and halves the code computes in decimals are whole.  The free  *)
(* balance is counted in PaperLeverage-ths, in which a margin is whole.    *)
(***************************************************************************)
EXTENDS Integers

CONSTANTS
    Prices,         \* reference prices
    Impact,         \* half the spread and the slippage, of the arrival price
    FeeShare,       \* a fee is the notional over FeeShare
    PaperLeverage,
    Deposit,        \* initial_balance
    MinNotional,    \* of the symbol's filters
    MaxLots,        \* lots of an order and of the position
    MaxOrders,      \* bound on orders
    MaxFalls,       \* bound on deaths of the process
    MaxUnsaved      \* bound on snapshots that could not be written

ASSUME PaperAssumption ==
    /\ Prices \subseteq Nat /\ Impact \in Nat /\ \A p \in Prices : p > Impact
    /\ FeeShare \in Nat \ {0} /\ PaperLeverage \in Nat \ {0}
    /\ Deposit \in Nat /\ MinNotional \in Nat /\ MaxLots \in Nat \ {0}
    /\ MaxOrders \in Nat /\ MaxFalls \in Nat /\ MaxUnsaved \in Nat

VARIABLES
    paperMode,  \* PAPER or SHADOW
    slotted,    \* the strategy keeps a slot book instead of protective levels
    acct,       \* the broker's account, in memory
    snap,       \* the last PAPER_ACCOUNT_SNAPSHOT
    held,       \* the engine's position: lots and what they cost
    booked,     \* the position the fill ledger replays to
    levels,     \* the protective state in the store
    missing,    \* PROTECTIVE_STATE_MISSING was recorded for this position
    bare,       \* the heartbeat of protective_state says UNPROTECTED
    ord,        \* the order under way
    where,      \* where the submission is
    doubt,      \* an intent without an answer is in the store
    lapsed,     \* history: a fill the ledger never got
    sent, falls, unsaved

brokerVars == <<acct, snap, unsaved>>
levelVars == <<levels, missing, bare>>
paperVars == <<paperMode, slotted, brokerVars, held, booked, levelVars, ord, where, doubt, lapsed, sent, falls>>

-----------------------------------------------------------------------------
NoLots == [lots |-> 0, cost |-> 0]

\* Money in the units of the balance.  A margin, the worth over PaperLeverage, is the worth in them.
Leveraged(money) == PaperLeverage * money

\* flow is a history variable: what orders paid in and out, fees included.
Account(pos, money, flow) ==
    [lots |-> pos.lots, cost |-> pos.cost, balance |-> Leveraged(money), flow |-> flow]

FreshAccount == Account(NoLots, Deposit, 0)

NoOrder == [side |-> "NONE", lots |-> 0, ref |-> 0, filled |-> 0]

PaperInit ==
    /\ paperMode \in {"PAPER", "SHADOW"} /\ slotted \in BOOLEAN
    /\ acct = FreshAccount /\ snap = FreshAccount
    /\ held = NoLots /\ booked = NoLots
    /\ levels = FALSE /\ missing = FALSE /\ bare = FALSE
    /\ ord = NoOrder /\ where = "idle" /\ doubt = FALSE /\ lapsed = FALSE
    /\ sent = 0 /\ falls = 0 /\ unsaved = 0

-----------------------------------------------------------------------------
(* PositionManager.on_fill of a long position, with its weighted average:  *)
(* a reduction takes lots at the average cost, and takes no more than are. *)
Bought(pos, n, p) == [pos EXCEPT !.lots = @ + n, !.cost = @ + n * p]

Released(pos, n) == IF pos.lots = 0 THEN 0 ELSE (pos.cost * n) \div pos.lots

AtMost(pos, n) == IF n > pos.lots THEN pos.lots ELSE n

Sold(pos, n) ==
    LET k == AtMost(pos, n)
    IN  [pos EXCEPT !.lots = @ - k, !.cost = @ - Released(pos, k)]

OnPaperFill(pos, side, n, p) == IF side = "BUY" THEN Bought(pos, n, p) ELSE Sold(pos, n)

-----------------------------------------------------------------------------
(* The brokers.                                                            *)

\* arrival_price; the SHADOW broker takes the reference as it is.
Arrival(side, p) == IF paperMode = "SHADOW" THEN p ELSE IF side = "BUY" THEN p + Impact ELSE p - Impact

Valid(n, p) == n * p >= MinNotional

Fee(worth) == IF paperMode = "SHADOW" THEN 0 ELSE worth \div FeeShare

\* Reduce-only against the book: no more than it holds.
Workable(side, n) == IF side = "SELL" THEN AtMost(acct, n) ELSE n

Refuses(side, n, p) ==
    /\ paperMode = "PAPER"
    /\ \/ n = 0
       \/ ~Valid(n, p)
       \/ side = "BUY" /\ acct.balance < n * p + Leveraged(Fee(n * p))

\* What a fill does to the free balance.
Charged(side, n, p) ==
    IF side = "BUY" THEN -(n * p + Leveraged(Fee(n * p)))
    ELSE Released(acct, n) + Leveraged(n * p - Released(acct, n) - Fee(n * p))

Flow(side, n, p) == (IF side = "BUY" THEN -(n * p) ELSE n * p) - Fee(n * p)

Filled(side, n, p) ==
    [OnPaperFill(acct, side, n, p) EXCEPT
        !.balance = IF paperMode = "PAPER" THEN @ + Charged(side, n, p) ELSE @,
        !.flow = @ + Flow(side, n, p)]

\* _save_to_store: an error is logged and forgotten.
SaveSnapshot(a) ==
    \/ snap' = a /\ UNCHANGED unsaved
    \/ unsaved < MaxUnsaved /\ unsaved' = unsaved + 1 /\ UNCHANGED snap

-----------------------------------------------------------------------------
(* One submission, from the stored intent to the recorded levels.          *)

IntendEntry(n, p) ==
    /\ ~doubt /\ Valid(n, p) /\ held.lots + n <= MaxLots
    /\ slotted \/ held.lots = 0
    /\ ord' = [side |-> "BUY", lots |-> n, ref |-> p, filled |-> 0]

\* _authoritative_exit_quantity asks the broker first.
IntendExit(n, p) ==
    /\ acct.lots > 0 /\ held.lots > 0 /\ AtMost(acct, n) <= held.lots
    /\ slotted \/ n = held.lots
    /\ ord' = [side |-> "SELL", lots |-> AtMost(acct, n), ref |-> p, filled |-> 0]

Intend(n, p) ==
    /\ where = "idle" /\ sent < MaxOrders
    /\ IntendEntry(n, p) \/ IntendExit(n, p)
    /\ sent' = sent + 1 /\ where' = "intended"
    /\ UNCHANGED <<paperMode, slotted, brokerVars, held, booked, levelVars, doubt, lapsed, falls>>

\* place_order.
Place ==
    LET p == Arrival(ord.side, ord.ref)
        n == Workable(ord.side, ord.lots)
    IN  /\ where = "intended"
        /\ IF Refuses(ord.side, n, p) THEN UNCHANGED <<brokerVars, ord>>
           ELSE /\ acct' = Filled(ord.side, n, p)
                /\ ord' = [ord EXCEPT !.filled = n]
                /\ IF paperMode = "PAPER" THEN SaveSnapshot(acct') ELSE UNCHANGED <<snap, unsaved>>
        /\ where' = "answered"
        /\ UNCHANGED <<paperMode, slotted, held, booked, levelVars, doubt, lapsed, sent, falls>>

\* The answer is stored; a rejection ends here.
Record ==
    /\ where = "answered"
    /\ where' = IF ord.filled = 0 THEN "idle" ELSE "recorded"
    /\ ord' = IF ord.filled = 0 THEN NoOrder ELSE ord
    /\ UNCHANGED <<paperMode, slotted, brokerVars, held, booked, levelVars, doubt, lapsed, sent, falls>>

\* apply_order_response: the ledger and the engine's position.
ApplyAnswer ==
    LET p == Arrival(ord.side, ord.ref)
    IN  /\ where = "recorded"
        /\ held' = OnPaperFill(held, ord.side, ord.filled, p)
        /\ booked' = OnPaperFill(booked, ord.side, ord.filled, p)
        /\ where' = "applied"
        /\ UNCHANGED <<paperMode, slotted, brokerVars, levelVars, ord, doubt, lapsed, sent, falls>>

\* on_entry_filled, or on_exit_filled once the position is flat.
Protect ==
    /\ where = "applied"
    /\ IF slotted \/ (ord.side = "SELL" /\ held.lots > 0) THEN UNCHANGED levelVars
       ELSE /\ levels' = (ord.side = "BUY") /\ bare' = (ord.side = "BUY")
            /\ missing' = (missing /\ ord.side = "BUY")
    /\ ord' = NoOrder /\ where' = "idle"
    /\ UNCHANGED <<paperMode, slotted, brokerVars, held, booked, doubt, lapsed, sent, falls>>

-----------------------------------------------------------------------------
(* Death, and the start that follows it.                                   *)

Fall ==
    /\ where # "down" /\ falls < MaxFalls
    /\ falls' = falls + 1
    /\ doubt' = (doubt \/ where \in {"intended", "answered"})
    /\ lapsed' = (lapsed \/ (where \in {"answered", "recorded"} /\ ord.filled > 0))
    /\ ord' = NoOrder /\ where' = "down"
    /\ UNCHANGED <<paperMode, slotted, brokerVars, held, booked, levelVars, sent>>

(* reconcile_position: the PAPER broker is the truth, the SHADOW broker,   *)
(* which forgot everything, is told it.  Equal lots are left as they are.  *)
Agreed(mine, theirs) ==
    IF mine.lots = theirs.lots THEN mine ELSE [lots |-> theirs.lots, cost |-> theirs.cost]

\* Mutant of RestartBroker: the ledger is believed before the snapshot.
RestartBrokerKeeping ==
    /\ acct' = IF paperMode = "PAPER" THEN snap ELSE Account(booked, Deposit, 0)
    /\ held' = booked

RestartBroker ==
    IF paperMode = "PAPER"
    THEN acct' = snap /\ held' = Agreed(booked, snap)
    ELSE acct' = Account(booked, Deposit, -booked.cost) /\ held' = booked

\* ProtectiveStateManager.reconcile.
RestartLevels ==
    IF slotted THEN UNCHANGED levelVars
    ELSE /\ levels' = (levels /\ held'.lots > 0)
         /\ missing' = (held'.lots > 0 /\ ~levels)
         /\ bare' = (held'.lots > 0)

Rise ==
    /\ where = "down"
    /\ RestartBroker
    /\ RestartLevels
    /\ where' = "idle"
    /\ UNCHANGED <<paperMode, slotted, snap, unsaved, booked, ord, doubt, lapsed, sent, falls>>

-----------------------------------------------------------------------------
PaperNext ==
    \/ \E n \in 1..MaxLots, p \in Prices : Intend(n, p)
    \/ Place \/ Record \/ ApplyAnswer \/ Protect
    \/ Fall \/ Rise

PaperSpec == PaperInit /\ [][PaperNext]_paperVars
-----------------------------------------------------------------------------
(* Properties.                                                             *)

PaperPosition == [lots : 0..MaxLots, cost : Nat]

\* The shape of every variable.
PaperTypeOK ==
    /\ paperMode \in {"PAPER", "SHADOW"} /\ slotted \in BOOLEAN
    /\ acct \in [lots : 0..MaxLots, cost : Nat, balance : Int, flow : Int]
    /\ snap \in [lots : 0..MaxLots, cost : Nat, balance : Int, flow : Int]
    /\ held \in PaperPosition /\ booked.lots \in Nat /\ booked.cost \in Nat
    /\ levels \in BOOLEAN /\ missing \in BOOLEAN /\ bare \in BOOLEAN
    /\ ord \in [side : {"NONE", "BUY", "SELL"}, lots : 0..MaxLots, ref : Prices \cup {0}, filled : 0..MaxLots]
    /\ where \in {"idle", "intended", "answered", "recorded", "applied", "down"}
    /\ doubt \in BOOLEAN /\ lapsed \in BOOLEAN
    /\ sent \in 0..MaxOrders /\ falls \in 0..MaxFalls /\ unsaved \in 0..MaxUnsaved

(* No money is made or lost by bookkeeping: in memory and in the snapshot, *)
(* the free balance and the margin of the open lots are the deposit and    *)
(* what every fill paid, through averages, partial exits and restarts.     *)
Conserved(a) == a.balance + a.cost = Leveraged(Deposit + a.flow + a.cost)

WealthIsConserved == paperMode = "PAPER" => Conserved(acct) /\ Conserved(snap)

(* Between submissions the engine and its broker hold the same lots, at    *)
(* the same cost unless a snapshot was lost or the ledger misses a fill: a *)
(* death anywhere between the broker's fill and the recorded levels is     *)
(* made good by the start.                                                 *)
BooksAgree ==
    where = "idle" =>
        /\ held.lots = acct.lots
        /\ unsaved = 0 /\ ~lapsed => held.cost = acct.cost

(* A position has its levels, or their absence was reported; levels have a *)
(* position; and the heartbeat says which of the two it is.                *)
LevelsFollowPosition ==
    where = "idle" /\ ~slotted =>
        /\ held.lots > 0 => levels \/ missing
        /\ levels => held.lots > 0
        /\ bare <=> held.lots > 0
=============================================================================
