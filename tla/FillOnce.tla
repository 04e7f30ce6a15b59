------------------------------ MODULE FillOnce ------------------------------
(***************************************************************************)
(* What the shared fill path promises while the engine runs: the exchange  *)
(* executes orders, and each executed lot of each order reaches the        *)
(* position at most once, whatever number of reports of it arrive and in   *)
(* whatever order.  Sells are reduce-only, so a sell takes no more than    *)
(* the position holds and never reverses it.                               *)
(***************************************************************************)
EXTENDS Naturals

CONSTANTS Entries, Exits

Ids == Entries \cup Exits

VARIABLES
    executed,   \* lots of each order the exchange has executed
    booked,     \* lots of each order the position accounts for
    long        \* the engine's net long position

vars == <<executed, booked, long>>

Init ==
    /\ executed = [c \in Ids |-> 0]
    /\ booked = [c \in Ids |-> 0]
    /\ long = 0

\* Only entry c of f moves, and it moves up.
Raises(f, g, c) ==
    /\ g \in [Ids -> Nat]
    /\ g[c] > f[c]
    /\ \A d \in Ids \ {c} : g[d] = f[d]

Execute(c) ==
    /\ Raises(executed, executed', c)
    /\ UNCHANGED <<booked, long>>

\* Only the lots of order c that were not booked before move the position.
Book(c) ==
    /\ Raises(booked, booked', c)
    /\ booked'[c] <= executed[c]
    /\ LET fresh == booked'[c] - booked[c]
       IN  long' = IF c \in Entries THEN long + fresh
                   ELSE IF fresh <= long THEN long - fresh ELSE 0
    /\ UNCHANGED executed

Next == \E c \in Ids : Execute(c) \/ Book(c)

Spec == Init /\ [][Next]_vars
=============================================================================
