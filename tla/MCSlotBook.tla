----------------------------- MODULE MCSlotBook -----------------------------
(***************************************************************************)
(* SlotBook for TLC: the lots of each instance.                            *)
(***************************************************************************)
EXTENDS SlotBook, TLC

CONSTANTS g1, g2, g3

\* Every signal buys one lot.
OneLot == [s \in Signals |-> 1]

\* One signal buys two lots, in one trade or two; the others one.
Mixed == [s \in Signals |-> IF s = g1 THEN 2 ELSE 1]

\* Signals of one lot are interchangeable.
SignalSymmetry == Permutations(Signals \ {g1})
=============================================================================
