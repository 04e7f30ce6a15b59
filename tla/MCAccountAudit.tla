--------------------------- MODULE MCAccountAudit ---------------------------
(***************************************************************************)
(* AccountAudit for TLC: the order quantities of each instance.            *)
(***************************************************************************)
EXTENDS AccountAudit, TLC

CONSTANTS b1, s1

\* Entries and exits of one lot each.
OneLot == [c \in Ids |-> 1]

\* Every order may fill in two parts.
TwoLots == [c \in Ids |-> 2]

\* Entries fill in two parts, exits close one lot each.
TwoLotEntries == [c \in Ids |-> IF c \in Entries THEN 2 ELSE 1]
=============================================================================
