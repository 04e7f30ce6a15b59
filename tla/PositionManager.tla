-------------------------- MODULE PositionManager ---------------------------
(***************************************************************************)
(* The position arithmetic of execution/position_manager.py, in lots and   *)
(* without prices: the net position of one symbol as a side and a          *)
(* quantity, moved by fills and overwritten by reconciliation.             *)
(***************************************************************************)
EXTENDS Naturals

Side == {"BUY", "SELL"}

Flat == [side |-> "FLAT", qty |-> 0]

Position == [side : Side \cup {"FLAT"}, qty : Nat]

IsFlat(p) == p.qty = 0 \/ p.side = "FLAT"

(* The quantity a fill is worked at: a reduce-only fill against the open   *)
(* side is cut to what is open, and against a flat position is dropped.    *)
(* A reduce-only fill on the open side is not cut.                         *)
EffectiveQty(p, side, qty, reduceOnly) ==
    IF reduceOnly /\ IsFlat(p) THEN 0
    ELSE IF reduceOnly /\ side # p.side /\ qty > p.qty THEN p.qty
    ELSE qty

\* Opening a position, or adding to it.
Added(p, side, q) == IF IsFlat(p) THEN [side |-> side, qty |-> q] ELSE [p EXCEPT !.qty = @ + q]

\* Reducing, closing or reversing one.
Taken(p, side, q) ==
    IF q < p.qty THEN [p EXCEPT !.qty = @ - q]
    ELSE IF q = p.qty THEN Flat
    ELSE [side |-> side, qty |-> q - p.qty]

(* on_fill: a zero quantity changes nothing.                               *)
OnFill(p, side, qty, reduceOnly) ==
    LET q == EffectiveQty(p, side, qty, reduceOnly)
    IN  IF q = 0 THEN p
        ELSE IF IsFlat(p) \/ side = p.side THEN Added(p, side, q)
        ELSE Taken(p, side, q)

(* sync_from_exchange: the exchange's answer replaces the local one.       *)
SyncFromExchange(exchange) == IF IsFlat(exchange) THEN Flat ELSE exchange
=============================================================================
