---------------------------- MODULE MCMarketData ----------------------------
(***************************************************************************)
(* MarketData for TLC: when the trades of each instance are executed.      *)
(***************************************************************************)
EXTENDS MarketData, TLC

\* Bars of two minutes; the stream is joined in the last minute of a bar, the
\* next bar opens with two trades in a minute, and another bar follows.
TwoBars == <<3, 4, 4, 5, 6, 7>>

\* The same with one bar.
OneBar == <<3, 4, 4, 5, 6>>
=============================================================================
