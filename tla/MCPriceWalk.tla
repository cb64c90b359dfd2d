----------------------------- MODULE MCPriceWalk -----------------------------
(* Prices around the two floors of any_drop: 20000 -> 19900 is one dollar    *)
(* but half a percent, 150 -> 100 is a third but only fifty cents.           *)
EXTENDS PriceWalk

MCPrice == {100, 150, 300, 19900, 20000}
MCNights == {-2, 0, 2}
=============================================================================
