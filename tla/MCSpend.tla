------------------------------- MODULE MCSpend -------------------------------
(* The instance of Spend that TLC checks. *)
EXTENDS Spend

\* a piece of work costs 1, or the lab tells no price
PriceOrNone == {1, NoPrice}
=============================================================================
