----------------------------- MODULE MCSpending -----------------------------
(* A small instance of Spending for TLC: its constants are in the .cfg. *)
EXTENDS Spending

\* A response costs one unit, a search two.
MCPrices == {1}
=============================================================================
