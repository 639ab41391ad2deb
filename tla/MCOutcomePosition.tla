--------------------------- MODULE MCOutcomePosition ---------------------------
(* One user, both legs of one outcome, up to three fills over six hours, rows   *)
(* that live three.                                                             *)
EXTENDS OutcomePosition
===============================================================================
