------------------------------ MODULE MCAndon ------------------------------
(* Instances of Andon for TLC: two requests that evaluate the unit, as the *)
(* page of the avisos makes, and one supervisor.                           *)
EXTENDS Andon, TLC
=============================================================================
