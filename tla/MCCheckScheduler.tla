-------------------------- MODULE MCCheckScheduler --------------------------
(* Instances of CheckScheduler for TLC: one reading, one policy. *)
EXTENDS CheckScheduler, TLC

OnePolicy ==
    <<[criticalMin |-> 10, normalMin |-> 25, normalMax |-> 35, criticalMax |-> 40]>>

PlainReadings ==
    {[fluids |-> [leaks |-> [status |-> "OK", severity |-> "NORMAL"]],
      tires |-> [p1 |-> [psi |-> 30, condition |-> "OK"]]]}
=============================================================================
