------------------------------ MODULE MCSalud ------------------------------
(* Instances of Salud for TLC: the configuration of ensureActiveConfig and *)
(* one that an administrator saves, stricter and all on maintenance.       *)
EXTENDS Salud, TLC

Seeded == [enabled |-> TRUE, alert |-> 60, recovery |-> 65,
           weights |-> [maintenance |-> 45, alerts |-> 40]]

Strict == [enabled |-> TRUE, alert |-> 70, recovery |-> 90,
           weights |-> [maintenance |-> 60, alerts |-> 0]]

SavedPolicies == {Seeded, Strict}

=============================================================================
