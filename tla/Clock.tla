------------------------------- MODULE Clock --------------------------------
(* The clock and the requests' clients, which the parts of admission share. *)
EXTENDS Naturals

CONSTANTS Client, None,
          MaxTime        \* bound: ticks of the clock

ASSUME ClockAssumption == MaxTime \in Nat \ {0} /\ None \notin Nat

VARIABLE now             \* ticks since the start
=============================================================================
