--------------------------- MODULE MCDriverRemove ---------------------------
(***************************************************************************)
(* The machine of MCRemove for `driver remove`: the two vendor drivers     *)
(* share a package, one target is fuzzy and scores against both.           *)
(***************************************************************************)
EXTENDS MCRemove, DriverRemove

CONSTANT fuzzy

MCScored == [t \in DriverTarget |-> IF t = fuzzy THEN {d1, d2} ELSE {t}]

\* A vendor driver with and without --force, the fuzzy name, a system driver.
MCDriverCalls ==
  {[target |-> d1, force |-> f] : f \in BOOLEAN}
    \cup {[target |-> t, force |-> TRUE] : t \in {fuzzy, sys}}

\* A `remove` in its place, with the cleanup and without.
MCRemoveCalls == {Call(q2, FALSE, FALSE), Call(q1, TRUE, TRUE)}

\* One or both of the vendor drivers; the queues of MCRemove where they fit; or a
\* dependent of d1 that is named like the address at which q1 prints on d2.
MCDriverInit ==
  /\ registered \in {{sys, d1}, Driver}
  /\ queues \in MCQueues \cup {{}, {Q(q1, d2, ipA), Q(a, d1, usb)}}
  /\ packages = Package
  /\ ports = Port
  /\ DriverInit

\* The administrator adds only queues with names of their own.
MCDriverNext ==
  \/ \E p \in Proc : StartDriver(p) \/ DriverStep(p) \/ KillDriver(p) \/ DriverRemoveSide(p)
  \/ DriverAround /\ \A q \in queues' \ queues : q.name # a

MCDriverSpec == MCDriverInit /\ [][MCDriverNext]_driverVars /\ DriverFairness

=============================================================================
