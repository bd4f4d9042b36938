------------------------------ MODULE Custody ------------------------------
(***************************************************************************)
(* What prinstall promises about other people's printers, whatever command *)
(* runs, however it fails and whoever works on the machine meanwhile.      *)
(*                                                                         *)
(* Queues may come and go one at a time.  A driver is taken away only when *)
(* it is not a Windows system driver and nothing prints with it; its       *)
(* package goes only together with it.  A port is taken away only when it  *)
(* is one the cleanup manages and nothing prints to it.  No step takes     *)
(* away things of two of these kinds.                                      *)
(***************************************************************************)
CONSTANTS Queue, Driver, SystemDriver, Port, ManagedPort

VARIABLES queues, registered, packages, ports

vars == <<queues, registered, packages, ports>>

Unused(d) == \A q \in queues : q.driver # d
Idle(x) == \A q \in queues : q.port # x

OneQueueMore ==
  /\ \E q \in [name: Queue, driver: registered, port: ports] :
       /\ \A r \in queues : r.name # q.name
       /\ queues' = queues \cup {q}
  /\ UNCHANGED <<registered, packages, ports>>

OneQueueLess ==
  /\ \E q \in queues : queues' = queues \ {q}
  /\ UNCHANGED <<registered, packages, ports>>

\* Unused vendor drivers go, with or without their package.
DriversLess ==
  /\ registered' \subseteq registered
  /\ \A d \in registered \ registered' : d \notin SystemDriver /\ Unused(d)
  /\ packages' \subseteq packages
  /\ registered' = registered => packages' = packages
  /\ UNCHANGED <<queues, ports>>

\* Drivers, packages and ports may be brought in at any time.
MoreSupply ==
  /\ registered \subseteq registered'
  /\ packages \subseteq packages'
  /\ ports \subseteq ports'
  /\ UNCHANGED queues

OnePortLess ==
  /\ \E x \in ports \cap ManagedPort : Idle(x) /\ ports' = ports \ {x}
  /\ UNCHANGED <<queues, registered, packages>>

Init == queues \subseteq [name: Queue, driver: Driver, port: Port]

Next == OneQueueMore \/ OneQueueLess \/ DriversLess \/ OnePortLess \/ MoreSupply

Spec == Init /\ [][Next]_vars

=============================================================================
