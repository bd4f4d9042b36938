------------------------------ MODULE MCRemove ------------------------------
(***************************************************************************)
(* A small machine for TLC: one address with its IP_ port, one http:// port *)
(* and one USB port; a system driver and two vendor drivers that share a   *)
(* package.                                                                *)
(***************************************************************************)
EXTENDS Remove, TLC

CONSTANTS q1, q2, sys, d1, d2, ipA, http, usb, inbox, oem, a

MCPackageOf == [d \in {sys, d1, d2} |-> IF d = sys THEN inbox ELSE oem]
MCIpPort == [x \in {a} |-> ipA]

Q(n, d, x) == [name |-> n, driver |-> d, port |-> x]

\* Two queues that share a driver, a port, both, siblings, or nothing.
MCQueues ==
  {{Q(q1, d1, ipA), Q(q2, d, x)} : d \in {sys, d1, d2}, x \in {ipA, usb}}
    \cup {{Q(q1, d1, http)}, {Q(q1, sys, ipA)}}

Call(t, kd, kp) == [target |-> t, keepDriver |-> kd, keepPort |-> kp]

=============================================================================
