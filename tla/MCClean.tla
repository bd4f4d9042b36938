------------------------------ MODULE MCClean ------------------------------
(***************************************************************************)
(* A machine for TLC with two addresses, the text of the first beginning   *)
(* the text of the second (10.0.0.1 and 10.0.0.11), an IP_ port for each,  *)
(* a port a vendor named after the first, an http:// port of the first, a  *)
(* USB port, and perhaps a queue named like the second address.            *)
(***************************************************************************)
EXTENDS Clean, TLC

CONSTANTS q1, q2, q3, d1, d2, ipA, rawA, httpA, ipB, usb, oem1, oem2, a, b

MCPackageOf == (d1 :> oem1) @@ (d2 :> oem2)
MCSiblings == [d \in Driver |-> oem1]
MCIpPort == (a :> ipA) @@ (b :> ipB)
MCAddrOf == [x \in Port |-> CASE x = usb -> None [] x = ipB -> b [] OTHER -> a]
MCLonger == (a :> {b}) @@ (b :> {})

Q(n, d, x) == [name |-> n, driver |-> d, port |-> x]

Everything(x) ==
  [ip |-> x, nameMatch |-> None, manufacturer |-> None, keepDriver |-> FALSE, keepPort |-> FALSE]

\* By address, by name, by both, by name and manufacturer, by nothing.
MCCleanCalls ==
  {Everything(a), Everything(None),
   [Everything(None) EXCEPT !.nameMatch = {d1}],
   [Everything(a) EXCEPT !.manufacturer = {d2}, !.keepDriver = TRUE],
   [Everything(a) EXCEPT !.nameMatch = {q1}, !.manufacturer = {d1}, !.keepPort = TRUE]}

\* Two queues for one printer at work for a race.
MCRaceInit ==
  /\ queues \in {{Q(q1, d1, ipA), Q(q2, d, x)} : d \in {d1, d2}, x \in {ipA, rawA}}
  /\ registered = Driver
  /\ packages = Package
  /\ ports = {ipA, rawA}
  /\ CleanInit

\* Two queues, together or apart, the second perhaps named like the address b,
\* next to an administrator.
MCFaultsInit ==
  /\ queues \in
       {{Q(q1, d1, ipA), Q(q2, d, x)} : d \in {d1, d2}, x \in {ipA, ipB}}
         \cup {{Q(q1, d1, httpA)}, {Q(b, d1, ipA), Q(q2, d1, ipB)}}
  /\ registered = Driver
  /\ packages = Package
  /\ ports = Port
  /\ CleanInit

\* The administrator only ever adds q2 (again).
MCFaultsNext ==
  \/ \E p \in Proc : StartClean(p) \/ CleanStep(p) \/ KillClean(p) \/ CleanRemoveSide(p)
  \/ CleanAround /\ \A q \in queues' \ queues : q.name = q2

MCFaultsSpec == MCFaultsInit /\ [][MCFaultsNext]_cleanVars /\ CleanFairness

MCEverythingA == {Everything(a)}
MCRemovals ==
  {[target |-> n, keepDriver |-> FALSE, keepPort |-> FALSE] : n \in {q1, q2}}
    \cup {[target |-> q2, keepDriver |-> TRUE, keepPort |-> FALSE],
          [target |-> a, keepDriver |-> FALSE, keepPort |-> FALSE]}

\* Also a queue of another address, or of none, which shares a driver.
MCNeighbourInit ==
  /\ queues \in {{Q(q1, d1, ipA), Q(q2, d2, rawA), Q(q3, d1, x)} : x \in {ipB, usb}}
  /\ registered = Driver
  /\ packages = Package
  /\ ports = Port
  /\ CleanInit

\* Only prinstall at work, and no kills.
CleanAlone ==
  \/ \E p \in Proc : \/ StartClean(p) \/ CleanStep(p)
                     \/ cl[p].pc = "idle" /\ Start(p) /\ UNCHANGED cl
                     \/ RemoveStep(p) /\ UNCHANGED cl
  \/ Tick /\ UNCHANGED cl

CleanRaceSpec == MCRaceInit /\ [][CleanAlone]_cleanVars

CleanNeighbourSpec == MCNeighbourInit /\ [][CleanAlone]_cleanVars

Symmetry == Permutations(Proc)

=============================================================================
