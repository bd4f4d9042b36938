---------------------------- MODULE PrintSystem ----------------------------
(***************************************************************************)
(* The Windows print subsystem, as prinstall sees it through PowerShell:   *)
(* the queues of Get-Printer, the registered drivers of Get-PrinterDriver, *)
(* the packages of the driver store, the ports of Get-PrinterPort, and the *)
(* references the spooler keeps for a while after a queue is gone.         *)
(*                                                                         *)
(* Windows is not part of the repository.  What is said of it here is what *)
(* the code relies on: a cmdlet refuses to delete what is in use, a driver *)
(* can be registered only when its package is staged, and a reference      *)
(* outlives Remove-Printer by up to some seconds.  Every cmdlet is one     *)
(* atomic step; prinstall's own control runs between the steps.            *)
(***************************************************************************)
EXTENDS Naturals

CONSTANTS
  Queue,         \* names a print queue can have
  Driver,        \* driver names
  SystemDriver,  \* the drivers of remove.rs SYSTEM_DRIVERS
  Port,          \* port names
  ManagedPort,   \* the ports whose name passes remove.rs is_manageable_port
  Package,       \* driver-store packages (oem<N>.inf)
  PackageOf,     \* the package a driver comes from; several may share one
  Lag,           \* how long the spooler may hold a reference, in half seconds
  Flaky          \* the commands that may fail for reasons of their own

\* Queries (Get-*), changes (Add-*, Remove-*, pnputil), prinstall's own files,
\* and the walk through a driver pack for its catalogs.
CommandKind == {"query", "change", "disk", "scan"}

ASSUME DriverAssumption ==
  /\ SystemDriver \subseteq Driver
  /\ PackageOf \in [Driver -> Package]
  \* No inbox system driver shares its package with a vendor driver.
  /\ \A s \in SystemDriver, d \in Driver \ SystemDriver : PackageOf[s] # PackageOf[d]
ASSUME PortAssumption == ManagedPort \subseteq Port /\ Driver \cap Port = {}
ASSUME LagAssumption == Lag \subseteq Nat /\ Lag # {}
ASSUME FlakyAssumption == Flaky \subseteq CommandKind

VARIABLES
  queues,      \* the set of print queues
  registered,  \* the registered drivers
  packages,    \* the packages in the driver store
  ports,       \* the printer ports
  held         \* half seconds until the spooler lets go of a driver or port

printVars == <<queues, registered, packages, ports, held>>

QueueRec == [name: Queue, driver: Driver, port: Port]

PrintTypeOK ==
  /\ queues \subseteq QueueRec
  /\ registered \subseteq Driver
  /\ packages \subseteq Package
  /\ ports \subseteq Port
  /\ held \in [Driver \cup Port -> Nat]

Exists(n) == \E q \in queues : q.name = n
DriverInUse(d) == \E q \in queues : q.driver = d
PortInUse(p) == \E q \in queues : q.port = p

\* The drivers one package registers (prnbrcl1.inf brings six at once).
Siblings(d) == {e \in Driver : PackageOf[e] = PackageOf[d]}

CanFail(kind) == kind \in Flaky

-----------------------------------------------------------------------------
(* The cmdlets that change the subsystem.                                  *)

\* Remove-Printer: the queue goes at once, the spooler's references to its
\* driver and its port stay for a while.
RemoveQueue(q) ==
  /\ queues' = queues \ {q}
  /\ \E driverLag, portLag \in Lag :
       held' = [held EXCEPT ![q.driver] = driverLag, ![q.port] = portLag]
  /\ UNCHANGED <<registered, packages, ports>>

DriverFree(d) == d \in registered /\ ~DriverInUse(d) /\ held[d] = 0

\* Remove-PrinterDriver refuses while a queue or the spooler uses the driver.
UnregisterDriver(d) ==
  /\ DriverFree(d)
  /\ registered' = registered \ {d}
  /\ UNCHANGED <<queues, packages, ports, held>>

PackageFree(d) ==
  DriverFree(d) /\ \A e \in Siblings(d) : ~DriverInUse(e) /\ held[e] = 0

\* Remove-PrinterDriver -RemoveFromDriverStore takes the package and with it
\* every sibling; it refuses while one of them is in use.
DeletePackage(d) ==
  /\ PackageFree(d)
  /\ registered' = registered \ Siblings(d)
  /\ packages' = packages \ {PackageOf[d]}
  /\ UNCHANGED <<queues, ports, held>>

PortFree(p) == p \in ports /\ ~PortInUse(p) /\ held[p] = 0

\* Remove-PrinterPort refuses in the same way.
DeletePort(p) ==
  /\ PortFree(p)
  /\ ports' = ports \ {p}
  /\ UNCHANGED <<queues, registered, packages, held>>

\* Add-Printer needs a free name, a registered driver and an existing port.
AddQueue(n, d, p) ==
  /\ ~Exists(n)
  /\ d \in registered
  /\ p \in ports
  /\ queues' = queues \cup {[name |-> n, driver |-> d, port |-> p]}
  /\ UNCHANGED <<registered, packages, ports, held>>

=============================================================================
