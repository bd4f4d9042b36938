------------------------------- MODULE Remove -------------------------------
(***************************************************************************)
(* `prinstall remove` (src/src/commands/remove.rs), run by any number of   *)
(* invocations at once and next to an administrator who adds queues.       *)
(*                                                                         *)
(* One invocation is one frame rm[p].  Its `pc` names the PowerShell       *)
(* command the invocation issues next; every command is one step, and      *)
(* anything may happen in between.  Time runs in half seconds: the sleeps  *)
(* of the retry schedule and the spooler's lag count down together.        *)
(*                                                                         *)
(* A definition marked "Variant" is a plausible mistake in the definition  *)
(* after it; no action uses it.  The runs must tell the two apart.         *)
(***************************************************************************)
EXTENDS PrintSystem, Sequences

CONSTANTS
  Proc,    \* invocations of prinstall
  Ip,      \* addresses a target can name
  IpPort,  \* the port IP_<ip> of an address
  Calls,   \* the command lines: target, --keep-driver, --keep-port
  None     \* no value yet

\* A queue may well be named like an address.
ASSUME IpAssumption == IpPort \in [Ip -> ManagedPort]
ASSUME CallsAssumption ==
  Calls \subseteq [target: Ip \cup Queue, keepDriver: BOOLEAN, keepPort: BOOLEAN]
ASSUME NoneAssumption == None \notin Queue \cup Driver \cup Port \cup Ip

VARIABLES
  rm,      \* the frame of each invocation
  wait,    \* half seconds an invocation still sleeps
  history  \* the entries of history.toml

removeVars == <<queues, registered, packages, ports, held, rm, wait, history>>

SettleDelayMissing == 0         \* variant: the queue is removed and no time let pass
SettleDelay == 1                \* SPOOLER_SETTLE_MS = 500
RetryDelay == <<0, 2, 4, 5>>    \* REMOVE_RETRY_DELAYS_MS, sleep before each try
Tries == 1 .. 4

Target == Ip \cup Queue

RemovePc == {"idle", "resolve", "info", "remove", "countDriver", "dropDriver",
             "countPort", "dropPort", "record", "done", "killed"}

RemoveFrame ==
  [pc: RemovePc, target: Target \cup {None},
   keepDriver: BOOLEAN, keepPort: BOOLEAN,
   queue: Queue \cup {None}, driver: Driver \cup {None}, port: Port \cup {None},
   fromStore: BOOLEAN, try: Tries,
   driverRemoved: BOOLEAN, portRemoved: BOOLEAN,
   outcome: {"none", "removed", "absent", "error"}]

IdleFrame ==
  [pc |-> "idle", target |-> None, keepDriver |-> FALSE, keepPort |-> FALSE,
   queue |-> None, driver |-> None, port |-> None, fromStore |-> TRUE, try |-> 1,
   driverRemoved |-> FALSE, portRemoved |-> FALSE, outcome |-> "none"]

\* An entry of the history log; the date is left out.
Entry ==
  [model: Queue, driver: Driver, source: {"remove", "install", "install_ipp_fallback"}]

At(p, pc) == rm[p].pc = pc /\ wait[p] = 0

\* The invocation moves on: `upd` is its new frame, `d` what it sleeps first.
Step(p, upd, d) ==
  /\ rm' = [rm EXCEPT ![p] = upd]
  /\ wait' = [wait EXCEPT ![p] = d]

Goto(p, upd) == Step(p, upd, 0)

-----------------------------------------------------------------------------
(* The invocation.                                                         *)

BeginRemove(p, c) ==
  Goto(p, [IdleFrame EXCEPT !.pc = "resolve", !.target = c.target,
                            !.keepDriver = c.keepDriver, !.keepPort = c.keepPort])

Start(p) ==
  /\ rm[p].pc = "idle"
  /\ \E c \in Calls : BeginRemove(p, c)
  /\ UNCHANGED <<printVars, history>>

\* resolve_printer_name: a target that reads as an address names the first queue
\* on its IP_ port, be it the name of a queue or not; any other names a queue.
Matches(q, t) == IF t \in Ip THEN q.port = IpPort[t] ELSE q.name = t

\* No queue, or a query that failed, is "already absent": success, no history.
ResolveAbsent(p) ==
  /\ At(p, "resolve")
  /\ \/ \A q \in queues : ~Matches(q, rm[p].target)
     \/ CanFail("query")
  /\ Goto(p, [rm[p] EXCEPT !.pc = "done", !.outcome = "absent"])
  /\ UNCHANGED <<printVars, history>>

\* Variant: the target itself is taken for the queue's name.
ResolveUnresolved(p) ==
  /\ At(p, "resolve")
  /\ \E q \in queues : Matches(q, rm[p].target)
  /\ Goto(p, [rm[p] EXCEPT !.pc = "info", !.queue = rm[p].target])
  /\ UNCHANGED <<printVars, history>>

ResolveFound(p) ==
  /\ At(p, "resolve")
  /\ \E q \in queues :
       /\ Matches(q, rm[p].target)
       /\ Goto(p, [rm[p] EXCEPT !.pc = "info", !.queue = q.name])
  /\ UNCHANGED <<printVars, history>>

\* fetch_printer_info: what the cleanup will look at once the queue is gone.
FetchInfo(p) ==
  /\ At(p, "info")
  /\ \E q \in queues :
       /\ q.name = rm[p].queue
       /\ Goto(p, [rm[p] EXCEPT !.pc = "remove", !.driver = q.driver, !.port = q.port])
  /\ UNCHANGED <<printVars, history>>

FetchInfoFails(p) ==
  /\ At(p, "info")
  /\ ~Exists(rm[p].queue) \/ CanFail("query")
  /\ Goto(p, [rm[p] EXCEPT !.pc = "done", !.outcome = "error"])
  /\ UNCHANGED <<printVars, history>>

\* Where the cleanup starts: --keep-driver skips the driver.
AfterQueue(f) == IF f.keepDriver THEN "countPort" ELSE "countDriver"

\* Remove-Printer, then the settle sleep unless nothing is to be cleaned up.
RemovePrinter(p) ==
  /\ At(p, "remove")
  /\ \E q \in queues : q.name = rm[p].queue /\ RemoveQueue(q)
  /\ Step(p, [rm[p] EXCEPT !.pc = AfterQueue(rm[p]), !.outcome = "removed"],
          IF rm[p].keepDriver /\ rm[p].keepPort THEN 0 ELSE SettleDelay)
  /\ UNCHANGED history

RemovePrinterFails(p) ==
  /\ At(p, "remove")
  /\ ~Exists(rm[p].queue) \/ CanFail("change")
  /\ Goto(p, [rm[p] EXCEPT !.pc = "done", !.outcome = "error"])
  /\ UNCHANGED <<printVars, history>>

-----------------------------------------------------------------------------
(* try_remove_driver_if_orphaned: nothing here can fail the command.       *)

\* A system driver, a failed count and a driver some queue uses are left alone.
KeepDriver(p) ==
  /\ At(p, "countDriver")
  /\ \/ rm[p].driver \in SystemDriver
     \/ DriverInUse(rm[p].driver)
     \/ CanFail("query")
  /\ Goto(p, [rm[p] EXCEPT !.pc = "countPort"])
  /\ UNCHANGED <<printVars, history>>

\* Variant: without the list of system drivers.
AnyDriverOrphaned(p) ==
  /\ At(p, "countDriver")
  /\ ~DriverInUse(rm[p].driver)
  /\ Goto(p, [rm[p] EXCEPT !.pc = "dropDriver", !.fromStore = TRUE, !.try = 1])
  /\ UNCHANGED <<printVars, history>>

DriverOrphaned(p) ==
  /\ At(p, "countDriver")
  /\ rm[p].driver \notin SystemDriver
  /\ ~DriverInUse(rm[p].driver)
  /\ Goto(p, [rm[p] EXCEPT !.pc = "dropDriver", !.fromStore = TRUE, !.try = 1])
  /\ UNCHANGED <<printVars, history>>

\* Remove-PrinterDriver -RemoveFromDriverStore, or the plain one afterwards.
DropDriver(p) ==
  /\ At(p, "dropDriver")
  /\ IF rm[p].fromStore THEN DeletePackage(rm[p].driver)
                         ELSE UnregisterDriver(rm[p].driver)
  /\ Goto(p, [rm[p] EXCEPT !.pc = "countPort", !.driverRemoved = TRUE])
  /\ UNCHANGED history

\* run_with_retries: the next try of the same command after its delay, then
\* the plain command with a schedule of its own, then a warning.
DropDriverFails(p) ==
  LET f == rm[p] IN
  /\ At(p, "dropDriver")
  /\ \/ CanFail("change")
     \/ f.fromStore /\ ~PackageFree(f.driver)
     \/ ~f.fromStore /\ ~DriverFree(f.driver)
  /\ \/ /\ f.try < Len(RetryDelay)
        /\ Step(p, [f EXCEPT !.try = f.try + 1], RetryDelay[f.try + 1])
     \/ /\ f.try = Len(RetryDelay)
        /\ f.fromStore
        /\ Step(p, [f EXCEPT !.fromStore = FALSE, !.try = 1], RetryDelay[1])
     \/ /\ f.try = Len(RetryDelay)
        /\ ~f.fromStore
        /\ Goto(p, [f EXCEPT !.pc = "countPort"])
  /\ UNCHANGED <<printVars, history>>

-----------------------------------------------------------------------------
(* try_remove_port_if_orphaned, the same way.                              *)

KeepPort(p) ==
  /\ At(p, "countPort")
  /\ \/ rm[p].keepPort
     \/ rm[p].port \notin ManagedPort
     \/ PortInUse(rm[p].port)
     \/ CanFail("query")
  /\ Goto(p, [rm[p] EXCEPT !.pc = "record"])
  /\ UNCHANGED <<printVars, history>>

PortOrphaned(p) ==
  /\ At(p, "countPort")
  /\ ~rm[p].keepPort
  /\ rm[p].port \in ManagedPort
  /\ ~PortInUse(rm[p].port)
  /\ Goto(p, [rm[p] EXCEPT !.pc = "dropPort", !.try = 1])
  /\ UNCHANGED <<printVars, history>>

DropPort(p) ==
  /\ At(p, "dropPort")
  /\ DeletePort(rm[p].port)
  /\ Goto(p, [rm[p] EXCEPT !.pc = "record", !.portRemoved = TRUE])
  /\ UNCHANGED history

\* Variant: the tries are not counted.
DropPortForever(p) ==
  /\ At(p, "dropPort")
  /\ ~PortFree(rm[p].port) \/ CanFail("change")
  /\ Step(p, rm[p], RetryDelay[2])
  /\ UNCHANGED <<printVars, history>>

DropPortFails(p) ==
  LET f == rm[p] IN
  /\ At(p, "dropPort")
  /\ ~PortFree(f.port) \/ CanFail("change")
  /\ IF f.try < Len(RetryDelay)
     THEN Step(p, [f EXCEPT !.try = f.try + 1], RetryDelay[f.try + 1])
     ELSE Goto(p, [f EXCEPT !.pc = "record"])
  /\ UNCHANGED <<printVars, history>>

\* history::record_install: load, push, save.  A file it cannot read or parse
\* counts as empty and is written anew, one it cannot write is left alone.
RecordEntry(e) ==
  \/ history' = history \cup {e}
  \/ CanFail("disk") /\ (history' = {e} \/ UNCHANGED history)

Record(p) ==
  /\ At(p, "record")
  /\ RecordEntry([model |-> rm[p].queue, driver |-> rm[p].driver, source |-> "remove"])
  /\ Goto(p, [rm[p] EXCEPT !.pc = "done"])
  /\ UNCHANGED printVars

-----------------------------------------------------------------------------
(* The world around it.                                                    *)

\* The process is killed (an RMM agent's timeout, a closed console).
Kill(p) ==
  /\ rm[p].pc \notin {"idle", "done", "killed"}
  /\ Goto(p, [rm[p] EXCEPT !.pc = "killed"])
  /\ UNCHANGED <<printVars, history>>

\* An administrator adds a queue on a driver and a port that are there.
AdminAdds ==
  /\ \E q \in QueueRec : AddQueue(q.name, q.driver, q.port)
  /\ UNCHANGED <<rm, wait, history>>

Down(n) == IF n > 0 THEN n - 1 ELSE 0

\* Half a second passes, for the sleepers and for the spooler.
Tick ==
  /\ (\E p \in Proc : wait[p] > 0) \/ (\E x \in Driver \cup Port : held[x] > 0)
  /\ wait' = [p \in Proc |-> Down(wait[p])]
  /\ held' = [x \in Driver \cup Port |-> Down(held[x])]
  /\ UNCHANGED <<queues, registered, packages, ports, rm, history>>

RemoveStep(p) ==
  \/ ResolveAbsent(p) \/ ResolveFound(p)
  \/ FetchInfo(p) \/ FetchInfoFails(p)
  \/ RemovePrinter(p) \/ RemovePrinterFails(p)
  \/ KeepDriver(p) \/ DriverOrphaned(p) \/ DropDriver(p) \/ DropDriverFails(p)
  \/ KeepPort(p) \/ PortOrphaned(p) \/ DropPort(p) \/ DropPortFails(p)
  \/ Record(p)

\* What the machine may look like when prinstall starts: every queue stands on
\* a registered driver and an existing port, every registered driver on a
\* package, and the inbox system drivers are there.
PrintInit ==
  /\ queues \in SUBSET QueueRec
  /\ \A q, r \in queues : q.name = r.name => q = r
  /\ registered \in SUBSET Driver
  /\ SystemDriver \subseteq registered
  /\ packages \in SUBSET Package
  /\ ports \in SUBSET Port
  /\ \A q \in queues : q.driver \in registered /\ q.port \in ports
  /\ \A d \in registered : PackageOf[d] \in packages
  /\ held = [x \in Driver \cup Port |-> 0]

Init ==
  /\ PrintInit
  /\ rm = [p \in Proc |-> IdleFrame]
  /\ wait = [p \in Proc |-> 0]
  /\ history = {}

Next ==
  \/ \E p \in Proc : Start(p) \/ RemoveStep(p) \/ Kill(p)
  \/ AdminAdds
  \/ Tick

\* Time passes, and a command that has been issued returns.
Fairness == WF_removeVars(Tick) /\ \A p \in Proc : WF_removeVars(RemoveStep(p))

Spec == Init /\ [][Next]_removeVars /\ Fairness

-----------------------------------------------------------------------------
(* Properties.                                                             *)

\* Every variable has the values the frames and the subsystem allow.
TypeOK ==
  /\ PrintTypeOK
  /\ rm \in [Proc -> RemoveFrame]
  /\ wait \in [Proc -> Nat]
  /\ history \subseteq Entry

AtRest == \A p \in Proc : rm[p].pc \in {"idle", "done"}

\* The invocations that took away a queue on driver d (on port x).
TookFromDriver(d) == {p \in Proc : rm[p].outcome = "removed" /\ rm[p].driver = d}
TookFromPort(x) == {p \in Proc : rm[p].outcome = "removed" /\ rm[p].port = x}

\* No driver and no port is stranded: each that somebody took a queue from is
\* in use, or gone, or was to be kept.
LightsOff ==
  /\ \A d \in Driver \ SystemDriver :
       (TookFromDriver(d) # {} /\ \A p \in TookFromDriver(d) : ~rm[p].keepDriver)
         => DriverInUse(d) \/ d \notin registered
  /\ \A x \in ManagedPort :
       (TookFromPort(x) # {} /\ \A p \in TookFromPort(x) : ~rm[p].keepPort)
         => PortInUse(x) \/ x \notin ports

\* Every started invocation comes to an end: the retry schedules are finite and
\* no sleep waits for something that may never happen.
Terminates ==
  \A p \in Proc : rm[p].pc = "resolve" ~> rm[p].pc \in {"done", "killed"}

\* The promise every command keeps (module Custody).
Promise == INSTANCE Custody
KeepsPromise == Promise!Spec

=============================================================================
