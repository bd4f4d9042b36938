------------------------------- MODULE Clean -------------------------------
(***************************************************************************)
(* `prinstall clean` (src/src/commands/clean.rs), next to `remove`: list   *)
(* the queues that meet the filters, remove each with a whole              *)
(* `remove --keep-port`, then sweep the ports of the address.              *)
(*                                                                         *)
(* Of a port's name only what the matching looks at is kept: the address   *)
(* in it, whether an underscore stands before the address, and whether the *)
(* address stands amid other text, as in http://10.0.0.1:631.              *)
(*                                                                         *)
(* A definition marked "Variant" is a plausible mistake in the definition  *)
(* after it; no action uses it.  The runs must tell the two apart.         *)
(***************************************************************************)
EXTENDS Remove

CONSTANTS
  AddrOf,      \* the address in a port's name, or None
  Underscore,  \* the ports whose name has an underscore before the address
  Amid,        \* the ports whose name has the address amid other text
  Longer,      \* the addresses whose text begins with the text of this one
  Containing,  \* the addresses whose text contains the text of this one
  CleanCalls   \* the command lines of `clean`

\* A filter on names is the set of the queue and driver names it matches; an
\* empty manufacturer matches all of them.
CleanCall ==
  [ip: Ip \cup {None}, nameMatch: SUBSET (Queue \cup Driver) \cup {None},
   manufacturer: SUBSET (Queue \cup Driver) \cup {None},
   keepDriver: BOOLEAN, keepPort: BOOLEAN]

ASSUME AddrAssumption ==
  /\ AddrOf \in [Port -> Ip \cup {None}]
  /\ Underscore \subseteq Port /\ Amid \subseteq Port /\ Amid \cap Underscore = {}
ASSUME TextAssumption ==
  /\ Longer \in [Ip -> SUBSET Ip]
  /\ Containing \in [Ip -> SUBSET Ip]
  /\ \A x \in Ip : Longer[x] \subseteq Containing[x] /\ x \notin Containing[x]
ASSUME CleanCallsAssumption == CleanCalls \subseteq CleanCall

VARIABLE cl  \* the frame of each invocation of `clean`

cleanVars == <<removeVars, cl>>

CleanPc == {"idle", "list", "next", "removing", "listPorts", "count", "drop", "restart",
            "again", "done", "killed"}

\* `astray` notes, for the properties, that the clean has handed `remove` a queue
\* named like an address.
CleanFrame ==
  [pc: CleanPc, call: CleanCalls \cup {None}, todo: SUBSET Queue, failed: BOOLEAN,
   astray: BOOLEAN, sweep: SUBSET Port, port: Port \cup {None}, outcome: {"none", "ok", "error"}]

IdleClean ==
  [pc |-> "idle", call |-> None, todo |-> {}, failed |-> FALSE, astray |-> FALSE,
   sweep |-> {}, port |-> None, outcome |-> "none"]

CleanAt(p, pc) == cl[p].pc = pc /\ wait[p] = 0

CleanGoto(p, upd) == cl' = [cl EXCEPT ![p] = upd]

CleanQuietly(p, upd) == CleanGoto(p, upd) /\ UNCHANGED removeVars

\* The result: a success unless one of the removals failed.
Finish(p) ==
  CleanQuietly(p, [cl[p] EXCEPT !.pc = "done",
                                !.outcome = IF cl[p].failed THEN "error" ELSE "ok"])

-----------------------------------------------------------------------------
(* The queues.                                                             *)

\* The address itself, alone or between IP_ or an underscore and one of ( and _.
StandsFor(x, ip) == AddrOf[x] = ip /\ x \notin Amid

\* port_targets_ip: also any text behind an underscore that begins with it.
PortTargetsIp(x, ip) == StandsFor(x, ip) \/ (x \in Underscore /\ AddrOf[x] \in Longer[ip])

Passes(filter, q) == filter = None \/ q.name \in filter \/ q.driver \in filter

\* All filters that are given must match.
Selected(q, c) ==
  /\ c.ip = None \/ PortTargetsIp(q.port, c.ip)
  /\ Passes(c.nameMatch, q)
  /\ Passes(c.manufacturer, q)

NoFilter(c) == c.ip = None /\ c.nameMatch = None /\ c.manufacturer = None

StartClean(p) ==
  /\ CleanAt(p, "idle") /\ rm[p].pc = "idle"
  /\ \E c \in CleanCalls :
       CleanQuietly(p, IF NoFilter(c)
                       THEN [IdleClean EXCEPT !.pc = "done", !.call = c, !.outcome = "error"]
                       ELSE [IdleClean EXCEPT !.pc = "list", !.call = c])

\* Variant: the queues themselves for their names.
FoundQueues(c) == {q \in queues : Selected(q, c)}

Found(c) == {q.name : q \in {r \in queues : Selected(r, c)}}

ListQueues(p) ==
  LET found == Found(cl[p].call) IN
  /\ CleanAt(p, "list")
  /\ found # {}
  /\ CleanQuietly(p, [cl[p] EXCEPT !.pc = "next", !.todo = found])

\* No queue, or a list that could not be read: done, and no port is swept.
NothingListed(p) ==
  /\ CleanAt(p, "list")
  /\ CanFail("query") \/ Found(cl[p].call) = {}
  /\ Finish(p)

\* Variant: the flag for the driver is not passed on.
NextQueueDropsDriver(p) ==
  /\ CleanAt(p, "next")
  /\ \E n \in cl[p].todo :
       /\ BeginRemove(p, [target |-> n, keepDriver |-> FALSE, keepPort |-> TRUE])
       /\ CleanGoto(p, [cl[p] EXCEPT !.pc = "removing", !.todo = @ \ {n},
                                   !.astray = @ \/ n \in Ip])
  /\ UNCHANGED <<printVars, history>>

\* remove::run with keep_port = true: the ports come last.  The queue is handed
\* over as a target: by its name, or as the address it reads as.
NextQueue(p) ==
  /\ CleanAt(p, "next")
  /\ \E n \in cl[p].todo :
       /\ BeginRemove(p, [target |-> n, keepDriver |-> cl[p].call.keepDriver,
                          keepPort |-> TRUE])
       /\ CleanGoto(p, [cl[p] EXCEPT !.pc = "removing", !.todo = @ \ {n},
                                   !.astray = @ \/ n \in Ip])
  /\ UNCHANGED <<printVars, history>>

SweepsPorts(c) == c.ip # None /\ ~c.keepPort

\* A removal that failed is noted and does not stop the others.
QueueDone(p) ==
  LET failed == cl[p].failed \/ rm[p].outcome = "error" IN
  /\ CleanAt(p, "removing")
  /\ rm[p].pc = "done"
  /\ CleanQuietly(p,
       CASE cl[p].todo # {} -> [cl[p] EXCEPT !.pc = "next", !.failed = failed]
         [] cl[p].todo = {} /\ SweepsPorts(cl[p].call) ->
              [cl[p] EXCEPT !.pc = "listPorts", !.failed = failed]
         [] OTHER -> [cl[p] EXCEPT !.pc = "done", !.failed = failed,
                                   !.outcome = IF failed THEN "error" ELSE "ok"])

-----------------------------------------------------------------------------
(* sweep_ports_for_ip.                                                     *)

\* -like '*<ip>*'
Mentions(x, ip) == AddrOf[x] = ip \/ AddrOf[x] \in Containing[ip]

\* Variant: all the ports there are.
ListAllPorts(p) ==
  /\ CleanAt(p, "listPorts")
  /\ CleanQuietly(p, [cl[p] EXCEPT !.pc = "count", !.sweep = ports])

ListPorts(p) ==
  /\ CleanAt(p, "listPorts")
  /\ \/ CleanQuietly(p, [cl[p] EXCEPT !.pc = "count",
                                      !.sweep = {x \in ports : Mentions(x, cl[p].call.ip)}])
     \/ CanFail("query") /\ Finish(p)

\* A port some queue uses stays, and one whose use could not be counted.
CountPort(p) ==
  /\ CleanAt(p, "count")
  /\ \E x \in cl[p].sweep :
       \/ /\ PortInUse(x) \/ CanFail("query")
          /\ CleanQuietly(p, [cl[p] EXCEPT !.sweep = @ \ {x}])
       \/ /\ ~PortInUse(x)
          /\ CleanQuietly(p, [cl[p] EXCEPT !.sweep = @ \ {x}, !.pc = "drop", !.port = x])

SweepDone(p) ==
  /\ CleanAt(p, "count")
  /\ cl[p].sweep = {}
  /\ Finish(p)

SweepPort(p) ==
  /\ CleanAt(p, "drop") \/ CleanAt(p, "again")
  /\ DeletePort(cl[p].port)
  /\ CleanGoto(p, [cl[p] EXCEPT !.pc = "count"])
  /\ UNCHANGED <<rm, wait, history>>

\* Variant: no second try after a restart of the spooler.
SweepGivesUp(p) ==
  /\ CleanAt(p, "drop")
  /\ ~PortFree(cl[p].port) \/ CanFail("change")
  /\ CleanQuietly(p, [cl[p] EXCEPT !.pc = "count"])

SweepFails(p) ==
  /\ CleanAt(p, "drop")
  /\ ~PortFree(cl[p].port) \/ CanFail("change")
  /\ CleanQuietly(p, [cl[p] EXCEPT !.pc = "restart"])

\* Variant: back to the first try.
RestartSpoolerAgain(p) ==
  /\ CleanAt(p, "restart")
  /\ \/ held' = [x \in Driver \cup Port |-> 0]
     \/ CanFail("change") /\ UNCHANGED held
  /\ wait' = [wait EXCEPT ![p] = 4]
  /\ CleanGoto(p, [cl[p] EXCEPT !.pc = "drop"])
  /\ UNCHANGED <<queues, registered, packages, ports, rm, history>>

\* Restart-Service Spooler, whose result is not looked at, and two seconds of
\* sleep.  A spooler that has restarted holds nothing.
RestartSpooler(p) ==
  /\ CleanAt(p, "restart")
  /\ \/ held' = [x \in Driver \cup Port |-> 0]
     \/ CanFail("change") /\ UNCHANGED held
  /\ wait' = [wait EXCEPT ![p] = 4]
  /\ CleanGoto(p, [cl[p] EXCEPT !.pc = "again"])
  /\ UNCHANGED <<queues, registered, packages, ports, rm, history>>

SweepFailsAgain(p) ==
  /\ CleanAt(p, "again")
  /\ ~PortFree(cl[p].port) \/ CanFail("change")
  /\ CleanQuietly(p, [cl[p] EXCEPT !.pc = "count"])

-----------------------------------------------------------------------------
CleanStep(p) ==
  \/ ListQueues(p) \/ NothingListed(p) \/ NextQueue(p) \/ QueueDone(p)
  \/ ListPorts(p) \/ CountPort(p) \/ SweepDone(p) \/ SweepPort(p) \/ SweepFails(p)
  \/ RestartSpooler(p) \/ SweepFailsAgain(p)

\* A kill takes the command and the `remove` inside it.
KillClean(p) ==
  /\ cl[p].pc \notin {"idle", "done", "killed"}
  /\ CleanGoto(p, [cl[p] EXCEPT !.pc = "killed"])
  /\ Goto(p, IF rm[p].pc \in {"idle", "done"} THEN rm[p] ELSE [rm[p] EXCEPT !.pc = "killed"])
  /\ UNCHANGED <<printVars, history>>

\* A step of `remove`, on its own or inside a `clean`.
CleanRemoveSide(p) ==
  /\ \/ RemoveStep(p)
     \/ cl[p].pc = "idle" /\ (Start(p) \/ Kill(p))
  /\ UNCHANGED cl

CleanAround == (AdminAdds \/ Tick) /\ UNCHANGED cl

CleanInit == Init /\ cl = [p \in Proc |-> IdleClean]

CleanNext ==
  \/ \E p \in Proc : StartClean(p) \/ CleanStep(p) \/ KillClean(p) \/ CleanRemoveSide(p)
  \/ CleanAround

CleanFairness ==
  /\ WF_cleanVars(Tick /\ UNCHANGED cl)
  /\ \A p \in Proc : WF_cleanVars(CleanStep(p)) /\ WF_cleanVars(RemoveStep(p) /\ UNCHANGED cl)

CleanSpec == CleanInit /\ [][CleanNext]_cleanVars /\ CleanFairness

-----------------------------------------------------------------------------
(* Properties.                                                             *)

\* Every variable has the values the frames and the subsystem allow.
CleanTypeOK == TypeOK /\ cl \in [Proc -> CleanFrame]

\* The promise of module Custody, where the cleanup also manages the ports with
\* an address in their name, however it is written.
Swept == INSTANCE Custody WITH ManagedPort <- ManagedPort \cup {x \in Port : AddrOf[x] # None}
CleanKeepsPromise == Swept!Spec

CleanAtRest == AtRest /\ \A p \in Proc : cl[p].pc \in {"idle", "done"}

\* The last one out turns off the lights.  However many removals and cleans race,
\* and however they interleave with the spooler's lag, once all are through a
\* driver whose queues they removed is either still in use or unregistered, and
\* a port likewise, unless one of them was told to keep it.  Neither the usage
\* count taken too early nor a retry schedule shorter than the lag may strand
\* one.  (Holds only where no command fails for reasons of its own.  A clean
\* answers here for the last of its removals, and for its sweep.)
LastOneOut == CleanAtRest => LightsOff

\* The clean that was asked for everything of an address, found something, and
\* handed over names only.
FullClean(p) ==
  /\ cl[p].pc = "done"
  /\ SweepsPorts(cl[p].call)
  /\ cl[p].call.nameMatch = None /\ cl[p].call.manufacturer = None
  /\ rm[p].outcome # "none"
  /\ ~cl[p].astray

\* Remove ALL queues targeting an IP, then the ports (src/src/cli.rs): whatever
\* the spooler's lag and whichever removals race with it, a clean of an address
\* leaves no queue there and no port that stands for it.  (Holds only where no
\* command fails for reasons of its own and nobody is killed.)
NothingLeft ==
  CleanAtRest =>
    \A p \in Proc : FullClean(p) =>
      /\ \A q \in queues : ~StandsFor(q.port, cl[p].call.ip)
      /\ \A x \in ports : ~StandsFor(x, cl[p].call.ip)

\* A clean takes a driver only without --keep-driver and, for as long as it hands
\* over names only, takes a queue only if all its filters match the queue it
\* takes.  (For one command at a time: the queue is looked up again by its name.
\* A queue named like an address has resolve_printer_name take another one.)
TakesOnlyMatches ==
  \A p \in Proc :
    cl[p].pc # "idle" /\ rm[p].outcome = "removed"
      => /\ \/ Selected([name |-> rm[p].queue, driver |-> rm[p].driver, port |-> rm[p].port],
                        cl[p].call)
            \/ cl[p].astray
         /\ rm[p].driverRemoved => ~cl[p].call.keepDriver

\* What port_targets_ip says it tells (src/src/commands/clean.rs): the ports that
\* belong to a given host address.  A clean of an address removes no queue of
\* another one.
QueuesOfAddressOnly ==
  \A p \in Proc :
    cl[p].pc # "idle" /\ cl[p].call.ip # None /\ rm[p].outcome = "removed"
      => AddrOf[rm[p].port] = cl[p].call.ip

\* Every clean comes to an end, with all the removals and restarts inside it.
CleanTerminates ==
  \A p \in Proc : cl[p].pc = "list" ~> cl[p].pc \in {"done", "killed"}

=============================================================================
