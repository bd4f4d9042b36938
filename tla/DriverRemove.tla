---------------------------- MODULE DriverRemove ----------------------------
(***************************************************************************)
(* `prinstall driver remove <target> [--force]` (remove in                 *)
(* src/src/commands/driver.rs), next to `prinstall remove`.                *)
(*                                                                         *)
(* The target is resolved among the registered drivers, the queues that    *)
(* print with the driver are listed once and, with --force, removed one    *)
(* after the other by a whole `remove --keep-driver` each; then the driver *)
(* is removed, with its package or without, in one try each.               *)
(*                                                                         *)
(* A definition marked "Variant" is a plausible mistake in the definition  *)
(* after it; no action uses it.  The runs must tell the two apart.         *)
(***************************************************************************)
EXTENDS Remove

CONSTANTS
  DriverTarget,  \* what the command line can name
  Scored,        \* the drivers a target scores 150 or more against
  DriverCalls    \* the command lines: target, --force

DriverCall == [target: DriverTarget, force: BOOLEAN]

ASSUME ScoredAssumption == Scored \in [DriverTarget -> SUBSET Driver]
ASSUME DriverCallsAssumption == DriverCalls \subseteq DriverCall

VARIABLE dr  \* the frame of each invocation of `driver remove`

driverVars == <<removeVars, dr>>

DriverPc == {"idle", "resolve", "list", "next", "removing", "dropPackage", "dropDriver",
             "done", "killed"}

\* `astray` notes, for the properties, that the cascade has handed `remove` a
\* queue named like an address.
DriverFrame ==
  [pc: DriverPc, call: DriverCalls \cup {None}, driver: Driver \cup {None},
   todo: SUBSET Queue, astray: BOOLEAN, outcome: {"none", "ok", "error"}]

IdleDriver ==
  [pc |-> "idle", call |-> None, driver |-> None, todo |-> {}, astray |-> FALSE,
   outcome |-> "none"]

\* No sleep of a `remove` inside is pending.
DriverAt(p, pc) == dr[p].pc = pc /\ wait[p] = 0

DriverGoto(p, upd) == dr' = [dr EXCEPT ![p] = upd]

\* A step that changes nothing on the machine.
DriverQuietly(p, upd) == DriverGoto(p, upd) /\ UNCHANGED removeVars

DriverFails(p) == DriverQuietly(p, [dr[p] EXCEPT !.pc = "done", !.outcome = "error"])

-----------------------------------------------------------------------------
StartDriver(p) ==
  /\ DriverAt(p, "idle") /\ rm[p].pc = "idle"
  /\ \E c \in DriverCalls : DriverQuietly(p, [IdleDriver EXCEPT !.pc = "resolve", !.call = c])

\* resolve_remove_target: the exact name, or the only driver that scores.
Resolves(t, d) ==
  d \in registered /\ (d = t \/ (t \notin registered /\ Scored[t] \cap registered = {d}))

\* Variant: system drivers are not refused.
ResolveAnyDriver(p) ==
  /\ DriverAt(p, "resolve")
  /\ \E d \in Driver :
       /\ Resolves(dr[p].call.target, d)
       /\ DriverQuietly(p, [dr[p] EXCEPT !.pc = "list", !.driver = d])

ResolveDriver(p) ==
  /\ DriverAt(p, "resolve")
  /\ \E d \in Driver \ SystemDriver :
       /\ Resolves(dr[p].call.target, d)
       /\ DriverQuietly(p, [dr[p] EXCEPT !.pc = "list", !.driver = d])

\* Nothing scores, several do, or it is a system driver.  A list of drivers
\* that could not be read is empty.
ResolveFails(p) ==
  /\ DriverAt(p, "resolve")
  /\ CanFail("query") \/ ~\E d \in Driver \ SystemDriver : Resolves(dr[p].call.target, d)
  /\ DriverFails(p)

\* Variant: the queues themselves for their names.
DependentQueues(d) == {q \in queues : q.driver = d}

Dependents(d) == {q.name : q \in {r \in queues : r.driver = d}}

\* Variant: the queues of every driver of the package.
ListSiblingsToo(p) ==
  LET found == UNION {Dependents(d) : d \in Siblings(dr[p].driver)} IN
  /\ DriverAt(p, "list")
  /\ found # {} => dr[p].call.force
  /\ DriverQuietly(p, [dr[p] EXCEPT !.pc = IF found = {} THEN "dropPackage" ELSE "next",
                                    !.todo = found])

\* find_queues_using_driver: none to remove first, or --force.
ListDependents(p) ==
  LET found == Dependents(dr[p].driver) IN
  /\ DriverAt(p, "list")
  /\ found # {} => dr[p].call.force
  /\ DriverQuietly(p, [dr[p] EXCEPT !.pc = IF found = {} THEN "dropPackage" ELSE "next",
                                    !.todo = found])

\* A list that cannot be read is an empty one.
ListFails(p) ==
  /\ DriverAt(p, "list")
  /\ CanFail("query")
  /\ DriverQuietly(p, [dr[p] EXCEPT !.pc = "dropPackage"])

InUse(p) ==
  /\ DriverAt(p, "list")
  /\ Dependents(dr[p].driver) # {}
  /\ ~dr[p].call.force
  /\ DriverFails(p)

\* remove::run with keep_driver = true, keep_port = false.  The queue is handed
\* over as a target: by its name, or as the address it reads as.
NextDependent(p) ==
  /\ DriverAt(p, "next")
  /\ \E n \in dr[p].todo :
       /\ BeginRemove(p, [target |-> n, keepDriver |-> TRUE, keepPort |-> FALSE])
       /\ DriverGoto(p, [dr[p] EXCEPT !.pc = "removing", !.todo = @ \ {n},
                                     !.astray = @ \/ n \in Ip])
  /\ UNCHANGED <<printVars, history>>

\* Variant: "already absent" is taken for neither success nor failure.
DependentRemoved(p) ==
  /\ DriverAt(p, "removing")
  /\ rm[p].pc = "done"
  /\ rm[p].outcome = "removed"
  /\ DriverQuietly(p, [dr[p] EXCEPT !.pc = IF dr[p].todo = {} THEN "dropPackage" ELSE "next"])

DependentGone(p) ==
  /\ DriverAt(p, "removing")
  /\ rm[p].pc = "done"
  /\ rm[p].outcome # "error"
  /\ DriverQuietly(p, [dr[p] EXCEPT !.pc = IF dr[p].todo = {} THEN "dropPackage" ELSE "next"])

DependentStays(p) ==
  /\ DriverAt(p, "removing")
  /\ rm[p].pc = "done"
  /\ rm[p].outcome = "error"
  /\ DriverFails(p)

DriverDone(p) == DriverGoto(p, [dr[p] EXCEPT !.pc = "done", !.outcome = "ok"])

DropDriverPackage(p) ==
  /\ DriverAt(p, "dropPackage")
  /\ DeletePackage(dr[p].driver)
  /\ DriverDone(p)
  /\ UNCHANGED <<rm, wait, history>>

DropPackageFails(p) ==
  /\ DriverAt(p, "dropPackage")
  /\ ~PackageFree(dr[p].driver) \/ CanFail("change")
  /\ DriverQuietly(p, [dr[p] EXCEPT !.pc = "dropDriver"])

DropDriverOnly(p) ==
  /\ DriverAt(p, "dropDriver")
  /\ UnregisterDriver(dr[p].driver)
  /\ DriverDone(p)
  /\ UNCHANGED <<rm, wait, history>>

DropOnlyFails(p) ==
  /\ DriverAt(p, "dropDriver")
  /\ ~DriverFree(dr[p].driver) \/ CanFail("change")
  /\ DriverFails(p)

-----------------------------------------------------------------------------
DriverStep(p) ==
  \/ ResolveDriver(p) \/ ResolveFails(p)
  \/ ListDependents(p) \/ ListFails(p) \/ InUse(p)
  \/ NextDependent(p) \/ DependentGone(p) \/ DependentStays(p)
  \/ DropDriverPackage(p) \/ DropPackageFails(p) \/ DropDriverOnly(p) \/ DropOnlyFails(p)

\* A kill takes the command and the `remove` inside it.
KillDriver(p) ==
  /\ dr[p].pc \notin {"idle", "done", "killed"}
  /\ DriverGoto(p, [dr[p] EXCEPT !.pc = "killed"])
  /\ Goto(p, IF rm[p].pc \in {"idle", "done"} THEN rm[p] ELSE [rm[p] EXCEPT !.pc = "killed"])
  /\ UNCHANGED <<printVars, history>>

\* A step of `remove`, on its own or inside the cascade.
DriverRemoveSide(p) ==
  /\ \/ RemoveStep(p)
     \/ dr[p].pc = "idle" /\ (Start(p) \/ Kill(p))
  /\ UNCHANGED dr

DriverAround == (AdminAdds \/ Tick) /\ UNCHANGED dr

DriverInit == Init /\ dr = [p \in Proc |-> IdleDriver]

DriverNext ==
  \/ \E p \in Proc : StartDriver(p) \/ DriverStep(p) \/ KillDriver(p) \/ DriverRemoveSide(p)
  \/ DriverAround

DriverFairness ==
  /\ WF_driverVars(Tick /\ UNCHANGED dr)
  /\ \A p \in Proc : WF_driverVars(DriverStep(p)) /\ WF_driverVars(RemoveStep(p) /\ UNCHANGED dr)

DriverSpec == DriverInit /\ [][DriverNext]_driverVars /\ DriverFairness

-----------------------------------------------------------------------------
(* Properties.                                                             *)

\* Every variable has the values the frames and the subsystem allow.
DriverTypeOK == TypeOK /\ dr \in [Proc -> DriverFrame]

\* The cascade takes none without --force and, for as long as it hands over
\* names only, takes only queues that print with the driver it is for: neither
\* the list taken once at the beginning nor the lookup by name inside `remove`
\* lets it reach another.  A dependent named like an address is not taken for a
\* name: resolve_printer_name has the cascade take whatever prints there.  (For one
\* command at a time: between the list and the removal another prinstall may remove
\* a queue and an administrator give its name to a new one.)
TakesOnlyDependents ==
  \A p \in Proc :
    dr[p].pc # "idle" /\ rm[p].outcome = "removed"
      => dr[p].call.force /\ (rm[p].driver = dr[p].driver \/ dr[p].astray)

\* Every `driver remove` comes to an end, with all the removals inside it.
DriverRemoveTerminates ==
  \A p \in Proc : dr[p].pc = "resolve" ~> dr[p].pc \in {"done", "killed"}

=============================================================================
