------------------------ MODULE DriverRemove_proofs ------------------------
(***************************************************************************)
(* Theorems about `prinstall driver remove` next to `prinstall remove`, for *)
(* any number of invocations of both, any lag and any failing commands.    *)
(* The steps of a removal, alone or inside, are proved in Remove_proofs.   *)
(***************************************************************************)
EXTENDS DriverRemove, Remove_proofs

USE ScoredAssumption, DriverCallsAssumption

-----------------------------------------------------------------------------
(* The inductive invariant.                                                *)

\* The driver an invocation works on is a vendor's, from its resolution on.
Chosen(f) ==
  f.pc \in {"list", "next", "removing", "dropPackage", "dropDriver"}
    => f.driver \in Driver \ SystemDriver

GoodDriverFrame(f) == f \in DriverFrame /\ Chosen(f)

DriverIInv ==
  /\ IInv
  /\ dr \in [Proc -> DriverFrame]
  /\ \A p \in Proc : Chosen(dr[p])

\* A step that gives one invocation a good frame.
LEMMA DriverGotoInv ==
  ASSUME DriverIInv, IInv', NEW p \in Proc, NEW upd, GoodDriverFrame(upd), DriverGoto(p, upd)
  PROVE  DriverIInv'
<1>1. \A r \in Proc : dr'[r] = IF r = p THEN upd ELSE dr[r]
  BY DEF DriverIInv, DriverGoto
<1> QED BY <1>1 DEF DriverIInv, DriverGoto, GoodDriverFrame, Chosen

\* A step that changes nothing else.
LEMMA DriverQuietlyInv ==
  ASSUME DriverIInv, NEW p \in Proc, NEW upd, GoodDriverFrame(upd), DriverQuietly(p, upd)
  PROVE  DriverIInv'
<1>1. IInv'
  BY NextInv DEF DriverQuietly, DriverIInv
<1> QED BY <1>1, DriverGotoInv DEF DriverQuietly

\* A step that leaves the frames of `driver remove` alone.
LEMMA DriverWorldInv ==
  ASSUME DriverIInv, IInv', UNCHANGED dr
  PROVE  DriverIInv'
  BY DEF DriverIInv, Chosen

\* Every frame of a driver removal is one that knows what it needs.
LEMMA DriverFrameGood ==
  ASSUME DriverIInv, NEW p \in Proc
  PROVE  GoodDriverFrame(dr[p])
  BY DEF DriverIInv, GoodDriverFrame

\* The command line is read.
LEMMA StartDriverInv ==
  ASSUME DriverIInv, NEW p \in Proc, StartDriver(p)
  PROVE  DriverIInv'
<1>1. PICK c \in DriverCalls :
        DriverQuietly(p, [IdleDriver EXCEPT !.pc = "resolve", !.call = c])
  BY DEF StartDriver
<1>2. GoodDriverFrame([IdleDriver EXCEPT !.pc = "resolve", !.call = c])
  BY DEF GoodDriverFrame, IdleDriver, DriverFrame, DriverPc, Chosen
<1> QED BY <1>1, <1>2, DriverQuietlyInv

\* A step after which the invocation still has the driver it had, or has none.
LEMMA QuietStepInv ==
  ASSUME DriverIInv, NEW p \in Proc,
         \/ ListDependents(p) \/ ListFails(p) \/ InUse(p) \/ ResolveFails(p)
         \/ DependentGone(p) \/ DependentStays(p) \/ DropPackageFails(p) \/ DropOnlyFails(p)
  PROVE  DriverIInv'
<1> DEFINE f == dr[p]
           found == Dependents(f.driver)
           listed == [f EXCEPT !.pc = IF found = {} THEN "dropPackage" ELSE "next",
                               !.todo = found]
           gone == [f EXCEPT !.pc = IF f.todo = {} THEN "dropPackage" ELSE "next"]
           package == [f EXCEPT !.pc = "dropPackage"]
           driver == [f EXCEPT !.pc = "dropDriver"]
           failed == [f EXCEPT !.pc = "done", !.outcome = "error"]
<1>1. GoodDriverFrame(f)
  BY DriverFrameGood
<1>2. found \subseteq Queue
  BY DEF Dependents, DriverIInv, IInv, TypeOK, PrintTypeOK, QueueRec
<1>3. GoodDriverFrame(failed)
  BY <1>1 DEF GoodDriverFrame, DriverFrame, DriverPc, Chosen
<1>4. CASE ListDependents(p)
  <2>1. GoodDriverFrame(listed)
    BY <1>1, <1>2, <1>4 DEF GoodDriverFrame, DriverFrame, DriverPc, Chosen, ListDependents, DriverAt
  <2>2. DriverQuietly(p, listed)
    BY <1>4 DEF ListDependents
  <2> QED BY <2>1, <2>2, DriverQuietlyInv
<1>5. CASE ListFails(p)
  <2>1. GoodDriverFrame(package)
    BY <1>1, <1>5 DEF GoodDriverFrame, DriverFrame, DriverPc, Chosen, ListFails, DriverAt
  <2> QED BY <1>5, <2>1, DriverQuietlyInv DEF ListFails
<1>6. CASE DependentGone(p)
  <2>1. gone \in DriverFrame
    BY <1>1 DEF GoodDriverFrame, DriverFrame, DriverPc
  <2>2. GoodDriverFrame(gone)
    BY <1>1, <1>6, <2>1 DEF GoodDriverFrame, DriverFrame, Chosen, DependentGone, DriverAt
  <2>3. DriverQuietly(p, gone)
    BY <1>6 DEF DependentGone
  <2> QED BY <2>2, <2>3, DriverQuietlyInv
<1>7. CASE DropPackageFails(p)
  <2>1. GoodDriverFrame(driver)
    BY <1>1, <1>7 DEF GoodDriverFrame, DriverFrame, DriverPc, Chosen, DropPackageFails, DriverAt
  <2> QED BY <1>7, <2>1, DriverQuietlyInv DEF DropPackageFails
<1>8. CASE InUse(p) \/ ResolveFails(p) \/ DependentStays(p) \/ DropOnlyFails(p)
  <2>1. DriverQuietly(p, failed)
    BY <1>8 DEF InUse, ResolveFails, DependentStays, DropOnlyFails, DriverFails
  <2> QED BY <1>3, <2>1, DriverQuietlyInv
<1> QED BY <1>4, <1>5, <1>6, <1>7, <1>8

\* Only a driver that is no system driver is chosen.
LEMMA ResolveDriverInv ==
  ASSUME DriverIInv, NEW p \in Proc, ResolveDriver(p)
  PROVE  DriverIInv'
<1>1. PICK d \in Driver \ SystemDriver :
        DriverQuietly(p, [dr[p] EXCEPT !.pc = "list", !.driver = d])
  BY DEF ResolveDriver
<1>2. GoodDriverFrame([dr[p] EXCEPT !.pc = "list", !.driver = d])
  BY DriverFrameGood DEF GoodDriverFrame, DriverFrame, DriverPc, Chosen
<1> QED BY <1>1, <1>2, DriverQuietlyInv

\* A removal inside begins.
LEMMA NextDependentInv ==
  ASSUME DriverIInv, NEW p \in Proc, NextDependent(p)
  PROVE  DriverIInv'
<1> DEFINE f == dr[p]
<1>1. PICK n \in f.todo :
        /\ BeginRemove(p, [target |-> n, keepDriver |-> TRUE, keepPort |-> FALSE])
        /\ DriverGoto(p, [f EXCEPT !.pc = "removing", !.todo = f.todo \ {n},
                                   !.astray = f.astray \/ n \in Ip])
  BY DEF NextDependent
<1>2. GoodDriverFrame(f) /\ f.pc = "next" /\ n \in Queue
  BY DriverFrameGood DEF NextDependent, DriverAt, GoodDriverFrame, DriverFrame
<1>3. GoodDriverFrame([f EXCEPT !.pc = "removing", !.todo = f.todo \ {n},
                                !.astray = f.astray \/ n \in Ip])
  BY <1>2 DEF GoodDriverFrame, DriverFrame, DriverPc, Chosen
<1>4. [target |-> n, keepDriver |-> TRUE, keepPort |-> FALSE]
        \in [target: Target, keepDriver: BOOLEAN, keepPort: BOOLEAN]
  BY <1>2 DEF Target
<1>5. IInv'
  BY <1>1, <1>4, BeginInv DEF NextDependent, DriverIInv
<1> QED BY <1>1, <1>3, <1>5, DriverGotoInv

\* The driver goes.
LEMMA DropInv ==
  ASSUME DriverIInv, NEW p \in Proc, DropDriverPackage(p) \/ DropDriverOnly(p)
  PROVE  DriverIInv'
<1>1. GoodDriverFrame([dr[p] EXCEPT !.pc = "done", !.outcome = "ok"])
  BY DriverFrameGood DEF GoodDriverFrame, DriverFrame, DriverPc, Chosen
<1>2. UNCHANGED <<rm, wait, history>> /\ PrintTypeOK'
  BY DEF DropDriverPackage, DropDriverOnly, DeletePackage, UnregisterDriver,
     DriverIInv, IInv, TypeOK, PrintTypeOK
<1>3. IInv'
  BY <1>2, WorldInv DEF DriverIInv, IInv, TypeOK
<1> QED BY <1>1, <1>3, DriverGotoInv DEF DropDriverPackage, DropDriverOnly, DriverDone

\* A kill takes the removal inside with it.
LEMMA KillDriverInv ==
  ASSUME DriverIInv, NEW p \in Proc, KillDriver(p)
  PROVE  DriverIInv'
<1>1. GoodDriverFrame([dr[p] EXCEPT !.pc = "killed"])
  BY DriverFrameGood DEF GoodDriverFrame, DriverFrame, DriverPc, Chosen
<1>2. IInv'
  BY KillInsideInv DEF KillDriver, DriverIInv
<1> QED BY <1>1, <1>2, DriverGotoInv DEF KillDriver

\* The steps of removals, of the administrator and of the clock are steps of
\* Remove.
LEMMA RemoveSide ==
  /\ \A p \in Proc : DriverRemoveSide(p) => Next /\ UNCHANGED dr
  /\ DriverAround => Next /\ UNCHANGED dr
  BY DEF DriverRemoveSide, DriverAround, Next

\* Every step keeps the invariant.
LEMMA DriverNextInv == DriverIInv /\ [DriverNext]_driverVars => DriverIInv'
<1> SUFFICES ASSUME DriverIInv, [DriverNext]_driverVars PROVE DriverIInv'
  OBVIOUS
<1>1. ASSUME NEW p \in Proc, StartDriver(p) \/ DriverStep(p) \/ KillDriver(p) PROVE DriverIInv'
  BY <1>1, StartDriverInv, KillDriverInv, QuietStepInv, ResolveDriverInv, NextDependentInv,
     DropInv DEF DriverStep
<1>2. CASE DriverAround \/ \E p \in Proc : DriverRemoveSide(p)
  BY <1>2, RemoveSide, NextInv, DriverWorldInv DEF DriverIInv
<1>3. CASE UNCHANGED driverVars
  BY <1>3, NextInv, DriverWorldInv DEF driverVars, DriverIInv
<1> QED BY <1>1, <1>2, <1>3 DEF DriverNext

\* The invariant holds when prinstall starts.
LEMMA DriverInitInv == DriverInit => DriverIInv
  BY InitInv DEF DriverInit, DriverIInv, IdleDriver, DriverFrame, DriverPc, Chosen

\* In every reachable state the driver about to be removed is a vendor's.
THEOREM DriverInvariance == DriverSpec => []DriverIInv
  BY DriverInitInv, DriverNextInv, PTL DEF DriverSpec

\* Every variable stays within its type, for any number of invocations.
THEOREM DriverTypeCorrect == DriverSpec => []DriverTypeOK
<1>1. DriverIInv => DriverTypeOK
  BY DEF DriverIInv, IInv, DriverTypeOK
<1> QED BY <1>1, DriverInvariance, PTL

-----------------------------------------------------------------------------
(* Every step keeps the promise of module Custody.                         *)

\* Every step of a driver removal is a step of the promise, or none that it sees.
LEMMA DriverKeeps == DriverIInv /\ [DriverNext]_driverVars => [Promise!Next]_(Promise!vars)
<1> SUFFICES ASSUME DriverIInv, [DriverNext]_driverVars PROVE [Promise!Next]_(Promise!vars)
  OBVIOUS
<1>1. IInv
  BY DEF DriverIInv
<1>2. ASSUME NEW p \in Proc, DropDriverPackage(p) \/ DropDriverOnly(p) PROVE Promise!Next
  <2>1. dr[p].driver \in Driver \ SystemDriver
    BY <1>2, DriverFrameGood DEF DropDriverPackage, DropDriverOnly, DriverAt, GoodDriverFrame, Chosen
  <2> QED BY <1>1, <1>2, <2>1, DriverGoes DEF DropDriverPackage, DropDriverOnly
<1>3. ASSUME NEW p \in Proc, StartDriver(p) \/ KillDriver(p) \/ NextDependent(p)
      PROVE  UNCHANGED printVars
  BY <1>3 DEF StartDriver, KillDriver, NextDependent, DriverQuietly, removeVars, printVars
<1>4. ASSUME NEW p \in Proc,
             \/ ResolveDriver(p) \/ ResolveFails(p) \/ ListDependents(p) \/ ListFails(p) \/ InUse(p)
             \/ DependentGone(p) \/ DependentStays(p) \/ DropPackageFails(p) \/ DropOnlyFails(p)
      PROVE  UNCHANGED printVars
  BY <1>4 DEF ResolveDriver, ResolveFails, ListDependents, ListFails, InUse, DependentGone,
     DependentStays, DropPackageFails, DropOnlyFails, DriverFails, DriverQuietly, removeVars, printVars
<1>5. CASE DriverAround \/ \E p \in Proc : DriverRemoveSide(p)
  BY <1>1, <1>5, RemoveSide, StepKeepsPromise
<1>6. CASE UNCHANGED driverVars
  BY <1>6 DEF driverVars, removeVars, Promise!vars
<1>7. UNCHANGED printVars => [Promise!Next]_(Promise!vars)
  BY DEF printVars, Promise!vars
<1> QED BY <1>2, <1>3, <1>4, <1>5, <1>6, <1>7 DEF DriverNext, DriverStep

\* `driver remove`, with all the removals inside it and next to others, takes
\* away no system driver and nothing that is in use, though it counts long
\* before it removes and takes a list it cannot read for an empty one.
THEOREM DriverKeepsPromise == DriverSpec => KeepsPromise
<1>1. DriverInit => Promise!Init
  BY DEF DriverInit, Init, PrintInit, QueueRec, Promise!Init
<1> QED BY <1>1, DriverInvariance, DriverKeeps, PTL DEF DriverSpec, KeepsPromise, Promise!Spec

-----------------------------------------------------------------------------
(* Alone, and of queues that are not named like an address, the cascade    *)
(* takes only those of its driver.                                         *)

\* Queue n is there and prints with driver d.
PrintsWith(n, d) == \E q \in queues : q.name = n /\ q.driver = d

\* What the list promised is still true of the queues to come, and of the one
\* the removal inside is at; the removal is another queue's than those to come.
\* All of it for as long as the cascade hands over names only.
Aimed(d, r) ==
  /\ d.pc \in {"next", "removing"} => d.call.force
  /\ d.pc \in {"next", "removing"} /\ ~d.astray => \A n \in d.todo : PrintsWith(n, d.driver)
  /\ d.pc # "idle" /\ r.pc \notin {"idle", "done", "killed"} => d.pc = "removing"
  /\ r.pc \in {"idle", "resolve", "info", "remove"} => r.outcome # "removed"
  /\ d.pc \in {"resolve", "list"} => r.outcome # "removed"
  /\ d.pc = "removing" /\ ~d.astray =>
       /\ r.pc = "resolve" =>
            r.target \in Queue \ (d.todo \cup Ip) /\ PrintsWith(r.target, d.driver)
       /\ r.pc = "info" => r.queue \notin d.todo /\ PrintsWith(r.queue, d.driver)
       /\ r.pc = "remove" => r.queue \notin d.todo /\ r.driver = d.driver

Takes(d, r) ==
  d.pc # "idle" /\ r.outcome = "removed" => d.call.force /\ (r.driver = d.driver \/ d.astray)

AloneIInv ==
  /\ DriverIInv
  /\ NamesUnique
  /\ \A p \in Proc : Aimed(dr[p], rm[p]) /\ Takes(dr[p], rm[p])

\* A queue that comes changes nothing of it, nor does a step that leaves the
\* queues and the frames alone.
LEMMA AimedWorld ==
  ASSUME AloneIInv, DriverIInv', UNCHANGED <<dr, rm>>, NamesUnique', queues \subseteq queues'
  PROVE  AloneIInv'
<1>1. \A n, d : PrintsWith(n, d) => PrintsWith(n, d)'
  BY DEF PrintsWith
<1> QED BY <1>1 DEF AloneIInv, Aimed, Takes

\* A step to new frames on the same queues.
LEMMA AimedStep ==
  ASSUME AloneIInv, DriverIInv', NEW p \in Proc, \A r \in Proc : r = p, UNCHANGED queues,
         Aimed(dr'[p], rm'[p]), Takes(dr'[p], rm'[p])
  PROVE  AloneIInv'
<1>1. NamesUnique'
  BY DEF AloneIInv, NamesUnique
<1>2. \A n, d : PrintsWith(n, d)' <=> PrintsWith(n, d)
  BY DEF PrintsWith
<1>3. Aimed(dr[p], rm[p])' /\ Takes(dr[p], rm[p])'
  BY <1>2 DEF Aimed, Takes
<1> QED BY <1>1, <1>3 DEF AloneIInv

\* What a step of `driver remove` that leaves the removal alone needs to keep.
LEMMA AimedDriver ==
  ASSUME AloneIInv, DriverIInv', NEW p \in Proc, \A r \in Proc : r = p, UNCHANGED <<queues, rm>>,
         NEW upd, DriverGoto(p, upd), Aimed(upd, rm[p]), Takes(upd, rm[p])
  PROVE  AloneIInv'
<1>1. dr'[p] = upd
  BY DEF DriverGoto, AloneIInv, DriverIInv
<1> QED BY <1>1, AimedStep

\* What a step of the removal inside needs to keep.
LEMMA AimedRemove ==
  ASSUME AloneIInv, DriverIInv', NEW p \in Proc, \A r \in Proc : r = p, UNCHANGED <<queues, dr>>,
         NEW upd, NEW w, Step(p, upd, w), Aimed(dr[p], upd), Takes(dr[p], upd)
  PROVE  AloneIInv'
<1>1. rm'[p] = upd
  BY DEF Step, AloneIInv, DriverIInv, IInv, TypeOK
<1> QED BY <1>1, AimedStep

\* The steps of `driver remove` around the removals inside.
LEMMA DriverAimed ==
  ASSUME AloneIInv, DriverIInv', NEW p \in Proc, \A r \in Proc : r = p,
         StartDriver(p) \/ DriverStep(p)
  PROVE  AloneIInv'
<1> DEFINE f == dr[p]
           g == rm[p]
           found == Dependents(f.driver)
           listed == [f EXCEPT !.pc = IF found = {} THEN "dropPackage" ELSE "next",
                               !.todo = found]
           gone == [f EXCEPT !.pc = IF f.todo = {} THEN "dropPackage" ELSE "next"]
<1>1. Aimed(f, g) /\ Takes(f, g) /\ f \in DriverFrame /\ g \in RemoveFrame
  BY DEF AloneIInv, DriverIInv, IInv, TypeOK
<1>2. CASE StartDriver(p)
  <2>1. PICK c \in DriverCalls :
          DriverQuietly(p, [IdleDriver EXCEPT !.pc = "resolve", !.call = c])
    BY <1>2 DEF StartDriver
  <2>2. g.pc = "idle"
    BY <1>2 DEF StartDriver
  <2>3. Aimed([IdleDriver EXCEPT !.pc = "resolve", !.call = c], g)
        /\ Takes([IdleDriver EXCEPT !.pc = "resolve", !.call = c], g)
    BY <1>1, <2>2 DEF Aimed, Takes, IdleDriver
  <2> QED BY <2>1, <2>3, AimedDriver DEF DriverQuietly, removeVars
<1>3. CASE ResolveDriver(p)
  <2>1. PICK d \in Driver \ SystemDriver : DriverQuietly(p, [f EXCEPT !.pc = "list", !.driver = d])
    BY <1>3 DEF ResolveDriver
  <2>2. f.pc = "resolve"
    BY <1>3 DEF ResolveDriver, DriverAt
  <2>3. Aimed([f EXCEPT !.pc = "list", !.driver = d], g)
        /\ Takes([f EXCEPT !.pc = "list", !.driver = d], g)
    BY <1>1, <2>2 DEF Aimed, Takes, DriverFrame
  <2> QED BY <2>1, <2>3, AimedDriver DEF DriverQuietly, removeVars
<1>4. CASE ListDependents(p)
  <2>1. f.pc = "list" /\ DriverQuietly(p, listed) /\ (found # {} => f.call.force)
    BY <1>4 DEF ListDependents, DriverAt
  <2>2. \A n \in found : PrintsWith(n, f.driver)
    BY DEF Dependents, PrintsWith
  <2>3. Aimed(listed, g) /\ Takes(listed, g)
    BY <1>1, <2>1, <2>2 DEF Aimed, Takes, DriverFrame
  <2> QED BY <2>1, <2>3, AimedDriver DEF DriverQuietly, removeVars
<1>5. CASE DependentGone(p)
  <2>1. f.pc = "removing" /\ g.pc = "done" /\ DriverQuietly(p, gone)
    BY <1>5 DEF DependentGone, DriverAt
  <2>2. Aimed(gone, g) /\ Takes(gone, g)
    BY <1>1, <2>1 DEF Aimed, Takes, DriverFrame
  <2> QED BY <2>1, <2>2, AimedDriver DEF DriverQuietly, removeVars
<1>6. CASE ListFails(p) \/ DropPackageFails(p)
  <2>1. PICK pc \in {"dropPackage", "dropDriver"} : DriverQuietly(p, [f EXCEPT !.pc = pc])
    BY <1>6 DEF ListFails, DropPackageFails
  <2>2. f.pc \in {"list", "dropPackage"}
    BY <1>6 DEF ListFails, DropPackageFails, DriverAt
  <2>3. Aimed([f EXCEPT !.pc = pc], g) /\ Takes([f EXCEPT !.pc = pc], g)
    BY <1>1, <2>2 DEF Aimed, Takes, DriverFrame
  <2> QED BY <2>1, <2>3, AimedDriver DEF DriverQuietly, removeVars
<1>7. CASE \/ ResolveFails(p) \/ InUse(p) \/ DependentStays(p) \/ DropOnlyFails(p)
           \/ DropDriverPackage(p) \/ DropDriverOnly(p)
  <2>1. PICK o \in {"ok", "error"} : DriverGoto(p, [f EXCEPT !.pc = "done", !.outcome = o])
    BY <1>7 DEF ResolveFails, InUse, DependentStays, DropOnlyFails, DriverFails, DriverQuietly,
       DropDriverPackage, DropDriverOnly, DriverDone
  <2>2. f.pc # "idle" /\ UNCHANGED <<queues, rm>>
    BY <1>7 DEF ResolveFails, InUse, DependentStays, DropOnlyFails, DriverFails, DriverQuietly,
       DropDriverPackage, DropDriverOnly, DeletePackage, UnregisterDriver, DriverAt, removeVars
  <2>3. f.pc = "removing" => g.pc = "done"
    BY <1>7 DEF ResolveFails, InUse, DependentStays, DropOnlyFails, DropDriverPackage,
       DropDriverOnly, DriverAt
  <2>4. Aimed([f EXCEPT !.pc = "done", !.outcome = o], g)
        /\ Takes([f EXCEPT !.pc = "done", !.outcome = o], g)
    BY <1>1, <2>2, <2>3 DEF Aimed, Takes, DriverFrame
  <2> QED BY <2>1, <2>2, <2>4, AimedDriver
<1>8. CASE NextDependent(p)
  <2>1. PICK n \in f.todo :
          /\ BeginRemove(p, [target |-> n, keepDriver |-> TRUE, keepPort |-> FALSE])
          /\ DriverGoto(p, [f EXCEPT !.pc = "removing", !.todo = f.todo \ {n},
                                     !.astray = f.astray \/ n \in Ip])
    BY <1>8 DEF NextDependent
  <2>2. f.pc = "next" /\ UNCHANGED queues
    BY <1>8 DEF NextDependent, DriverAt, printVars
  <2> DEFINE d == [f EXCEPT !.pc = "removing", !.todo = f.todo \ {n},
                            !.astray = f.astray \/ n \in Ip]
             r == [IdleFrame EXCEPT !.pc = "resolve", !.target = n, !.keepDriver = TRUE,
                                    !.keepPort = FALSE]
  <2>3. dr'[p] = d /\ rm'[p] = r
    BY <2>1 DEF DriverGoto, BeginRemove, Goto, Step, AloneIInv, DriverIInv, IInv, TypeOK
  <2>4. Aimed(d, r) /\ Takes(d, r)
    BY <1>1, <2>2 DEF Aimed, Takes, DriverFrame, IdleFrame
  <2> HIDE DEF d, r
  <2> QED BY <2>2, <2>3, <2>4, AimedStep
<1> QED BY <1>2, <1>3, <1>4, <1>5, <1>6, <1>7, <1>8 DEF DriverStep

\* A kill.
LEMMA KillAimed ==
  ASSUME AloneIInv, DriverIInv', NEW p \in Proc, \A r \in Proc : r = p, KillDriver(p)
  PROVE  AloneIInv'
<1> DEFINE f == dr[p]
           g == rm[p]
           d == [f EXCEPT !.pc = "killed"]
           r == IF g.pc \in {"idle", "done"} THEN g ELSE [g EXCEPT !.pc = "killed"]
<1>1. Aimed(f, g) /\ Takes(f, g) /\ f \in DriverFrame /\ g \in RemoveFrame /\ f.pc # "idle"
  BY DEF AloneIInv, DriverIInv, IInv, TypeOK, KillDriver
<1>2. dr'[p] = d /\ rm'[p] = r /\ UNCHANGED queues
  BY DEF KillDriver, DriverGoto, Goto, Step, AloneIInv, DriverIInv, IInv, TypeOK, printVars
<1>3. Aimed(d, r) /\ Takes(d, r)
  BY <1>1 DEF Aimed, Takes, DriverFrame, RemoveFrame
<1> HIDE DEF d, r
<1> QED BY <1>2, <1>3, AimedStep

\* A queue that goes is the one the removal is at: those to come stay.
LEMMA RemovePrinterAimed ==
  ASSUME AloneIInv, DriverIInv', NEW p \in Proc, \A r \in Proc : r = p,
         RemovePrinter(p), UNCHANGED dr
  PROVE  AloneIInv'
<1> DEFINE f == dr[p]
           g == rm[p]
           r == [g EXCEPT !.pc = AfterQueue(g), !.outcome = "removed"]
<1>1. Aimed(f, g) /\ f \in DriverFrame /\ g \in RemoveFrame /\ g.pc = "remove" /\ NamesUnique
  BY DEF AloneIInv, DriverIInv, IInv, TypeOK, RemovePrinter, At
<1>2. PICK q \in queues : q.name = g.queue /\ queues' = queues \ {q}
  BY DEF RemovePrinter, RemoveQueue
<1>3. rm'[p] = r /\ dr'[p] = f /\ r.pc \in {"countPort", "countDriver"}
  BY <1>1 DEF RemovePrinter, Step, AfterQueue, AloneIInv, DriverIInv, IInv, TypeOK, RemoveFrame
<1>4. NamesUnique'
  BY <1>1, <1>2 DEF NamesUnique
<1>5. f.pc = "removing" /\ ~f.astray => \A n \in f.todo : PrintsWith(n, f.driver)'
  <2> SUFFICES ASSUME f.pc = "removing", ~f.astray, NEW n \in f.todo
               PROVE  \E x \in queues' : x.name = n /\ x.driver = f.driver
    BY <1>3 DEF PrintsWith
  <2>1. PICK x \in queues : x.name = n /\ x.driver = f.driver
    BY <1>1 DEF Aimed, PrintsWith
  <2>2. x # q
    BY <1>1, <1>2, <2>1 DEF Aimed
  <2> QED BY <1>2, <2>1, <2>2
<1>6. Aimed(dr[p], rm[p])'
  BY <1>1, <1>3, <1>5 DEF Aimed, RemoveFrame
<1>7. Takes(dr[p], rm[p])'
  BY <1>1, <1>3 DEF Aimed, Takes, RemoveFrame
<1> QED BY <1>4, <1>6, <1>7 DEF AloneIInv

\* The other steps of the removal inside.
LEMMA RemoveAimed ==
  ASSUME AloneIInv, DriverIInv', NEW p \in Proc, \A r \in Proc : r = p, DriverRemoveSide(p)
  PROVE  AloneIInv'
<1> DEFINE f == dr[p]
           g == rm[p]
<1>1. Aimed(f, g) /\ Takes(f, g) /\ f \in DriverFrame /\ g \in RemoveFrame
  BY DEF AloneIInv, DriverIInv, IInv, TypeOK
<1>2. UNCHANGED dr
  BY DEF DriverRemoveSide
<1>3. CASE RemovePrinter(p)
  BY <1>2, <1>3, RemovePrinterAimed
<1>4. CASE ResolveFound(p)
  <2>1. PICK q \in queues : Matches(q, g.target) /\ Goto(p, [g EXCEPT !.pc = "info", !.queue = q.name])
    BY <1>4 DEF ResolveFound
  <2>2. g.pc = "resolve" /\ UNCHANGED queues
    BY <1>4 DEF ResolveFound, At, printVars
  <2>3. f.pc = "removing" /\ ~f.astray => q.name = g.target
    BY <1>1, <2>1, <2>2 DEF Aimed, Matches
  <2>4. Aimed(f, [g EXCEPT !.pc = "info", !.queue = q.name])
        /\ Takes(f, [g EXCEPT !.pc = "info", !.queue = q.name])
    BY <1>1, <2>2, <2>3 DEF Aimed, Takes, RemoveFrame
  <2> QED BY <1>2, <2>1, <2>2, <2>4, AimedRemove DEF Goto
<1>5. CASE FetchInfo(p)
  <2>1. PICK q \in queues :
          /\ q.name = g.queue
          /\ Goto(p, [g EXCEPT !.pc = "remove", !.driver = q.driver, !.port = q.port])
    BY <1>5 DEF FetchInfo
  <2>2. g.pc = "info" /\ UNCHANGED queues
    BY <1>5 DEF FetchInfo, At, printVars
  <2>3. f.pc = "removing" /\ ~f.astray => q.driver = f.driver
    BY <1>1, <2>1, <2>2 DEF Aimed, PrintsWith, AloneIInv, NamesUnique
  <2>4. Aimed(f, [g EXCEPT !.pc = "remove", !.driver = q.driver, !.port = q.port])
        /\ Takes(f, [g EXCEPT !.pc = "remove", !.driver = q.driver, !.port = q.port])
    BY <1>1, <2>2, <2>3 DEF Aimed, Takes, RemoveFrame
  <2> QED BY <1>2, <2>1, <2>2, <2>4, AimedRemove DEF Goto
<1>6. CASE ResolveAbsent(p) \/ FetchInfoFails(p) \/ RemovePrinterFails(p)
  <2>1. PICK o \in {"absent", "error"} : Goto(p, [g EXCEPT !.pc = "done", !.outcome = o])
    BY <1>6 DEF ResolveAbsent, FetchInfoFails, RemovePrinterFails
  <2>2. g.pc \in {"resolve", "info", "remove"} /\ UNCHANGED queues
    BY <1>6 DEF ResolveAbsent, FetchInfoFails, RemovePrinterFails, At, printVars
  <2>3. Aimed(f, [g EXCEPT !.pc = "done", !.outcome = o])
        /\ Takes(f, [g EXCEPT !.pc = "done", !.outcome = o])
    BY <1>1, <2>2 DEF Aimed, Takes, RemoveFrame
  <2> QED BY <1>2, <2>1, <2>2, <2>3, AimedRemove DEF Goto
<1>7. CASE Cleanup(p)
  <2>1. /\ Cleans(g, rm'[p]) /\ UNCHANGED queues
        /\ g.pc \notin {"idle", "resolve", "info", "remove", "done", "killed"}
    BY <1>7, CleanupCleans DEF AloneIInv, DriverIInv
  <2>2. Aimed(f, rm'[p]) /\ Takes(f, rm'[p])
    BY <1>1, <2>1 DEF Aimed, Takes, Cleans
  <2> QED BY <1>2, <2>1, <2>2, AimedStep
<1>8. CASE f.pc = "idle" /\ (Start(p) \/ Kill(p))
  <2>1. rm'[p].outcome # "removed" \/ rm'[p].pc = "killed"
    <3>1. ASSUME NEW c \in Calls, BeginRemove(p, c)
          PROVE  rm'[p].outcome # "removed"
      BY <3>1, StepSets DEF BeginRemove, Goto, IdleFrame, AloneIInv, DriverIInv
    <3>2. CASE Start(p)
      BY <3>1, <3>2 DEF Start
    <3>3. CASE Kill(p)
      <4>1. rm'[p] = [g EXCEPT !.pc = "killed"]
        BY <3>3, StepSets DEF Kill, Goto, AloneIInv, DriverIInv
      <4> QED BY <1>1, <4>1 DEF RemoveFrame
    <3> QED BY <1>8, <3>2, <3>3
  <2>2. UNCHANGED queues
    BY <1>8 DEF Start, Kill, printVars
  <2>3. Aimed(f, rm'[p]) /\ Takes(f, rm'[p])
    BY <1>8, <2>1 DEF Aimed, Takes
  <2> QED BY <1>2, <2>2, <2>3, AimedStep
<1> QED BY <1>3, <1>4, <1>5, <1>6, <1>7, <1>8 DEF DriverRemoveSide, RemoveStep, Cleanup

\* Every step, where there is one invocation.
LEMMA AloneNextInv ==
  ASSUME \A p, r \in Proc : p = r
  PROVE  DriverIInv' /\ AloneIInv /\ [DriverNext]_driverVars => AloneIInv'
<1> SUFFICES ASSUME DriverIInv', AloneIInv, [DriverNext]_driverVars PROVE AloneIInv'
  OBVIOUS
<1>1. CASE DriverAround
  <2>1. UNCHANGED <<dr, rm>> /\ queues \subseteq queues' /\ NamesUnique'
    BY <1>1 DEF DriverAround, AdminAdds, AddQueue, Exists, Tick, AloneIInv, NamesUnique
  <2> QED BY <2>1, AimedWorld
<1>2. CASE UNCHANGED driverVars
  <2>1. UNCHANGED <<dr, rm>> /\ queues \subseteq queues' /\ NamesUnique'
    BY <1>2 DEF driverVars, removeVars, AloneIInv, NamesUnique
  <2> QED BY <2>1, AimedWorld
<1>3. ASSUME NEW p \in Proc,
             StartDriver(p) \/ DriverStep(p) \/ KillDriver(p) \/ DriverRemoveSide(p)
      PROVE  AloneIInv'
  BY <1>3, DriverAimed, KillAimed, RemoveAimed
<1> QED BY <1>1, <1>2, <1>3 DEF DriverNext

\* Nothing is aimed at when prinstall starts.
LEMMA AloneInitInv == DriverInit => AloneIInv
<1> SUFFICES ASSUME DriverInit PROVE AloneIInv
  OBVIOUS
<1>1. DriverIInv /\ NamesUnique
  BY DriverInitInv DEF DriverInit, Init, PrintInit, NamesUnique
<1> QED BY <1>1 DEF AloneIInv, DriverInit, Init, IdleFrame, IdleDriver, Aimed, Takes

\* One `driver remove` at a time, next to an administrator: however many queues
\* the cascade lists, and though it looks each up again by name, it takes none
\* without --force, and only queues that print with its driver until it comes to
\* one that is named like an address.
THEOREM DriverTakesOnlyDependents ==
  ASSUME \A p, r \in Proc : p = r
  PROVE  DriverSpec => []TakesOnlyDependents
<1>1. AloneIInv => TakesOnlyDependents
  BY DEF AloneIInv, Takes, TakesOnlyDependents
<1> QED BY <1>1, AloneInitInv, AloneNextInv, DriverInvariance, PTL DEF DriverSpec

=============================================================================
