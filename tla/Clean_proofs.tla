---------------------------- MODULE Clean_proofs ----------------------------
(***************************************************************************)
(* Theorems about `prinstall clean` next to `prinstall remove`, for any    *)
(* number of invocations of both, any lag and any failing commands.  The   *)
(* steps of a removal, alone or inside, are proved in Remove_proofs.       *)
(***************************************************************************)
EXTENDS Clean, Remove_proofs

USE AddrAssumption, TextAssumption, CleanCallsAssumption

-----------------------------------------------------------------------------
(* The inductive invariant.                                                *)

\* The ports whose name has an address.
Addressed == {x \in Port : AddrOf[x] # None}

\* A command line is there, with an address once the sweep is due; the sweep
\* goes through ports that have one in their name.
Sweeping(f) ==
  /\ f.pc \in {"list", "next", "removing", "listPorts"} => f.call \in CleanCalls
  /\ f.pc = "listPorts" => f.call.ip \in Ip
  /\ f.pc \in {"count", "drop", "restart", "again"} => f.sweep \subseteq Addressed
  /\ f.pc \in {"drop", "restart", "again"} => f.port \in Addressed

GoodClean(f) == f \in CleanFrame /\ Sweeping(f)

CleanIInv ==
  /\ IInv
  /\ cl \in [Proc -> CleanFrame]
  /\ \A p \in Proc : Sweeping(cl[p])

\* Every frame of a clean is one that knows what it needs.
LEMMA CleanGood ==
  ASSUME CleanIInv, NEW p \in Proc
  PROVE  GoodClean(cl[p])
  BY DEF CleanIInv, GoodClean

\* A step that gives one invocation a good frame.
LEMMA CleanGotoInv ==
  ASSUME CleanIInv, IInv', NEW p \in Proc, NEW upd, GoodClean(upd), CleanGoto(p, upd)
  PROVE  CleanIInv'
<1>1. \A r \in Proc : cl'[r] = IF r = p THEN upd ELSE cl[r]
  BY DEF CleanIInv, CleanGoto
<1>2. cl' \in [Proc -> CleanFrame]
  BY DEF CleanIInv, CleanGoto, GoodClean
<1>3. \A r \in Proc : Sweeping(cl'[r])
  BY <1>1 DEF CleanIInv, GoodClean
<1>4. \A r \in Proc : Sweeping(cl'[r]) <=> Sweeping(cl[r])'
  BY DEF Sweeping, Addressed
<1> QED BY <1>2, <1>3, <1>4 DEF CleanIInv

\* A step that changes nothing else.
LEMMA CleanQuietlyInv ==
  ASSUME CleanIInv, NEW p \in Proc, NEW upd, GoodClean(upd), CleanQuietly(p, upd)
  PROVE  CleanIInv'
<1>1. IInv'
  BY NextInv DEF CleanQuietly, CleanIInv
<1> QED BY <1>1, CleanGotoInv DEF CleanQuietly

\* A step that leaves the frames of `clean` alone.
LEMMA CleanWorldInv ==
  ASSUME CleanIInv, IInv', UNCHANGED cl
  PROVE  CleanIInv'
  BY DEF CleanIInv, Sweeping, Addressed

\* The command line is read.
LEMMA StartCleanInv ==
  ASSUME CleanIInv, NEW p \in Proc, StartClean(p)
  PROVE  CleanIInv'
<1> DEFINE refused(c) == [IdleClean EXCEPT !.pc = "done", !.call = c, !.outcome = "error"]
           begun(c) == [IdleClean EXCEPT !.pc = "list", !.call = c]
<1>1. PICK c \in CleanCalls : CleanQuietly(p, refused(c)) \/ CleanQuietly(p, begun(c))
  BY DEF StartClean
<1>2. GoodClean(refused(c)) /\ GoodClean(begun(c))
  BY DEF GoodClean, IdleClean, CleanFrame, CleanPc, Sweeping
<1> QED BY <1>1, <1>2, CleanQuietlyInv

\* The end of the command.
LEMMA FinishInv ==
  ASSUME CleanIInv, NEW p \in Proc, Finish(p)
  PROVE  CleanIInv'
<1> DEFINE f == cl[p]
           upd == [f EXCEPT !.pc = "done", !.outcome = IF f.failed THEN "error" ELSE "ok"]
<1>1. GoodClean(upd)
  BY CleanGood DEF GoodClean, CleanFrame, CleanPc, Sweeping
<1>2. CleanQuietly(p, upd)
  BY DEF Finish
<1> QED BY <1>1, <1>2, CleanQuietlyInv

\* The queues are listed.
LEMMA ListQueuesInv ==
  ASSUME CleanIInv, NEW p \in Proc, ListQueues(p)
  PROVE  CleanIInv'
<1> DEFINE f == cl[p]
           found == Found(f.call)
           upd == [f EXCEPT !.pc = "next", !.todo = found]
<1>1. GoodClean(f) /\ f.pc = "list"
  BY CleanGood DEF ListQueues, CleanAt
<1>2. found \subseteq Queue
  BY DEF Found, CleanIInv, IInv, TypeOK, PrintTypeOK, QueueRec
<1>3. GoodClean(upd)
  BY <1>1, <1>2 DEF GoodClean, CleanFrame, CleanPc, Sweeping
<1>4. CleanQuietly(p, upd)
  BY DEF ListQueues
<1> QED BY <1>3, <1>4, CleanQuietlyInv

\* A removal inside begins.
LEMMA NextQueueInv ==
  ASSUME CleanIInv, NEW p \in Proc, NextQueue(p)
  PROVE  CleanIInv'
<1> DEFINE f == cl[p]
           line(n) == [target |-> n, keepDriver |-> f.call.keepDriver, keepPort |-> TRUE]
<1>1. PICK n \in f.todo :
        /\ BeginRemove(p, line(n))
        /\ CleanGoto(p, [f EXCEPT !.pc = "removing", !.todo = f.todo \ {n},
                                  !.astray = f.astray \/ n \in Ip])
  BY DEF NextQueue
<1>2. GoodClean(f) /\ f.pc = "next" /\ f.call \in CleanCall /\ n \in Queue
  BY CleanGood DEF NextQueue, CleanAt, GoodClean, CleanFrame, Sweeping
<1>3. GoodClean([f EXCEPT !.pc = "removing", !.todo = f.todo \ {n},
                            !.astray = f.astray \/ n \in Ip])
  BY <1>2 DEF GoodClean, CleanFrame, CleanPc, Sweeping
<1>4. line(n) \in [target: Target, keepDriver: BOOLEAN, keepPort: BOOLEAN]
  BY <1>2 DEF Target, CleanCall
<1>5. IInv'
  BY <1>1, <1>4, BeginInv DEF NextQueue, CleanIInv
<1> QED BY <1>1, <1>3, <1>5, CleanGotoInv

\* A removal inside is through.
LEMMA QueueDoneInv ==
  ASSUME CleanIInv, NEW p \in Proc, QueueDone(p)
  PROVE  CleanIInv'
<1> DEFINE f == cl[p]
           failed == f.failed \/ rm[p].outcome = "error"
           next == [f EXCEPT !.pc = "next", !.failed = failed]
           sweep == [f EXCEPT !.pc = "listPorts", !.failed = failed]
           over == [f EXCEPT !.pc = "done", !.failed = failed,
                             !.outcome = IF failed THEN "error" ELSE "ok"]
<1>1. GoodClean(f) /\ f.pc = "removing" /\ f.call \in CleanCall
  BY CleanGood DEF QueueDone, CleanAt, GoodClean, Sweeping
<1>2. GoodClean(next) /\ GoodClean(over)
  BY <1>1 DEF GoodClean, CleanFrame, CleanPc, Sweeping
<1>3. SweepsPorts(f.call) => GoodClean(sweep)
  BY <1>1 DEF GoodClean, CleanFrame, CleanPc, Sweeping, SweepsPorts, CleanCall
<1>4. \/ CleanQuietly(p, next)
      \/ SweepsPorts(f.call) /\ CleanQuietly(p, sweep)
      \/ CleanQuietly(p, over)
  BY DEF QueueDone
<1> HIDE DEF next, sweep, over
<1> QED BY <1>2, <1>3, <1>4, CleanQuietlyInv

\* The ports that mention the address are listed: an address is in their name.
LEMMA ListPortsInv ==
  ASSUME CleanIInv, NEW p \in Proc, ListPorts(p)
  PROVE  CleanIInv'
<1> DEFINE f == cl[p]
           found == {x \in ports : Mentions(x, f.call.ip)}
           upd == [f EXCEPT !.pc = "count", !.sweep = found]
<1>1. GoodClean(f) /\ f.call.ip \in Ip /\ ports \subseteq Port
  BY CleanGood DEF ListPorts, CleanAt, GoodClean, Sweeping, CleanIInv, IInv, TypeOK, PrintTypeOK
<1>2. found \subseteq Addressed /\ found \subseteq Port
  <2>1. \A x \in found : AddrOf[x] \in Ip /\ x \in Port
    BY <1>1, TextAssumption DEF Mentions
  <2> QED BY <2>1, NoneAssumption DEF Addressed
<1>3. CleanQuietly(p, upd) \/ Finish(p)
  BY DEF ListPorts
<1> HIDE DEF found
<1>4. GoodClean(upd)
  BY <1>1, <1>2 DEF GoodClean, CleanFrame, CleanPc, Sweeping
<1> HIDE DEF upd
<1> QED BY <1>3, <1>4, CleanQuietlyInv, FinishInv

\* A port is looked at.
LEMMA CountPortInv ==
  ASSUME CleanIInv, NEW p \in Proc, CountPort(p)
  PROVE  CleanIInv'
<1> DEFINE f == cl[p]
           skip(x) == [f EXCEPT !.sweep = f.sweep \ {x}]
           take(x) == [f EXCEPT !.sweep = f.sweep \ {x}, !.pc = "drop", !.port = x]
<1>1. PICK x \in f.sweep : CleanQuietly(p, skip(x)) \/ CleanQuietly(p, take(x))
  BY DEF CountPort
<1>2. GoodClean(f) /\ f.pc = "count"
  BY CleanGood DEF CountPort, CleanAt
<1>3. GoodClean(skip(x)) /\ GoodClean(take(x))
  BY <1>2 DEF GoodClean, CleanFrame, CleanPc, Sweeping, Addressed
<1> QED BY <1>1, <1>3, CleanQuietlyInv

\* A try to delete the port, and the restart of the spooler after it.
LEMMA SweepInv ==
  ASSUME CleanIInv, NEW p \in Proc,
         SweepPort(p) \/ SweepFails(p) \/ RestartSpooler(p) \/ SweepFailsAgain(p)
  PROVE  CleanIInv'
<1> DEFINE f == cl[p]
<1>1. GoodClean(f) /\ f.pc \in {"drop", "again", "restart"}
  BY CleanGood DEF SweepPort, SweepFails, RestartSpooler, SweepFailsAgain, CleanAt
<1>2. \A pc \in {"count", "restart", "again"} : GoodClean([f EXCEPT !.pc = pc])
  BY <1>1 DEF GoodClean, CleanFrame, CleanPc, Sweeping
<1>3. CASE SweepFails(p) \/ SweepFailsAgain(p)
  BY <1>2, <1>3, CleanQuietlyInv DEF SweepFails, SweepFailsAgain
<1>4. CASE SweepPort(p)
  <2>1. PrintTypeOK' /\ UNCHANGED <<rm, wait, history>>
    BY <1>4 DEF SweepPort, DeletePort, CleanIInv, IInv, TypeOK, PrintTypeOK
  <2>2. IInv'
    BY <2>1, WorldInv DEF CleanIInv, IInv, TypeOK
  <2> QED BY <1>2, <1>4, <2>2, CleanGotoInv DEF SweepPort
<1>5. CASE RestartSpooler(p)
  <2>1. held' \in [Driver \cup Port -> Nat]
    BY <1>5 DEF RestartSpooler, CleanIInv, IInv, TypeOK, PrintTypeOK
  <2>2. PrintTypeOK' /\ UNCHANGED <<rm, history>> /\ wait' \in [Proc -> Nat]
    BY <1>5, <2>1 DEF RestartSpooler, CleanIInv, IInv, TypeOK, PrintTypeOK
  <2>3. IInv'
    BY <2>2, WorldInv DEF CleanIInv
  <2> QED BY <1>2, <1>5, <2>3, CleanGotoInv DEF RestartSpooler
<1> QED BY <1>3, <1>4, <1>5

\* A kill takes the removal inside with it.
LEMMA KillCleanInv ==
  ASSUME CleanIInv, NEW p \in Proc, KillClean(p)
  PROVE  CleanIInv'
<1>1. GoodClean([cl[p] EXCEPT !.pc = "killed"])
  BY CleanGood DEF GoodClean, CleanFrame, CleanPc, Sweeping
<1>2. IInv'
  BY KillInsideInv DEF KillClean, CleanIInv
<1> QED BY <1>1, <1>2, CleanGotoInv DEF KillClean

\* The steps of removals, of the administrator and of the clock are steps of
\* Remove.
LEMMA CleanSide ==
  /\ \A p \in Proc : CleanRemoveSide(p) => Next /\ UNCHANGED cl
  /\ CleanAround => Next /\ UNCHANGED cl
  BY DEF CleanRemoveSide, CleanAround, Next

\* Every step keeps the invariant.
LEMMA CleanNextInv == CleanIInv /\ [CleanNext]_cleanVars => CleanIInv'
<1> SUFFICES ASSUME CleanIInv, [CleanNext]_cleanVars PROVE CleanIInv'
  OBVIOUS
<1>1. ASSUME NEW p \in Proc, NothingListed(p) \/ SweepDone(p) PROVE CleanIInv'
  BY <1>1, FinishInv DEF NothingListed, SweepDone
<1>2. ASSUME NEW p \in Proc, StartClean(p) \/ CleanStep(p) \/ KillClean(p) PROVE CleanIInv'
  BY <1>1, <1>2, StartCleanInv, ListQueuesInv, NextQueueInv, QueueDoneInv, ListPortsInv,
     CountPortInv, SweepInv, KillCleanInv DEF CleanStep
<1>3. CASE CleanAround \/ \E p \in Proc : CleanRemoveSide(p)
  BY <1>3, CleanSide, NextInv, CleanWorldInv DEF CleanIInv
<1>4. CASE UNCHANGED cleanVars
  BY <1>4, NextInv, CleanWorldInv DEF cleanVars, CleanIInv
<1> QED BY <1>2, <1>3, <1>4 DEF CleanNext

\* The invariant holds when prinstall starts.
LEMMA CleanInitInv == CleanInit => CleanIInv
  BY InitInv DEF CleanInit, CleanIInv, IdleClean, CleanFrame, CleanPc, Sweeping

\* In every reachable state a sweep is of ports that have an address in their
\* name, and the command line it goes by is there.
THEOREM CleanInvariance == CleanSpec => []CleanIInv
  BY CleanInitInv, CleanNextInv, PTL DEF CleanSpec

\* Every variable stays within its type, for any number of invocations.
THEOREM CleanTypeCorrect == CleanSpec => []CleanTypeOK
<1>1. CleanIInv => CleanTypeOK
  BY DEF CleanIInv, IInv, CleanTypeOK
<1> QED BY <1>1, CleanInvariance, PTL

-----------------------------------------------------------------------------
(* Every step keeps the promise of module Custody.                         *)

\* The promise of a removal is one of the cleanup, which manages more ports.
LEMMA PromiseSwept == Promise!Next => Swept!Next
  BY DEF Promise!Next, Swept!Next, Promise!OneQueueMore, Swept!OneQueueMore,
     Promise!OneQueueLess, Swept!OneQueueLess, Promise!DriversLess, Swept!DriversLess,
     Promise!Unused, Swept!Unused, Promise!OnePortLess, Swept!OnePortLess,
     Promise!Idle, Swept!Idle, Promise!MoreSupply, Swept!MoreSupply

\* The sweep takes a port with an address in its name that nothing prints to.
LEMMA SweptPortGoes ==
  ASSUME CleanIInv, NEW p \in Proc, SweepPort(p)
  PROVE  Swept!Next
<1>1. cl[p].port \in Addressed
  BY CleanGood DEF SweepPort, CleanAt, GoodClean, Sweeping
<1> QED BY <1>1 DEF SweepPort, DeletePort, PortFree, PortInUse, Addressed,
        Swept!Next, Swept!OnePortLess, Swept!Idle

\* Every step of a clean is a step of the promise, or none that it sees.
LEMMA CleanKeeps == CleanIInv /\ [CleanNext]_cleanVars => [Swept!Next]_(Swept!vars)
<1> SUFFICES ASSUME CleanIInv, [CleanNext]_cleanVars PROVE [Swept!Next]_(Swept!vars)
  OBVIOUS
<1>1. IInv
  BY DEF CleanIInv
<1>2. UNCHANGED <<queues, registered, packages, ports>> => [Swept!Next]_(Swept!vars)
  BY DEF Swept!vars
<1>3. ASSUME NEW p \in Proc,
             \/ StartClean(p) \/ KillClean(p) \/ ListQueues(p) \/ NothingListed(p) \/ NextQueue(p)
             \/ QueueDone(p)
      PROVE  UNCHANGED <<queues, registered, packages, ports>>
  BY <1>3 DEF StartClean, KillClean, ListQueues, NothingListed, NextQueue, QueueDone, Finish,
     CleanQuietly, removeVars, printVars
<1>4. ASSUME NEW p \in Proc,
             \/ ListPorts(p) \/ CountPort(p) \/ SweepDone(p) \/ SweepFails(p)
             \/ RestartSpooler(p) \/ SweepFailsAgain(p)
      PROVE  UNCHANGED <<queues, registered, packages, ports>>
  BY <1>4 DEF ListPorts, CountPort, SweepDone, SweepFails, RestartSpooler, SweepFailsAgain,
     Finish, CleanQuietly, removeVars, printVars
<1>5. CASE CleanAround \/ \E p \in Proc : CleanRemoveSide(p)
  <2>1. [Promise!Next]_(Promise!vars)
    BY <1>1, <1>5, CleanSide, StepKeepsPromise
  <2> QED BY <1>2, <2>1, PromiseSwept DEF Promise!vars
<1>6. CASE UNCHANGED cleanVars
  BY <1>2, <1>6 DEF cleanVars, removeVars
<1> QED BY <1>2, <1>3, <1>4, <1>5, <1>6, SweptPortGoes DEF CleanNext, CleanStep

\* `clean`, with all the removals inside it and next to others, takes away no
\* system driver, nothing that is in use and no port without an address in its
\* name, though it restarts the spooler and tries again.
THEOREM CleanKeepsItsPromise == CleanSpec => CleanKeepsPromise
<1>1. CleanInit => Swept!Init
  BY DEF CleanInit, Init, PrintInit, QueueRec, Swept!Init
<1> QED BY <1>1, CleanInvariance, CleanKeeps, PTL DEF CleanSpec, CleanKeepsPromise, Swept!Spec

-----------------------------------------------------------------------------
(* Alone, a clean takes only queues its filters match.                     *)

\* A queue of this name is there and the filters match it.
Matching(n, c) == \E q \in queues : q.name = n /\ Selected(q, c)

\* What the removal knows of its queue.
Known(r) == [name |-> r.queue, driver |-> r.driver, port |-> r.port]

\* What the list promised is still true of the queues to come, and of the one
\* the removal inside is at; the removal is another queue's than those to come.
\* All of it for as long as the clean hands over names only; the removal has the
\* flag for the driver in any case.
Aimed(f, r) ==
  /\ f.pc \in {"next", "removing"} /\ ~f.astray => \A n \in f.todo : Matching(n, f.call)
  /\ f.pc # "idle" /\ r.pc \notin {"idle", "done", "killed"} => f.pc = "removing"
  /\ r.pc \in {"idle", "resolve", "info", "remove"} => r.outcome # "removed" /\ ~r.driverRemoved
  /\ f.pc = "removing" =>
       /\ r.keepDriver = f.call.keepDriver
       /\ r.pc \in {"countDriver", "dropDriver"} => ~r.keepDriver
  /\ f.pc = "removing" /\ ~f.astray =>
       /\ r.pc = "resolve" =>
            r.target \in Queue \ (f.todo \cup Ip) /\ Matching(r.target, f.call)
       /\ r.pc = "info" => r.queue \notin f.todo /\ Matching(r.queue, f.call)
       /\ r.pc = "remove" => r.queue \notin f.todo /\ Selected(Known(r), f.call)

Takes(f, r) ==
  f.pc # "idle" /\ r.outcome = "removed" =>
    (Selected(Known(r), f.call) \/ f.astray) /\ (r.driverRemoved => ~f.call.keepDriver)

AloneIInv ==
  /\ CleanIInv
  /\ NamesUnique
  /\ \A p \in Proc : Aimed(cl[p], rm[p]) /\ Takes(cl[p], rm[p])

\* A queue that comes changes nothing of it, nor does a step that leaves the
\* queues and the frames alone.
LEMMA AimedWorld ==
  ASSUME AloneIInv, CleanIInv', UNCHANGED <<cl, rm>>, NamesUnique', queues \subseteq queues'
  PROVE  AloneIInv'
<1>1. \A n, c : Matching(n, c) => Matching(n, c)'
  BY DEF Matching, Selected, PortTargetsIp, StandsFor, Passes
<1>2. \A p \in Proc : Takes(cl[p], rm[p])'
  BY DEF AloneIInv, Takes, Known, Selected, PortTargetsIp, StandsFor, Passes
<1>3. \A p \in Proc : Aimed(cl[p], rm[p])'
  BY <1>1 DEF AloneIInv, Aimed, Known, Selected, PortTargetsIp, StandsFor, Passes
<1> QED BY <1>2, <1>3 DEF AloneIInv

\* A step to new frames on the same queues.
LEMMA AimedStep ==
  ASSUME AloneIInv, CleanIInv', NEW p \in Proc, \A r \in Proc : r = p, UNCHANGED queues,
         Aimed(cl'[p], rm'[p]), Takes(cl'[p], rm'[p])
  PROVE  AloneIInv'
<1>1. NamesUnique'
  BY DEF AloneIInv, NamesUnique
<1>2. \A n, c : Matching(n, c)' <=> Matching(n, c)
  BY DEF Matching, Selected, PortTargetsIp, StandsFor, Passes
<1>3. Aimed(cl[p], rm[p])' /\ Takes(cl[p], rm[p])'
  BY <1>2 DEF Aimed, Takes, Known, Selected, PortTargetsIp, StandsFor, Passes
<1> QED BY <1>1, <1>3 DEF AloneIInv

\* What a step of `clean` sets its frame to.
LEMMA CleanSets ==
  ASSUME CleanIInv, NEW p \in Proc, NEW upd, CleanGoto(p, upd)
  PROVE  cl'[p] = upd
  BY DEF CleanGoto, CleanIInv

\* What a step of the removal inside needs to keep.
LEMMA AimedRemove ==
  ASSUME AloneIInv, CleanIInv', NEW p \in Proc, \A r \in Proc : r = p, UNCHANGED <<queues, cl>>,
         NEW upd, NEW w, Step(p, upd, w), Aimed(cl[p], upd), Takes(cl[p], upd)
  PROVE  AloneIInv'
<1>1. rm'[p] = upd
  BY StepSets DEF AloneIInv, CleanIInv
<1> QED BY <1>1, AimedStep

\* A removal inside begins: it is another queue's than those to come.
LEMMA NextQueueAimed ==
  ASSUME AloneIInv, CleanIInv', NEW p \in Proc, \A r \in Proc : r = p, NextQueue(p)
  PROVE  AloneIInv'
<1> DEFINE f == cl[p]
           k(n) == [f EXCEPT !.pc = "removing", !.todo = f.todo \ {n},
                             !.astray = f.astray \/ n \in Ip]
           r(n) == [IdleFrame EXCEPT !.pc = "resolve", !.target = n,
                                     !.keepDriver = f.call.keepDriver, !.keepPort = TRUE]
<1>1. Aimed(f, rm[p]) /\ f \in CleanFrame /\ f.pc = "next"
  BY DEF AloneIInv, CleanIInv, NextQueue, CleanAt
<1>2. PICK n \in f.todo : Step(p, r(n), 0) /\ CleanGoto(p, k(n))
  BY DEF NextQueue, BeginRemove, Goto
<1>3. rm'[p] = r(n) /\ cl'[p] = k(n)
  BY <1>2, StepSets DEF CleanGoto, AloneIInv, CleanIInv
<1>4. n \in Queue /\ (~f.astray => Matching(n, f.call))
  BY <1>1, <1>2 DEF Aimed, CleanFrame
<1>5. Aimed(k(n), r(n)) /\ Takes(k(n), r(n))
  BY <1>1, <1>4 DEF Aimed, Takes, IdleFrame, CleanFrame
<1>6. UNCHANGED queues
  BY DEF NextQueue, printVars
<1> HIDE DEF k, r
<1> QED BY <1>3, <1>5, <1>6, AimedStep

\* The other steps of `clean` around the removals inside.
LEMMA CleanAimed ==
  ASSUME AloneIInv, CleanIInv', NEW p \in Proc, \A r \in Proc : r = p,
         StartClean(p) \/ CleanStep(p)
  PROVE  AloneIInv'
<1> DEFINE f == cl[p]
           g == rm[p]
<1>1. Aimed(f, g) /\ Takes(f, g) /\ f \in CleanFrame /\ g \in RemoveFrame /\ CleanIInv
  BY DEF AloneIInv, CleanIInv, IInv, TypeOK
<1>2. CASE StartClean(p)
  <2>1. g.pc = "idle" /\ UNCHANGED <<queues, rm>>
    BY <1>2 DEF StartClean, CleanQuietly, removeVars
  <2>2. cl'[p].pc \in {"done", "list"}
    BY <1>1, <1>2, CleanSets DEF StartClean, CleanQuietly, IdleClean
  <2>3. Aimed(cl'[p], rm'[p]) /\ Takes(cl'[p], rm'[p])
    BY <1>1, <2>1, <2>2 DEF Aimed, Takes
  <2> QED BY <2>1, <2>3, AimedStep
<1>3. CASE ListQueues(p)
  <2> DEFINE upd == [f EXCEPT !.pc = "next", !.todo = Found(f.call)]
  <2>1. CleanGoto(p, upd) /\ UNCHANGED <<queues, rm>> /\ f.pc = "list"
    BY <1>3 DEF ListQueues, CleanAt, CleanQuietly, removeVars
  <2>2. \A n \in Found(f.call) : Matching(n, f.call)
    BY DEF Found, Matching
  <2>3. Aimed(upd, g) /\ Takes(upd, g)
    BY <1>1, <2>1, <2>2 DEF Aimed, Takes, CleanFrame
  <2>4. cl'[p] = upd
    BY <1>1, <2>1, CleanSets
  <2> HIDE DEF upd
  <2> QED BY <2>1, <2>3, <2>4, AimedStep
<1>4. CASE NextQueue(p)
  BY <1>4, NextQueueAimed
<1>5. CASE QueueDone(p)
  <2> DEFINE failed == f.failed \/ g.outcome = "error"
  <2>1. UNCHANGED <<queues, rm>> /\ f.pc = "removing" /\ g.pc = "done"
    BY <1>5 DEF QueueDone, CleanAt, CleanQuietly, removeVars
  <2>2. \/ cl'[p] = [f EXCEPT !.pc = "next", !.failed = failed]
        \/ cl'[p] = [f EXCEPT !.pc = "listPorts", !.failed = failed]
        \/ cl'[p] = [f EXCEPT !.pc = "done", !.failed = failed,
                              !.outcome = IF failed THEN "error" ELSE "ok"]
    BY <1>1, <1>5, CleanSets DEF QueueDone, CleanQuietly
  <2>3. /\ cl'[p].pc \in {"next", "listPorts", "done"}
        /\ cl'[p].call = f.call /\ cl'[p].todo = f.todo /\ cl'[p].astray = f.astray
    BY <1>1, <2>2 DEF CleanFrame
  <2>4. Aimed(cl'[p], rm'[p]) /\ Takes(cl'[p], rm'[p])
    BY <1>1, <2>1, <2>3 DEF Aimed, Takes
  <2> QED BY <2>1, <2>4, AimedStep
<1>6. CASE \/ NothingListed(p) \/ ListPorts(p) \/ CountPort(p) \/ SweepDone(p) \/ SweepPort(p)
           \/ SweepFails(p) \/ RestartSpooler(p) \/ SweepFailsAgain(p)
  <2>1. UNCHANGED <<queues, rm>>
    BY <1>6 DEF NothingListed, ListPorts, CountPort, SweepDone, SweepPort, SweepFails,
       RestartSpooler, SweepFailsAgain, Finish, CleanQuietly, removeVars, DeletePort
  <2>2. f.pc \notin {"idle", "removing", "next"}
    BY <1>6 DEF NothingListed, ListPorts, CountPort, SweepDone, SweepPort, SweepFails,
       RestartSpooler, SweepFailsAgain, CleanAt
  <2>3. cl'[p].pc \in {"done", "count", "drop", "restart", "again"} 
        /\ cl'[p].call = f.call /\ cl'[p].astray = f.astray
    <3>1. ASSUME Finish(p)
          PROVE  cl'[p].pc = "done" /\ cl'[p].call = f.call /\ cl'[p].astray = f.astray
      <4>1. cl'[p] = [f EXCEPT !.pc = "done", !.outcome = IF f.failed THEN "error" ELSE "ok"]
        BY <1>1, <3>1, CleanSets DEF Finish, CleanQuietly
      <4> QED BY <1>1, <4>1 DEF CleanFrame
    <3>2. CASE SweepPort(p) \/ SweepFails(p) \/ RestartSpooler(p) \/ SweepFailsAgain(p)
      <4>1. \E pc \in {"count", "restart", "again"} : cl'[p] = [f EXCEPT !.pc = pc]
        BY <1>1, <3>2, CleanSets DEF SweepPort, SweepFails, RestartSpooler, SweepFailsAgain,
           CleanQuietly
      <4> QED BY <1>1, <4>1 DEF CleanFrame
    <3>3. CASE ListPorts(p)
      <4> DEFINE found == {x \in ports : Mentions(x, f.call.ip)}
      <4>1. Finish(p) \/ cl'[p] = [f EXCEPT !.pc = "count", !.sweep = found]
        BY <1>1, <3>3, CleanSets DEF ListPorts, CleanQuietly
      <4> HIDE DEF found
      <4> QED BY <1>1, <3>1, <4>1 DEF CleanFrame
    <3>4. CASE CountPort(p)
      <4>1. PICK x \in f.sweep :
              \/ cl'[p] = [f EXCEPT !.sweep = f.sweep \ {x}]
              \/ cl'[p] = [f EXCEPT !.sweep = f.sweep \ {x}, !.pc = "drop", !.port = x]
        BY <1>1, <3>4, CleanSets DEF CountPort, CleanQuietly
      <4>2. f.pc = "count"
        BY <3>4 DEF CountPort, CleanAt
      <4> QED BY <1>1, <4>1, <4>2 DEF CleanFrame
    <3> QED BY <1>6, <3>1, <3>2, <3>3, <3>4 DEF NothingListed, SweepDone
  <2>4. Aimed(cl'[p], rm'[p]) /\ Takes(cl'[p], rm'[p])
    BY <1>1, <2>1, <2>2, <2>3 DEF Aimed, Takes
  <2> QED BY <2>1, <2>4, AimedStep
<1> QED BY <1>2, <1>3, <1>4, <1>5, <1>6 DEF CleanStep

\* A kill.
LEMMA KillAimed ==
  ASSUME AloneIInv, CleanIInv', NEW p \in Proc, \A r \in Proc : r = p, KillClean(p)
  PROVE  AloneIInv'
<1> DEFINE f == cl[p]
           g == rm[p]
           k == [f EXCEPT !.pc = "killed"]
           r == IF g.pc \in {"idle", "done"} THEN g ELSE [g EXCEPT !.pc = "killed"]
<1>1. Aimed(f, g) /\ Takes(f, g) /\ f \in CleanFrame /\ g \in RemoveFrame /\ f.pc # "idle"
  BY DEF AloneIInv, CleanIInv, IInv, TypeOK, KillClean
<1>2. cl'[p] = k /\ rm'[p] = r /\ UNCHANGED queues
  BY CleanSets, StepSets DEF KillClean, Goto, AloneIInv, CleanIInv, printVars
<1>3. k.pc = "killed" /\ k.call = f.call /\ k.astray = f.astray
  BY <1>1 DEF CleanFrame
<1>4. /\ r.pc \in {"idle", "done", "killed"} /\ (r.pc = "idle" => g.pc = "idle")
      /\ r.outcome = g.outcome /\ r.driverRemoved = g.driverRemoved
      /\ r.queue = g.queue /\ r.driver = g.driver /\ r.port = g.port
  BY <1>1 DEF RemoveFrame
<1> HIDE DEF k, r
<1>5. Aimed(k, r) /\ Takes(k, r)
  BY <1>1, <1>3, <1>4 DEF Aimed, Takes, Known
<1> QED BY <1>2, <1>5, AimedStep

\* A queue that goes is the one the removal is at: those to come stay.
LEMMA RemovePrinterAimed ==
  ASSUME AloneIInv, CleanIInv', NEW p \in Proc, \A r \in Proc : r = p,
         RemovePrinter(p), UNCHANGED cl
  PROVE  AloneIInv'
<1> DEFINE f == cl[p]
           g == rm[p]
           r == [g EXCEPT !.pc = AfterQueue(g), !.outcome = "removed"]
<1>1. Aimed(f, g) /\ f \in CleanFrame /\ g \in RemoveFrame /\ g.pc = "remove" /\ NamesUnique
  BY DEF AloneIInv, CleanIInv, IInv, TypeOK, RemovePrinter, At
<1>2. PICK q \in queues : q.name = g.queue /\ queues' = queues \ {q}
  BY DEF RemovePrinter, RemoveQueue
<1>3. rm'[p] = r /\ cl'[p] = f
  BY StepSets DEF RemovePrinter, AloneIInv, CleanIInv
<1>4. /\ r.pc \in {"countPort", "countDriver"} /\ (r.pc = "countDriver" => ~g.keepDriver)
      /\ r.outcome = "removed" /\ r.driverRemoved = g.driverRemoved
      /\ r.keepDriver = g.keepDriver /\ Known(r) = Known(g)
  BY <1>1 DEF AfterQueue, RemoveFrame, Known
<1>5. NamesUnique'
  BY <1>1, <1>2 DEF NamesUnique
<1>6. f.pc = "removing" /\ ~f.astray => \A n \in f.todo : Matching(n, f.call)'
  <2> SUFFICES ASSUME f.pc = "removing", ~f.astray, NEW n \in f.todo
               PROVE  \E x \in queues' : x.name = n /\ Selected(x, f.call)
    BY <1>3 DEF Matching, Selected, PortTargetsIp, StandsFor, Passes
  <2>1. PICK x \in queues : x.name = n /\ Selected(x, f.call)
    BY <1>1 DEF Aimed, Matching
  <2>2. x # q
    BY <1>1, <1>2, <2>1 DEF Aimed
  <2> QED BY <1>2, <2>1, <2>2
<1> HIDE DEF r
<1>7. Aimed(cl[p], rm[p])'
  BY <1>1, <1>3, <1>4, <1>6 DEF Aimed
<1>8. Takes(f, r)
  BY <1>1, <1>4 DEF Aimed, Takes
<1>9. Takes(cl[p], rm[p])'
  BY <1>3, <1>8 DEF Takes, Known, Selected, PortTargetsIp, StandsFor, Passes
<1> QED BY <1>5, <1>7, <1>9 DEF AloneIInv

\* The other steps of the removal inside.
LEMMA RemoveAimed ==
  ASSUME AloneIInv, CleanIInv', NEW p \in Proc, \A r \in Proc : r = p, CleanRemoveSide(p)
  PROVE  AloneIInv'
<1> DEFINE f == cl[p]
           g == rm[p]
<1>1. Aimed(f, g) /\ Takes(f, g) /\ f \in CleanFrame /\ g \in RemoveFrame /\ IInv
  BY DEF AloneIInv, CleanIInv, IInv, TypeOK
<1>2. UNCHANGED cl
  BY DEF CleanRemoveSide
<1>3. CASE RemovePrinter(p)
  BY <1>2, <1>3, RemovePrinterAimed
<1>4. CASE ResolveFound(p)
  <2>1. PICK q \in queues : Matches(q, g.target) /\ Goto(p, [g EXCEPT !.pc = "info", !.queue = q.name])
    BY <1>4 DEF ResolveFound
  <2> DEFINE r == [g EXCEPT !.pc = "info", !.queue = q.name]
  <2>2. g.pc = "resolve" /\ UNCHANGED queues
    BY <1>4 DEF ResolveFound, At, printVars
  <2>3. f.pc = "removing" /\ ~f.astray => q.name = g.target
    BY <1>1, <2>1, <2>2 DEF Aimed, Matches
  <2>4. /\ r.pc = "info" /\ r.queue = q.name /\ r.keepDriver = g.keepDriver
        /\ r.outcome = g.outcome /\ r.driverRemoved = g.driverRemoved
    BY <1>1 DEF RemoveFrame
  <2>5. Step(p, r, 0)
    BY <2>1 DEF Goto
  <2> HIDE DEF r
  <2>6. Aimed(f, r) /\ Takes(f, r)
    BY <1>1, <2>2, <2>3, <2>4 DEF Aimed, Takes
  <2> QED BY <1>2, <2>2, <2>5, <2>6, AimedRemove
<1>5. CASE FetchInfo(p)
  <2>1. PICK q \in queues :
          /\ q.name = g.queue
          /\ Goto(p, [g EXCEPT !.pc = "remove", !.driver = q.driver, !.port = q.port])
    BY <1>5 DEF FetchInfo
  <2> DEFINE r == [g EXCEPT !.pc = "remove", !.driver = q.driver, !.port = q.port]
  <2>2. g.pc = "info" /\ UNCHANGED queues
    BY <1>5 DEF FetchInfo, At, printVars
  <2>3. f.pc = "removing" /\ ~f.astray => Selected(q, f.call)
    BY <1>1, <2>1, <2>2 DEF Aimed, Matching, AloneIInv, NamesUnique
  <2>4. q = [name |-> q.name, driver |-> q.driver, port |-> q.port]
    BY <1>1 DEF IInv, TypeOK, PrintTypeOK, QueueRec
  <2>5. /\ r.pc = "remove" /\ r.queue = g.queue /\ r.keepDriver = g.keepDriver
        /\ r.driver = q.driver /\ r.port = q.port
        /\ r.outcome = g.outcome /\ r.driverRemoved = g.driverRemoved
    BY <1>1 DEF RemoveFrame
  <2>6. Step(p, r, 0)
    BY <2>1 DEF Goto
  <2> HIDE DEF r
  <2>7. Known(r) = q
    BY <2>1, <2>4, <2>5 DEF Known
  <2>8. Aimed(f, r) /\ Takes(f, r)
    BY <1>1, <2>2, <2>3, <2>5, <2>7 DEF Aimed, Takes
  <2> QED BY <1>2, <2>2, <2>6, <2>8, AimedRemove
<1>6. CASE ResolveAbsent(p) \/ FetchInfoFails(p) \/ RemovePrinterFails(p)
  <2>1. PICK o \in {"absent", "error"} : Goto(p, [g EXCEPT !.pc = "done", !.outcome = o])
    BY <1>6 DEF ResolveAbsent, FetchInfoFails, RemovePrinterFails
  <2>2. g.pc \in {"resolve", "info", "remove"} /\ UNCHANGED queues
    BY <1>6 DEF ResolveAbsent, FetchInfoFails, RemovePrinterFails, At, printVars
  <2>3. Aimed(f, [g EXCEPT !.pc = "done", !.outcome = o])
        /\ Takes(f, [g EXCEPT !.pc = "done", !.outcome = o])
    BY <1>1, <2>2 DEF Aimed, Takes, RemoveFrame
  <2> QED BY <1>2, <2>1, <2>2, <2>3, AimedRemove DEF Goto
<1>7. CASE Cleanup(p)
  <2>1. /\ Cleans(g, rm'[p]) /\ UNCHANGED queues
        /\ g.pc \notin {"idle", "resolve", "info", "remove", "done", "killed"}
    BY <1>1, <1>7, CleanupCleans
  <2>2. Aimed(f, rm'[p])
    BY <1>1, <2>1 DEF Aimed, Cleans
  <2>3. Known(rm'[p]) = Known(g)
    BY <2>1 DEF Cleans, Known
  <2>4. Takes(f, rm'[p])
    BY <1>1, <2>1, <2>3 DEF Aimed, Takes, Cleans
  <2> QED BY <1>2, <2>1, <2>2, <2>4, AimedStep
<1>8. CASE f.pc = "idle" /\ (Start(p) \/ Kill(p))
  <2>1. ASSUME NEW c \in Calls, BeginRemove(p, c)
        PROVE  rm'[p].outcome # "removed" /\ ~rm'[p].driverRemoved
    BY <1>1, <2>1, StepSets DEF BeginRemove, Goto, IdleFrame
  <2>2. Kill(p) => rm'[p] = [g EXCEPT !.pc = "killed"]
    BY <1>1, StepSets DEF Kill, Goto
  <2>3. Kill(p) => rm'[p].pc = "killed"
    BY <1>1, <2>2 DEF RemoveFrame
  <2>4. (rm'[p].outcome # "removed" /\ ~rm'[p].driverRemoved) \/ rm'[p].pc = "killed"
    BY <1>8, <2>1, <2>3 DEF Start
  <2>5. Aimed(f, rm'[p]) /\ Takes(f, rm'[p]) /\ UNCHANGED queues
    BY <1>8, <2>4 DEF Aimed, Takes, Start, Kill, printVars
  <2> QED BY <1>2, <2>5, AimedStep
<1> QED BY <1>3, <1>4, <1>5, <1>6, <1>7, <1>8 DEF CleanRemoveSide, RemoveStep, Cleanup

\* Every step, where there is one invocation.
LEMMA AloneNextInv ==
  ASSUME \A p, r \in Proc : p = r
  PROVE  CleanIInv' /\ AloneIInv /\ [CleanNext]_cleanVars => AloneIInv'
<1> SUFFICES ASSUME CleanIInv', AloneIInv, [CleanNext]_cleanVars PROVE AloneIInv'
  OBVIOUS
<1>1. CASE CleanAround
  <2>1. UNCHANGED <<cl, rm>> /\ queues \subseteq queues' /\ NamesUnique'
    BY <1>1 DEF CleanAround, AdminAdds, AddQueue, Exists, Tick, AloneIInv, NamesUnique
  <2> QED BY <2>1, AimedWorld
<1>2. CASE UNCHANGED cleanVars
  <2>1. UNCHANGED <<cl, rm>> /\ queues \subseteq queues' /\ NamesUnique'
    BY <1>2 DEF cleanVars, removeVars, AloneIInv, NamesUnique
  <2> QED BY <2>1, AimedWorld
<1>3. ASSUME NEW p \in Proc,
             StartClean(p) \/ CleanStep(p) \/ KillClean(p) \/ CleanRemoveSide(p)
      PROVE  AloneIInv'
  BY <1>3, CleanAimed, KillAimed, RemoveAimed
<1> QED BY <1>1, <1>2, <1>3 DEF CleanNext

\* Nothing is aimed at when prinstall starts.
LEMMA AloneInitInv == CleanInit => AloneIInv
<1> SUFFICES ASSUME CleanInit PROVE AloneIInv
  OBVIOUS
<1>1. CleanIInv /\ NamesUnique
  BY CleanInitInv DEF CleanInit, Init, PrintInit, NamesUnique
<1> QED BY <1>1 DEF AloneIInv, CleanInit, Init, IdleFrame, IdleClean, Aimed, Takes

\* One `clean` at a time, next to an administrator: however many queues it
\* lists, and though it looks each up again by name, it takes a driver only
\* without --keep-driver, and only queues that all its filters match until it
\* comes to one that is named like an address.
THEOREM CleanTakesOnlyMatches ==
  ASSUME \A p, r \in Proc : p = r
  PROVE  CleanSpec => []TakesOnlyMatches
<1>1. AloneIInv => TakesOnlyMatches
  BY DEF AloneIInv, Takes, Known, TakesOnlyMatches
<1> QED BY <1>1, AloneInitInv, AloneNextInv, CleanInvariance, PTL DEF CleanSpec

-----------------------------------------------------------------------------
(* A clean of an address leaves nothing there.                             *)

\* The clean was asked for everything of its address, and handed over names only.
Full(f) ==
  SweepsPorts(f.call) /\ f.call.nameMatch = None /\ f.call.manufacturer = None /\ ~f.astray

\* The queues and the ports at the address of a clean.
QueuesThere(p) == {q \in queues : StandsFor(q.port, cl[p].call.ip)}
PortsThere(p) == {x \in ports : StandsFor(x, cl[p].call.ip)}

\* The clean will come to the queue, or the removal inside is at it.
ComesTo(p, q) ==
  \/ q.name \in cl[p].todo
  \/ cl[p].pc = "removing" /\ rm[p].pc = "resolve" /\ q.name = rm[p].target
  \/ cl[p].pc = "removing" /\ rm[p].pc \in {"info", "remove"} /\ q.name = rm[p].queue

\* The sweep will come to the port, or is at it.
SweepsTo(p, x) ==
  x \in cl[p].sweep \/ (cl[p].pc \in {"drop", "restart", "again"} /\ x = cl[p].port)

\* No removal has begun inside before the list is there; one that is looking its
\* queue up looks for a name.
Inside(p) ==
  /\ rm[p].pc = "idle" => rm[p].outcome = "none"
  /\ cl[p].pc = "list" => rm[p].pc = "idle"
  /\ cl[p].pc = "removing" => rm[p].pc # "idle"
  /\ cl[p].pc = "removing" /\ rm[p].pc = "resolve" /\ ~cl[p].astray => rm[p].target \notin Ip

\* What is left at the address at each stage; after the restart the spooler has
\* let go of the port, and takes no new hold of it.
Leaves(p) ==
  cl[p].pc # "idle" /\ Full(cl[p]) =>
    /\ cl[p].pc \in {"next", "removing"} => \A q \in QueuesThere(p) : ComesTo(p, q)
    /\ cl[p].pc \in {"listPorts", "count", "drop", "restart", "again"} => QueuesThere(p) = {}
    /\ cl[p].pc \in {"count", "drop", "restart", "again"} => \A x \in PortsThere(p) : SweepsTo(p, x)
    /\ cl[p].pc = "again" /\ StandsFor(cl[p].port, cl[p].call.ip) => held[cl[p].port] = 0
    /\ cl[p].pc = "done" /\ rm[p].pc # "idle" => QueuesThere(p) = {} /\ PortsThere(p) = {}

NothingIInv ==
  /\ CleanIInv
  /\ NamesUnique
  /\ \A p \in Proc : Inside(p) /\ Leaves(p)

\* Nobody adds a queue at an address that is being cleaned or has been.
NobodyMovesIn ==
  \A q \in queues' \ queues, p \in Proc :
    cl[p].pc # "idle" /\ SweepsPorts(cl[p].call) => ~StandsFor(q.port, cl[p].call.ip)

\* What a step looks like from an address nobody moves into: no port comes, and a
\* port nobody uses is not held again.
Around ==
  /\ NobodyMovesIn
  /\ ports' \subseteq ports
  /\ \A x \in Port : ~PortInUse(x) /\ held[x] = 0 => held'[x] = 0

\* Every step does.
LEMMA AroundNext ==
  ASSUME NothingIInv, CleanNext, NobodyMovesIn
  PROVE  Around
<1>1. /\ held \in [Driver \cup Port -> Nat] /\ \A q \in queues : q \in QueueRec
      /\ Driver \cap Port = {}
  BY PortAssumption DEF NothingIInv, CleanIInv, IInv, TypeOK, PrintTypeOK
<1>2. ASSUME NEW p \in Proc, RemoveStep(p) \/ Start(p) \/ Kill(p)
      PROVE  ports' \subseteq ports /\ \A x \in Port : ~PortInUse(x) /\ held[x] = 0 => held'[x] = 0
  <2>1. CASE RemovePrinter(p)
    <3>1. PICK q \in queues : RemoveQueue(q)
      BY <2>1 DEF RemovePrinter
    <3>2. PICK l, m \in Lag : held' = [held EXCEPT ![q.driver] = l, ![q.port] = m]
      BY <3>1 DEF RemoveQueue
    <3>3. q.driver \in Driver /\ q.port \in Port
      BY <1>1 DEF QueueRec
    <3>4. \A x \in Port : x # q.port => held'[x] = held[x]
      BY <1>1, <3>2, <3>3
    <3> QED BY <3>1, <3>4 DEF RemoveQueue, PortInUse
  <2>2. CASE DropDriver(p) \/ DropPort(p)
    BY <2>2 DEF DropDriver, DropPort, DeletePackage, UnregisterDriver, DeletePort
  <2>3. CASE UNCHANGED <<ports, held>>
    BY <2>3
  <2> QED BY <1>2, <2>1, <2>2, <2>3 DEF RemoveStep, Start, Kill, ResolveAbsent, ResolveFound,
       FetchInfo, FetchInfoFails, RemovePrinterFails, KeepDriver, DriverOrphaned,
       DropDriverFails, KeepPort, PortOrphaned, DropPortFails, Record, printVars
<1>3. ASSUME NEW p \in Proc, StartClean(p) \/ CleanStep(p) \/ KillClean(p)
      PROVE  ports' \subseteq ports /\ \A x \in Port : ~PortInUse(x) /\ held[x] = 0 => held'[x] = 0
  <2>1. CASE RestartSpooler(p)
    BY <2>1 DEF RestartSpooler
  <2>2. CASE SweepPort(p)
    BY <2>2 DEF SweepPort, DeletePort
  <2>3. CASE UNCHANGED <<ports, held>>
    BY <2>3
  <2> QED BY <1>3, <2>1, <2>2, <2>3 DEF StartClean, CleanStep, KillClean, ListQueues,
       NothingListed, NextQueue, QueueDone, ListPorts, CountPort, SweepDone, SweepFails,
       SweepFailsAgain, CleanQuietly, Finish, removeVars, printVars
<1>4. ASSUME CleanAround
      PROVE  ports' \subseteq ports /\ \A x \in Port : ~PortInUse(x) /\ held[x] = 0 => held'[x] = 0
  BY <1>1, <1>4 DEF CleanAround, AdminAdds, AddQueue, Tick, Down
<1> QED BY <1>2, <1>3, <1>4 DEF CleanNext, CleanRemoveSide, Around

\* What is at the address of a clean only becomes less.
LEMMA ThereShrinks ==
  ASSUME Around, NEW p \in Proc, cl[p].pc # "idle", SweepsPorts(cl[p].call),
         cl'[p].call = cl[p].call
  PROVE  QueuesThere(p)' \subseteq QueuesThere(p) /\ PortsThere(p)' \subseteq PortsThere(p)
<1>1. ASSUME NEW q \in QueuesThere(p)' PROVE q \in QueuesThere(p)
  <2>1. q \in queues' /\ StandsFor(q.port, cl[p].call.ip)
    BY DEF QueuesThere
  <2> QED BY <2>1 DEF Around, NobodyMovesIn, QueuesThere
<1> QED BY <1>1 DEF Around, PortsThere

\* A step that leaves the frame of the clean alone.
LEMMA LeavesOn ==
  ASSUME NothingIInv, Around, NEW p \in Proc, cl'[p] = cl[p],
         rm'[p].pc = "idle" <=> rm[p].pc = "idle",
         cl[p].pc \in {"next", "removing"} /\ Full(cl[p])
           => \A q \in QueuesThere(p)' : ComesTo(p, q)'
  PROVE  Leaves(p)'
<1> SUFFICES ASSUME cl[p].pc # "idle", Full(cl[p]) PROVE Leaves(p)'
  BY DEF Leaves, Full, SweepsPorts
<1>1. Leaves(p) /\ QueuesThere(p)' \subseteq QueuesThere(p) /\ PortsThere(p)' \subseteq PortsThere(p)
  BY ThereShrinks DEF NothingIInv, Full
<1>2. \A x : SweepsTo(p, x) => SweepsTo(p, x)'
  BY DEF SweepsTo
<1>3. ASSUME cl[p].pc = "again", StandsFor(cl[p].port, cl[p].call.ip) PROVE held'[cl[p].port] = 0
  <2>1. cl[p].port \in Port /\ held[cl[p].port] = 0 /\ QueuesThere(p) = {}
    BY <1>1, <1>3 DEF Leaves, NothingIInv, CleanIInv, Sweeping, Addressed
  <2>2. ~PortInUse(cl[p].port)
    BY <1>3, <2>1 DEF QueuesThere, PortInUse
  <2> QED BY <2>1, <2>2 DEF Around
<1> QED BY <1>1, <1>2, <1>3 DEF Leaves, Full, SweepsPorts

\* The other invocations.
LEMMA LeavesOthers ==
  ASSUME NothingIInv, Around, NEW p \in Proc, cl'[p] = cl[p], rm'[p] = rm[p]
  PROVE  Inside(p)' /\ Leaves(p)'
<1>1. Inside(p)'
  BY DEF NothingIInv, Inside
<1>2. ASSUME cl[p].pc \in {"next", "removing"}, Full(cl[p])
      PROVE  \A q \in QueuesThere(p)' : ComesTo(p, q)'
  <2>1. QueuesThere(p)' \subseteq QueuesThere(p)
    BY <1>2, ThereShrinks DEF Full
  <2> QED BY <1>2, <2>1 DEF NothingIInv, Leaves, ComesTo
<1> QED BY <1>1, <1>2, LeavesOn

\* The clean begins, or is refused because no filter was given.
LEMMA StartLeaves ==
  ASSUME NothingIInv, Around, NEW p \in Proc, StartClean(p)
  PROVE  Inside(p)' /\ Leaves(p)'
<1>1. PICK c \in CleanCalls :
        CleanQuietly(p, IF NoFilter(c)
                        THEN [IdleClean EXCEPT !.pc = "done", !.call = c, !.outcome = "error"]
                        ELSE [IdleClean EXCEPT !.pc = "list", !.call = c])
  BY DEF StartClean
<1>2. rm[p].pc = "idle" /\ rm'[p] = rm[p] /\ rm[p].outcome = "none"
  BY <1>1 DEF StartClean, CleanQuietly, removeVars, NothingIInv, Inside
<1>3. CASE NoFilter(c)
  <2>1. CleanGoto(p, [IdleClean EXCEPT !.pc = "done", !.call = c, !.outcome = "error"])
    BY <1>1, <1>3 DEF CleanQuietly
  <2>2. cl'[p].pc = "done" /\ cl'[p].call = c
    BY <2>1, CleanSets DEF IdleClean, NothingIInv
  <2> QED BY <1>2, <1>3, <2>2 DEF Inside, Leaves, Full, SweepsPorts, NoFilter
<1>4. CASE ~NoFilter(c)
  <2>1. CleanGoto(p, [IdleClean EXCEPT !.pc = "list", !.call = c])
    BY <1>1, <1>4 DEF CleanQuietly
  <2>2. cl'[p].pc = "list" /\ cl'[p].call = c
    BY <2>1, CleanSets DEF IdleClean, NothingIInv
  <2> QED BY <1>2, <2>2 DEF Inside, Leaves
<1> QED BY <1>3, <1>4

\* The stages of the queues.
LEMMA QueueStagesLeave ==
  ASSUME NothingIInv, Around, ~CanFail("query"), NEW p \in Proc,
         ListQueues(p) \/ NothingListed(p) \/ NextQueue(p) \/ QueueDone(p)
  PROVE  Inside(p)' /\ Leaves(p)'
<1> DEFINE f == cl[p]
           g == cl'[p]
<1>1. f \in CleanFrame /\ CleanIInv /\ Inside(p) /\ Leaves(p)
  BY DEF NothingIInv, CleanIInv
<1>2. ASSUME NEW upd, CleanQuietly(p, upd) PROVE g = upd /\ UNCHANGED <<queues, ports, held, rm>>
  BY <1>1, <1>2, CleanSets DEF CleanQuietly, removeVars
<1>3. CASE ListQueues(p)
  <2>1. g = [f EXCEPT !.pc = "next", !.todo = Found(f.call)] /\ UNCHANGED <<queues, ports, held, rm>>
    BY <1>2, <1>3 DEF ListQueues
  <2>2. g.pc = "next" /\ g.todo = Found(f.call) /\ g.call = f.call /\ g.astray = f.astray
    BY <1>1, <2>1 DEF CleanFrame
  <2>3. ASSUME Full(f), NEW q \in queues, StandsFor(q.port, f.call.ip) PROVE q.name \in g.todo
    <3>1. Selected(q, f.call)
      BY <2>3 DEF Full, SweepsPorts, Selected, PortTargetsIp, Passes
    <3> QED BY <2>2, <3>1 DEF Found
  <2>4. Inside(p)'
    BY <1>1, <2>1, <2>2 DEF Inside
  <2> QED BY <2>1, <2>2, <2>3, <2>4 DEF Leaves, QueuesThere, ComesTo, Full
<1>4. CASE NothingListed(p)
  <2>1. f.pc = "list" /\ UNCHANGED rm /\ g = [f EXCEPT !.pc = "done",
                                !.outcome = IF f.failed THEN "error" ELSE "ok"]
    BY <1>2, <1>4 DEF NothingListed, Finish, CleanAt
  <2>2. g.pc = "done"
    BY <1>1, <2>1 DEF CleanFrame
  <2>3. rm'[p].pc = "idle"
    BY <1>1, <2>1 DEF Inside
  <2> QED BY <1>1, <2>1, <2>2, <2>3 DEF Inside, Leaves
<1>5. CASE NextQueue(p)
  <2>1. PICK n \in f.todo :
          /\ BeginRemove(p, [target |-> n, keepDriver |-> f.call.keepDriver, keepPort |-> TRUE])
          /\ CleanGoto(p, [f EXCEPT !.pc = "removing", !.todo = f.todo \ {n},
                                  !.astray = f.astray \/ n \in Ip])
    BY <1>5 DEF NextQueue
  <2>2. rm'[p] = [IdleFrame EXCEPT !.pc = "resolve", !.target = n,
                                   !.keepDriver = f.call.keepDriver, !.keepPort = TRUE]
    BY <1>1, <2>1, StepSets DEF BeginRemove, Goto, CleanIInv
  <2>3. rm'[p].pc = "resolve" /\ rm'[p].target = n
    BY <2>2 DEF IdleFrame
  <2>4. g = [f EXCEPT !.pc = "removing", !.todo = f.todo \ {n},
                      !.astray = f.astray \/ n \in Ip]
    BY <1>1, <2>1, CleanSets
  <2>5. /\ g.pc = "removing" /\ g.todo = f.todo \ {n} /\ g.call = f.call
        /\ g.astray = (f.astray \/ n \in Ip)
    BY <1>1, <2>4 DEF CleanFrame
  <2>6. Full(g) => Full(f) /\ n \notin Ip
    BY <2>5 DEF Full
  <2>7. f.pc = "next" /\ UNCHANGED queues
    BY <1>5 DEF NextQueue, CleanAt, printVars
  <2>8. ASSUME Full(f), NEW q \in queues, StandsFor(q.port, f.call.ip) PROVE q.name \in f.todo
    BY <1>1, <2>7, <2>8 DEF Leaves, QueuesThere, ComesTo
  <2> QED BY <2>3, <2>5, <2>6, <2>7, <2>8 DEF Inside, Leaves, QueuesThere, ComesTo, Full
<1>6. CASE QueueDone(p)
  <2> DEFINE failed == f.failed \/ rm[p].outcome = "error"
  <2>1. /\ f.pc = "removing" /\ rm[p].pc = "done" /\ UNCHANGED <<queues, rm>>
        /\ \/ f.todo # {} /\ g = [f EXCEPT !.pc = "next", !.failed = failed]
           \/ f.todo = {} /\ g = [f EXCEPT !.pc = "listPorts", !.failed = failed]
           \/ /\ ~SweepsPorts(f.call)
              /\ g = [f EXCEPT !.pc = "done", !.failed = failed,
                               !.outcome = IF failed THEN "error" ELSE "ok"]
    BY <1>2, <1>6 DEF QueueDone, CleanAt
  <2> HIDE DEF failed
  <2>2. /\ g.call = f.call /\ g.astray = f.astray /\ g.todo = f.todo
        /\ g.pc = "next" \/ (g.pc = "listPorts" /\ f.todo = {}) \/ (g.pc = "done" /\ ~SweepsPorts(f.call))
    BY <1>1, <2>1 DEF CleanFrame
  <2>3. ASSUME Full(f), NEW q \in queues, StandsFor(q.port, f.call.ip) PROVE q.name \in f.todo
    BY <1>1, <2>1, <2>3 DEF Leaves, QueuesThere, ComesTo
  <2>4. Inside(p)'
    BY <2>1, <2>2 DEF Inside
  <2> QED BY <2>1, <2>2, <2>3, <2>4 DEF Leaves, QueuesThere, ComesTo, Full
<1> QED BY <1>3, <1>4, <1>5, <1>6

\* The stages of the ports: with no queue left at the address every port there is
\* tried, and once the spooler has restarted it goes.
LEMMA PortStagesLeave ==
  ASSUME NothingIInv, Around, ~CanFail("query"), ~CanFail("change"), NEW p \in Proc,
         \/ ListPorts(p) \/ CountPort(p) \/ SweepDone(p) \/ SweepPort(p) \/ SweepFails(p)
         \/ RestartSpooler(p) \/ SweepFailsAgain(p)
  PROVE  Inside(p)' /\ Leaves(p)'
<1> DEFINE f == cl[p]
           g == cl'[p]
           ip == f.call.ip
<1>1. f \in CleanFrame /\ CleanIInv /\ Inside(p) /\ Leaves(p) /\ Sweeping(f)
  BY DEF NothingIInv, CleanIInv
<1>2. f.pc \in {"listPorts", "count", "drop", "restart", "again"} /\ UNCHANGED <<rm, queues>>
      /\ ports' \subseteq ports
  BY DEF ListPorts, CountPort, SweepDone, SweepPort, SweepFails, RestartSpooler, SweepFailsAgain,
     CleanAt, CleanQuietly, Finish, DeletePort, removeVars
<1>3. Full(f) => \A q \in queues : ~StandsFor(q.port, ip)
  BY <1>1, <1>2 DEF Leaves, QueuesThere
<1>4. ASSUME NEW upd, CleanQuietly(p, upd) PROVE g = upd
  BY <1>1, <1>4, CleanSets DEF CleanQuietly
<1>5. ASSUME g.call = f.call, g.astray = f.astray, g.pc \in {"count", "drop", "restart", "again", "done"},
             g.pc = "again" /\ StandsFor(g.port, ip) => held'[g.port] = 0,
             Full(f) => \A x \in ports' : StandsFor(x, ip) => SweepsTo(p, x)',
             g.pc = "done" => g.sweep = {}
      PROVE  Inside(p)' /\ Leaves(p)'
  BY <1>1, <1>2, <1>3, <1>5 DEF Inside, Leaves, QueuesThere, PortsThere, SweepsTo, Full
<1>6. f.pc # "listPorts" /\ Full(f) => \A x \in ports : StandsFor(x, ip) => SweepsTo(p, x)
  BY <1>1, <1>2 DEF Leaves, PortsThere
<1>7. CASE ListPorts(p)
  <2>1. g = [f EXCEPT !.pc = "count", !.sweep = {x \in ports : Mentions(x, ip)}]
    BY <1>4, <1>7 DEF ListPorts
  <2>2. g.pc = "count" /\ g.call = f.call /\ g.astray = f.astray /\ g.sweep = {x \in ports : Mentions(x, ip)}
    BY <1>1, <2>1 DEF CleanFrame
  <2>3. \A x \in ports' : StandsFor(x, ip) => SweepsTo(p, x)'
    BY <1>2, <2>2 DEF SweepsTo, Mentions, StandsFor
  <2> QED BY <1>5, <2>2, <2>3
<1>8. CASE CountPort(p)
  <2>1. f.pc = "count"
    BY <1>8 DEF CountPort, CleanAt
  <2>2. PICK x \in f.sweep :
          \/ PortInUse(x) /\ CleanQuietly(p, [f EXCEPT !.sweep = f.sweep \ {x}])
          \/ CleanQuietly(p, [f EXCEPT !.sweep = f.sweep \ {x}, !.pc = "drop", !.port = x])
    BY <1>8 DEF CountPort
  <2>3. CASE PortInUse(x) /\ CleanQuietly(p, [f EXCEPT !.sweep = f.sweep \ {x}])
    <3>1. g = [f EXCEPT !.sweep = f.sweep \ {x}]
      BY <1>4, <2>3
    <3>2. g.pc = "count" /\ g.call = f.call /\ g.astray = f.astray /\ g.sweep = f.sweep \ {x}
      BY <1>1, <2>1, <3>1 DEF CleanFrame
    <3>3. Full(f) => ~StandsFor(x, ip)
      BY <1>3, <2>3 DEF PortInUse
    <3>4. Full(f) => \A y \in ports' : StandsFor(y, ip) => SweepsTo(p, y)'
      BY <1>2, <1>6, <2>1, <3>2, <3>3 DEF SweepsTo
    <3> QED BY <1>5, <3>2, <3>4
  <2>4. CASE CleanQuietly(p, [f EXCEPT !.sweep = f.sweep \ {x}, !.pc = "drop", !.port = x])
    <3>1. g = [f EXCEPT !.sweep = f.sweep \ {x}, !.pc = "drop", !.port = x]
      BY <1>4, <2>4
    <3>2. g.pc = "drop" /\ g.call = f.call /\ g.astray = f.astray /\ g.sweep = f.sweep \ {x} /\ g.port = x
      BY <1>1, <3>1 DEF CleanFrame
    <3>3. Full(f) => \A y \in ports' : StandsFor(y, ip) => SweepsTo(p, y)'
      BY <1>2, <1>6, <2>1, <3>2 DEF SweepsTo
    <3> QED BY <1>5, <3>2, <3>3
  <2> QED BY <2>2, <2>3, <2>4
<1>9. CASE SweepDone(p)
  <2>1. g = [f EXCEPT !.pc = "done", !.outcome = IF f.failed THEN "error" ELSE "ok"]
        /\ f.sweep = {} /\ f.pc = "count"
    BY <1>4, <1>9 DEF SweepDone, Finish, CleanAt
  <2>2. g.pc = "done" /\ g.call = f.call /\ g.astray = f.astray /\ g.sweep = {}
    BY <1>1, <2>1 DEF CleanFrame
  <2>3. Full(f) => \A x \in ports' : StandsFor(x, ip) => SweepsTo(p, x)'
    BY <1>2, <1>6, <2>1 DEF SweepsTo
  <2> QED BY <1>5, <2>2, <2>3
<1>10. CASE SweepPort(p) \/ SweepFailsAgain(p)
  <2>1. CleanGoto(p, [f EXCEPT !.pc = "count"]) /\ f.pc \in {"drop", "again"}
    BY <1>10 DEF SweepPort, SweepFailsAgain, CleanQuietly, CleanAt
  <2>2. g = [f EXCEPT !.pc = "count"]
    BY <1>1, <2>1, CleanSets
  <2>3. g.pc = "count" /\ g.call = f.call /\ g.astray = f.astray /\ g.sweep = f.sweep
    BY <1>1, <2>2 DEF CleanFrame
  <2>4. Full(f) /\ StandsFor(f.port, ip) => f.port \notin ports'
    <3>1. CASE SweepPort(p)
      BY <3>1 DEF SweepPort, DeletePort
    <3>2. CASE SweepFailsAgain(p)
      <4>1. f.pc = "again" /\ ~PortFree(f.port)
        BY <3>2 DEF SweepFailsAgain, CleanAt
      <4> QED BY <1>1, <1>2, <1>3, <4>1 DEF Leaves, PortFree, PortInUse
    <3> QED BY <1>10, <3>1, <3>2
  <2>5. Full(f) => \A x \in ports' : StandsFor(x, ip) => SweepsTo(p, x)'
    BY <1>2, <1>6, <2>1, <2>3, <2>4 DEF SweepsTo
  <2> QED BY <1>5, <2>3, <2>5
<1>11. CASE SweepFails(p)
  <2>1. g = [f EXCEPT !.pc = "restart"] /\ f.pc = "drop"
    BY <1>4, <1>11 DEF SweepFails, CleanAt
  <2>2. g.pc = "restart" /\ g.call = f.call /\ g.astray = f.astray /\ g.sweep = f.sweep /\ g.port = f.port
    BY <1>1, <2>1 DEF CleanFrame
  <2>3. Full(f) => \A x \in ports' : StandsFor(x, ip) => SweepsTo(p, x)'
    BY <1>2, <1>6, <2>1, <2>2 DEF SweepsTo
  <2> QED BY <1>5, <2>2, <2>3
<1>12. CASE RestartSpooler(p)
  <2>1. /\ f.pc = "restart" /\ held' = [x \in Driver \cup Port |-> 0]
        /\ CleanGoto(p, [f EXCEPT !.pc = "again"])
    BY <1>12 DEF RestartSpooler, CleanAt
  <2>2. g = [f EXCEPT !.pc = "again"]
    BY <1>1, <2>1, CleanSets
  <2>3. g.pc = "again" /\ g.call = f.call /\ g.astray = f.astray /\ g.sweep = f.sweep /\ g.port = f.port
    BY <1>1, <2>2 DEF CleanFrame
  <2>4. held'[g.port] = 0
    BY <1>1, <2>1, <2>3 DEF Sweeping, Addressed
  <2>5. Full(f) => \A x \in ports' : StandsFor(x, ip) => SweepsTo(p, x)'
    BY <1>2, <1>6, <2>1, <2>3 DEF SweepsTo
  <2> QED BY <1>5, <2>3, <2>4, <2>5
<1> QED BY <1>7, <1>8, <1>9, <1>10, <1>11, <1>12

\* The removal inside: it is through with its queue only when no queue has that
\* name any more.
LEMMA RemovalLeaves ==
  ASSUME NothingIInv, Around, ~CanFail("query"), ~CanFail("change"), NEW p \in Proc,
         CleanRemoveSide(p)
  PROVE  Inside(p)' /\ Leaves(p)'
<1> DEFINE f == cl[p]
           r == rm[p]
           s == rm'[p]
<1>1. r \in RemoveFrame /\ f \in CleanFrame /\ CleanIInv /\ IInv /\ Inside(p) /\ Leaves(p)
  BY FrameType DEF NothingIInv, CleanIInv, IInv
<1>2. cl'[p] = f
  BY DEF CleanRemoveSide
<1>3. ASSUME NEW upd, NEW d, Step(p, upd, d) PROVE s = upd
  BY <1>1, <1>3, StepSets
<1>4. CASE f.pc = "idle" /\ (Start(p) \/ Kill(p))
  <2>1. CASE Start(p)
    <3>1. PICK c \in Calls : BeginRemove(p, c)
      BY <2>1 DEF Start
    <3>2. s = [IdleFrame EXCEPT !.pc = "resolve", !.target = c.target,
                 !.keepDriver = c.keepDriver, !.keepPort = c.keepPort]
      BY <1>3, <3>1 DEF BeginRemove, Goto
    <3>3. s.pc = "resolve"
      BY <3>2 DEF IdleFrame
    <3> QED BY <1>2, <1>4, <3>3 DEF Inside, Leaves
  <2>2. CASE Kill(p)
    <3>1. s = [r EXCEPT !.pc = "killed"]
      BY <1>3, <2>2 DEF Kill, Goto
    <3>2. s.pc = "killed"
      BY <1>1, <3>1 DEF RemoveFrame
    <3> QED BY <1>2, <1>4, <3>2 DEF Inside, Leaves
  <2> QED BY <1>4, <2>1, <2>2
<1>5. CASE RemoveStep(p)
  <2>1. r.pc # "idle" /\ (f.pc = "removing" /\ r.pc = "resolve" /\ ~f.astray => r.target \notin Ip)
    BY <1>1, <1>5 DEF RemoveStep, ResolveAbsent, ResolveFound, FetchInfo, FetchInfoFails,
       RemovePrinter, RemovePrinterFails, KeepDriver, DriverOrphaned, DropDriver,
       DropDriverFails, KeepPort, PortOrphaned, DropPort, DropPortFails, Record, At, Inside
  <2> DEFINE Stays == /\ s.pc \notin {"idle", "resolve"}
                      /\ Full(f) /\ f.pc = "removing"
                           => \A q \in queues' : ComesTo(p, q) => ComesTo(p, q)'
  <2>2. ASSUME Stays PROVE Inside(p)' /\ Leaves(p)'
    <3>1. Inside(p)'
      BY <1>1, <1>2, <2>1, <2>2 DEF Inside
    <3>2. ASSUME f.pc \in {"next", "removing"}, Full(f)
          PROVE  \A q \in QueuesThere(p)' : ComesTo(p, q)'
      <4>1. \A q \in QueuesThere(p)' : q \in QueuesThere(p) /\ q \in queues'
        BY <1>2, <3>2, ThereShrinks DEF Full, QueuesThere
      <4>2. \A q \in QueuesThere(p)' : ComesTo(p, q) /\ q \in queues'
        BY <1>1, <3>2, <4>1 DEF Leaves
      <4> QED BY <1>2, <2>2, <3>2, <4>2 DEF ComesTo
    <3> QED BY <1>2, <2>1, <2>2, <3>1, <3>2, LeavesOn
  <2>3. CASE ResolveAbsent(p)
    <3>1. s = [r EXCEPT !.pc = "done", !.outcome = "absent"]
      BY <1>3, <2>3 DEF ResolveAbsent, Goto
    <3>2. s.pc = "done"
      BY <1>1, <3>1 DEF RemoveFrame
    <3>3. r.pc = "resolve" /\ UNCHANGED queues /\ \A q \in queues : ~Matches(q, r.target)
      BY <2>3 DEF ResolveAbsent, At, printVars
    <3>4. f.pc = "removing" /\ ~f.astray => \A q \in queues' : q.name # r.target
      BY <2>1, <3>3 DEF Matches
    <3>5. Stays
      BY <1>2, <3>2, <3>3, <3>4 DEF ComesTo, Full
    <3> QED BY <2>2, <3>5
  <2>4. CASE ResolveFound(p)
    <3>1. PICK q \in queues : /\ Matches(q, r.target)
                              /\ Goto(p, [r EXCEPT !.pc = "info", !.queue = q.name])
      BY <2>4 DEF ResolveFound
    <3>2. s = [r EXCEPT !.pc = "info", !.queue = q.name]
      BY <1>3, <3>1 DEF Goto
    <3>3. s.pc = "info" /\ s.queue = q.name
      BY <1>1, <3>2 DEF RemoveFrame
    <3>4. r.pc = "resolve" /\ (f.pc = "removing" /\ ~f.astray => q.name = r.target)
      BY <2>1, <2>4, <3>1 DEF ResolveFound, At, Matches
    <3>5. Stays
      BY <1>2, <3>3, <3>4 DEF ComesTo, Full
    <3> QED BY <2>2, <3>5
  <2>5. CASE FetchInfo(p)
    <3>1. PICK q \in queues : Goto(p, [r EXCEPT !.pc = "remove", !.driver = q.driver, !.port = q.port])
      BY <2>5 DEF FetchInfo
    <3>2. s = [r EXCEPT !.pc = "remove", !.driver = q.driver, !.port = q.port]
      BY <1>3, <3>1 DEF Goto
    <3>3. s.pc = "remove" /\ s.queue = r.queue /\ r.pc = "info"
      BY <1>1, <2>5, <3>2 DEF RemoveFrame, FetchInfo, At
    <3>4. Stays
      BY <1>2, <3>3 DEF ComesTo
    <3> QED BY <2>2, <3>4
  <2>6. CASE FetchInfoFails(p) \/ RemovePrinterFails(p)
    <3>1. s = [r EXCEPT !.pc = "done", !.outcome = "error"]
      BY <1>3, <2>6 DEF FetchInfoFails, RemovePrinterFails, Goto
    <3>2. s.pc = "done"
      BY <1>1, <3>1 DEF RemoveFrame
    <3>3. r.pc \in {"info", "remove"} /\ UNCHANGED queues /\ \A q \in queues : q.name # r.queue
      BY <2>6 DEF FetchInfoFails, RemovePrinterFails, At, printVars, Exists
    <3>4. Stays
      BY <1>2, <3>2, <3>3 DEF ComesTo
    <3> QED BY <2>2, <3>4
  <2>7. CASE RemovePrinter(p)
    <3>1. s = [r EXCEPT !.pc = AfterQueue(r), !.outcome = "removed"]
      BY <1>3, <2>7 DEF RemovePrinter
    <3>2. s.pc \in {"countDriver", "countPort"} /\ r.pc = "remove"
      BY <1>1, <2>7, <3>1 DEF RemoveFrame, AfterQueue, RemovePrinter, At
    <3>3. PICK q \in queues : q.name = r.queue /\ queues' = queues \ {q}
      BY <2>7 DEF RemovePrinter, RemoveQueue
    <3>4. \A t \in queues' : t.name # r.queue
      BY <3>3 DEF NothingIInv, NamesUnique
    <3>5. Stays
      BY <1>2, <3>2, <3>4 DEF ComesTo
    <3> QED BY <2>2, <3>5
  <2>8. CASE Cleanup(p)
    <3>1. Cleans(r, s) /\ r.pc \notin {"idle", "resolve", "info", "remove", "done", "killed"}
      BY <1>1, <2>8, CleanupCleans
    <3>2. Stays
      BY <1>2, <3>1 DEF ComesTo, Cleans
    <3> QED BY <2>2, <3>2
  <2> QED BY <1>5, <2>3, <2>4, <2>5, <2>6, <2>7, <2>8 DEF RemoveStep, Cleanup
<1> QED BY <1>4, <1>5 DEF CleanRemoveSide

\* A kill.
LEMMA KillLeaves ==
  ASSUME NothingIInv, NEW p \in Proc, KillClean(p)
  PROVE  Inside(p)' /\ Leaves(p)'
<1> DEFINE f == cl[p]
           r == rm[p]
<1>1. r \in RemoveFrame /\ f \in CleanFrame /\ CleanIInv /\ IInv /\ Inside(p)
  BY FrameType DEF NothingIInv, CleanIInv, IInv
<1>2. cl'[p] = [f EXCEPT !.pc = "killed"]
  BY <1>1, CleanSets DEF KillClean
<1>3. cl'[p].pc = "killed"
  BY <1>1, <1>2 DEF CleanFrame
<1>4. rm'[p] = IF r.pc \in {"idle", "done"} THEN r ELSE [r EXCEPT !.pc = "killed"]
  BY <1>1, StepSets DEF KillClean, Goto
<1>5. rm'[p] = r \/ rm'[p].pc = "killed"
  BY <1>1, <1>4 DEF RemoveFrame
<1> QED BY <1>1, <1>3, <1>5 DEF Inside, Leaves

\* A step of one invocation leaves the frames of the others alone, and takes queues
\* at most.
LEMMA OthersStay ==
  ASSUME CleanIInv, NEW p \in Proc,
         StartClean(p) \/ CleanStep(p) \/ KillClean(p) \/ CleanRemoveSide(p)
  PROVE  /\ queues' \subseteq queues
         /\ \A r \in Proc \ {p} : cl'[r] = cl[r] /\ rm'[r] = rm[r]
<1>1. UNCHANGED rm \/ (\E upd, d : Step(p, upd, d))
  BY DEF StartClean, CleanStep, ListQueues, NothingListed, NextQueue, QueueDone, ListPorts,
     CountPort, SweepDone, SweepPort, SweepFails, RestartSpooler, SweepFailsAgain, Finish,
     CleanQuietly, removeVars, KillClean, CleanRemoveSide, RemoveStep, Start, Kill, Goto,
     BeginRemove, ResolveAbsent, ResolveFound, FetchInfo, FetchInfoFails, RemovePrinter,
     RemovePrinterFails, KeepDriver, DriverOrphaned, DropDriver, DropDriverFails, KeepPort,
     PortOrphaned, DropPort, DropPortFails, Record
<1>2. UNCHANGED cl \/ (\E upd : CleanGoto(p, upd))
  BY DEF StartClean, CleanStep, ListQueues, NothingListed, NextQueue, QueueDone, ListPorts,
     CountPort, SweepDone, SweepPort, SweepFails, RestartSpooler, SweepFailsAgain, Finish,
     CleanQuietly, KillClean, CleanRemoveSide
<1>3. queues' \subseteq queues
  <2>1. CASE RemovePrinter(p) \/ Cleanup(p)
    BY <2>1, CleanupCleans DEF RemovePrinter, RemoveQueue, CleanIInv
  <2>2. CASE UNCHANGED queues
    BY <2>2
  <2> QED BY <2>1, <2>2 DEF StartClean, CleanStep, ListQueues, NothingListed, NextQueue, QueueDone,
       ListPorts, CountPort, SweepDone, SweepPort, SweepFails, RestartSpooler, SweepFailsAgain,
       Finish, CleanQuietly, removeVars, printVars, DeletePort, KillClean, CleanRemoveSide,
       RemoveStep, Cleanup, Start, Kill, ResolveAbsent, ResolveFound, FetchInfo, FetchInfoFails,
       RemovePrinterFails
<1> QED BY <1>1, <1>2, <1>3 DEF Step, CleanGoto, CleanIInv, IInv, TypeOK

\* Every step that lets nobody move in.
LEMMA NothingNextInv ==
  ASSUME ~CanFail("query"), ~CanFail("change")
  PROVE  NothingIInv /\ [CleanNext /\ NobodyMovesIn]_cleanVars => NothingIInv'
<1> SUFFICES ASSUME NothingIInv, [CleanNext /\ NobodyMovesIn]_cleanVars PROVE NothingIInv'
  OBVIOUS
<1>1. CleanIInv'
  BY CleanNextInv DEF NothingIInv
<1>2. CASE UNCHANGED cleanVars
  BY <1>1, <1>2 DEF cleanVars, removeVars, NothingIInv, NamesUnique, Inside, Leaves, QueuesThere,
     PortsThere, ComesTo, SweepsTo
<1>3. CASE CleanNext /\ NobodyMovesIn
  <2>1. Around
    BY <1>3, AroundNext
  <2>2. CASE CleanAround
    <3>1. UNCHANGED <<cl, rm>> /\ NamesUnique'
      BY <2>2 DEF CleanAround, AdminAdds, AddQueue, Exists, Tick, NothingIInv, NamesUnique
    <3>2. \A p \in Proc : Inside(p)' /\ Leaves(p)'
      BY <2>1, <3>1, LeavesOthers
    <3> QED BY <1>1, <3>1, <3>2 DEF NothingIInv
  <2>3. ASSUME NEW p \in Proc,
               StartClean(p) \/ CleanStep(p) \/ KillClean(p) \/ CleanRemoveSide(p)
        PROVE  NothingIInv'
    <3>1. queues' \subseteq queues /\ \A r \in Proc \ {p} : cl'[r] = cl[r] /\ rm'[r] = rm[r]
      BY <2>3, OthersStay DEF NothingIInv
    <3>2. NamesUnique'
      BY <3>1 DEF NothingIInv, NamesUnique
    <3>3. \A r \in Proc \ {p} : Inside(r)' /\ Leaves(r)'
      BY <2>1, <3>1, LeavesOthers
    <3>4. Inside(p)' /\ Leaves(p)'
      BY <2>1, <2>3, StartLeaves, QueueStagesLeave, PortStagesLeave, KillLeaves, RemovalLeaves
         DEF CleanStep
    <3> QED BY <1>1, <3>2, <3>3, <3>4 DEF NothingIInv
  <2> QED BY <1>3, <2>2, <2>3 DEF CleanNext
<1> QED BY <1>2, <1>3

\* NothingLeft, with no need to wait until the others are at rest.
NothingThere == \A p \in Proc : FullClean(p) => QueuesThere(p) = {} /\ PortsThere(p) = {}

\* A clean of an address leaves no queue and no port there: any number of cleans and
\* removals at once, whether they are through or killed, and any lag of the spooler.
\* The assumptions are its limits: a command that fails for reasons of its own leaves
\* what it was about to take, and a queue may come after the clean has looked.
THEOREM CleanLeavesNothing ==
  ASSUME ~CanFail("query"), ~CanFail("change")
  PROVE  CleanInit /\ [][CleanNext /\ NobodyMovesIn]_cleanVars => [](NothingThere /\ NothingLeft)
<1>1. CleanInit => NothingIInv
  <2> SUFFICES ASSUME CleanInit PROVE NothingIInv
    OBVIOUS
  <2>1. CleanIInv /\ NamesUnique
    BY CleanInitInv DEF CleanInit, Init, PrintInit, NamesUnique
  <2> QED BY <2>1 DEF NothingIInv, CleanInit, Init, IdleFrame, IdleClean, Inside, Leaves
<1>2. NothingIInv => NothingThere
  <2> SUFFICES ASSUME NothingIInv, NEW p \in Proc, FullClean(p)
               PROVE  QueuesThere(p) = {} /\ PortsThere(p) = {}
    BY DEF NothingThere
  <2>1. Inside(p) /\ Leaves(p) /\ Full(cl[p]) /\ cl[p].pc = "done" /\ rm[p].outcome # "none"
    BY DEF NothingIInv, FullClean, Full
  <2> QED BY <2>1 DEF Inside, Leaves
<1>3. NothingThere => NothingLeft
  <2> SUFFICES ASSUME NothingThere, NEW p \in Proc, FullClean(p)
               PROVE  /\ \A q \in queues : ~StandsFor(q.port, cl[p].call.ip)
                      /\ \A x \in ports : ~StandsFor(x, cl[p].call.ip)
    BY DEF NothingLeft
  <2>1. QueuesThere(p) = {} /\ PortsThere(p) = {}
    BY DEF NothingThere
  <2> QED BY <2>1 DEF QueuesThere, PortsThere
<1> QED BY <1>1, <1>2, <1>3, NothingNextInv, PTL

=============================================================================
