-------------------------- MODULE AddSerial_proofs --------------------------
(***************************************************************************)
(* Theorems about commands that run one after the other: adds, forced adds *)
(* and removals, any number of them, each killed wherever it may be.  The  *)
(* next command finds what the one before has left behind.                 *)
(***************************************************************************)
EXTENDS Add_proofs

-----------------------------------------------------------------------------
(* How a step of an add changes its frame.                                 *)

\* A frame a step of an add may set: the command line stays, only --force begins a
\* removal, the last tier's port and queue come only after their checks, and only
\* the last tier ends an add that has identified the printer in an error.
Follows(p, g) ==
  LET f == ad[p] IN
  /\ g.call = f.call
  /\ g.pc = "forcing" => EarlyForce(p)
  /\ g.pc = "ippPort" => IppNotThere(p)
  /\ g.pc = "ippQueue" => IppPort(p)
  /\ g.pc = "done" /\ g.outcome = "error" /\ g.hint # None
       => (IppUnreachable(p) \/ IppFails(p)) /\ g.ippOk = f.ippOk

\* A frame that is neither at a removal, nor at the port or the queue of the last
\* tier, nor through.
LEMMA GoesOn ==
  ASSUME NEW p \in Proc, NEW g, g.call = ad[p].call,
         g.pc \notin {"forcing", "ippPort", "ippQueue", "done"}
  PROVE  Follows(p, g)
  BY DEF Follows

\* Before the cascade.
LEMMA EarlyFollows ==
  ASSUME AddIInv, NEW p \in Proc,
         \/ EarlyFree(p) \/ EarlyTaken(p) \/ Forced(p) \/ ForceFailed(p)
         \/ Discover(p) \/ Unidentified(p) \/ Resolve(p) \/ Unresolved(p)
  PROVE  \E g : Quietly(p, g) /\ Follows(p, g)
<1> DEFINE f == ad[p]
<1>1. f \in AddFrame /\ Has(f) /\ f.pc \in EarlyPc
  BY AddGood DEF EarlyFree, EarlyTaken, Forced, ForceFailed, Discover, Unidentified, Resolve,
     Unresolved, AddAt, EarlyPc
<1>2. f.hint = None
  BY <1>1 DEF Has, EarlyPc
<1>3. ASSUME Fail(p) PROVE \E g : Quietly(p, g) /\ Follows(p, g)
  <2> DEFINE g == [f EXCEPT !.pc = "done", !.outcome = "error"]
  <2>1. g.pc = "done" /\ g.call = f.call /\ g.hint = None
    BY <1>1, <1>2 DEF AddFrame
  <2>2. Quietly(p, g)
    BY <1>3 DEF Fail
  <2> HIDE DEF g
  <2> QED BY <2>1, <2>2 DEF Follows
<1>4. ASSUME NEW g, Quietly(p, g), g.call = f.call, g.pc \in {"discover", "resolve", "port", "bundle"}
      PROVE  \E h : Quietly(p, h) /\ Follows(p, h)
  BY <1>4, GoesOn
<1>5. CASE EarlyFree(p) \/ Forced(p)
  <2> DEFINE g == [f EXCEPT !.pc = "discover"]
  <2>1. Quietly(p, g)
    BY <1>5 DEF EarlyFree, Forced
  <2>2. g.pc = "discover" /\ g.call = f.call
    BY <1>1 DEF AddFrame
  <2> HIDE DEF g
  <2> QED BY <1>4, <2>1, <2>2
<1>6. CASE EarlyTaken(p) \/ ForceFailed(p) \/ Unidentified(p) \/ Unresolved(p)
  BY <1>3, <1>6 DEF EarlyTaken, ForceFailed, Unidentified, Unresolved
<1>7. CASE Discover(p)
  <2> DEFINE g(b, c) == [f EXCEPT !.pc = "resolve", !.deviceId = b, !.ippOk = c]
  <2>1. Fail(p) \/ \E b, c : Quietly(p, g(b, c))
    BY <1>7 DEF Discover
  <2>2. \A b, c : g(b, c).pc = "resolve" /\ g(b, c).call = f.call
    BY <1>1 DEF AddFrame
  <2> HIDE DEF g
  <2> QED BY <1>3, <1>4, <2>1, <2>2
<1>8. CASE Resolve(p)
  <2> DEFINE g(d) == [f EXCEPT !.pc = "port", !.hint = d, !.tier = "local", !.driver = d,
                               !.mark = "Matched"]
             h(d) == [f EXCEPT !.pc = "bundle", !.hint = d]
  <2>1. PICK d \in Hint : Quietly(p, g(d)) \/ Quietly(p, h(d))
    BY <1>8 DEF Resolve
  <2>2. g(d).pc = "port" /\ g(d).call = f.call /\ h(d).pc = "bundle" /\ h(d).call = f.call
    BY <1>1 DEF AddFrame
  <2> HIDE DEF g, h
  <2> QED BY <1>4, <2>1, <2>2
<1> QED BY <1>5, <1>6, <1>7, <1>8

\* The tiers, the gate and a pack that could not be staged.
LEMMA TierFollows ==
  ASSUME AddIInv, NEW p \in Proc,
         \/ BundleEmpty(p) \/ BundleMatch(p) \/ MfrNothing(p) \/ MfrDownload(p)
         \/ CatalogPasses(p) \/ CatalogMatch(p)
         \/ SdiDisabled(p) \/ SdiSkipped(p) \/ SdiNothing(p) \/ SdiMatch(p)
         \/ GateSkipped(p) \/ GateAbsent(p) \/ GatePasses(p) \/ GateNoCatalogs(p) \/ GateRejects(p)
         \/ StageFails(p)
  PROVE  \E g : Quietly(p, g) /\ Follows(p, g)
<1> DEFINE f == ad[p]
           proposed(t, d, k, dir) ==
             [f EXCEPT !.pc = "gate", !.tier = t, !.driver = d, !.pack = k, !.dir = dir]
           hinted == [f EXCEPT !.pc = "port", !.tier = "mfr", !.driver = f.hint, !.mark = "Matched"]
           left(t, s) == [f EXCEPT !.pc = NextTier(t, f.call.lean), !.report[t] = s]
           passed(m) == [f EXCEPT !.pc = "stage", !.mark = m]
           emptied == [f EXCEPT !.pc = "mfr"]
<1>1. f \in AddFrame /\ Has(f) /\ f.pc \in TierPc \cup {"gate", "stage"}
  BY AddGood DEF BundleEmpty, BundleMatch, MfrNothing, MfrDownload, CatalogPasses, CatalogMatch,
     SdiDisabled, SdiSkipped, SdiNothing, SdiMatch, GateSkipped, GateAbsent, Gated, GatePasses,
     GateNoCatalogs, GateRejects, StageFails, AddAt, TierPc
<1>2. /\ \A t, d, k, dir : /\ proposed(t, d, k, dir).pc = "gate"
                           /\ proposed(t, d, k, dir).call = f.call
      /\ hinted.pc = "port" /\ hinted.call = f.call
      /\ \A m : passed(m).pc = "stage" /\ passed(m).call = f.call
      /\ emptied.pc = "mfr" /\ emptied.call = f.call
  BY <1>1 DEF AddFrame
<1>3. \A t, s : left(t, s).pc = NextTier(t, f.call.lean) /\ left(t, s).call = f.call
  BY <1>1 DEF AddFrame
<1>4. \A t \in TierPc : \A lean : NextTier(t, lean) \in {"mfr", "catalog", "sdi", "ipp"}
  BY DEF NextTier, TierPc
<1> HIDE DEF proposed, hinted, left, passed, emptied
<1>5. ASSUME NEW g, Quietly(p, g), g.call = f.call,
             g.pc \in {"gate", "port", "stage", "mfr", "catalog", "sdi", "ipp"}
      PROVE  \E h : Quietly(p, h) /\ Follows(p, h)
  BY <1>5, GoesOn
<1>6. ASSUME NEW t, NEW d, NEW k, Propose(p, t, d, k) PROVE \E g : Quietly(p, g) /\ Follows(p, g)
  <2>1. PICK dir : Quietly(p, proposed(t, d, k, dir))
    BY <1>6 DEF Propose, proposed
  <2> QED BY <1>2, <1>5, <2>1
<1>7. ASSUME InstallHint(p) PROVE \E g : Quietly(p, g) /\ Follows(p, g)
  BY <1>2, <1>5, <1>7 DEF InstallHint, hinted
<1>8. ASSUME NEW t \in TierPc, NEW s, Leave(p, t, s) PROVE \E g : Quietly(p, g) /\ Follows(p, g)
  <2>1. Quietly(p, left(t, s))
    BY <1>8 DEF Leave, left
  <2>2. left(t, s).pc \in {"mfr", "catalog", "sdi", "ipp"} /\ left(t, s).call = f.call
    BY <1>3, <1>4
  <2> QED BY <1>5, <2>1, <2>2
<1>9. ASSUME NEW m, ToStage(p, m) PROVE \E g : Quietly(p, g) /\ Follows(p, g)
  BY <1>2, <1>5, <1>9 DEF ToStage, passed
<1>10. CASE BundleEmpty(p)
  BY <1>2, <1>5, <1>10 DEF BundleEmpty, emptied
<1>11. CASE BundleMatch(p) \/ MfrDownload(p) \/ CatalogMatch(p) \/ SdiMatch(p)
  BY <1>6, <1>11 DEF BundleMatch, MfrDownload, CatalogMatch, SdiMatch
<1>12. CASE MfrNothing(p)
  BY <1>7, <1>12 DEF MfrNothing
<1>13. CASE CatalogPasses(p) \/ SdiDisabled(p) \/ SdiSkipped(p) \/ SdiNothing(p)
  <2>1. \E s : Leave(p, "catalog", s) \/ Leave(p, "sdi", s)
    BY <1>13 DEF CatalogPasses, SdiDisabled, SdiSkipped, SdiNothing
  <2> QED BY <1>8, <2>1 DEF TierPc
<1>14. CASE GateSkipped(p) \/ GateAbsent(p) \/ GatePasses(p) \/ GateNoCatalogs(p)
  <2>1. \E m : ToStage(p, m)
    BY <1>14 DEF GateSkipped, GateAbsent, GatePasses, GateNoCatalogs
  <2> QED BY <1>9, <2>1
<1>15. CASE GateRejects(p) \/ StageFails(p)
  <2>1. f.tier \in TierPc
    BY <1>1, <1>15 DEF Has, GateRejects, Gated, StageFails, AddAt
  <2>2. Leave(p, f.tier, "Failed") \/ InstallHint(p)
    BY <1>15 DEF GateRejects, StageFails
  <2> QED BY <1>7, <1>8, <2>1, <2>2
<1> QED BY <1>10, <1>11, <1>12, <1>13, <1>14, <1>15

\* The installation and the last tier.
LEMMA InstallFollows ==
  ASSUME AddIInv, NEW p \in Proc,
         \/ Stage(p) \/ CheckPort(p) \/ AddPort(p) \/ CheckDriver(p) \/ AddDriver(p)
         \/ CheckQueue(p) \/ AddPrinter(p) \/ InstallFails(p) \/ RecordInstall(p)
         \/ IppUnreachable(p) \/ IppThere(p) \/ IppNotThere(p) \/ IppPort(p)
         \/ IppAdd(p) \/ IppFails(p) \/ IppRecord(p)
  PROVE  \E g : AddGoto(p, g) /\ Follows(p, g)
<1> DEFINE f == ad[p]
           to(pc) == [f EXCEPT !.pc = pc]
           staged(d) == [f EXCEPT !.pc = "port", !.driver = d]
           left == [f EXCEPT !.pc = NextTier(f.tier, f.call.lean), !.report[f.tier] = "Failed"]
           ended(t, m) == [f EXCEPT !.pc = "done", !.outcome = "ok", !.report[t] = m]
           failed == [f EXCEPT !.pc = "done", !.outcome = "error", !.report["ipp"] = "Failed"]
<1>1. f \in AddFrame /\ Has(f)
  BY AddGood
<1>2. /\ \A pc : to(pc).pc = pc /\ to(pc).call = f.call
      /\ \A d : staged(d).pc = "port" /\ staged(d).call = f.call
      /\ \A t, m : /\ ended(t, m).pc = "done" /\ ended(t, m).outcome = "ok"
                   /\ ended(t, m).call = f.call
      /\ failed.pc = "done" /\ failed.call = f.call /\ failed.ippOk = f.ippOk
  BY <1>1 DEF AddFrame
<1>3. left.pc = NextTier(f.tier, f.call.lean) /\ left.call = f.call
  BY <1>1 DEF AddFrame
<1>4. f.tier \in TierPc \cup {"local"} => NextTier(f.tier, f.call.lean) \in {"mfr", "catalog", "sdi", "ipp"}
  BY DEF NextTier, TierPc
<1> HIDE DEF to, staged, left, ended, failed
<1>5. CASE Stage(p)
  <2>1. PICK d : AddGoto(p, staged(d))
    BY <1>5 DEF Stage, staged
  <2> QED BY <1>2, <2>1, GoesOn
<1>6. CASE \/ CheckPort(p) \/ AddPort(p) \/ CheckDriver(p) \/ AddDriver(p) \/ CheckQueue(p)
           \/ AddPrinter(p) \/ IppAdd(p)
  <2>1. \E pc \in InstallPc \cup {"ippRecord"} : AddGoto(p, to(pc))
    BY <1>6 DEF CheckPort, AddPort, CheckDriver, AddDriver, CheckQueue, AddPrinter, IppAdd, To,
       Quietly, to, InstallPc
  <2> QED BY <1>2, <2>1, GoesOn DEF InstallPc
<1>7. CASE IppNotThere(p) \/ IppPort(p)
  <2>1. \/ IppNotThere(p) /\ AddGoto(p, to("ippPort"))
        \/ IppPort(p) /\ AddGoto(p, to("ippQueue"))
    BY <1>7 DEF IppNotThere, IppPort, To, Quietly, to
  <2> QED BY <1>2, <2>1 DEF Follows
<1>8. CASE InstallFails(p)
  <2>1. AddGoto(p, left)
    BY <1>8 DEF InstallFails, Leave, Quietly, left
  <2>2. f.tier \in TierPc \cup {"local"}
    BY <1>1, <1>8 DEF InstallFails, AddAt, Has, InstallPc
  <2>3. Follows(p, left)
    BY <1>3, <1>4, <2>2, GoesOn
  <2> QED BY <2>1, <2>3
<1>9. CASE RecordInstall(p) \/ IppThere(p) \/ IppRecord(p)
  <2>1. PICK t, m : AddGoto(p, ended(t, m))
    BY <1>9 DEF RecordInstall, IppThere, IppRecord, Quietly, ended
  <2>2. Follows(p, ended(t, m))
    BY <1>2 DEF Follows
  <2> QED BY <2>1, <2>2
<1>10. CASE IppUnreachable(p) \/ IppFails(p)
  <2>1. AddGoto(p, failed)
    BY <1>10 DEF IppUnreachable, IppFails, FailIpp, Quietly, failed
  <2>2. Follows(p, failed)
    BY <1>2, <1>10 DEF Follows
  <2> QED BY <2>1, <2>2
<1> QED BY <1>5, <1>6, <1>7, <1>8, <1>9, <1>10

\* All of them; --force begins a removal as well.
LEMMA StepFollows ==
  ASSUME AddIInv, NEW p \in Proc, AddStep(p)
  PROVE  /\ Follows(p, ad'[p])
         /\ \A r \in Proc \ {p} : ad'[r] = ad[r] /\ rm'[r] = rm[r]
         /\ ~EarlyForce(p) => UNCHANGED rm
<1>1. ASSUME NEW g, AddGoto(p, g), Follows(p, g)
      PROVE  /\ Follows(p, ad'[p]) /\ UNCHANGED rm
             /\ \A r \in Proc \ {p} : ad'[r] = ad[r]
  BY <1>1 DEF AddGoto, AddIInv
<1>2. CASE EarlyForce(p)
  <2>1. ad' = [ad EXCEPT ![p].pc = "forcing"]
    BY <1>2 DEF EarlyForce
  <2>2. ad'[p].pc = "forcing" /\ ad'[p].call = ad[p].call /\ \A r \in Proc \ {p} : ad'[r] = ad[r]
    BY <2>1, AddGood DEF AddIInv, AddFrame
  <2>3. PICK c, d : Step(p, c, d)
    BY <1>2 DEF EarlyForce, BeginRemove, Goto
  <2>4. \A r \in Proc \ {p} : rm'[r] = rm[r]
    BY <2>3 DEF Step, AddIInv, IInv, TypeOK
  <2>5. Follows(p, ad'[p])
    BY <1>2, <2>2 DEF Follows
  <2> QED BY <1>2, <2>2, <2>4, <2>5
<1>3. CASE ~EarlyForce(p)
  <2>1. \E g : AddGoto(p, g) /\ Follows(p, g)
    BY <1>3, EarlyFollows, TierFollows, InstallFollows DEF AddStep, Quietly
  <2> QED BY <1>1, <1>3, <2>1
<1> QED BY <1>2, <1>3

-----------------------------------------------------------------------------
(* The invariant: at most one command runs, and while an add is past its   *)
(* check no queue prints to its address.                                   *)

Free(p) == \A q \in queues : ~OnTarget(p, q)

\* Where an add has not looked at its address yet, or is through with it.
ShutPc == {"idle", "early", "forcing", "record", "ippRecord", "done", "killed"}

\* The address is free from the check to the new queue.  The removal inside an
\* add --force is after the only queue there, and has left none when it is
\* through without an error.
Clear(p) ==
  LET f == rm[p] IN
  /\ ad[p].pc \notin ShutPc => Free(p)
  /\ ad[p].pc = "forcing" /\ f.pc = "resolve" =>
       f.target \notin Ip /\ \A q \in queues : OnTarget(p, q) => q.name = f.target
  /\ ad[p].pc = "forcing" /\ f.pc \in {"info", "remove"} =>
       \A q \in queues : OnTarget(p, q) => q.name = f.queue
  /\ ad[p].pc = "forcing" /\ f.pc \notin {"resolve", "info", "remove"} =>
       f.pc # "idle" /\ (f.outcome # "error" => Free(p))

\* A removal runs on its own or inside an add --force.
Apart(p) == ad[p].pc \notin {"idle", "forcing"} => rm[p].pc \in {"idle", "done", "killed"}

Alone == \A p, r \in Proc : p = r \/ Rest(p) \/ Rest(r)

SerialIInv ==
  /\ AddIInv
  /\ NamesUnique
  /\ OneQueuePerAddress
  /\ Alone
  /\ \A p \in Proc : Clear(p) /\ Apart(p)

\* The last tier's queue is not there, its port is, and an add that found the
\* printer on port 631 has not ended in an error.
Rescued(p) ==
  /\ ad[p].pc \in {"ippPort", "ippQueue"} => ~Exists(IppQueue(p))
  /\ ad[p].pc = "ippQueue" => TargetPort(p) \in ports
  /\ Finished(p) /\ ad[p].outcome = "error" => ~ad[p].ippOk

RescueIInv == SerialIInv /\ SystemDriver \subseteq registered /\ \A p \in Proc : Rescued(p)

-----------------------------------------------------------------------------
(* Who moves.                                                              *)

\* What invocation p does on its own account.
Moves(p) ==
  \/ StartAdd(p) \/ AddStep(p) \/ KillAdd(p)
  \/ ad[p].pc = "idle" /\ (Start(p) \/ Kill(p)) /\ UNCHANGED ad
  \/ RemoveStep(p) /\ UNCHANGED ad

\* The steps of commands in a row are steps of commands.
LEMMA SerialIsNext ==
  /\ SerialNext => (\E p \in Proc : Moves(p)) \/ (Tick /\ UNCHANGED ad)
  /\ SerialNext => AddNext
  BY DEF SerialNext, Moves, AddNext, RemoveSide, Around

\* Where an add has not looked at its address, or is through with it, it takes
\* one of these steps.
LEMMA ShutSteps ==
  ASSUME NEW p \in Proc, AddStep(p), ad[p].pc \in ShutPc
  PROVE  \/ EarlyFree(p) \/ EarlyTaken(p) \/ EarlyForce(p) \/ Forced(p) \/ ForceFailed(p)
         \/ RecordInstall(p) \/ IppRecord(p)
<1>1. ~(Discover(p) \/ Unidentified(p) \/ Resolve(p) \/ Unresolved(p))
  BY DEF Discover, Unidentified, Resolve, Unresolved, AddAt, ShutPc
<1>2. ~(\/ BundleEmpty(p) \/ BundleMatch(p) \/ MfrNothing(p) \/ MfrDownload(p)
        \/ CatalogPasses(p) \/ CatalogMatch(p)
        \/ SdiDisabled(p) \/ SdiSkipped(p) \/ SdiNothing(p) \/ SdiMatch(p))
  BY DEF BundleEmpty, BundleMatch, MfrNothing, MfrDownload, CatalogPasses, CatalogMatch,
     SdiDisabled, SdiSkipped, SdiNothing, SdiMatch, AddAt, ShutPc
<1>3. ~(\/ GateSkipped(p) \/ GateAbsent(p) \/ GatePasses(p) \/ GateNoCatalogs(p)
        \/ GateRejects(p) \/ Stage(p) \/ StageFails(p))
  BY DEF GateSkipped, GateAbsent, Gated, GatePasses, GateNoCatalogs, GateRejects, Stage, StageFails,
     AddAt, ShutPc
<1>4. ~(\/ CheckPort(p) \/ AddPort(p) \/ CheckDriver(p) \/ AddDriver(p)
        \/ CheckQueue(p) \/ AddPrinter(p) \/ InstallFails(p))
  BY DEF CheckPort, AddPort, CheckDriver, AddDriver, CheckQueue, AddPrinter, InstallFails, AddAt,
     ShutPc
<1>5. ~(\/ IppUnreachable(p) \/ IppThere(p) \/ IppNotThere(p) \/ IppPort(p) \/ IppAdd(p) \/ IppFails(p))
  BY DEF IppUnreachable, IppThere, IppNotThere, IppPort, IppAdd, IppFails, AddAt, ShutPc
<1> QED BY <1>1, <1>2, <1>3, <1>4, <1>5 DEF AddStep

\* An invocation that is at rest takes no step but its first.
LEMMA AtRestStays ==
  ASSUME NEW p \in Proc, Rest(p)
  PROVE  ~AddStep(p) /\ ~KillAdd(p) /\ ~RemoveStep(p) /\ ~Kill(p)
<1>1. ~AddStep(p)
  BY ShutSteps DEF EarlyFree, EarlyTaken, EarlyForce, Forced, ForceFailed, RecordInstall, IppRecord,
     AddAt, ShutPc, Rest
<1>2. ~RemoveStep(p)
  BY DEF RemoveStep, ResolveAbsent, ResolveFound, FetchInfo, FetchInfoFails, RemovePrinter,
     RemovePrinterFails, KeepDriver, DriverOrphaned, DropDriver, DropDriverFails, KeepPort,
     PortOrphaned, DropPort, DropPortFails, Record, At, Rest
<1> QED BY <1>1, <1>2 DEF KillAdd, Kill, Rest

\* Whoever moves, the others are at rest.
LEMMA SerialMoves ==
  ASSUME Alone, SerialNext
  PROVE  \/ \E p \in Proc : Moves(p) /\ \A r \in Proc \ {p} : Rest(r)
         \/ Tick /\ UNCHANGED ad
<1>1. ASSUME NEW p \in Proc, AddStep(p) \/ KillAdd(p) \/ RemoveStep(p) \/ Kill(p)
      PROVE  \A r \in Proc \ {p} : Rest(r)
  BY <1>1, AtRestStays DEF Alone
<1> QED BY <1>1 DEF SerialNext, Moves

\* A step of one invocation leaves the frames of the others alone.
LEMMA OthersKeep ==
  ASSUME AddIInv, NEW p \in Proc, Moves(p)
  PROVE  \A r \in Proc \ {p} : ad'[r] = ad[r] /\ rm'[r] = rm[r]
<1>1. CASE AddStep(p)
  BY <1>1, StepFollows
<1>2. CASE StartAdd(p)
  BY <1>2 DEF StartAdd, Quietly, AddGoto, AddIInv
<1>3. CASE KillAdd(p)
  BY <1>3 DEF KillAdd, Goto, Step, AddIInv, IInv, TypeOK
<1>4. CASE (Start(p) \/ Kill(p) \/ RemoveStep(p)) /\ UNCHANGED ad
  <2>1. \E upd, d : Step(p, upd, d)
    BY <1>4 DEF RemoveStep, Start, Kill, Goto, BeginRemove, ResolveAbsent, ResolveFound, FetchInfo,
       FetchInfoFails, RemovePrinter, RemovePrinterFails, KeepDriver, DriverOrphaned, DropDriver,
       DropDriverFails, KeepPort, PortOrphaned, DropPort, DropPortFails, Record
  <2> QED BY <1>4, <2>1 DEF Step, AddIInv, IInv, TypeOK
<1> QED BY <1>1, <1>2, <1>3, <1>4 DEF Moves

-----------------------------------------------------------------------------
(* The steps keep the invariant.                                           *)

\* What is free stays free while no queue comes or goes.
LEMMA StaysFree ==
  ASSUME NEW p \in Proc, Free(p), UNCHANGED queues, ad'[p].call = ad[p].call
  PROVE  Free(p)'
  BY DEF Free, OnTarget, TargetPort

\* Only two steps of an add make a queue.
LEMMA QueuesKept ==
  ASSUME NEW p \in Proc, AddStep(p), ~AddPrinter(p), ~IppAdd(p)
  PROVE  UNCHANGED queues
<1>1. CASE Stage(p) \/ AddPort(p) \/ AddDriver(p) \/ IppPort(p)
  BY <1>1 DEF Stage, AddPort, AddDriver, IppPort
<1>2. CASE ~(Stage(p) \/ AddPort(p) \/ AddDriver(p) \/ IppPort(p))
  BY <1>2, QuietSteps DEF printVars
<1> QED BY <1>1, <1>2

\* The steps after which an add is through with its address.
LEMMA Shuts ==
  ASSUME AddIInv, NEW p \in Proc,
         \/ EarlyTaken(p) \/ ForceFailed(p) \/ AddPrinter(p) \/ RecordInstall(p)
         \/ IppAdd(p) \/ IppRecord(p)
  PROVE  ad'[p].pc \in {"record", "ippRecord", "done"}
<1> DEFINE f == ad[p]
<1>1. f \in AddFrame
  BY AddGood
<1>2. \/ ad'[p] = [f EXCEPT !.pc = "done", !.outcome = "error"]
      \/ ad'[p] = [f EXCEPT !.pc = "record"]
      \/ ad'[p] = [f EXCEPT !.pc = "ippRecord"]
      \/ ad'[p] = [f EXCEPT !.pc = "done", !.outcome = "ok", !.report[f.tier] = f.mark]
      \/ ad'[p] = [f EXCEPT !.pc = "done", !.outcome = "ok", !.report["ipp"] = "Matched"]
  BY DEF EarlyTaken, ForceFailed, Fail, Quietly, AddPrinter, RecordInstall, IppAdd, IppRecord,
     AddGoto, AddIInv
<1> QED BY <1>1, <1>2 DEF AddFrame

\* The queue an add makes is the only one on its address.
LEMMA OnlyQueue ==
  ASSUME SerialIInv, NEW p \in Proc, AddPrinter(p) \/ IppAdd(p)
  PROVE  NamesUnique' /\ OneQueuePerAddress'
<1>1. PICK n, d : AddQueue(n, d, TargetPort(p))
  BY DEF AddPrinter, IppAdd
<1> DEFINE q == [name |-> n, driver |-> d, port |-> TargetPort(p)]
<1>2. queues' = queues \cup {q} /\ q.name = n /\ q.port = TargetPort(p)
  BY <1>1 DEF AddQueue
<1>3. \A r \in queues : r.name # n
  BY <1>1 DEF AddQueue, Exists
<1>4. \A r \in queues : r.port # TargetPort(p)
  <2>1. ad[p].pc \notin ShutPc
    BY DEF AddPrinter, IppAdd, AddAt, ShutPc
  <2> QED BY <2>1 DEF SerialIInv, Clear, Free, OnTarget
<1> HIDE DEF q
<1>5. NamesUnique'
  BY <1>2, <1>3 DEF SerialIInv, NamesUnique
<1>6. OneQueuePerAddress'
  BY <1>2, <1>4 DEF SerialIInv, OneQueuePerAddress
<1> QED BY <1>5, <1>6

\* What is one of a kind stays so when queues only go.
LEMMA FewerQueues ==
  ASSUME NamesUnique, OneQueuePerAddress, queues' \subseteq queues
  PROVE  NamesUnique' /\ OneQueuePerAddress'
  BY DEF NamesUnique, OneQueuePerAddress

\* --force goes after the one queue that prints to the address, where its name is
\* not an address itself, which the removal would look up instead.
LEMMA ForceAims ==
  ASSUME SerialIInv, Ip \cap Queue = {}, NEW p \in Proc, EarlyForce(p)
  PROVE  Clear(p)' /\ Apart(p)'
<1>1. IInv /\ ad[p] \in AddFrame /\ Has(ad[p]) /\ ad[p].pc = "early"
  BY AddGood DEF SerialIInv, AddIInv, EarlyForce, AddAt
<1>2. PICK q \in queues :
        /\ OnTarget(p, q)
        /\ BeginRemove(p, [target |-> q.name, keepDriver |-> FALSE, keepPort |-> TRUE])
  BY DEF EarlyForce
<1>3. rm'[p] = [IdleFrame EXCEPT !.pc = "resolve", !.target = q.name,
                                 !.keepDriver = FALSE, !.keepPort = TRUE]
  BY <1>1, <1>2, StepSets DEF BeginRemove, Goto
<1>4. rm'[p].pc = "resolve" /\ rm'[p].target = q.name
  BY <1>3 DEF IdleFrame
<1>5. q.name \notin Ip
  BY <1>1 DEF IInv, TypeOK, PrintTypeOK, QueueRec
<1>6. TargetPort(p) \in {IpPort[a] : a \in Ip}
  BY <1>1, AddsAssumption DEF Has, AddCall, TargetPort
<1>7. \A r \in queues : OnTarget(p, r) => r.name = q.name
  BY <1>2, <1>6 DEF SerialIInv, OneQueuePerAddress, OnTarget
<1>8. ad'[p].pc = "forcing" /\ ad'[p].call = ad[p].call /\ UNCHANGED queues
  <2>1. ad' = [ad EXCEPT ![p].pc = "forcing"] /\ UNCHANGED queues
    BY DEF EarlyForce, printVars
  <2> QED BY <1>1, <2>1 DEF SerialIInv, AddIInv, AddFrame
<1>9. \A r \in queues' : OnTarget(p, r)' => r.name = q.name
  BY <1>7, <1>8 DEF OnTarget, TargetPort
<1> QED BY <1>4, <1>5, <1>8, <1>9 DEF Clear, Apart, ShutPc

\* A step of an add keeps its address free until its own queue is there.
LEMMA AddStepClear ==
  ASSUME SerialIInv, ~CanFail("query"), Ip \cap Queue = {}, NEW p \in Proc, AddStep(p)
  PROVE  NamesUnique' /\ OneQueuePerAddress' /\ Clear(p)' /\ Apart(p)'
<1>1. AddIInv /\ Clear(p) /\ Apart(p)
  BY DEF SerialIInv
<1>2. CASE EarlyForce(p)
  <2>1. UNCHANGED queues
    BY <1>2 DEF EarlyForce, printVars
  <2> QED BY <1>2, <2>1, ForceAims, FewerQueues DEF SerialIInv
<1>3. CASE ~EarlyForce(p)
  <2>1. Follows(p, ad'[p]) /\ UNCHANGED rm
    BY <1>1, <1>3, StepFollows
  <2>2. ad'[p].call = ad[p].call /\ ad'[p].pc # "forcing"
    BY <1>3, <2>1 DEF Follows
  <2>3. Apart(p)'
    <3>1. CASE ad[p].pc \in ShutPc
      <4>1. rm[p].pc = "done" \/ ad[p].pc \notin {"idle", "forcing"}
        BY <1>3, <3>1, ShutSteps DEF EarlyFree, EarlyTaken, Forced, ForceFailed, RecordInstall,
           IppRecord, AddAt
      <4> QED BY <1>1, <2>1, <4>1 DEF Apart
    <3>2. CASE ad[p].pc \notin ShutPc
      BY <1>1, <2>1, <3>2 DEF Apart, ShutPc
    <3> QED BY <3>1, <3>2
  <2>4. CASE AddPrinter(p) \/ IppAdd(p)
    <3>1. ad'[p].pc \in {"record", "ippRecord", "done"}
      BY <1>1, <2>4, Shuts
    <3>2. Clear(p)'
      BY <3>1 DEF Clear, ShutPc
    <3> QED BY <2>3, <2>4, <3>2, OnlyQueue
  <2>5. CASE ~AddPrinter(p) /\ ~IppAdd(p)
    <3>1. UNCHANGED queues
      BY <2>5, QueuesKept
    <3>2. Free(p) => Clear(p)'
      BY <2>2, <3>1, StaysFree DEF Clear
    <3>3. ASSUME ad[p].pc \notin ShutPc PROVE Clear(p)'
      BY <1>1, <3>2, <3>3 DEF Clear
    <3>4. ASSUME EarlyTaken(p) \/ ForceFailed(p) \/ RecordInstall(p) \/ IppRecord(p)
          PROVE  Clear(p)'
      <4>1. ad'[p].pc \in {"record", "ippRecord", "done"}
        BY <1>1, <3>4, Shuts
      <4> QED BY <4>1 DEF Clear, ShutPc
    <3>5. ASSUME EarlyFree(p) PROVE Clear(p)'
      <4>1. Free(p)
        BY <3>5 DEF EarlyFree, Free
      <4> QED BY <3>2, <4>1
    <3>6. ASSUME Forced(p) PROVE Clear(p)'
      <4>1. ad[p].pc = "forcing" /\ rm[p].pc = "done" /\ rm[p].outcome # "error"
        BY <3>6 DEF Forced, AddAt
      <4> QED BY <1>1, <3>2, <4>1 DEF Clear
    <3>7. Clear(p)'
      BY <1>3, <3>3, <3>4, <3>5, <3>6, ShutSteps
    <3>8. NamesUnique' /\ OneQueuePerAddress'
      BY <3>1, FewerQueues DEF SerialIInv
    <3> QED BY <2>3, <3>7, <3>8
  <2> QED BY <2>4, <2>5
<1> QED BY <1>2, <1>3

\* The removal inside an add --force: it ends without an error only when no queue
\* prints to the address any more.
LEMMA RemovalClear ==
  ASSUME SerialIInv, ~CanFail("query"), NEW p \in Proc, RemoveStep(p), UNCHANGED ad
  PROVE  Clear(p)' /\ Apart(p)' /\ queues' \subseteq queues
<1> DEFINE f == rm[p]
           g == rm'[p]
<1>1. IInv /\ f \in RemoveFrame /\ Clear(p) /\ Apart(p)
  BY FrameType DEF SerialIInv, AddIInv, IInv
<1>2. f.pc \notin {"idle", "done", "killed"}
  BY DEF RemoveStep, ResolveAbsent, ResolveFound, FetchInfo, FetchInfoFails, RemovePrinter,
     RemovePrinterFails, KeepDriver, DriverOrphaned, DropDriver, DropDriverFails, KeepPort,
     PortOrphaned, DropPort, DropPortFails, Record, At
<1>3. ad'[p] = ad[p] /\ ad[p].pc \in {"idle", "forcing"} /\ Apart(p)'
  BY <1>1, <1>2 DEF Apart
<1>4. ASSUME NEW upd, NEW d, Step(p, upd, d) PROVE g = upd
  BY <1>1, <1>4, StepSets
<1>5. ASSUME queues' \subseteq queues, Free(p) PROVE Free(p)'
  BY <1>3, <1>5 DEF Free, OnTarget, TargetPort
<1>6. ad[p].pc = "idle" => Clear(p)'
  BY <1>3 DEF Clear, ShutPc
<1>7. \A q : OnTarget(p, q)' <=> OnTarget(p, q)
  BY <1>3 DEF OnTarget, TargetPort
<1>8. CASE ResolveAbsent(p)
  <2>1. g = [f EXCEPT !.pc = "done", !.outcome = "absent"]
    BY <1>4, <1>8 DEF ResolveAbsent, Goto
  <2>2. g.pc = "done"
    BY <1>1, <2>1 DEF RemoveFrame
  <2>3. f.pc = "resolve" /\ UNCHANGED queues /\ \A q \in queues : ~Matches(q, f.target)
    BY <1>8 DEF ResolveAbsent, At, printVars
  <2>4. ad[p].pc = "forcing" => Free(p)
    BY <1>1, <2>3 DEF Clear, Matches, Free
  <2> QED BY <1>3, <1>5, <1>6, <2>2, <2>3, <2>4 DEF Clear, ShutPc
<1>9. CASE ResolveFound(p)
  <2>1. PICK q \in queues : Matches(q, f.target) /\ Goto(p, [f EXCEPT !.pc = "info", !.queue = q.name])
    BY <1>9 DEF ResolveFound
  <2>2. g = [f EXCEPT !.pc = "info", !.queue = q.name]
    BY <1>4, <2>1 DEF Goto
  <2>3. g.pc = "info" /\ g.queue = q.name
    BY <1>1, <2>2 DEF RemoveFrame
  <2>4. f.pc = "resolve" /\ UNCHANGED queues
    BY <1>9 DEF ResolveFound, At, printVars
  <2>5. ad[p].pc = "forcing" => f.target = q.name
    BY <1>1, <2>1, <2>4 DEF Clear, Matches
  <2> QED BY <1>1, <1>3, <1>6, <1>7, <2>3, <2>4, <2>5 DEF Clear, ShutPc
<1>10. CASE FetchInfo(p)
  <2>1. PICK q \in queues : Goto(p, [f EXCEPT !.pc = "remove", !.driver = q.driver, !.port = q.port])
    BY <1>10 DEF FetchInfo
  <2>2. g = [f EXCEPT !.pc = "remove", !.driver = q.driver, !.port = q.port]
    BY <1>4, <2>1 DEF Goto
  <2>3. g.pc = "remove" /\ g.queue = f.queue
    BY <1>1, <2>2 DEF RemoveFrame
  <2>4. f.pc = "info" /\ UNCHANGED queues
    BY <1>10 DEF FetchInfo, At, printVars
  <2> QED BY <1>1, <1>3, <1>6, <1>7, <2>3, <2>4 DEF Clear, ShutPc
<1>11. CASE FetchInfoFails(p) \/ RemovePrinterFails(p)
  <2>1. g = [f EXCEPT !.pc = "done", !.outcome = "error"]
    BY <1>4, <1>11 DEF FetchInfoFails, RemovePrinterFails, Goto
  <2>2. g.pc = "done" /\ g.outcome = "error"
    BY <1>1, <2>1 DEF RemoveFrame
  <2>3. UNCHANGED queues
    BY <1>11 DEF FetchInfoFails, RemovePrinterFails, printVars
  <2> QED BY <1>3, <1>6, <2>2, <2>3 DEF Clear, ShutPc
<1>12. CASE RemovePrinter(p)
  <2>1. g = [f EXCEPT !.pc = AfterQueue(f), !.outcome = "removed"]
    BY <1>4, <1>12 DEF RemovePrinter
  <2>2. g.pc \in {"countDriver", "countPort"} /\ f.pc = "remove"
    BY <1>1, <1>12, <2>1 DEF RemoveFrame, AfterQueue, RemovePrinter, At
  <2>3. PICK q \in queues : q.name = f.queue /\ queues' = queues \ {q}
    BY <1>12 DEF RemovePrinter, RemoveQueue
  <2>4. \A t \in queues' : t.name # f.queue
    BY <2>3 DEF SerialIInv, NamesUnique
  <2>5. ad[p].pc = "forcing" => \A t \in queues' : ~OnTarget(p, t)
    BY <1>1, <2>2, <2>3, <2>4 DEF Clear
  <2>6. ad[p].pc = "forcing" => Free(p)'
    BY <1>7, <2>5 DEF Free
  <2> QED BY <1>3, <1>6, <2>2, <2>3, <2>6 DEF Clear, ShutPc
<1>13. CASE Cleanup(p)
  <2>1. Cleans(f, g) /\ f.pc \notin {"idle", "resolve", "info", "remove"} /\ UNCHANGED queues
    BY <1>1, <1>13, CleanupCleans
  <2>2. g.outcome = f.outcome /\ g.pc \notin {"idle", "resolve", "info", "remove"}
    BY <2>1 DEF Cleans
  <2>3. ad[p].pc = "forcing" /\ f.outcome # "error" => Free(p)'
    BY <1>1, <1>5, <2>1 DEF Clear
  <2> QED BY <1>3, <1>6, <2>1, <2>2, <2>3 DEF Clear, ShutPc
<1> QED BY <1>8, <1>9, <1>10, <1>11, <1>12, <1>13 DEF RemoveStep, Cleanup

\* Every step of commands in a row keeps the invariant.
LEMMA SerialNextInv ==
  ASSUME ~CanFail("query"), Ip \cap Queue = {}
  PROVE  SerialIInv /\ [SerialNext]_addVars => SerialIInv'
<1> SUFFICES ASSUME SerialIInv, [SerialNext]_addVars PROVE SerialIInv'
  OBVIOUS
<1>1. AddIInv' /\ AddIInv /\ IInv
  BY AddNextInv, SerialIsNext DEF SerialIInv, AddIInv
<1>2. ASSUME queues' = queues, UNCHANGED ad, UNCHANGED rm PROVE SerialIInv'
  BY <1>1, <1>2 DEF SerialIInv, NamesUnique, OneQueuePerAddress, Alone, Rest, Clear, Apart, Free,
     OnTarget, TargetPort
<1>3. CASE UNCHANGED addVars \/ (Tick /\ UNCHANGED ad)
  BY <1>2, <1>3 DEF addVars, removeVars, Tick
<1>4. ASSUME NEW p \in Proc, Moves(p), \A r \in Proc \ {p} : Rest(r) PROVE SerialIInv'
  <2>1. \A r \in Proc \ {p} : ad'[r] = ad[r] /\ rm'[r] = rm[r] /\ Rest(r)
    BY <1>1, <1>4, OthersKeep
  <2>2. \A r \in Proc \ {p} : Rest(r)' /\ Clear(r)' /\ Apart(r)'
    BY <2>1 DEF Rest, Clear, Apart, ShutPc
  <2>3. Alone'
    BY <2>2 DEF Alone
  <2>4. NamesUnique' /\ OneQueuePerAddress' /\ Clear(p)' /\ Apart(p)'
    <3>1. CASE AddStep(p)
      BY <3>1, AddStepClear
    <3>2. CASE RemoveStep(p) /\ UNCHANGED ad
      BY <3>2, RemovalClear, FewerQueues DEF SerialIInv
    <3>3. CASE ad[p].pc = "idle" /\ (Start(p) \/ Kill(p)) /\ UNCHANGED ad
      <4>1. UNCHANGED queues /\ ad'[p].pc = "idle"
        BY <3>3 DEF Start, Kill, printVars
      <4>2. Clear(p)' /\ Apart(p)'
        BY <4>1 DEF Clear, Apart, ShutPc
      <4> QED BY <4>1, <4>2, FewerQueues DEF SerialIInv
    <3>4. CASE StartAdd(p)
      <4>1. PICK c : Quietly(p, [IdleAdd EXCEPT !.pc = "early", !.call = c])
        BY <3>4 DEF StartAdd
      <4>2. ad'[p] = [IdleAdd EXCEPT !.pc = "early", !.call = c] /\ UNCHANGED <<queues, rm>>
        BY <1>1, <4>1 DEF Quietly, AddGoto, AddIInv, printVars
      <4>3. ad'[p].pc = "early" /\ rm'[p].pc = "idle"
        BY <3>4, <4>2 DEF IdleAdd, StartAdd
      <4>4. Clear(p)' /\ Apart(p)'
        BY <4>3 DEF Clear, Apart, ShutPc
      <4> QED BY <4>2, <4>4, FewerQueues DEF SerialIInv
    <3>5. CASE KillAdd(p)
      <4>1. ad' = [ad EXCEPT ![p].pc = "killed"] /\ UNCHANGED queues
        BY <3>5 DEF KillAdd, printVars
      <4>2. ad'[p].pc = "killed"
        BY <1>1, <4>1 DEF AddIInv, AddFrame
      <4>3. rm[p] \in RemoveFrame
        BY <1>1, FrameType DEF IInv
      <4>4. \/ rm'[p] = rm[p] /\ rm[p].pc \in {"idle", "done"}
            \/ rm'[p] = [rm[p] EXCEPT !.pc = "killed"]
        BY <1>1, <3>5, StepSets DEF KillAdd, Goto
      <4>5. rm'[p].pc \in {"idle", "done", "killed"}
        BY <4>3, <4>4 DEF RemoveFrame
      <4>6. Clear(p)' /\ Apart(p)'
        BY <4>2, <4>5 DEF Clear, Apart, ShutPc
      <4> QED BY <4>1, <4>6, FewerQueues DEF SerialIInv
    <3> QED BY <1>4, <3>1, <3>2, <3>3, <3>4, <3>5 DEF Moves
  <2> QED BY <1>1, <2>2, <2>3, <2>4 DEF SerialIInv
<1> QED BY <1>3, <1>4, SerialMoves DEF SerialIInv

\* The first command of the row finds at most one queue on each address.
LEMMA SerialInitInv == AddInit /\ OneQueuePerAddress => SerialIInv
<1> SUFFICES ASSUME AddInit, OneQueuePerAddress PROVE SerialIInv
  OBVIOUS
<1>1. AddIInv /\ NamesUnique
  BY AddInitInv DEF AddInit, Init, PrintInit, NamesUnique
<1>2. \A p \in Proc : ad[p].pc = "idle" /\ rm[p].pc = "idle"
  BY DEF AddInit, Init, IdleAdd, IdleFrame
<1> QED BY <1>1, <1>2 DEF SerialIInv, Alone, Rest, Clear, Apart, ShutPc

\* Any number of adds, forced adds and removals in a row, each of them killed
\* wherever it may be, with any answers of the tiers and whatever changes fail, put
\* no second queue on an address.  The early check must see the queue that is there:
\* a query that fails counts as an address that is free.  And no queue is named like
\* an IPv4 address: a forced add hands the name to `remove`, which would take it for
\* the address and clear the way on another port.
THEOREM OneQueueEach ==
  ASSUME ~CanFail("query"), Ip \cap Queue = {}
  PROVE  AddInit /\ OneQueuePerAddress /\ [][SerialNext]_addVars => []OneQueuePerAddress
<1>1. SerialIInv => OneQueuePerAddress
  BY DEF SerialIInv
<1> QED BY <1>1, SerialInitInv, SerialNextInv, PTL

-----------------------------------------------------------------------------
(* The safety net.                                                         *)

\* No step takes a system driver away.
LEMMA SystemDriversStay ==
  ASSUME AddIInv, [AddNext]_addVars, SystemDriver \subseteq registered
  PROVE  SystemDriver \subseteq registered'
<1>1. [Promise!Next]_(Promise!vars)
  BY AddKeeps
<1> QED BY <1>1 DEF Promise!Next, Promise!vars, Promise!OneQueueMore, Promise!OneQueueLess,
     Promise!DriversLess, Promise!OnePortLess, Promise!MoreSupply

\* With its name free, its driver registered and its port there, the last tier
\* has its queue added.
LEMMA IppHolds ==
  ASSUME RescueIInv, ~CanFail("query"), ~CanFail("change"), NEW p \in Proc
  PROVE  ~IppFails(p)
  BY IppAssumption DEF RescueIInv, Rescued, IppFails, AddAt

\* A step of an add.
LEMMA AddStepRescued ==
  ASSUME RescueIInv, ~CanFail("query"), ~CanFail("change"), NEW p \in Proc, AddStep(p)
  PROVE  Rescued(p)'
<1>1. AddIInv /\ Rescued(p) /\ Has(ad[p])
  BY AddGood DEF RescueIInv, SerialIInv
<1>2. Follows(p, ad'[p])
  BY <1>1, StepFollows
<1>3. IppQueue(p)' = IppQueue(p) /\ TargetPort(p)' = TargetPort(p)
  BY <1>2 DEF Follows, IppQueue, TargetPort
<1>4. ASSUME ad'[p].pc \in {"ippPort", "ippQueue"} PROVE ~Exists(IppQueue(p))'
  <2>1. IppNotThere(p) \/ IppPort(p)
    BY <1>2, <1>4 DEF Follows
  <2>2. ~Exists(IppQueue(p)) /\ UNCHANGED queues
    BY <1>1, <2>1 DEF IppNotThere, IppPort, To, Quietly, printVars, Rescued, AddAt
  <2> QED BY <1>3, <2>2 DEF Exists
<1>5. ASSUME ad'[p].pc = "ippQueue" PROVE TargetPort(p)' \in ports'
  BY <1>2, <1>3, <1>5 DEF Follows, IppPort
<1>6. ASSUME Finished(p)', ad'[p].outcome = "error" PROVE ~ad'[p].ippOk
  <2>1. ad'[p].pc = "done" /\ ad'[p].hint # None
    BY <1>6 DEF Finished
  <2>2. (IppUnreachable(p) \/ IppFails(p)) /\ ad'[p].ippOk = ad[p].ippOk
    BY <1>2, <1>6, <2>1 DEF Follows
  <2> QED BY <2>2, IppHolds DEF IppUnreachable
<1> QED BY <1>4, <1>5, <1>6 DEF Rescued

\* Every step of commands in a row.
LEMMA RescueNextInv ==
  ASSUME ~CanFail("query"), ~CanFail("change"), Ip \cap Queue = {}
  PROVE  RescueIInv /\ [SerialNext]_addVars => RescueIInv'
<1> SUFFICES ASSUME RescueIInv, [SerialNext]_addVars PROVE RescueIInv'
  OBVIOUS
<1>1. SerialIInv /\ SerialIInv' /\ AddIInv
  BY SerialNextInv DEF RescueIInv, SerialIInv
<1>2. SystemDriver \subseteq registered'
  BY <1>1, SerialIsNext, SystemDriversStay DEF RescueIInv
<1>3. ASSUME NEW r \in Proc, ad'[r] = ad[r], ad[r].pc \notin {"ippPort", "ippQueue"} PROVE Rescued(r)'
  BY <1>3 DEF RescueIInv, Rescued, Finished
<1>4. CASE UNCHANGED addVars \/ (Tick /\ UNCHANGED ad)
  <2>1. UNCHANGED <<ad, queues, ports>>
    BY <1>4 DEF addVars, removeVars, Tick
  <2> QED BY <1>1, <1>2, <2>1 DEF RescueIInv, Rescued, Finished, Exists, IppQueue, TargetPort
<1>5. ASSUME NEW p \in Proc, Moves(p), \A r \in Proc \ {p} : Rest(r) PROVE RescueIInv'
  <2>1. \A r \in Proc \ {p} : ad'[r] = ad[r] /\ ad[r].pc \notin {"ippPort", "ippQueue"}
    BY <1>1, <1>5, OthersKeep DEF Rest
  <2>2. Rescued(p)'
    <3>1. CASE AddStep(p)
      BY <3>1, AddStepRescued
    <3>2. CASE RemoveStep(p) /\ UNCHANGED ad
      <4>1. rm[p].pc \notin {"idle", "done", "killed"}
        BY <3>2 DEF RemoveStep, ResolveAbsent, ResolveFound, FetchInfo, FetchInfoFails,
           RemovePrinter, RemovePrinterFails, KeepDriver, DriverOrphaned, DropDriver,
           DropDriverFails, KeepPort, PortOrphaned, DropPort, DropPortFails, Record, At
      <4>2. ad[p].pc \in {"idle", "forcing"}
        BY <1>1, <4>1 DEF SerialIInv, Apart
      <4> QED BY <1>3, <3>2, <4>2
    <3>3. CASE ad[p].pc = "idle" /\ (Start(p) \/ Kill(p)) /\ UNCHANGED ad
      BY <1>3, <3>3
    <3>4. CASE StartAdd(p) \/ KillAdd(p)
      <4>1. StartAdd(p) => \E c : ad'[p] = [IdleAdd EXCEPT !.pc = "early", !.call = c]
        BY <1>1 DEF StartAdd, Quietly, AddGoto, AddIInv
      <4>2. KillAdd(p) => ad'[p] = [ad[p] EXCEPT !.pc = "killed"]
        BY <1>1 DEF KillAdd, AddIInv
      <4>3. StartAdd(p) => ad'[p].pc = "early"
        BY <4>1 DEF IdleAdd
      <4>4. KillAdd(p) => ad'[p].pc = "killed"
        BY <1>1, <4>2 DEF AddIInv, AddFrame
      <4> QED BY <3>4, <4>3, <4>4 DEF Rescued, Finished
    <3> QED BY <1>5, <3>1, <3>2, <3>3, <3>4 DEF Moves
  <2> QED BY <1>1, <1>2, <1>3, <2>1, <2>2 DEF RescueIInv
<1> QED BY <1>1, <1>4, <1>5, SerialMoves DEF SerialIInv

\* Of adds and removals in a row, each killed wherever it may be: where only the
\* tiers fail and no command does, an add that has identified the printer and found
\* it on port 631 does not end in an error.  (The argument rests on the invariant of
\* OneQueueEach, and so on its assumption about the names of queues.)
THEOREM SafetyNet ==
  ASSUME ~CanFail("query"), ~CanFail("change"), Ip \cap Queue = {}
  PROVE  AddInit /\ OneQueuePerAddress /\ [][SerialNext]_addVars => []IppRescues
<1>1. AddInit /\ OneQueuePerAddress => RescueIInv
  <2> SUFFICES ASSUME AddInit, OneQueuePerAddress PROVE RescueIInv
    OBVIOUS
  <2>1. SystemDriver \subseteq registered /\ \A p \in Proc : ad[p].pc = "idle"
    BY DEF AddInit, Init, PrintInit, IdleAdd
  <2> QED BY <2>1, SerialInitInv DEF RescueIInv, Rescued, Finished
<1>2. RescueIInv => IppRescues
  BY DEF RescueIInv, Rescued, IppRescues
<1> QED BY <1>1, <1>2, RescueNextInv, PTL

=============================================================================
