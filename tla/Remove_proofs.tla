--------------------------- MODULE Remove_proofs ---------------------------
(***************************************************************************)
(* Theorems about `prinstall remove` for any number of invocations, any    *)
(* drivers, ports and packages, any lag and any set of failing commands.   *)
(***************************************************************************)
EXTENDS Remove, TLAPS

USE DriverAssumption, PortAssumption, LagAssumption, IpAssumption,
    CallsAssumption, NoneAssumption

-----------------------------------------------------------------------------
(* Type correctness.                                                       *)

\* A step of one invocation to a well-typed frame keeps `rm` and `wait` typed.
LEMMA StepType ==
  ASSUME TypeOK, NEW p \in Proc, NEW upd \in RemoveFrame, NEW d \in Nat,
         Step(p, upd, d)
  PROVE  rm' \in [Proc -> RemoveFrame] /\ wait' \in [Proc -> Nat]
  BY DEF TypeOK, Step

\* Every invocation has a well-typed frame.
LEMMA FrameType ==
  ASSUME TypeOK, NEW p \in Proc
  PROVE  rm[p] \in RemoveFrame
  BY DEF TypeOK

\* The clock of Tick never runs below zero.
LEMMA DownType == \A n \in Nat : Down(n) \in Nat
  BY DEF Down

\* The settle sleep and the retry schedule are durations.
LEMMA DelayType ==
  /\ SettleDelay \in Nat
  /\ Len(RetryDelay) = 4
  /\ \A i \in Tries : RetryDelay[i] \in Nat
  BY DEF SettleDelay, RetryDelay, Tries

\* The tries of run_with_retries count from 1 to 4.
LEMMA TriesType == 1 \in Tries /\ \A i \in Tries : i # 4 => i + 1 \in Tries
  BY DEF Tries

\* The machine prinstall finds, and the idle frames, have their types.
THEOREM InitType == Init => TypeOK
  BY DEF Init, PrintInit, TypeOK, PrintTypeOK, IdleFrame, RemoveFrame, RemovePc, Tries

\* Between the lookup and the end a frame knows its queue, driver and port.
Knows(f) ==
  /\ f.pc \in {"info", "remove", "countDriver", "dropDriver",
               "countPort", "dropPort", "record"} => f.queue \in Queue
  /\ f.pc \in {"remove", "countDriver", "dropDriver",
               "countPort", "dropPort", "record"}
       => f.driver \in Driver /\ f.port \in Port

\* A driver about to be removed is no system driver, a port about to be
\* removed is one the cleanup manages.
Checks(f) ==
  /\ f.pc = "dropDriver" => f.driver \notin SystemDriver
  /\ f.pc = "dropPort" => f.port \in ManagedPort

GoodFrame(f) == f \in RemoveFrame /\ Knows(f) /\ Checks(f)

IInv ==
  /\ TypeOK
  /\ \A p \in Proc : Knows(rm[p]) /\ Checks(rm[p])

-----------------------------------------------------------------------------
(* IInv is inductive.                                                      *)

\* Every frame is typed, knows its queue and has passed its checks.
LEMMA FrameGood ==
  ASSUME IInv, NEW p \in Proc
  PROVE  GoodFrame(rm[p])
  BY FrameType DEF IInv, GoodFrame

\* A step of one invocation.
LEMMA StepInv ==
  ASSUME IInv, NEW p \in Proc, NEW upd, GoodFrame(upd), NEW d \in Nat,
         Step(p, upd, d), PrintTypeOK', history' \subseteq Entry
  PROVE  IInv'
<1>1. TypeOK'
  BY StepType DEF IInv, TypeOK, GoodFrame
<1>2. \A r \in Proc : rm'[r] = IF r = p THEN upd ELSE rm[r]
  BY DEF IInv, TypeOK, Step
<1>3. \A r \in Proc : (Knows(rm[r]) /\ Checks(rm[r]))'
  BY <1>2 DEF IInv, Knows, Checks, GoodFrame
<1> QED BY <1>1, <1>3 DEF IInv

\* A step of the world around the invocations.
LEMMA WorldInv ==
  ASSUME IInv, UNCHANGED rm, PrintTypeOK', wait' \in [Proc -> Nat], UNCHANGED history
  PROVE  IInv'
  BY DEF IInv, TypeOK, Knows, Checks

\* A step that leaves the subsystem alone keeps its types.
LEMMA QuietType ==
  ASSUME IInv, UNCHANGED printVars
  PROVE  PrintTypeOK'
  BY DEF IInv, TypeOK, PrintTypeOK, printVars

\* A step that leaves the history alone keeps its type.
LEMMA QuietHistory ==
  ASSUME IInv, UNCHANGED history
  PROVE  history' \subseteq Entry
  BY DEF IInv, TypeOK

\* A removal that begins, from the command line or inside another command.
LEMMA BeginInv ==
  ASSUME IInv, NEW p \in Proc, NEW c \in [target: Target, keepDriver: BOOLEAN, keepPort: BOOLEAN],
         BeginRemove(p, c), UNCHANGED <<printVars, history>>
  PROVE  IInv'
<1> DEFINE upd == [IdleFrame EXCEPT !.pc = "resolve", !.target = c.target,
                         !.keepDriver = c.keepDriver, !.keepPort = c.keepPort]
<1>1. IdleFrame \in RemoveFrame
  BY DEF IdleFrame, RemoveFrame, RemovePc, Tries
<1>2. GoodFrame(upd)
  BY <1>1 DEF RemoveFrame, RemovePc, GoodFrame, Knows, Checks
<1>3. Step(p, upd, 0)
  BY DEF BeginRemove, Goto
<1>4. PrintTypeOK' /\ history' \subseteq Entry
  BY QuietType, QuietHistory
<1> HIDE DEF upd
<1> QED BY <1>2, <1>3, <1>4, StepInv

\* Start keeps the invariant.
LEMMA StartInv ==
  ASSUME IInv, NEW p \in Proc, Start(p)
  PROVE  IInv'
<1>1. PICK c \in Calls : BeginRemove(p, c)
  BY DEF Start
<1>2. c \in [target: Target, keepDriver: BOOLEAN, keepPort: BOOLEAN]
  BY CallsAssumption DEF Target
<1> QED BY <1>1, <1>2, BeginInv DEF Start

\* A kill of whatever removal is under way inside another command.
LEMMA KillInsideInv ==
  ASSUME IInv, NEW p \in Proc, UNCHANGED <<printVars, history>>,
         Goto(p, IF rm[p].pc \in {"idle", "done"} THEN rm[p] ELSE [rm[p] EXCEPT !.pc = "killed"])
  PROVE  IInv'
<1> DEFINE f == rm[p]
           upd == IF f.pc \in {"idle", "done"} THEN f ELSE [f EXCEPT !.pc = "killed"]
<1>1. GoodFrame(f)
  BY FrameGood
<1>2. GoodFrame(upd)
  BY <1>1 DEF GoodFrame, RemoveFrame, RemovePc, Knows, Checks
<1>3. Step(p, upd, 0)
  BY DEF Goto
<1>4. PrintTypeOK' /\ history' \subseteq Entry
  BY QuietType, QuietHistory
<1> HIDE DEF upd, f
<1> QED BY <1>2, <1>3, <1>4, StepInv

\* ResolveAbsent keeps the invariant.
LEMMA ResolveAbsentInv ==
  ASSUME IInv, NEW p \in Proc, ResolveAbsent(p)
  PROVE  IInv'
<1> DEFINE f == rm[p]
<1>1. GoodFrame(f)
  BY FrameGood
<1> DEFINE upd == [f EXCEPT !.pc = "done", !.outcome = "absent"]
<1>2. GoodFrame(upd)
  BY <1>1 DEF GoodFrame, RemoveFrame, RemovePc, Knows, Checks, ResolveAbsent, At
<1>3. Step(p, upd, 0)
  BY DEF ResolveAbsent, Goto
<1>4. PrintTypeOK' /\ history' \subseteq Entry
  BY QuietType, QuietHistory DEF ResolveAbsent
<1> HIDE DEF upd, f
<1> QED BY <1>2, <1>3, <1>4, StepInv

\* ResolveFound keeps the invariant.
LEMMA ResolveFoundInv ==
  ASSUME IInv, NEW p \in Proc, ResolveFound(p)
  PROVE  IInv'
<1> DEFINE f == rm[p]
<1>1. GoodFrame(f)
  BY FrameGood
<1>2. PICK q \in queues : Goto(p, [f EXCEPT !.pc = "info", !.queue = q.name])
  BY DEF ResolveFound
<1> DEFINE upd == [f EXCEPT !.pc = "info", !.queue = q.name]
<1>3. q.name \in Queue
  BY DEF IInv, TypeOK, PrintTypeOK, QueueRec
<1>4. GoodFrame(upd)
  BY <1>1, <1>3 DEF GoodFrame, RemoveFrame, RemovePc, Knows, Checks, ResolveFound, At
<1>5. Step(p, upd, 0)
  BY <1>2 DEF Goto
<1>6. PrintTypeOK' /\ history' \subseteq Entry
  BY QuietType, QuietHistory DEF ResolveFound
<1> HIDE DEF upd, f
<1> QED BY <1>4, <1>5, <1>6, StepInv

\* FetchInfo keeps the invariant.
LEMMA FetchInfoInv ==
  ASSUME IInv, NEW p \in Proc, FetchInfo(p)
  PROVE  IInv'
<1> DEFINE f == rm[p]
<1>1. GoodFrame(f)
  BY FrameGood
<1>2. PICK q \in queues :
       Goto(p, [f EXCEPT !.pc = "remove", !.driver = q.driver, !.port = q.port])
  BY DEF FetchInfo
<1> DEFINE upd == [f EXCEPT !.pc = "remove", !.driver = q.driver, !.port = q.port]
<1>3. q.driver \in Driver /\ q.port \in Port
  BY DEF IInv, TypeOK, PrintTypeOK, QueueRec
<1>4. GoodFrame(upd)
  BY <1>1, <1>3 DEF GoodFrame, RemoveFrame, RemovePc, Knows, Checks, FetchInfo, At
<1>5. Step(p, upd, 0)
  BY <1>2 DEF Goto
<1>6. PrintTypeOK' /\ history' \subseteq Entry
  BY QuietType, QuietHistory DEF FetchInfo
<1> HIDE DEF upd, f
<1> QED BY <1>4, <1>5, <1>6, StepInv

\* FetchInfoFails keeps the invariant.
LEMMA FetchInfoFailsInv ==
  ASSUME IInv, NEW p \in Proc, FetchInfoFails(p)
  PROVE  IInv'
<1> DEFINE f == rm[p]
<1>1. GoodFrame(f)
  BY FrameGood
<1> DEFINE upd == [f EXCEPT !.pc = "done", !.outcome = "error"]
<1>2. GoodFrame(upd)
  BY <1>1 DEF GoodFrame, RemoveFrame, RemovePc, Knows, Checks, FetchInfoFails, At
<1>3. Step(p, upd, 0)
  BY DEF FetchInfoFails, Goto
<1>4. PrintTypeOK' /\ history' \subseteq Entry
  BY QuietType, QuietHistory DEF FetchInfoFails
<1> HIDE DEF upd, f
<1> QED BY <1>2, <1>3, <1>4, StepInv

\* KeepDriver keeps the invariant.
LEMMA KeepDriverInv ==
  ASSUME IInv, NEW p \in Proc, KeepDriver(p)
  PROVE  IInv'
<1> DEFINE f == rm[p]
<1>1. GoodFrame(f)
  BY FrameGood
<1> DEFINE upd == [f EXCEPT !.pc = "countPort"]
<1>2. GoodFrame(upd)
  BY <1>1 DEF GoodFrame, RemoveFrame, RemovePc, Knows, Checks, KeepDriver, At
<1>3. Step(p, upd, 0)
  BY DEF KeepDriver, Goto
<1>4. PrintTypeOK' /\ history' \subseteq Entry
  BY QuietType, QuietHistory DEF KeepDriver
<1> HIDE DEF upd, f
<1> QED BY <1>2, <1>3, <1>4, StepInv

\* DriverOrphaned keeps the invariant.
LEMMA DriverOrphanedInv ==
  ASSUME IInv, NEW p \in Proc, DriverOrphaned(p)
  PROVE  IInv'
<1> DEFINE f == rm[p]
<1>1. GoodFrame(f)
  BY FrameGood
<1> DEFINE upd == [f EXCEPT !.pc = "dropDriver", !.fromStore = TRUE, !.try = 1]
<1>2. GoodFrame(upd)
  <2>1. upd \in RemoveFrame
    BY <1>1, TriesType DEF GoodFrame, RemoveFrame, RemovePc
  <2>2. Knows(upd) /\ Checks(upd)
    BY <1>1 DEF GoodFrame, RemoveFrame, Knows, Checks, DriverOrphaned, At
  <2> QED BY <2>1, <2>2 DEF GoodFrame
<1>3. Step(p, upd, 0)
  BY DEF DriverOrphaned, Goto
<1>4. PrintTypeOK' /\ history' \subseteq Entry
  BY QuietType, QuietHistory DEF DriverOrphaned
<1> HIDE DEF upd, f
<1> QED BY <1>2, <1>3, <1>4, StepInv

\* KeepPort keeps the invariant.
LEMMA KeepPortInv ==
  ASSUME IInv, NEW p \in Proc, KeepPort(p)
  PROVE  IInv'
<1> DEFINE f == rm[p]
<1>1. GoodFrame(f)
  BY FrameGood
<1> DEFINE upd == [f EXCEPT !.pc = "record"]
<1>2. GoodFrame(upd)
  BY <1>1 DEF GoodFrame, RemoveFrame, RemovePc, Knows, Checks, KeepPort, At
<1>3. Step(p, upd, 0)
  BY DEF KeepPort, Goto
<1>4. PrintTypeOK' /\ history' \subseteq Entry
  BY QuietType, QuietHistory DEF KeepPort
<1> HIDE DEF upd, f
<1> QED BY <1>2, <1>3, <1>4, StepInv

\* PortOrphaned keeps the invariant.
LEMMA PortOrphanedInv ==
  ASSUME IInv, NEW p \in Proc, PortOrphaned(p)
  PROVE  IInv'
<1> DEFINE f == rm[p]
<1>1. GoodFrame(f)
  BY FrameGood
<1> DEFINE upd == [f EXCEPT !.pc = "dropPort", !.try = 1]
<1>2. GoodFrame(upd)
  <2>1. upd \in RemoveFrame
    BY <1>1, TriesType DEF GoodFrame, RemoveFrame, RemovePc
  <2>2. Knows(upd) /\ Checks(upd)
    BY <1>1 DEF GoodFrame, RemoveFrame, Knows, Checks, PortOrphaned, At
  <2> QED BY <2>1, <2>2 DEF GoodFrame
<1>3. Step(p, upd, 0)
  BY DEF PortOrphaned, Goto
<1>4. PrintTypeOK' /\ history' \subseteq Entry
  BY QuietType, QuietHistory DEF PortOrphaned
<1> HIDE DEF upd, f
<1> QED BY <1>2, <1>3, <1>4, StepInv

\* RemovePrinterFails keeps the invariant.
LEMMA RemovePrinterFailsInv ==
  ASSUME IInv, NEW p \in Proc, RemovePrinterFails(p)
  PROVE  IInv'
<1> DEFINE f == rm[p]
<1>1. GoodFrame(f)
  BY FrameGood
<1> DEFINE upd == [f EXCEPT !.pc = "done", !.outcome = "error"]
<1>2. GoodFrame(upd)
  BY <1>1 DEF GoodFrame, RemoveFrame, RemovePc, Knows, Checks, RemovePrinterFails, At
<1>3. Step(p, upd, 0)
  BY DEF RemovePrinterFails, Goto
<1>4. PrintTypeOK' /\ history' \subseteq Entry
  BY QuietType, QuietHistory DEF RemovePrinterFails
<1> HIDE DEF upd, f
<1> QED BY <1>2, <1>3, <1>4, StepInv

\* Kill keeps the invariant.
LEMMA KillInv ==
  ASSUME IInv, NEW p \in Proc, Kill(p)
  PROVE  IInv'
<1> DEFINE f == rm[p]
<1>1. GoodFrame(f)
  BY FrameGood
<1> DEFINE upd == [f EXCEPT !.pc = "killed"]
<1>2. GoodFrame(upd)
  BY <1>1 DEF GoodFrame, RemoveFrame, RemovePc, Knows, Checks, Kill, At
<1>3. Step(p, upd, 0)
  BY DEF Kill, Goto
<1>4. PrintTypeOK' /\ history' \subseteq Entry
  BY QuietType, QuietHistory DEF Kill
<1> HIDE DEF upd, f
<1> QED BY <1>2, <1>3, <1>4, StepInv

\* RemovePrinter keeps the invariant.
LEMMA RemovePrinterInv ==
  ASSUME IInv, NEW p \in Proc, RemovePrinter(p)
  PROVE  IInv'
<1> DEFINE f == rm[p]
           d == IF f.keepDriver /\ f.keepPort THEN 0 ELSE SettleDelay
           upd == [f EXCEPT !.pc = AfterQueue(f), !.outcome = "removed"]
<1>1. GoodFrame(f)
  BY FrameGood
<1>2. GoodFrame(upd)
  BY <1>1 DEF GoodFrame, RemoveFrame, RemovePc, Knows, Checks, RemovePrinter, At, AfterQueue
<1>3. Step(p, upd, d) /\ d \in Nat
  BY DelayType DEF RemovePrinter
<1>4. PICK q \in queues : RemoveQueue(q)
  BY DEF RemovePrinter
<1>5. PrintTypeOK' /\ history' \subseteq Entry
  <2>1. PrintTypeOK'
    BY <1>4 DEF RemoveQueue, IInv, TypeOK, PrintTypeOK, QueueRec
  <2> QED BY <2>1, QuietHistory DEF RemovePrinter
<1> HIDE DEF upd, f, d
<1> QED BY <1>2, <1>3, <1>5, StepInv

\* DropDriver keeps the invariant.
LEMMA DropDriverInv ==
  ASSUME IInv, NEW p \in Proc, DropDriver(p)
  PROVE  IInv'
<1> DEFINE f == rm[p]
           upd == [f EXCEPT !.pc = "countPort", !.driverRemoved = TRUE]
<1>1. GoodFrame(f) /\ f.pc = "dropDriver"
  BY FrameGood DEF DropDriver, At
<1>2. GoodFrame(upd) /\ f.driver \in Driver
  BY <1>1 DEF GoodFrame, RemoveFrame, RemovePc, Knows, Checks
<1>3. Step(p, upd, 0)
  BY DEF DropDriver, Goto
<1>4. PrintTypeOK'
  <2>1. CASE UnregisterDriver(f.driver)
    BY <1>2, <2>1 DEF UnregisterDriver, IInv, TypeOK, PrintTypeOK
  <2>2. CASE DeletePackage(f.driver)
    BY <1>2, <2>2 DEF DeletePackage, IInv, TypeOK, PrintTypeOK
  <2> QED BY <2>1, <2>2 DEF DropDriver
<1>5. history' \subseteq Entry
  BY QuietHistory DEF DropDriver
<1> HIDE DEF upd, f
<1> QED BY <1>2, <1>3, <1>4, <1>5, StepInv

\* DropDriverFails keeps the invariant.
LEMMA DropDriverFailsInv ==
  ASSUME IInv, NEW p \in Proc, DropDriverFails(p)
  PROVE  IInv'
<1> DEFINE f == rm[p]
           again == [f EXCEPT !.try = f.try + 1]
           plain == [f EXCEPT !.fromStore = FALSE, !.try = 1]
           after == [f EXCEPT !.pc = "countPort"]
<1>1. GoodFrame(f) /\ f.pc = "dropDriver" /\ f.try \in Tries
  BY FrameGood DEF DropDriverFails, At, GoodFrame, RemoveFrame
<1>2. PrintTypeOK' /\ history' \subseteq Entry
  BY QuietType, QuietHistory DEF DropDriverFails
<1>3. GoodFrame(plain) /\ GoodFrame(after)
  <2>1. plain \in RemoveFrame /\ after \in RemoveFrame
    BY <1>1, TriesType DEF GoodFrame, RemoveFrame, RemovePc
  <2> QED BY <1>1, <2>1 DEF GoodFrame, RemoveFrame, Knows, Checks
<1>4. CASE f.try < Len(RetryDelay) /\ Step(p, again, RetryDelay[f.try + 1])
  <2>1. f.try + 1 \in Tries
    BY <1>1, <1>4, DelayType DEF Tries
  <2>2. again \in RemoveFrame
    BY <1>1, <2>1 DEF GoodFrame, RemoveFrame
  <2>3. GoodFrame(again)
    BY <1>1, <2>2 DEF GoodFrame, RemoveFrame, Knows, Checks
  <2> HIDE DEF f, again
  <2> QED BY <1>2, <1>4, <2>1, <2>3, DelayType, StepInv
<1>5. CASE Step(p, plain, RetryDelay[1])
  <2> HIDE DEF f, plain
  <2> QED BY <1>2, <1>3, <1>5, DelayType, TriesType, StepInv
<1>6. CASE Step(p, after, 0)
  <2> HIDE DEF f, after
  <2> QED BY <1>2, <1>3, <1>6, StepInv
<1> QED BY <1>4, <1>5, <1>6 DEF DropDriverFails, Goto

\* DropPort keeps the invariant.
LEMMA DropPortInv ==
  ASSUME IInv, NEW p \in Proc, DropPort(p)
  PROVE  IInv'
<1> DEFINE f == rm[p]
           upd == [f EXCEPT !.pc = "record", !.portRemoved = TRUE]
<1>1. GoodFrame(f) /\ f.pc = "dropPort"
  BY FrameGood DEF DropPort, At
<1>2. GoodFrame(upd)
  BY <1>1 DEF GoodFrame, RemoveFrame, RemovePc, Knows, Checks
<1>3. Step(p, upd, 0)
  BY DEF DropPort, Goto
<1>4. PrintTypeOK'
  BY DEF DropPort, DeletePort, IInv, TypeOK, PrintTypeOK
<1>5. history' \subseteq Entry
  BY QuietHistory DEF DropPort
<1> HIDE DEF upd, f
<1> QED BY <1>2, <1>3, <1>4, <1>5, StepInv

\* DropPortFails keeps the invariant.
LEMMA DropPortFailsInv ==
  ASSUME IInv, NEW p \in Proc, DropPortFails(p)
  PROVE  IInv'
<1> DEFINE f == rm[p]
           again == [f EXCEPT !.try = f.try + 1]
           after == [f EXCEPT !.pc = "record"]
<1>1. GoodFrame(f) /\ f.pc = "dropPort" /\ f.try \in Tries
  BY FrameGood DEF DropPortFails, At, GoodFrame, RemoveFrame
<1>2. PrintTypeOK' /\ history' \subseteq Entry
  BY QuietType, QuietHistory DEF DropPortFails
<1>3. CASE f.try < Len(RetryDelay) /\ Step(p, again, RetryDelay[f.try + 1])
  <2>1. f.try + 1 \in Tries
    BY <1>1, <1>3, DelayType DEF Tries
  <2>2. again \in RemoveFrame
    BY <1>1, <2>1 DEF GoodFrame, RemoveFrame
  <2>3. GoodFrame(again)
    BY <1>1, <2>2 DEF GoodFrame, RemoveFrame, Knows, Checks
  <2> HIDE DEF f, again
  <2> QED BY <1>2, <1>3, <2>1, <2>3, DelayType, StepInv
<1>4. CASE Step(p, after, 0)
  <2>1. GoodFrame(after)
    BY <1>1 DEF GoodFrame, RemoveFrame, RemovePc, Knows, Checks
  <2> HIDE DEF f, after
  <2> QED BY <1>2, <1>4, <2>1, StepInv
<1> QED BY <1>3, <1>4 DEF DropPortFails, Goto

\* Record keeps the invariant.
LEMMA RecordInv ==
  ASSUME IInv, NEW p \in Proc, Record(p)
  PROVE  IInv'
<1> DEFINE f == rm[p]
           upd == [f EXCEPT !.pc = "done"]
           e == [model |-> f.queue, driver |-> f.driver, source |-> "remove"]
<1>1. GoodFrame(f) /\ f.pc = "record"
  BY FrameGood DEF Record, At
<1>2. GoodFrame(upd) /\ e \in Entry
  BY <1>1 DEF GoodFrame, RemoveFrame, RemovePc, Knows, Checks, Entry
<1>3. Step(p, upd, 0) /\ PrintTypeOK'
  BY QuietType DEF Record, Goto
<1>4. history' \subseteq Entry
  BY <1>2 DEF Record, RecordEntry, IInv, TypeOK
<1> HIDE DEF upd, f
<1> QED BY <1>2, <1>3, <1>4, StepInv

\* Admin keeps the invariant.
LEMMA AdminInv ==
  ASSUME IInv, AdminAdds
  PROVE  IInv'
<1>1. PrintTypeOK'
  BY DEF AdminAdds, AddQueue, IInv, TypeOK, PrintTypeOK, QueueRec
<1> QED BY <1>1, WorldInv DEF AdminAdds, IInv, TypeOK

\* Tick keeps the invariant.
LEMMA TickInv ==
  ASSUME IInv, Tick
  PROVE  IInv'
<1>1. PrintTypeOK' /\ wait' \in [Proc -> Nat]
  BY DownType DEF Tick, IInv, TypeOK, PrintTypeOK
<1> QED BY <1>1, WorldInv DEF Tick

\* Every step of the specification keeps the invariant.
LEMMA NextInv == IInv /\ [Next]_removeVars => IInv'
<1> SUFFICES ASSUME IInv, [Next]_removeVars PROVE IInv'
  OBVIOUS
<1>1. ASSUME NEW p \in Proc, Start(p) \/ RemoveStep(p) \/ Kill(p) PROVE IInv'
  BY <1>1, StartInv, KillInv, ResolveAbsentInv, ResolveFoundInv, FetchInfoInv,
     FetchInfoFailsInv, RemovePrinterInv, RemovePrinterFailsInv, KeepDriverInv,
     DriverOrphanedInv, DropDriverInv, DropDriverFailsInv, KeepPortInv,
     PortOrphanedInv, DropPortInv, DropPortFailsInv, RecordInv DEF RemoveStep
<1>2. CASE UNCHANGED removeVars
  BY <1>2, WorldInv, QuietType DEF removeVars, printVars, IInv, TypeOK
<1> QED BY <1>1, <1>2, AdminInv, TickInv DEF Next

\* The invariant holds when prinstall starts.
LEMMA InitInv == Init => IInv
  BY InitType DEF Init, IInv, Knows, Checks, IdleFrame

\* The inductive invariant holds in every reachable state: what the cleanup
\* is about to remove has passed its checks, in every interleaving.
THEOREM Invariance == Spec => []IInv
  BY InitInv, NextInv, PTL DEF Spec

\* Every variable stays within its type, for any number of invocations.
THEOREM TypeCorrect == Spec => []TypeOK
<1>1. IInv => TypeOK
  BY DEF IInv
<1> QED BY <1>1, Invariance, PTL

-----------------------------------------------------------------------------
(* Every step keeps the promise of module Custody.                         *)

\* Remove-Printer takes one queue.
LEMMA QueueGoes ==
  ASSUME IInv, NEW q \in queues, RemoveQueue(q)
  PROVE  Promise!Next
  BY DEF RemoveQueue, Promise!Next, Promise!OneQueueLess

\* Remove-PrinterDriver takes vendor drivers that nothing prints with, with
\* their package or without: the siblings of a vendor driver are vendor drivers.
LEMMA DriverGoes ==
  ASSUME IInv, NEW d \in Driver \ SystemDriver, UnregisterDriver(d) \/ DeletePackage(d)
  PROVE  Promise!Next
<1>1. registered \subseteq Driver
  BY DEF IInv, TypeOK, PrintTypeOK
<1>2. CASE UnregisterDriver(d)
  BY <1>1, <1>2 DEF UnregisterDriver, DriverFree, DriverInUse,
     Promise!Next, Promise!DriversLess, Promise!Unused
<1>3. CASE DeletePackage(d)
  <2>1. d \in registered /\ d \in Siblings(d) /\ registered' = registered \ Siblings(d)
    BY <1>1, <1>3 DEF DeletePackage, PackageFree, DriverFree, Siblings
  <2>2. \A e \in Siblings(d) : e \notin SystemDriver
    BY <1>1, DriverAssumption DEF Siblings
  <2>3. \A e \in Siblings(d) : Promise!Unused(e)
    BY <1>3 DEF DeletePackage, PackageFree, DriverInUse, Promise!Unused
  <2>4. packages' \subseteq packages /\ registered' # registered
    BY <1>3, <2>1 DEF DeletePackage
  <2> QED BY <1>3, <2>1, <2>2, <2>3, <2>4
          DEF DeletePackage, Promise!Next, Promise!DriversLess
<1> QED BY <1>2, <1>3

\* The driver a removal drops is one of these.
LEMMA RemovedDriverGoes ==
  ASSUME IInv, NEW p \in Proc, DropDriver(p)
  PROVE  Promise!Next
<1>1. rm[p].driver \in Driver \ SystemDriver
  BY FrameGood DEF DropDriver, At, GoodFrame, Knows, Checks
<1> QED BY <1>1, DriverGoes DEF DropDriver

\* Remove-PrinterPort takes one managed port that nothing prints to.
LEMMA PortGoes ==
  ASSUME IInv, NEW p \in Proc, DropPort(p)
  PROVE  Promise!Next
<1>1. rm[p].port \in ManagedPort
  BY FrameGood DEF DropPort, At, GoodFrame, Checks
<1> QED BY <1>1 DEF DropPort, DeletePort, PortFree, PortInUse,
        Promise!Next, Promise!OnePortLess, Promise!Idle

\* The administrator adds one queue on what is there.
LEMMA QueueComes ==
  ASSUME IInv, AdminAdds
  PROVE  Promise!Next
  BY DEF AdminAdds, AddQueue, Exists, QueueRec, Promise!Next, Promise!OneQueueMore

\* What every other step does to the subsystem: nothing the promise sees.
LEMMA StepKeepsPromise == IInv /\ [Next]_removeVars => [Promise!Next]_(Promise!vars)
<1> SUFFICES ASSUME IInv, [Next]_removeVars PROVE [Promise!Next]_(Promise!vars)
  OBVIOUS
<1> USE DEF Promise!vars, printVars
<1>1. ASSUME NEW p \in Proc, Start(p) \/ Kill(p) PROVE UNCHANGED Promise!vars
  BY <1>1 DEF Start, Kill
<1>2. ASSUME NEW p \in Proc, RemoveStep(p) PROVE [Promise!Next]_(Promise!vars)
  <2>1. CASE RemovePrinter(p)
    BY <2>1, QueueGoes DEF RemovePrinter
  <2>2. CASE DropDriver(p)
    BY <2>2, RemovedDriverGoes
  <2>3. CASE DropPort(p)
    BY <2>3, PortGoes
  <2>4. CASE ResolveAbsent(p) \/ ResolveFound(p) \/ FetchInfo(p) \/ FetchInfoFails(p)
    BY <2>4 DEF ResolveAbsent, ResolveFound, FetchInfo, FetchInfoFails
  <2>5. CASE RemovePrinterFails(p) \/ KeepDriver(p) \/ DriverOrphaned(p) \/ DropDriverFails(p)
    BY <2>5 DEF RemovePrinterFails, KeepDriver, DriverOrphaned, DropDriverFails
  <2>6. CASE KeepPort(p) \/ PortOrphaned(p) \/ DropPortFails(p) \/ Record(p)
    BY <2>6 DEF KeepPort, PortOrphaned, DropPortFails, Record
  <2> QED BY <1>2, <2>1, <2>2, <2>3, <2>4, <2>5, <2>6 DEF RemoveStep
<1>3. CASE Tick
  BY <1>3 DEF Tick
<1>4. CASE UNCHANGED removeVars
  BY <1>4 DEF removeVars
<1> QED BY <1>1, <1>2, <1>3, <1>4, QueueComes DEF Next

\* However many invocations run, whatever fails, whoever kills them and however
\* the administrator interferes: no step takes away a driver or a port that is
\* in use, a Windows system driver or a port the cleanup does not manage.
THEOREM RemoveKeepsPromise == Spec => KeepsPromise
<1>1. Init => Promise!Init
  BY DEF Init, PrintInit, QueueRec, Promise!Init
<1> QED BY <1>1, Invariance, StepKeepsPromise, PTL DEF Spec, KeepsPromise, Promise!Spec

-----------------------------------------------------------------------------
(* What the cleanup leaves of a frame, for the commands that run a removal    *)
(* inside.                                                                    *)

\* What a step of the removal sets its frame to.
LEMMA StepSets ==
  ASSUME IInv, NEW p \in Proc, NEW upd, NEW d, Step(p, upd, d)
  PROVE  rm'[p] = upd
  BY DEF Step, IInv, TypeOK

\* The steps once the queue is gone.
Cleanup(p) ==
  \/ KeepDriver(p) \/ DriverOrphaned(p) \/ DropDriver(p) \/ DropDriverFails(p)
  \/ KeepPort(p) \/ PortOrphaned(p) \/ DropPort(p) \/ DropPortFails(p) \/ Record(p)

\* The frame remembers what it removed and what it was told, and only the steps
\* about the driver remove the driver.
Cleans(g, r) ==
  /\ r.pc \in {"dropDriver", "countPort", "dropPort", "record", "done"}
  /\ r.outcome = g.outcome /\ r.keepDriver = g.keepDriver /\ r.keepPort = g.keepPort
  /\ r.queue = g.queue /\ r.driver = g.driver /\ r.port = g.port
  /\ r.pc = "dropDriver" \/ r.driverRemoved # g.driverRemoved
       => g.pc \in {"countDriver", "dropDriver"}

\* What the cleanup takes is what a frame may take.
LEMMA CleanupCleans ==
  ASSUME IInv, NEW p \in Proc, Cleanup(p)
  PROVE  /\ Cleans(rm[p], rm'[p])
         /\ rm[p].pc \notin {"idle", "resolve", "info", "remove", "done", "killed"}
         /\ UNCHANGED queues
<1> DEFINE g == rm[p]
<1>1. g \in RemoveFrame
  BY FrameType DEF IInv
<1>2. g.pc \notin {"idle", "resolve", "info", "remove", "done", "killed"} /\ UNCHANGED queues
  BY DEF Cleanup, KeepDriver, DriverOrphaned, DropDriver, DropDriverFails, KeepPort, PortOrphaned,
     DropPort, DropPortFails, Record, At, DeletePackage, UnregisterDriver, DeletePort, printVars
<1>3. CASE KeepDriver(p) \/ KeepPort(p) \/ PortOrphaned(p)
  <2>1. \/ rm'[p] = [g EXCEPT !.pc = "countPort"]
        \/ rm'[p] = [g EXCEPT !.pc = "record"]
        \/ rm'[p] = [g EXCEPT !.pc = "dropPort", !.try = 1]
    BY <1>3, StepSets DEF KeepDriver, KeepPort, PortOrphaned, Goto
  <2> QED BY ZenonT(60), <1>1, <1>2, <2>1 DEF RemoveFrame, Cleans
<1>4. CASE DriverOrphaned(p) \/ DropDriver(p)
  <2>1. g.pc \in {"countDriver", "dropDriver"}
    BY <1>4 DEF DriverOrphaned, DropDriver, At
  <2>2. \/ rm'[p] = [g EXCEPT !.pc = "dropDriver", !.fromStore = TRUE, !.try = 1]
        \/ rm'[p] = [g EXCEPT !.pc = "countPort", !.driverRemoved = TRUE]
    BY <1>4, StepSets DEF DriverOrphaned, DropDriver, Goto
  <2> QED BY ZenonT(60), <1>1, <1>2, <2>1, <2>2 DEF RemoveFrame, Cleans
<1>5. CASE DropDriverFails(p)
  <2>1. g.pc = "dropDriver"
    BY <1>5 DEF DropDriverFails, At
  <2>2. \/ rm'[p] = [g EXCEPT !.try = g.try + 1]
        \/ rm'[p] = [g EXCEPT !.fromStore = FALSE, !.try = 1]
        \/ rm'[p] = [g EXCEPT !.pc = "countPort"]
    BY <1>5, StepSets DEF DropDriverFails, Goto
  <2> QED BY ZenonT(60), <1>1, <1>2, <2>1, <2>2 DEF RemoveFrame, Cleans
<1>6. CASE DropPort(p) \/ Record(p)
  <2>1. \/ rm'[p] = [g EXCEPT !.pc = "record", !.portRemoved = TRUE]
        \/ rm'[p] = [g EXCEPT !.pc = "done"]
    BY <1>6, StepSets DEF DropPort, Record, Goto
  <2> QED BY ZenonT(60), <1>1, <1>2, <2>1 DEF RemoveFrame, Cleans
<1>7. CASE DropPortFails(p)
  <2>1. g.pc = "dropPort"
    BY <1>7 DEF DropPortFails, At
  <2>2. rm'[p] = [g EXCEPT !.try = g.try + 1] \/ rm'[p] = [g EXCEPT !.pc = "record"]
    BY <1>7, StepSets DEF DropPortFails, Goto
  <2> QED BY <1>1, <1>2, <2>1, <2>2 DEF RemoveFrame, Cleans
<1> QED BY <1>2, <1>3, <1>4, <1>5, <1>6, <1>7 DEF Cleanup

-----------------------------------------------------------------------------
(* The last one out turns off the lights: an invariant over the clocks.    *)

\* A queue is known by its name.
NamesUnique == \A q, r \in queues : q.name = r.name => q = r

\* Before its queue is gone a frame has removed nothing.
Before(f) == f.pc \in {"idle", "resolve", "info", "remove"} => f.outcome # "removed"

\* What a frame knows of the queue it is about to remove is true of it.
Fetched(f) ==
  f.pc = "remove" => \A q \in queues : q.name = f.queue => q.driver = f.driver /\ q.port = f.port

\* The sleeps that are still to come at each try.
TriesLeft == <<11, 9, 5, 0>>

\* Invocation p will still try to remove driver d when the spooler has let go
\* of it.
ClearsDriver(p, d) ==
  \/ rm[p].pc = "killed"
  \/ rm[p].pc = "countDriver" /\ held[d] <= wait[p] + TriesLeft[1] + TriesLeft[1]
  \/ /\ rm[p].pc = "dropDriver"
     /\ held[d] <= wait[p] + TriesLeft[rm[p].try] + (IF rm[p].fromStore THEN TriesLeft[1] ELSE 0)

\* And port x.
ClearsPort(p, x) ==
  \/ rm[p].pc = "killed"
  \/ rm[p].pc \in {"countDriver", "dropDriver", "countPort"} /\ held[x] <= wait[p] + TriesLeft[1]
  \/ rm[p].pc = "dropPort" /\ held[x] <= wait[p] + TriesLeft[rm[p].try]

\* Queues of driver d (of port x) were removed, and by nobody who keeps it.
DriverAbandoned(d) == TookFromDriver(d) # {} /\ \A p \in TookFromDriver(d) : ~rm[p].keepDriver
PortAbandoned(x) == TookFromPort(x) # {} /\ \A p \in TookFromPort(x) : ~rm[p].keepPort

\* Of those who took a queue from a driver that is now unused, one has yet to
\* come to its last try, and comes to it late enough.
DriverCared(d) ==
  DriverAbandoned(d) /\ d \in registered /\ ~DriverInUse(d)
    => \E p \in TookFromDriver(d) : ClearsDriver(p, d)

PortCared(x) ==
  PortAbandoned(x) /\ x \in ports /\ ~PortInUse(x)
    => \E p \in TookFromPort(x) : ClearsPort(p, x)

LightsIInv ==
  /\ IInv
  /\ NamesUnique
  /\ \A p \in Proc : Before(rm[p]) /\ Fetched(rm[p])
  /\ \A d \in Driver \ SystemDriver : DriverCared(d)
  /\ \A x \in ManagedPort : PortCared(x)

\* The schedule is as long as it says: a failed try sleeps the delay of the next.
LEMMA TriesSum ==
  /\ TriesLeft[1] = 11 /\ TriesLeft[4] = 0
  /\ \A k \in Tries : TriesLeft[k] \in Nat
  /\ \A k \in Tries : k < Len(RetryDelay) => TriesLeft[k] = RetryDelay[k + 1] + TriesLeft[k + 1]
  /\ \A k \in Tries : k >= Len(RetryDelay) => k = 4
  /\ Len(RetryDelay) = 4
  /\ \A k \in Tries : k < Len(RetryDelay) => k + 1 \in Tries /\ RetryDelay[k + 1] \in Nat
  /\ RetryDelay[1] = 0
  BY DEF TriesLeft, Tries, RetryDelay

\* What a step after the removal of the queue, or a kill, does to its frame: the
\* frame remembers what it took, and whatever it has yet to clear up it has yet
\* to clear up, or it is no longer there or in use.
LEMMA StillClears ==
  ASSUME IInv, ~CanFail("query"), ~CanFail("change"), NEW p \in Proc, Cleanup(p) \/ Kill(p),
         rm[p].outcome = "removed"
  PROVE  /\ \A d \in Driver \ SystemDriver :
              rm[p].driver = d /\ ClearsDriver(p, d) /\ ~DriverInUse(d)
                => ClearsDriver(p, d)' \/ d \notin registered' \/ d \notin registered
         /\ \A x \in ManagedPort :
              rm[p].port = x /\ ~rm[p].keepPort /\ ClearsPort(p, x) /\ ~PortInUse(x)
                => ClearsPort(p, x)' \/ x \notin ports' \/ x \notin ports
<1> DEFINE f == rm[p]
<1> USE TriesSum
<1>1. f \in RemoveFrame /\ wait[p] \in Nat /\ f.try \in Tries
  BY FrameType DEF IInv, TypeOK, RemoveFrame
<1>2. held \in [Driver \cup Port -> Nat]
  BY DEF IInv, TypeOK, PrintTypeOK
<1>3. ASSUME NEW upd, NEW n \in Nat, Step(p, upd, n) PROVE rm'[p] = upd /\ wait'[p] = n
  BY <1>3 DEF Step, IInv, TypeOK
<1>4. CASE Kill(p)
  <2>1. rm'[p] = [f EXCEPT !.pc = "killed"]
    BY <1>3, <1>4 DEF Kill, Goto
  <2>2. rm'[p].pc = "killed"
    BY <1>1, <2>1 DEF RemoveFrame
  <2> QED BY <2>2 DEF ClearsDriver, ClearsPort
<1>5. CASE KeepDriver(p)
  <2>1. /\ f.pc = "countDriver" /\ wait[p] = 0 /\ UNCHANGED held
        /\ f.driver \in SystemDriver \/ DriverInUse(f.driver)
    BY <1>5 DEF KeepDriver, At, printVars
  <2>2. rm'[p] = [f EXCEPT !.pc = "countPort"] /\ wait'[p] = 0
    BY <1>3, <1>5 DEF KeepDriver, Goto
  <2>3. rm'[p].pc = "countPort"
    BY <1>1, <2>2 DEF RemoveFrame
  <2> QED BY <1>2, <2>1, <2>2, <2>3 DEF ClearsDriver, ClearsPort
<1>6. CASE DriverOrphaned(p)
  <2>1. f.pc = "countDriver" /\ wait[p] = 0 /\ UNCHANGED held
    BY <1>6 DEF DriverOrphaned, At, printVars
  <2>2. rm'[p] = [f EXCEPT !.pc = "dropDriver", !.fromStore = TRUE, !.try = 1] /\ wait'[p] = 0
    BY <1>3, <1>6 DEF DriverOrphaned, Goto
  <2>3. rm'[p].pc = "dropDriver" /\ rm'[p].fromStore = TRUE /\ rm'[p].try = 1
    BY <1>1, <2>2 DEF RemoveFrame
  <2> QED BY <1>2, <2>1, <2>2, <2>3 DEF ClearsDriver, ClearsPort
<1>7. CASE DropDriver(p)
  <2>1. /\ f.pc = "dropDriver" /\ wait[p] = 0 /\ UNCHANGED held
        /\ f.driver \in Driver => f.driver \notin registered'
    BY <1>7 DEF DropDriver, At, DeletePackage, UnregisterDriver, Siblings
  <2>2. rm'[p] = [f EXCEPT !.pc = "countPort", !.driverRemoved = TRUE] /\ wait'[p] = 0
    BY <1>3, <1>7 DEF DropDriver, Goto
  <2>3. rm'[p].pc = "countPort"
    BY <1>1, <2>2 DEF RemoveFrame
  <2> QED BY <1>2, <2>1, <2>2, <2>3 DEF ClearsDriver, ClearsPort
<1>8. CASE DropDriverFails(p)
  <2>1. /\ f.pc = "dropDriver" /\ wait[p] = 0 /\ UNCHANGED held
        /\ ~f.fromStore => ~DriverFree(f.driver)
    BY <1>8 DEF DropDriverFails, At, printVars
  <2>2. CASE /\ f.try < Len(RetryDelay)
             /\ Step(p, [f EXCEPT !.try = f.try + 1], RetryDelay[f.try + 1])
    <3>1. rm'[p] = [f EXCEPT !.try = f.try + 1] /\ wait'[p] = RetryDelay[f.try + 1]
      BY <1>1, <1>3, <2>2
    <3>2. rm'[p].pc = "dropDriver" /\ rm'[p].try = f.try + 1 /\ rm'[p].fromStore = f.fromStore
      BY <1>1, <2>1, <3>1 DEF RemoveFrame
    <3> QED BY <1>1, <1>2, <2>1, <2>2, <3>1, <3>2 DEF ClearsDriver, ClearsPort
  <2>3. CASE /\ f.try = Len(RetryDelay) /\ f.fromStore
             /\ Step(p, [f EXCEPT !.fromStore = FALSE, !.try = 1], RetryDelay[1])
    <3>1. rm'[p] = [f EXCEPT !.fromStore = FALSE, !.try = 1] /\ wait'[p] = 0
      BY <1>3, <2>3
    <3>2. rm'[p].pc = "dropDriver" /\ rm'[p].try = 1 /\ rm'[p].fromStore = FALSE
      BY <1>1, <2>1, <3>1 DEF RemoveFrame
    <3> QED BY <1>1, <1>2, <2>1, <2>3, <3>1, <3>2 DEF ClearsDriver, ClearsPort
  <2>4. CASE /\ f.try = Len(RetryDelay) /\ ~f.fromStore
             /\ Goto(p, [f EXCEPT !.pc = "countPort"])
    <3>1. rm'[p] = [f EXCEPT !.pc = "countPort"] /\ wait'[p] = 0
      BY <1>3, <2>4 DEF Goto
    <3>2. rm'[p].pc = "countPort"
      BY <1>1, <3>1 DEF RemoveFrame
    <3>3. ASSUME NEW d \in Driver, f.driver = d, ClearsDriver(p, d), ~DriverInUse(d)
          PROVE  d \notin registered
      BY <1>2, <2>1, <2>4, <3>3 DEF ClearsDriver, DriverFree
    <3> QED BY <1>2, <2>1, <3>1, <3>2, <3>3 DEF ClearsPort
  <2> QED BY <1>8, <2>2, <2>3, <2>4 DEF DropDriverFails
<1>9. CASE KeepPort(p) \/ DropPort(p)
  <2>1. /\ f.pc \in {"countPort", "dropPort"}
        /\ f.port \in ManagedPort /\ ~f.keepPort => PortInUse(f.port) \/ f.port \notin ports'
    BY <1>9 DEF KeepPort, DropPort, At, DeletePort
  <2> QED BY <2>1 DEF ClearsDriver
<1>10. CASE PortOrphaned(p)
  <2>1. f.pc = "countPort" /\ wait[p] = 0 /\ UNCHANGED held
    BY <1>10 DEF PortOrphaned, At, printVars
  <2>2. rm'[p] = [f EXCEPT !.pc = "dropPort", !.try = 1] /\ wait'[p] = 0
    BY <1>3, <1>10 DEF PortOrphaned, Goto
  <2>3. rm'[p].pc = "dropPort" /\ rm'[p].try = 1
    BY <1>1, <2>2 DEF RemoveFrame
  <2> QED BY <1>2, <2>1, <2>2, <2>3 DEF ClearsDriver, ClearsPort
<1>11. CASE DropPortFails(p)
  <2>1. f.pc = "dropPort" /\ wait[p] = 0 /\ UNCHANGED held /\ ~PortFree(f.port)
    BY <1>11 DEF DropPortFails, At, printVars
  <2>2. CASE f.try < Len(RetryDelay)
    <3>1. rm'[p] = [f EXCEPT !.try = f.try + 1] /\ wait'[p] = RetryDelay[f.try + 1]
      BY <1>1, <1>3, <1>11, <2>2 DEF DropPortFails
    <3>2. rm'[p].pc = "dropPort" /\ rm'[p].try = f.try + 1
      BY <1>1, <2>1, <3>1 DEF RemoveFrame
    <3> QED BY <1>1, <1>2, <2>1, <2>2, <3>1, <3>2 DEF ClearsDriver, ClearsPort
  <2>3. CASE ~(f.try < Len(RetryDelay))
    <3>1. f.try = 4
      BY <1>1, <2>3 DEF Tries
    <3>2. ASSUME NEW x \in ManagedPort, f.port = x, ClearsPort(p, x), ~PortInUse(x)
          PROVE  x \notin ports
      BY <1>2, <2>1, <3>1, <3>2 DEF ClearsPort, PortFree
    <3> QED BY <2>1, <3>2 DEF ClearsDriver
  <2> QED BY <2>2, <2>3
<1>12. CASE Record(p)
  <2>1. f.pc = "record"
    BY <1>12 DEF Record, At
  <2> QED BY <2>1 DEF ClearsDriver, ClearsPort
<1> QED BY <1>4, <1>5, <1>6, <1>7, <1>8, <1>9, <1>10, <1>11, <1>12 DEF Cleanup

\* A step of p after which p has taken what it had taken before, on the same
\* queues.
LEMMA CaredStep ==
  ASSUME LightsIInv, IInv', NEW p \in Proc, UNCHANGED <<queues, held>>,
         registered' \subseteq registered, ports' \subseteq ports,
         \A r \in Proc \ {p} : rm'[r] = rm[r] /\ wait'[r] = wait[r],
         Before(rm'[p]), Fetched(rm[p])',
         rm'[p].outcome = "removed" <=> rm[p].outcome = "removed",
         rm[p].outcome = "removed" =>
           /\ rm'[p].driver = rm[p].driver /\ rm'[p].keepDriver = rm[p].keepDriver
           /\ rm'[p].port = rm[p].port /\ rm'[p].keepPort = rm[p].keepPort
           /\ \A d \in Driver \ SystemDriver :
                rm[p].driver = d /\ ClearsDriver(p, d) /\ ~DriverInUse(d)
                  => ClearsDriver(p, d)' \/ d \notin registered' \/ d \notin registered
           /\ \A x \in ManagedPort :
                rm[p].port = x /\ ~rm[p].keepPort /\ ClearsPort(p, x) /\ ~PortInUse(x)
                  => ClearsPort(p, x)' \/ x \notin ports' \/ x \notin ports
  PROVE  LightsIInv'
<1>1. NamesUnique' /\ \A r \in Proc : (Before(rm[r]) /\ Fetched(rm[r]))'
  BY DEF LightsIInv, NamesUnique, Before, Fetched
<1>2. ASSUME NEW r \in Proc \ {p}
      PROVE  (\A d : ClearsDriver(r, d)' <=> ClearsDriver(r, d))
             /\ (\A x : ClearsPort(r, x)' <=> ClearsPort(r, x))
  BY <1>2 DEF ClearsDriver, ClearsPort
<1>3. ASSUME NEW d \in Driver \ SystemDriver PROVE DriverCared(d)'
  <2> SUFFICES ASSUME DriverAbandoned(d)', d \in registered', ~DriverInUse(d)'
               PROVE  \E r \in TookFromDriver(d)' : ClearsDriver(r, d)'
    BY DEF DriverCared
  <2>1. TookFromDriver(d)' = TookFromDriver(d)
    BY DEF TookFromDriver
  <2>2. DriverAbandoned(d) /\ d \in registered /\ ~DriverInUse(d)
    BY <2>1 DEF DriverAbandoned, DriverInUse, TookFromDriver
  <2>3. PICK r \in TookFromDriver(d) : ClearsDriver(r, d)
    BY <2>2 DEF LightsIInv, DriverCared
  <2>4. CASE r = p
    BY <2>1, <2>2, <2>3, <2>4 DEF TookFromDriver
  <2>5. CASE r # p
    BY <1>2, <2>1, <2>3, <2>5 DEF TookFromDriver
  <2> QED BY <2>4, <2>5
<1>4. ASSUME NEW x \in ManagedPort PROVE PortCared(x)'
  <2> SUFFICES ASSUME PortAbandoned(x)', x \in ports', ~PortInUse(x)'
               PROVE  \E r \in TookFromPort(x)' : ClearsPort(r, x)'
    BY DEF PortCared
  <2>1. TookFromPort(x)' = TookFromPort(x)
    BY DEF TookFromPort
  <2>2. PortAbandoned(x) /\ x \in ports /\ ~PortInUse(x)
    BY <2>1 DEF PortAbandoned, PortInUse, TookFromPort
  <2>3. PICK r \in TookFromPort(x) : ClearsPort(r, x)
    BY <2>2 DEF LightsIInv, PortCared
  <2>4. CASE r = p
    BY <2>1, <2>2, <2>3, <2>4 DEF TookFromPort, PortAbandoned
  <2>5. CASE r # p
    BY <1>2, <2>1, <2>3, <2>5 DEF TookFromPort
  <2> QED BY <2>4, <2>5
<1> QED BY <1>1, <1>3, <1>4 DEF LightsIInv

\* The steps before the queue is gone, and those that end without taking it.
Early(p) ==
  \/ Start(p) \/ ResolveAbsent(p) \/ ResolveFound(p) \/ FetchInfo(p) \/ FetchInfoFails(p)
  \/ RemovePrinterFails(p)

\* They take nothing.
LEMMA EarlyLights ==
  ASSUME LightsIInv, IInv', NEW p \in Proc, Early(p)
  PROVE  LightsIInv'
<1> DEFINE f == rm[p]
<1>1. f \in RemoveFrame /\ Before(f)
  BY FrameType DEF LightsIInv, IInv
<1>2. f.pc \in {"idle", "resolve", "info", "remove"} /\ UNCHANGED printVars
  BY DEF Early, Start, ResolveAbsent, ResolveFound, FetchInfo, FetchInfoFails,
     RemovePrinterFails, At
<1>3. /\ rm'[p].outcome # "removed"
      /\ rm'[p].pc = "remove"
           => \E q \in queues : q.name = rm'[p].queue /\ q.driver = rm'[p].driver /\ q.port = rm'[p].port
      /\ \A r \in Proc \ {p} : rm'[r] = rm[r] /\ wait'[r] = wait[r]
  <2>1. ASSUME NEW upd, Goto(p, upd)
        PROVE  rm'[p] = upd /\ \A r \in Proc \ {p} : rm'[r] = rm[r] /\ wait'[r] = wait[r]
    BY <2>1 DEF Goto, Step, LightsIInv, IInv, TypeOK
  <2>2. CASE Start(p)
    <3>1. PICK c \in Calls : BeginRemove(p, c)
      BY <2>2 DEF Start
    <3>2. rm'[p] = [IdleFrame EXCEPT !.pc = "resolve", !.target = c.target,
                           !.keepDriver = c.keepDriver, !.keepPort = c.keepPort]
      BY <2>1, <3>1 DEF BeginRemove
    <3>3. rm'[p].pc = "resolve" /\ rm'[p].outcome = "none"
      BY <3>2 DEF IdleFrame
    <3> QED BY <2>1, <3>1, <3>3 DEF BeginRemove
  <2>3. CASE ResolveAbsent(p)
    <3>1. Goto(p, [f EXCEPT !.pc = "done", !.outcome = "absent"])
      BY <2>3 DEF ResolveAbsent
    <3>2. rm'[p] = [f EXCEPT !.pc = "done", !.outcome = "absent"]
      BY <2>1, <3>1
    <3>3. rm'[p].pc = "done" /\ rm'[p].outcome = "absent"
      BY <1>1, <3>2 DEF RemoveFrame
    <3> QED BY <2>1, <3>1, <3>3
  <2>4. CASE FetchInfoFails(p) \/ RemovePrinterFails(p)
    <3>1. Goto(p, [f EXCEPT !.pc = "done", !.outcome = "error"])
      BY <2>4 DEF FetchInfoFails, RemovePrinterFails
    <3>2. rm'[p] = [f EXCEPT !.pc = "done", !.outcome = "error"]
      BY <2>1, <3>1
    <3>3. rm'[p].pc = "done" /\ rm'[p].outcome = "error"
      BY <1>1, <3>2 DEF RemoveFrame
    <3> QED BY <2>1, <3>1, <3>3
  <2>5. CASE ResolveFound(p)
    <3>1. PICK q \in queues : Goto(p, [f EXCEPT !.pc = "info", !.queue = q.name])
      BY <2>5 DEF ResolveFound
    <3>2. rm'[p] = [f EXCEPT !.pc = "info", !.queue = q.name]
      BY <2>1, <3>1
    <3>3. rm'[p].pc = "info" /\ rm'[p].outcome = f.outcome
      BY <1>1, <3>2 DEF RemoveFrame
    <3> QED BY <1>1, <1>2, <2>1, <3>1, <3>3 DEF Before
  <2>6. CASE FetchInfo(p)
    <3>1. PICK q \in queues :
             /\ q.name = f.queue
             /\ Goto(p, [f EXCEPT !.pc = "remove", !.driver = q.driver, !.port = q.port])
      BY <2>6 DEF FetchInfo
    <3>2. rm'[p] = [f EXCEPT !.pc = "remove", !.driver = q.driver, !.port = q.port]
      BY <2>1, <3>1
    <3>3. /\ rm'[p].pc = "remove" /\ rm'[p].outcome = f.outcome /\ rm'[p].queue = f.queue
          /\ rm'[p].driver = q.driver /\ rm'[p].port = q.port
      BY <1>1, <3>2 DEF RemoveFrame
    <3> QED BY <1>1, <1>2, <2>1, <3>1, <3>3 DEF Before
  <2> QED BY <2>2, <2>3, <2>4, <2>5, <2>6 DEF Early
<1>4. Fetched(rm[p])'
  <2>1. \A q, r \in queues : q.name = r.name => q = r
    BY DEF LightsIInv, NamesUnique
  <2> QED BY <1>2, <1>3, <2>1 DEF Fetched, printVars
<1>5. f.outcome # "removed"
  BY <1>1, <1>2 DEF Before
<1> QED BY <1>2, <1>3, <1>4, <1>5, CaredStep DEF Before, printVars

\* The cleanup: where no command fails for reasons of its own, whoever was to
\* clear something up still is, or has, or is killed.
LEMMA CleanupLights ==
  ASSUME LightsIInv, IInv', ~CanFail("query"), ~CanFail("change"),
         NEW p \in Proc, Cleanup(p) \/ Kill(p)
  PROVE  LightsIInv'
<1> DEFINE f == rm[p]
           g == rm'[p]
<1>1. IInv /\ f \in RemoveFrame
  BY FrameType DEF LightsIInv, IInv
<1>2. /\ g.outcome = f.outcome /\ g.driver = f.driver /\ g.port = f.port
      /\ g.keepDriver = f.keepDriver /\ g.keepPort = f.keepPort
      /\ g.pc \notin {"idle", "resolve", "info", "remove"}
  <2>1. CASE Cleanup(p)
    BY <1>1, <2>1, CleanupCleans DEF Cleans
  <2>2. CASE Kill(p)
    <3>1. g = [f EXCEPT !.pc = "killed"]
      BY <1>1, <2>2 DEF Kill, Goto, Step, IInv, TypeOK
    <3> QED BY <1>1, <3>1 DEF RemoveFrame
  <2> QED BY <2>1, <2>2
<1>3. /\ UNCHANGED <<queues, held>> /\ registered' \subseteq registered /\ ports' \subseteq ports
      /\ \A r \in Proc \ {p} : rm'[r] = rm[r] /\ wait'[r] = wait[r]
  <2>1. PICK upd, d : Step(p, upd, d)
    BY DEF Cleanup, KeepDriver, DriverOrphaned, DropDriver, DropDriverFails, KeepPort,
       PortOrphaned, DropPort, DropPortFails, Record, Kill, Goto
  <2>2. /\ UNCHANGED <<queues, held>> /\ registered' \subseteq registered /\ ports' \subseteq ports
    BY DEF Cleanup, KeepDriver, DriverOrphaned, DropDriver, DropDriverFails, KeepPort,
       PortOrphaned, DropPort, DropPortFails, Record, Kill, printVars, DeletePackage,
       UnregisterDriver, DeletePort
  <2> QED BY <1>1, <2>1, <2>2 DEF Step, IInv, TypeOK
<1>4. Before(rm'[p]) /\ Fetched(rm[p])'
  BY <1>2 DEF Before, Fetched
<1> QED BY <1>1, <1>2, <1>3, <1>4, StillClears, CaredStep

\* Remove-Printer: whoever takes the queue clears up, and no reference outlives
\* the settle sleep and one schedule.
LEMMA RemovePrinterLights ==
  ASSUME LightsIInv, IInv', \A l \in Lag : l <= SettleDelay + TriesLeft[1],
         NEW p \in Proc, RemovePrinter(p)
  PROVE  LightsIInv'
<1> DEFINE f == rm[p]
           g == rm'[p]
<1> USE TriesSum DEF SettleDelay
<1>1. IInv /\ f \in RemoveFrame /\ f.pc = "remove" /\ Knows(f) /\ Fetched(f) /\ Before(f)
  BY FrameType DEF LightsIInv, IInv, RemovePrinter, At
<1>2. PICK q \in queues : q.name = f.queue /\ RemoveQueue(q)
  BY DEF RemovePrinter
<1>3. q.driver = f.driver /\ q.port = f.port /\ f.driver \in Driver /\ f.port \in Port
  BY <1>1, <1>2 DEF Fetched, Knows
<1>4. /\ g = [f EXCEPT !.pc = AfterQueue(f), !.outcome = "removed"]
      /\ wait'[p] = IF f.keepDriver /\ f.keepPort THEN 0 ELSE SettleDelay
      /\ \A r \in Proc \ {p} : rm'[r] = rm[r] /\ wait'[r] = wait[r]
  BY <1>1 DEF RemovePrinter, Step, IInv, TypeOK
<1>5. /\ g.pc = AfterQueue(f) /\ g.outcome = "removed" /\ g.driver = f.driver /\ g.port = f.port
      /\ g.keepDriver = f.keepDriver /\ g.keepPort = f.keepPort
  BY <1>1, <1>4 DEF RemoveFrame
<1>6. PICK l \in Lag, m \in Lag : held' = [held EXCEPT ![q.driver] = l, ![q.port] = m]
  BY <1>2 DEF RemoveQueue
<1>7. /\ held'[f.driver] <= 12 /\ held'[f.port] <= 12
      /\ held'[f.driver] \in Nat /\ held'[f.port] \in Nat
      /\ \A y \in Driver \cup Port : y # f.driver /\ y # f.port => held'[y] = held[y]
  BY <1>1, <1>3, <1>6 DEF IInv, TypeOK, PrintTypeOK
<1>8. queues' = queues \ {q} /\ UNCHANGED <<registered, ports>>
  BY <1>2 DEF RemoveQueue
<1>9. NamesUnique' /\ \A r \in Proc : (Before(rm[r]) /\ Fetched(rm[r]))'
  <2>1. NamesUnique'
    BY <1>8 DEF LightsIInv, NamesUnique
  <2>2. g.pc # "remove" /\ Before(g)
    BY <1>5 DEF Before, AfterQueue
  <2>3. ASSUME NEW r \in Proc \ {p} PROVE (Before(rm[r]) /\ Fetched(rm[r]))'
    <3>1. Before(rm[r]) /\ Fetched(rm[r]) /\ rm'[r] = rm[r]
      BY <1>4 DEF LightsIInv
    <3> QED BY <1>8, <3>1 DEF Before, Fetched
  <2> QED BY <2>1, <2>2, <2>3 DEF Before, Fetched
<1>10. ASSUME NEW d \in Driver \ SystemDriver PROVE DriverCared(d)'
  <2> SUFFICES ASSUME DriverAbandoned(d)', d \in registered', ~DriverInUse(d)'
               PROVE  \E r \in TookFromDriver(d)' : ClearsDriver(r, d)'
    BY DEF DriverCared
  <2>1. CASE d = f.driver
    <3>1. p \in TookFromDriver(d)'
      BY <1>5, <2>1 DEF TookFromDriver
    <3>2. ~f.keepDriver
      BY <1>5, <3>1 DEF DriverAbandoned
    <3>3. ClearsDriver(p, d)'
      BY <1>4, <1>5, <1>7, <2>1, <3>2 DEF ClearsDriver, AfterQueue
    <3> QED BY <3>1, <3>3
  <2>2. CASE d # f.driver
    <3>1. f.outcome # "removed"
      BY <1>1 DEF Before
    <3>2. TookFromDriver(d)' = TookFromDriver(d) /\ p \notin TookFromDriver(d)
      <4>1. \A r \in Proc : rm'[r].outcome = "removed" /\ rm'[r].driver = d
                               <=> rm[r].outcome = "removed" /\ rm[r].driver = d
        BY <1>4, <1>5, <2>2, <3>1
      <4> QED BY <3>1, <4>1 DEF TookFromDriver
    <3>3. \A r \in TookFromDriver(d) : r \in Proc /\ r # p /\ rm'[r] = rm[r] /\ wait'[r] = wait[r]
      BY <1>4, <3>2 DEF TookFromDriver
    <3>4. DriverAbandoned(d)
      BY <3>2, <3>3 DEF DriverAbandoned
    <3>5. ~DriverInUse(d)
      BY <1>3, <1>8, <2>2 DEF DriverInUse
    <3>6. PICK r \in TookFromDriver(d) : ClearsDriver(r, d)
      BY <1>8, <3>4, <3>5 DEF LightsIInv, DriverCared
    <3>7. held'[d] = held[d]
      BY <1>3, <1>7, <2>2
    <3>8. ClearsDriver(r, d)'
      BY <3>3, <3>6, <3>7 DEF ClearsDriver
    <3> QED BY <3>2, <3>8
  <2> QED BY <2>1, <2>2
<1>11. ASSUME NEW x \in ManagedPort PROVE PortCared(x)'
  <2> SUFFICES ASSUME PortAbandoned(x)', x \in ports', ~PortInUse(x)'
               PROVE  \E r \in TookFromPort(x)' : ClearsPort(r, x)'
    BY DEF PortCared
  <2>1. CASE x = f.port
    <3>1. p \in TookFromPort(x)'
      BY <1>5, <2>1 DEF TookFromPort
    <3>2. ~f.keepPort
      BY <1>5, <3>1 DEF PortAbandoned
    <3>3. ClearsPort(p, x)'
      BY <1>4, <1>5, <1>7, <2>1, <3>2 DEF ClearsPort, AfterQueue
    <3> QED BY <3>1, <3>3
  <2>2. CASE x # f.port
    <3>1. f.outcome # "removed"
      BY <1>1 DEF Before
    <3>2. TookFromPort(x)' = TookFromPort(x) /\ p \notin TookFromPort(x)
      <4>1. \A r \in Proc : rm'[r].outcome = "removed" /\ rm'[r].port = x
                               <=> rm[r].outcome = "removed" /\ rm[r].port = x
        BY <1>4, <1>5, <2>2, <3>1
      <4> QED BY <3>1, <4>1 DEF TookFromPort
    <3>3. \A r \in TookFromPort(x) : r \in Proc /\ r # p /\ rm'[r] = rm[r] /\ wait'[r] = wait[r]
      BY <1>4, <3>2 DEF TookFromPort
    <3>4. PortAbandoned(x)
      BY <3>2, <3>3 DEF PortAbandoned
    <3>5. ~PortInUse(x)
      BY <1>3, <1>8, <2>2 DEF PortInUse
    <3>6. PICK r \in TookFromPort(x) : ClearsPort(r, x)
      BY <1>8, <3>4, <3>5 DEF LightsIInv, PortCared
    <3>7. held'[x] = held[x]
      BY <1>3, <1>7, <2>2
    <3>8. ClearsPort(r, x)'
      BY <3>3, <3>6, <3>7 DEF ClearsPort
    <3> QED BY <3>2, <3>8
  <2> QED BY <2>1, <2>2
<1> QED BY <1>9, <1>10, <1>11 DEF LightsIInv

\* Half a second: the sleeps and the spooler's references run down together.
LEMMA TickLights ==
  ASSUME LightsIInv, IInv', Tick
  PROVE  LightsIInv'
<1> USE TriesSum
<1>1. \A r \in Proc : wait[r] \in Nat /\ wait'[r] = Down(wait[r]) /\ rm[r].try \in Tries
  BY FrameType DEF Tick, LightsIInv, IInv, TypeOK, RemoveFrame
<1>2. \A y \in Driver \cup Port : held[y] \in Nat /\ held'[y] = Down(held[y])
  BY DEF Tick, LightsIInv, IInv, TypeOK, PrintTypeOK
<1>3. UNCHANGED <<queues, registered, ports, rm>>
  BY DEF Tick
<1>4. NamesUnique' /\ \A r \in Proc : (Before(rm[r]) /\ Fetched(rm[r]))'
  BY <1>3 DEF LightsIInv, NamesUnique, Before, Fetched
<1>5. \A m, n, k \in Nat : m <= n + k => Down(m) <= Down(n) + k
  BY DEF Down
<1>6. ASSUME NEW r \in Proc, NEW d \in Driver, ClearsDriver(r, d) PROVE ClearsDriver(r, d)'
  <2>1. CASE rm[r].pc = "killed"
    BY <1>3, <2>1 DEF ClearsDriver
  <2>2. CASE rm[r].pc = "countDriver" /\ held[d] <= wait[r] + TriesLeft[1] + TriesLeft[1]
    BY <1>1, <1>2, <1>3, <2>2 DEF ClearsDriver, Down
  <2>3. CASE /\ rm[r].pc = "dropDriver"
             /\ held[d] <= wait[r] + TriesLeft[rm[r].try] + (IF rm[r].fromStore THEN TriesLeft[1] ELSE 0)
    <3> DEFINE k == TriesLeft[rm[r].try] + (IF rm[r].fromStore THEN TriesLeft[1] ELSE 0)
    <3>1. k \in Nat /\ held[d] <= wait[r] + k
      BY <1>1, <1>2, <2>3
    <3>2. held'[d] <= wait'[r] + k
      BY <1>1, <1>2, <1>5, <3>1
    <3>3. rm'[r].pc = "dropDriver" /\ rm'[r].try = rm[r].try /\ rm'[r].fromStore = rm[r].fromStore
      BY <1>3, <2>3
    <3>4. held'[d] <= wait'[r] + TriesLeft[rm'[r].try]
                        + (IF rm'[r].fromStore THEN TriesLeft[1] ELSE 0)
      BY <1>1, <1>2, <3>2, <3>3, DownType
    <3> QED BY <3>3, <3>4 DEF ClearsDriver
  <2> QED BY <1>6, <2>1, <2>2, <2>3 DEF ClearsDriver
<1>7. ASSUME NEW r \in Proc, NEW x \in Port, ClearsPort(r, x) PROVE ClearsPort(r, x)'
  <2>1. CASE rm[r].pc = "killed"
    BY <1>3, <2>1 DEF ClearsPort
  <2>2. CASE rm[r].pc \in {"countDriver", "dropDriver", "countPort"} /\ held[x] <= wait[r] + TriesLeft[1]
    BY <1>1, <1>2, <1>3, <1>5, <2>2 DEF ClearsPort
  <2>3. CASE rm[r].pc = "dropPort" /\ held[x] <= wait[r] + TriesLeft[rm[r].try]
    BY <1>1, <1>2, <1>3, <1>5, <2>3 DEF ClearsPort
  <2> QED BY <1>7, <2>1, <2>2, <2>3 DEF ClearsPort
<1>8. ASSUME NEW d \in Driver \ SystemDriver PROVE DriverCared(d)'
  BY <1>3, <1>6 DEF LightsIInv, DriverCared, DriverAbandoned, TookFromDriver, DriverInUse
<1>9. ASSUME NEW x \in ManagedPort PROVE PortCared(x)'
  BY <1>3, <1>7, PortAssumption DEF LightsIInv, PortCared, PortAbandoned, TookFromPort, PortInUse
<1> QED BY <1>4, <1>8, <1>9 DEF LightsIInv

\* No queue is added under the name of a queue that is about to be removed.
NoNameReused ==
  \A q \in queues' \ queues : \A p \in Proc : rm[p].pc = "remove" => q.name # rm[p].queue

\* A queue more only brings a driver and a port into use.
LEMMA AdminLights ==
  ASSUME LightsIInv, IInv', AdminAdds, NoNameReused
  PROVE  LightsIInv'
<1>1. PICK n, d, x : AddQueue(n, d, x)
  BY DEF AdminAdds
<1>2. UNCHANGED <<registered, ports, held, rm, wait>> /\ queues \subseteq queues'
  BY <1>1 DEF AdminAdds, AddQueue
<1>3. NamesUnique'
  BY <1>1 DEF AddQueue, Exists, LightsIInv, NamesUnique
<1>4. \A p \in Proc : (Before(rm[p]) /\ Fetched(rm[p]))'
  BY <1>2 DEF LightsIInv, Before, Fetched, NoNameReused
<1>5. \A e \in Driver \ SystemDriver : DriverCared(e)'
  BY <1>2 DEF LightsIInv, DriverCared, DriverAbandoned, TookFromDriver, ClearsDriver, DriverInUse
<1>6. \A y \in ManagedPort : PortCared(y)'
  BY <1>2 DEF LightsIInv, PortCared, PortAbandoned, TookFromPort, ClearsPort, PortInUse
<1> QED BY <1>3, <1>4, <1>5, <1>6 DEF LightsIInv

\* Nothing is lost over any step that reuses no name.
LEMMA NextLights ==
  ASSUME ~CanFail("query"), ~CanFail("change"), \A l \in Lag : l <= SettleDelay + TriesLeft[1]
  PROVE  LightsIInv /\ [Next /\ NoNameReused]_removeVars => LightsIInv'
<1> SUFFICES ASSUME LightsIInv, [Next /\ NoNameReused]_removeVars PROVE LightsIInv'
  OBVIOUS
<1>1. IInv'
  BY NextInv DEF LightsIInv
<1>2. CASE UNCHANGED removeVars
  BY <1>1, <1>2 DEF removeVars, LightsIInv, NamesUnique, Before, Fetched, DriverCared, PortCared,
     DriverAbandoned, PortAbandoned, TookFromDriver, TookFromPort, ClearsDriver, ClearsPort,
     DriverInUse, PortInUse
<1>3. ASSUME NEW p \in Proc, Start(p) \/ RemoveStep(p) \/ Kill(p) PROVE LightsIInv'
  BY <1>1, <1>3, EarlyLights, RemovePrinterLights, CleanupLights DEF RemoveStep, Early, Cleanup
<1> QED BY <1>1, <1>2, <1>3, AdminLights, TickLights DEF Next

\* The last one out turns off the lights: any number of invocations and any
\* interleaving of their commands with each other, the spooler and an administrator.
\* The assumptions are the limits of the code: a command that fails for reasons of
\* its own leaves things behind, a spooler that holds on for longer than the settle
\* sleep and one schedule outlasts the retries, and a queue that an administrator
\* adds under the name that is about to be removed is taken for the one that was
\* looked at.
THEOREM LightsOut ==
  ASSUME ~CanFail("query"), ~CanFail("change"), \A l \in Lag : l <= SettleDelay + TriesLeft[1]
  PROVE  Init /\ [][Next /\ NoNameReused]_removeVars => [](AtRest => LightsOff)
<1>1. Init => LightsIInv
  BY InitInv DEF Init, PrintInit, LightsIInv, NamesUnique, Before, Fetched, DriverCared, PortCared,
     DriverAbandoned, PortAbandoned, TookFromDriver, TookFromPort, IdleFrame
<1>2. LightsIInv => (AtRest => LightsOff)
  <2> SUFFICES ASSUME LightsIInv, AtRest PROVE LightsOff
    OBVIOUS
  <2>1. \A p \in Proc : (\A d : ~ClearsDriver(p, d)) /\ (\A x : ~ClearsPort(p, x))
    BY DEF AtRest, ClearsDriver, ClearsPort
  <2> QED BY <2>1 DEF LightsIInv, LightsOff, DriverCared, PortCared, DriverAbandoned,
       PortAbandoned, TookFromDriver, TookFromPort
<1> QED BY <1>1, <1>2, NextLights, PTL

=============================================================================
