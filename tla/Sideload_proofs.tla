-------------------------- MODULE Sideload_proofs --------------------------
(***************************************************************************)
(* Theorems about `driver add` and `add --usb`, for any number of          *)
(* invocations one after the other, any drivers, packs and directories and *)
(* whatever earlier downloads left behind.                                 *)
(***************************************************************************)
EXTENDS Sideload, TLAPS

-----------------------------------------------------------------------------
(* The inductive invariant behind the types.                               *)

UsbPc == {"look", "resolve", "bundle", "bundleStage", "need", "after", "checkDriver",
          "addDriver", "setQueue", "record", "whole", "poll", "port", "addQueue"}

\* Where a command that works on a driver of its own has one.
DrivenPc == {"download", "unpack", "gate", "infs", "register"} \cup (UsbPc \ {"look", "resolve"})

\* What a frame knows where.
Knows(f) ==
  /\ f.pc # "idle" => f.call \in SideCalls
  /\ f.pc \in UsbPc => f.call.kind = "usb"
  /\ f.pc \in {"open", "folder", "infs", "download", "unpack", "gate"}
       => (f.call.kind \in {"file", "model", "usb"} \/ f.call.at \in Dir)
  /\ f.pc = "open" => f.call.kind \in {"folder", "file"}
  /\ f.pc \in {"download", "unpack"} => f.call.kind \in {"url", "model", "usb"}
  /\ f.pc = "folder" => f.call.kind \in {"folder", "url"}
  /\ f.pc = "infs" => f.call.kind \in {"file", "model", "usb"}
  /\ f.pc \in {"pick", "register"} => f.call.kind = "model"
  /\ f.pc \in DrivenPc /\ f.call.kind \in {"model", "usb"} => f.driver \in Driver
  /\ f.pc = "download" /\ f.call.kind # "url" => f.driver \in DOMAIN Release
  /\ f.pc = "unpack" => f.pack \in Package
  /\ f.pc = "bundleStage" => f.pick \in Driver

GoodSide(f) == f \in SideFrame /\ Knows(f)

SideIInv == SideTypeOK /\ \A p \in Proc : Knows(sl[p])

\* Every invocation has a frame of the right type that knows what it needs.
LEMMA SideGood ==
  ASSUME SideIInv, NEW p \in Proc
  PROVE  GoodSide(sl[p])
  BY DEF SideIInv, SideTypeOK, GoodSide

\* A step to a good frame on a machine and a disk of the right types.
LEMMA SideStepInv ==
  ASSUME SideIInv, NEW p \in Proc, NEW upd, GoodSide(upd), Step(p, upd),
         PrintTypeOK', files' \in [Dir -> SUBSET File],
         history' \subseteq [model: Queue, driver: Driver, source: {"usb_update"}]
  PROVE  SideIInv'
<1>1. sl' \in [Proc -> SideFrame]
  BY DEF Step, SideIInv, SideTypeOK, GoodSide
<1>2. \A r \in Proc : sl'[r] = IF r = p THEN upd ELSE sl[r]
  BY DEF Step, SideIInv, SideTypeOK
<1>3. \A r \in Proc : Knows(sl'[r])
  BY <1>2 DEF SideIInv, GoodSide
<1>4. \A r \in Proc : Knows(sl'[r]) <=> Knows(sl[r])'
  BY DEF Knows
<1> QED BY <1>1, <1>3, <1>4 DEF SideIInv, SideTypeOK

\* A step that changes nothing on the machine.
LEMMA QuietlyInv ==
  ASSUME SideIInv, NEW p \in Proc, NEW upd, GoodSide(upd), Quietly(p, upd)
  PROVE  SideIInv'
  BY SideStepInv DEF Quietly, SideIInv, SideTypeOK, PrintTypeOK, printVars

\* One field of a frame is set.
LEMMA SetPc == \A f \in SideFrame, pc \in SidePc : [f EXCEPT !.pc = pc] \in SideFrame
  BY DEF SideFrame

\* So is the outcome,
LEMMA SetOutcome ==
  \A f \in SideFrame, o \in {"ok", "error", "refused"} : [f EXCEPT !.outcome = o] \in SideFrame
  BY DEF SideFrame

\* the driver,
LEMMA SetDriver == \A f \in SideFrame, d \in Driver : [f EXCEPT !.driver = d] \in SideFrame
  BY DEF SideFrame

\* and the number of looks.
LEMMA SetTries == \A f \in SideFrame, n \in 0..Polls : [f EXCEPT !.tries = n] \in SideFrame
  BY DEF SideFrame

\* The bundle is forgotten.
LEMMA ResetPick == \A f \in SideFrame : [f EXCEPT !.pick = None, !.tries = 0] \in SideFrame
<1>1. 0 \in 0..Polls
  BY PollsAssumption
<1>2. \A f \in SideFrame : [f EXCEPT !.pick = None] \in SideFrame
  BY DEF SideFrame
<1> QED BY <1>1, <1>2, SetTries

\* The end of a command knows its command line and nothing else.
LEMMA EndGood ==
  ASSUME NEW f \in SideFrame, Knows(f), f.pc # "idle", NEW o \in {"ok", "error", "refused"}
  PROVE  GoodSide([f EXCEPT !.pc = "done", !.outcome = o])
<1> DEFINE upd == [f EXCEPT !.pc = "done", !.outcome = o]
<1>1. upd \in SideFrame
  <2>1. [f EXCEPT !.pc = "done"] \in SideFrame
    BY SetPc DEF SidePc
  <2> QED BY <2>1, SetOutcome
<1>2. upd.pc = "done" /\ upd.call = f.call
  BY DEF GoodSide, SideFrame
<1>3. Knows(upd)
  BY <1>2 DEF GoodSide, Knows, UsbPc, DrivenPc
<1> QED BY <1>1, <1>3 DEF GoodSide

\* The command is through.
LEMMA DoneInv ==
  ASSUME SideIInv, NEW p \in Proc, NEW o \in {"ok", "error", "refused"}, sl[p].pc # "idle",
         Done(p, o)
  PROVE  SideIInv'
<1> DEFINE upd == [sl[p] EXCEPT !.pc = "done", !.outcome = o]
<1>1. GoodSide(upd)
  BY SideGood, EndGood DEF GoodSide
<1>2. Quietly(p, upd)
  BY DEF Done
<1> HIDE DEF upd
<1> QED BY <1>1, <1>2, QuietlyInv

\* The command goes on somewhere else.
LEMMA ToInv ==
  ASSUME SideIInv, NEW p \in Proc, NEW pc, GoodSide([sl[p] EXCEPT !.pc = pc]), To(p, pc)
  PROVE  SideIInv'
  BY QuietlyInv DEF To

\* The directory an invocation reads is one.
LEMMA DirNowDir ==
  ASSUME SideIInv, NEW p \in Proc,
         sl[p].pc \in {"open", "folder", "infs", "download", "unpack", "gate"},
         sl[p].call.kind # "file"
  PROVE  DirNow(p) \in Dir /\ Here(p) \subseteq File
<1>1. GoodSide(sl[p])
  BY SideGood
<1>2. DirNow(p) \in Dir
  BY <1>1, DirAssumption DEF GoodSide, Knows, DrivenPc, DirNow, Kind
<1> QED BY <1>2 DEF Here, SideIInv, SideTypeOK

\* The INFs of a directory are those of packs.
LEMMA InfsType == \A fs : fs \subseteq File => Infs(fs) \subseteq Package
  BY DEF Infs, File

-----------------------------------------------------------------------------
(* The steps of `driver add`.                                              *)

\* A command line starts where its kind begins.
LEMMA StartSideInv ==
  ASSUME SideIInv, NEW p \in Proc, StartSide(p)
  PROVE  SideIInv'
<1>1. PICK c \in SideCalls : Quietly(p, [IdleSide EXCEPT !.pc = FirstStep(c.kind), !.call = c])
  BY DEF StartSide
<1>2. c.kind \in {"folder", "file", "url", "model", "usb"} /\ c \in SideCall
  BY SideCallsAssumption DEF SideCall
<1>3. /\ FirstStep(c.kind) \in {"open", "download", "pick", "look"}
      /\ FirstStep(c.kind) = "open" => c.kind \in {"folder", "file"}
      /\ FirstStep(c.kind) = "download" => c.kind = "url"
      /\ FirstStep(c.kind) = "pick" => c.kind = "model"
      /\ FirstStep(c.kind) = "look" => c.kind = "usb"
  BY <1>2 DEF FirstStep
<1> DEFINE upd == [IdleSide EXCEPT !.pc = FirstStep(c.kind), !.call = c]
<1>4. upd \in SideFrame
  <2>1. IdleSide \in SideFrame
    BY PollsAssumption DEF IdleSide, SideFrame, SidePc
  <2> QED BY ZenonT(60), <1>3, <2>1 DEF SideFrame, SidePc
<1>5. c.kind \in {"folder", "url"} => c.at \in Dir
  BY <1>2, SideCallsAssumption, DirAssumption DEF SideCall
<1>6. Knows(upd)
  BY <1>3, <1>5 DEF IdleSide, Knows, UsbPc, DrivenPc
<1> HIDE DEF upd
<1> QED BY <1>1, <1>4, <1>6, QuietlyInv DEF GoodSide, upd

\* A folder or an INF is opened, or is not there.
LEMMA OpenInv ==
  ASSUME SideIInv, NEW p \in Proc, OpenPath(p) \/ PathMissing(p)
  PROVE  SideIInv'
<1>1. GoodSide(sl[p]) /\ sl[p].pc = "open"
  BY SideGood DEF OpenPath, PathMissing, At
<1>2. GoodSide([sl[p] EXCEPT !.pc = "gate"])
  BY <1>1 DEF GoodSide, SideFrame, SidePc, Knows, UsbPc, DrivenPc
<1>3. CASE OpenPath(p)
  BY <1>2, <1>3, ToInv DEF OpenPath
<1>4. CASE PathMissing(p)
  BY <1>1, <1>4, DoneInv DEF PathMissing
<1> QED BY <1>3, <1>4

\* A model is resolved to a driver, or to none.
LEMMA PickInv ==
  ASSUME SideIInv, NEW p \in Proc, PickDriver(p) \/ PickFails(p)
  PROVE  SideIInv'
<1>1. GoodSide(sl[p]) /\ sl[p].pc = "pick"
  BY SideGood DEF PickDriver, PickFails, At
<1>2. CASE PickDriver(p)
  <2>1. PICK d \in Hint :
          \/ Quietly(p, [sl[p] EXCEPT !.pc = "done", !.driver = d, !.outcome = "ok"])
          \/ d \in DOMAIN Release /\ Quietly(p, [sl[p] EXCEPT !.pc = "download", !.driver = d])
    BY <1>2 DEF PickDriver
  <2>2. GoodSide([sl[p] EXCEPT !.pc = "done", !.driver = d, !.outcome = "ok"])
    BY ZenonT(60), <1>1, OfferAssumption DEF GoodSide, SideFrame, SidePc, Knows, UsbPc, DrivenPc
  <2>3. d \in DOMAIN Release => GoodSide([sl[p] EXCEPT !.pc = "download", !.driver = d])
    BY <1>1, OfferAssumption DEF GoodSide, SideFrame, SidePc, Knows, UsbPc, DrivenPc
  <2> QED BY <2>1, <2>2, <2>3, QuietlyInv
<1>3. CASE PickFails(p)
  BY <1>1, <1>3, DoneInv DEF PickFails
<1> QED BY <1>2, <1>3

\* A pack that could not be had.
LEMMA UnsourcedInv ==
  ASSUME SideIInv, NEW p \in Proc, Unsourced(p), sl[p].pc \in {"download", "infs"}
  PROVE  SideIInv'
<1>1. CASE Usb(p)
  <2>1. GoodSide([sl[p] EXCEPT !.pc = "after"])
    BY <1>1, SideGood DEF GoodSide, SideFrame, SidePc, Knows, UsbPc, DrivenPc, Usb, Kind
  <2> QED BY <1>1, <2>1, ToInv DEF Unsourced
<1>2. CASE ~Usb(p)
  BY <1>2, DoneInv DEF Unsourced
<1> QED BY <1>1, <1>2

\* A download begins with a known pack and a known directory.
LEMMA DownloadInv ==
  ASSUME SideIInv, NEW p \in Proc, DownloadUrl(p) \/ DownloadPack(p) \/ DownloadFails(p)
  PROVE  SideIInv'
<1>1. GoodSide(sl[p]) /\ sl[p].pc = "download"
  BY SideGood DEF DownloadUrl, DownloadPack, DownloadFails, At
<1>2. ASSUME NEW k \in Package PROVE GoodSide([sl[p] EXCEPT !.pc = "unpack", !.pack = k])
  <2> DEFINE upd == [sl[p] EXCEPT !.pc = "unpack", !.pack = k]
  <2>1. upd \in SideFrame
    BY <1>1 DEF GoodSide, SideFrame, SidePc
  <2>2. Knows(upd)
    BY <1>1 DEF GoodSide, SideFrame, Knows, UsbPc, DrivenPc
  <2> QED BY <2>1, <2>2 DEF GoodSide
<1>3. CASE DownloadUrl(p)
  <2>1. Mirror[DirNow(p)] \subseteq Package
    BY <1>1, <1>3, SideCallsAssumption, OfferAssumption DEF DownloadUrl, DirNow, Kind, GoodSide, Knows
  <2>2. DirNow(p) \in Dir /\ Here(p) \subseteq File
    BY <1>1, <1>3, DirNowDir DEF DownloadUrl, Kind
  <2>3. PICK left \in IF CanFail("disk") THEN SUBSET Here(p) ELSE {{}} :
          files' = [files EXCEPT ![DirNow(p)] = left]
    BY <1>3 DEF DownloadUrl
  <2>4. files' \in [Dir -> SUBSET File]
    BY <2>2, <2>3 DEF SideIInv, SideTypeOK
  <2>5. PICK k \in Mirror[DirNow(p)] : Step(p, [sl[p] EXCEPT !.pc = "unpack", !.pack = k])
    BY <1>3 DEF DownloadUrl
  <2> QED BY <1>2, <1>3, <2>1, <2>4, <2>5, SideStepInv
          DEF DownloadUrl, SideIInv, SideTypeOK, PrintTypeOK, printVars
<1>4. CASE DownloadPack(p)
  <2>1. PICK k \in Release[sl[p].driver] :
          Quietly(p, [sl[p] EXCEPT !.pc = "unpack", !.pack = k])
    BY <1>4 DEF DownloadPack
  <2>2. k \in Package
    BY <1>1, <1>4, <2>1, OfferAssumption DEF DownloadPack, Kind, GoodSide, Knows
  <2> QED BY <1>2, <2>1, <2>2, QuietlyInv
<1>5. CASE DownloadFails(p)
  BY <1>1, <1>5, UnsourcedInv DEF DownloadFails
<1> QED BY <1>3, <1>4, <1>5

\* A file of a pack may replace one in a directory.
LEMMA PutType ==
  ASSUME NEW k \in Package, NEW f \in FilesOf(k)
  PROVE  f \in File /\ \A fs : fs \subseteq File => Put(fs, f) \subseteq File
<1>1. f \in File
  BY DEF FilesOf, File, Part
<1> QED BY <1>1 DEF Put

\* Unpacking fills the directory, or ends the tier.
LEMMA UnpackInv ==
  ASSUME SideIInv, NEW p \in Proc, UnpackFile(p) \/ Unpacked(p) \/ UnpackFails(p)
  PROVE  SideIInv'
<1>1. GoodSide(sl[p]) /\ sl[p].pc = "unpack" /\ sl[p].pack \in Package
  BY SideGood DEF UnpackFile, Unpacked, UnpackFails, At, GoodSide, Knows
<1>2. DirNow(p) \in Dir /\ Here(p) \subseteq File
  BY <1>1, DirNowDir DEF GoodSide, Knows
<1>3. CASE UnpackFile(p)
  <2>1. PICK f \in FilesOf(sl[p].pack) : files' = [files EXCEPT ![DirNow(p)] = Put(Here(p), f)]
    BY <1>3 DEF UnpackFile, Here
  <2>2. Put(Here(p), f) \subseteq File
    BY <1>1, <1>2, PutType
  <2>3. files' \in [Dir -> SUBSET File]
    BY <1>2, <2>1, <2>2 DEF SideIInv, SideTypeOK
  <2> QED BY <1>3, <2>3 DEF UnpackFile, SideIInv, SideTypeOK, PrintTypeOK, printVars, Knows
<1>4. CASE Unpacked(p)
  <2>1. GoodSide([sl[p] EXCEPT !.pc = "gate"])
    BY <1>1 DEF GoodSide, SideFrame, SidePc, Knows, UsbPc, DrivenPc
  <2> QED BY <1>1, <1>4, <2>1, DoneInv, ToInv DEF Unpacked
<1>5. CASE UnpackFails(p)
  <2>1. files' \in [Dir -> SUBSET File]
    BY <1>2, <1>5 DEF UnpackFails, SideIInv, SideTypeOK
  <2>2. GoodSide([sl[p] EXCEPT !.pc = "done", !.outcome = "error"])
    BY <1>1, EndGood DEF GoodSide
  <2>3. Usb(p) => GoodSide([sl[p] EXCEPT !.pc = "after"])
    BY <1>1 DEF GoodSide, SideFrame, SidePc, Knows, UsbPc, DrivenPc, Usb, Kind
  <2> QED BY <1>5, <2>1, <2>2, <2>3, SideStepInv
          DEF UnpackFails, SideIInv, SideTypeOK, PrintTypeOK, printVars
<1> QED BY <1>3, <1>4, <1>5

\* The gate comes to one of four verdicts.
LEMMA ReduceType == \A s : Reduce(s) \in Verdict
  BY DEF Reduce, Verdict

\* The pack is admitted, as a whole or INF by INF.
LEMMA AdmitInv ==
  ASSUME SideIInv, NEW p \in Proc, NEW v \in Verdict \cup {"waived"}, sl[p].pc = "gate", Admit(p, v)
  PROVE  SideIInv'
<1> DEFINE f == sl[p]
           ks == IF Kind(p) = "file" THEN {f.call.file} ELSE Infs(Here(p))
           whole == [f EXCEPT !.pc = "folder", !.verdict = v]
           single == [f EXCEPT !.pc = "infs", !.verdict = v, !.todo = ks, !.staged = {}]
<1>1. f \in SideFrame /\ Knows(f) /\ f.call \in SideCalls
  BY SideGood DEF GoodSide, Knows
<1>2. CASE Kind(p) \in {"folder", "url"}
  <2>1. whole \in SideFrame
    BY <1>1 DEF SideFrame, SidePc
  <2>2. Knows(whole)
    BY <1>1, <1>2 DEF SideFrame, Knows, UsbPc, DrivenPc, Kind
  <2>3. Quietly(p, whole)
    BY <1>2 DEF Admit
  <2> HIDE DEF whole
  <2> QED BY <2>1, <2>2, <2>3, QuietlyInv DEF GoodSide
<1>3. CASE Kind(p) \notin {"folder", "url"}
  <2>1. ks \subseteq Package
    <3>1. CASE Kind(p) = "file"
      BY <1>1, <3>1, SideCallsAssumption DEF SideCall, Kind
    <3>2. CASE Kind(p) # "file"
      BY <3>2, DirNowDir, InfsType DEF Kind
    <3> QED BY <3>1, <3>2
  <2>2. Quietly(p, single)
    BY <1>3 DEF Admit
  <2>3. f.call.kind \in {"file", "model", "usb"}
    BY <1>1, <1>3, SideCallsAssumption DEF SideCall, Kind
  <2> HIDE DEF ks
  <2>4. single \in SideFrame
    BY <1>1, <2>1 DEF SideFrame, SidePc
  <2>5. Knows(single)
    BY <1>1, <2>3 DEF SideFrame, Knows, UsbPc, DrivenPc
  <2> HIDE DEF single
  <2> QED BY <2>2, <2>4, <2>5, QuietlyInv DEF GoodSide
<1> QED BY <1>2, <1>3

\* The gate admits the pack or ends the command.
LEMMA GateInv ==
  ASSUME SideIInv, NEW p \in Proc,
         SideGateOpen(p) \/ SideGatePasses(p) \/ SideNoCatalogs(p) \/ SideGateRefuses(p)
  PROVE  SideIInv'
<1>1. sl[p].pc = "gate" /\ sl[p] \in SideFrame /\ Knows(sl[p])
  BY SideGood DEF SideGateOpen, SideGatePasses, SideNoCatalogs, SideGateRefuses, SideGated, At, GoodSide
<1>2. CASE SideGateOpen(p) \/ SideGatePasses(p) \/ SideNoCatalogs(p)
  BY <1>1, <1>2, AdmitInv DEF SideGateOpen, SideGatePasses, SideNoCatalogs, Verdict
<1>3. CASE SideGateRefuses(p)
  <2>1. PICK v \in VerdictsOf(CatStatuses(Here(p))) :
          Quietly(p, [sl[p] EXCEPT !.pc = "done", !.verdict = v, !.outcome = "refused"])
    BY <1>3 DEF SideGateRefuses
  <2>2. v \in Verdict
    BY <2>1, ReduceType DEF VerdictsOf
  <2> DEFINE seen == [sl[p] EXCEPT !.verdict = v]
             upd == [sl[p] EXCEPT !.pc = "done", !.verdict = v, !.outcome = "refused"]
  <2>3. seen \in SideFrame
    BY <1>1, <2>2 DEF SideFrame
  <2>4. upd = [seen EXCEPT !.pc = "done", !.outcome = "refused"]
    BY <1>1 DEF SideFrame
  <2>5. Knows(seen) /\ seen.pc # "idle"
    BY <1>1 DEF SideFrame, Knows, UsbPc, DrivenPc
  <2> HIDE DEF seen
  <2>6. GoodSide(upd)
    BY <2>3, <2>4, <2>5, EndGood
  <2> HIDE DEF upd
  <2> QED BY <2>1, <2>6, QuietlyInv DEF upd
<1> QED BY <1>2, <1>3

\* pnputil adds packages and nothing else.
LEMMA PnputilType ==
  ASSUME PrintTypeOK, NEW ks \in SUBSET Package, NEW b \in BOOLEAN, PnputilAll(ks, b)
  PROVE  PrintTypeOK'
  BY DEF PnputilAll, PrintTypeOK

\* A folder goes to pnputil as a whole.
LEMMA StageFolderInv ==
  ASSUME SideIInv, NEW p \in Proc, StageFolder(p)
  PROVE  SideIInv'
<1> DEFINE f == sl[p]
           named == [f EXCEPT !.pc = "names", !.names = Named(Infs(Here(p)))]
           failed == [f EXCEPT !.pc = "done", !.outcome = "error"]
<1>1. f.pc = "folder" /\ f \in SideFrame /\ Knows(f)
  BY SideGood DEF StageFolder, At, GoodSide
<1>2. Infs(Here(p)) \subseteq Package
  BY <1>1, DirNowDir, InfsType DEF Knows
<1>3. PrintTypeOK' /\ UNCHANGED <<files, history>>
  BY <1>2, PnputilType DEF StageFolder, SideIInv, SideTypeOK
<1>4. GoodSide(named)
  <2>1. Named(Infs(Here(p))) \subseteq Driver
    BY DEF Named
  <2>2. named \in SideFrame
    BY <1>1, <2>1 DEF SideFrame, SidePc
  <2>3. Knows(named)
    BY <1>1 DEF SideFrame, Knows, UsbPc, DrivenPc
  <2> QED BY <2>2, <2>3 DEF GoodSide
<1>5. GoodSide(failed)
  BY <1>1, EndGood
<1>6. Step(p, named) \/ Step(p, failed)
  BY DEF StageFolder
<1> HIDE DEF named, failed
<1> QED BY <1>3, <1>4, <1>5, <1>6, SideStepInv DEF SideIInv, SideTypeOK

\* One INF goes to pnputil, or is passed over.
LEMMA StageInfInv ==
  ASSUME SideIInv, NEW p \in Proc, StageInf(p) \/ StageInfFails(p)
  PROVE  SideIInv'
<1> DEFINE f == sl[p]
           done(k) == [f EXCEPT !.todo = f.todo \ {k}, !.staged = f.staged \cup {k}]
           over(k) == [f EXCEPT !.todo = f.todo \ {k}]
<1>1. f.pc = "infs" /\ f \in SideFrame /\ Knows(f)
  BY SideGood DEF StageInf, StageInfFails, At, GoodSide
<1>2. ASSUME NEW k \in f.todo PROVE GoodSide(done(k)) /\ GoodSide(over(k))
  <2>1. done(k) \in SideFrame /\ over(k) \in SideFrame
    BY <1>1 DEF SideFrame
  <2>2. Knows(done(k)) /\ Knows(over(k))
    BY <1>1 DEF SideFrame, Knows, UsbPc, DrivenPc
  <2> QED BY <2>1, <2>2 DEF GoodSide
<1>3. CASE StageInf(p)
  <2>1. PICK k \in f.todo : packages' = packages \cup {k} /\ Step(p, done(k))
    BY <1>3 DEF StageInf
  <2>2. PrintTypeOK' /\ UNCHANGED <<files, history>>
    BY <1>1, <1>3, <2>1 DEF StageInf, SideIInv, SideTypeOK, PrintTypeOK, SideFrame
  <2> HIDE DEF done
  <2> QED BY <1>2, <2>1, <2>2, SideStepInv DEF SideIInv, SideTypeOK
<1>4. CASE StageInfFails(p)
  <2>1. PICK k \in f.todo : Quietly(p, over(k))
    BY <1>4 DEF StageInfFails
  <2> HIDE DEF over
  <2> QED BY <1>2, <2>1, QuietlyInv
<1> QED BY <1>3, <1>4

\* After the INFs a command goes on under a name, or ends.
LEMMA InfsStagedInv ==
  ASSUME SideIInv, NEW p \in Proc, InfsStaged(p) \/ NothingStaged(p)
  PROVE  SideIInv'
<1> DEFINE f == sl[p]
           file == [f EXCEPT !.pc = "names", !.names = Named(f.staged)]
           next(d) == [f EXCEPT !.pc = IF Usb(p) THEN "after" ELSE "register", !.driver = d]
<1>1. f.pc = "infs" /\ f \in SideFrame /\ Knows(f)
  BY SideGood DEF InfsStaged, NothingStaged, At, GoodSide
<1>2. CASE InfsStaged(p) /\ Kind(p) = "file"
  <2>1. Named(f.staged) \subseteq Driver
    BY DEF Named
  <2>2. file \in SideFrame
    BY <1>1, <2>1 DEF SideFrame, SidePc
  <2>3. Knows(file)
    BY <1>1 DEF SideFrame, Knows, UsbPc, DrivenPc
  <2>4. Quietly(p, file)
    BY <1>2 DEF InfsStaged
  <2> HIDE DEF file
  <2> QED BY <2>2, <2>3, <2>4, QuietlyInv DEF GoodSide
<1>3. CASE InfsStaged(p) /\ Kind(p) # "file"
  <2>1. PICK d \in ActualNames(p) : Quietly(p, next(d))
    BY <1>3 DEF InfsStaged
  <2>2. f.driver \in Driver /\ f.call.kind \in {"model", "usb"}
    BY <1>1, <1>3 DEF Knows, DrivenPc, Kind
  <2>3. d \in Driver
    BY <2>1, <2>2 DEF ActualNames, Named
  <2>4. next(d) \in SideFrame
    <3>1. [f EXCEPT !.pc = IF Usb(p) THEN "after" ELSE "register"] \in SideFrame
      BY <1>1, SetPc DEF SidePc
    <3> QED BY <2>3, <3>1, SetDriver
  <2>5. Knows(next(d))
    BY <1>1, <2>2, <2>3 DEF SideFrame, Knows, UsbPc, DrivenPc, Usb, Kind
  <2> HIDE DEF next
  <2> QED BY <2>1, <2>4, <2>5, QuietlyInv DEF GoodSide
<1>4. CASE NothingStaged(p)
  BY <1>1, <1>4, UnsourcedInv DEF NothingStaged
<1> QED BY <1>2, <1>3, <1>4

\* Registering changes the list of drivers and nothing else.
LEMMA RegisterType ==
  ASSUME PrintTypeOK, NEW d \in Driver, Register(d)
  PROVE  PrintTypeOK'
  BY DEF Register, PrintTypeOK

\* The staged names are registered, or passed over.
LEMMA RegisterInv ==
  ASSUME SideIInv, NEW p \in Proc,
         \/ RegisterName(p) \/ RegisterSkips(p) \/ NamesDone(p)
         \/ RegisterDriver(p) \/ RegisterDriverFails(p)
  PROVE  SideIInv'
<1> DEFINE f == sl[p]
           less(d) == [f EXCEPT !.names = f.names \ {d}]
           ok == [f EXCEPT !.pc = "done", !.outcome = "ok"]
<1>1. f.pc \in {"names", "register"} /\ f \in SideFrame /\ Knows(f)
  BY SideGood
     DEF RegisterName, RegisterSkips, NamesDone, RegisterDriver, RegisterDriverFails, At, GoodSide
<1>2. ASSUME NEW d PROVE GoodSide(less(d))
  <2>1. less(d) \in SideFrame
    BY <1>1 DEF SideFrame
  <2>2. Knows(less(d))
    BY <1>1 DEF SideFrame, Knows, UsbPc, DrivenPc
  <2> QED BY <2>1, <2>2 DEF GoodSide
<1>3. CASE RegisterName(p)
  <2>1. PICK d \in f.names : Register(d) /\ Step(p, less(d))
    BY <1>3 DEF RegisterName
  <2>2. PrintTypeOK'
    BY <1>1, <2>1, RegisterType DEF SideFrame, SideIInv, SideTypeOK
  <2> HIDE DEF less
  <2> QED BY <1>2, <1>3, <2>1, <2>2, SideStepInv DEF RegisterName, SideIInv, SideTypeOK
<1>4. CASE RegisterSkips(p)
  <2>1. PICK d \in f.names : Quietly(p, less(d))
    BY <1>4 DEF RegisterSkips
  <2> HIDE DEF less
  <2> QED BY <1>2, <2>1, QuietlyInv
<1>5. CASE NamesDone(p) \/ RegisterDriverFails(p)
  BY <1>1, <1>5, DoneInv DEF NamesDone, RegisterDriverFails
<1>6. CASE RegisterDriver(p)
  <2>1. f.driver \in Driver
    BY <1>1, <1>6 DEF RegisterDriver, At, Knows, DrivenPc
  <2>2. GoodSide(ok)
    BY <1>1, EndGood
  <2>3. PrintTypeOK'
    BY <1>6, <2>1, RegisterType DEF RegisterDriver, SideIInv, SideTypeOK
  <2> QED BY <1>6, <2>2, <2>3, SideStepInv DEF RegisterDriver, SideIInv, SideTypeOK
<1> QED BY <1>3, <1>4, <1>5, <1>6

-----------------------------------------------------------------------------
(* The steps of `add --usb`, of a kill and of plug and play.               *)

\* The queue or the device is looked for.
LEMMA LookInv ==
  ASSUME SideIInv, NEW p \in Proc, LookQueue(p) \/ LookDevice(p) \/ NoDevice(p)
  PROVE  SideIInv'
<1> DEFINE f == sl[p]
           swap == [f EXCEPT !.pc = "resolve", !.swap = TRUE, !.was = DriverOf(Target(p))]
<1>1. f.pc = "look" /\ f \in SideFrame /\ Knows(f)
  BY SideGood DEF LookQueue, LookDevice, NoDevice, At, GoodSide
<1>2. CASE LookQueue(p)
  <2>1. \E q \in queues : q.name = Target(p)
    BY <1>2 DEF LookQueue, Exists
  <2>2. DriverOf(Target(p)) \in Driver
    BY <2>1 DEF DriverOf, SideIInv, SideTypeOK, PrintTypeOK, QueueRec
  <2>3. Quietly(p, swap)
    BY <1>2 DEF LookQueue
  <2>4. swap \in SideFrame
    BY <1>1, <2>2 DEF SideFrame, SidePc
  <2>5. Knows(swap)
    BY <1>1 DEF SideFrame, Knows, UsbPc, DrivenPc
  <2> HIDE DEF swap
  <2> QED BY <2>3, <2>4, <2>5, QuietlyInv DEF GoodSide
<1>3. CASE LookDevice(p)
  <2>1. Knows([f EXCEPT !.pc = "resolve"])
    BY <1>1 DEF SideFrame, Knows, UsbPc, DrivenPc
  <2>2. GoodSide([f EXCEPT !.pc = "resolve"])
    BY <1>1, <2>1, SetPc DEF GoodSide, SidePc
  <2> QED BY <1>3, <2>2, ToInv DEF LookDevice
<1>4. CASE NoDevice(p)
  BY <1>1, <1>4, DoneInv DEF NoDevice
<1> QED BY <1>2, <1>3, <1>4

\* The device is resolved to a driver, or to none.
LEMMA ResolveInv ==
  ASSUME SideIInv, NEW p \in Proc, ResolveHint(p) \/ HintFails(p)
  PROVE  SideIInv'
<1> DEFINE f == sl[p]
           hint(d, b) == [f EXCEPT !.pc = "bundle", !.driver = d, !.local = b]
<1>1. f.pc = "resolve" /\ f \in SideFrame /\ Knows(f)
  BY SideGood DEF ResolveHint, HintFails, At, GoodSide
<1>2. CASE ResolveHint(p)
  <2>1. PICK d \in Hint, b \in BOOLEAN : Quietly(p, hint(d, b))
    BY <1>2 DEF ResolveHint
  <2>2. hint(d, b) \in SideFrame
    BY <1>1, OfferAssumption DEF SideFrame, SidePc
  <2>3. Knows(hint(d, b))
    BY <1>1, OfferAssumption DEF SideFrame, Knows, UsbPc, DrivenPc
  <2> HIDE DEF hint
  <2> QED BY <2>1, <2>2, <2>3, QuietlyInv DEF GoodSide
<1>3. CASE HintFails(p)
  BY <1>1, <1>3, DoneInv DEF HintFails
<1> QED BY <1>2, <1>3

\* A move within `add --usb` once it has a driver.
LEMMA UsbMoveInv ==
  ASSUME SideIInv, NEW p \in Proc, sl[p].pc \in UsbPc \ {"look", "resolve"},
         NEW pc \in (UsbPc \ {"look", "resolve", "bundleStage"}) \cup {"download"}, To(p, pc),
         pc = "download" => sl[p].driver \in DOMAIN Release
  PROVE  SideIInv'
<1> DEFINE f == sl[p]
           upd == [f EXCEPT !.pc = pc]
<1>1. f \in SideFrame /\ Knows(f)
  BY SideGood DEF GoodSide
<1>2. upd \in SideFrame
  BY <1>1, SetPc DEF SidePc, UsbPc
<1>3. upd.pc = pc /\ upd.call = f.call /\ upd.driver = f.driver
  BY <1>1 DEF SideFrame
<1>4. f.call \in SideCalls /\ f.call.kind = "usb" /\ f.driver \in Driver
  BY <1>1 DEF Knows, UsbPc, DrivenPc
<1> HIDE DEF upd
<1>5. Knows(upd)
  BY <1>3, <1>4 DEF Knows, UsbPc, DrivenPc
<1> QED BY <1>2, <1>5, ToInv DEF GoodSide, upd

\* A bundle that did not do is forgotten.
LEMMA BundleOverInv ==
  ASSUME SideIInv, NEW p \in Proc, sl[p].pc \in UsbPc \ {"look", "resolve"}, BundleOver(p)
  PROVE  SideIInv'
<1> DEFINE f == sl[p]
           upd == [f EXCEPT !.pc = "need", !.pick = None, !.tries = 0]
<1>1. f \in SideFrame /\ Knows(f)
  BY SideGood DEF GoodSide
<1>2. upd \in SideFrame
  <2>1. [f EXCEPT !.pc = "need"] \in SideFrame
    BY <1>1, SetPc DEF SidePc
  <2> QED BY <2>1, ResetPick
<1>3. Knows(upd)
  BY <1>1 DEF SideFrame, Knows, UsbPc, DrivenPc
<1>4. Quietly(p, upd)
  BY DEF BundleOver
<1> HIDE DEF upd
<1> QED BY <1>2, <1>3, <1>4, QuietlyInv DEF GoodSide

\* The bundle has a driver that is staged, or is passed over.
LEMMA BundleInv ==
  ASSUME SideIInv, NEW p \in Proc,
         BundleNone(p) \/ BundlePasses(p) \/ StageBundle(p) \/ StageBundleFails(p)
  PROVE  SideIInv'
<1> DEFINE f == sl[p]
           pick(d) == [f EXCEPT !.pc = "bundleStage", !.pick = d]
           staged == [f EXCEPT !.pc = IF f.swap THEN "checkDriver" ELSE "poll"]
<1>1. f.pc \in {"bundle", "bundleStage"} /\ f \in SideFrame /\ Knows(f)
  BY SideGood DEF BundleNone, BundlePasses, StageBundle, StageBundleFails, At, GoodSide
<1>2. CASE BundleNone(p)
  BY <1>1, <1>2, UsbMoveInv DEF BundleNone, UsbPc
<1>3. CASE BundlePasses(p)
  <2>1. PICK d \in BundleOffer : Quietly(p, pick(d))
    BY <1>3 DEF BundlePasses
  <2>2. pick(d) \in SideFrame
    BY ZenonT(60), <1>1, OfferAssumption DEF SideFrame, SidePc
  <2>3. Knows(pick(d))
    BY <1>1, OfferAssumption DEF SideFrame, Knows, UsbPc, DrivenPc
  <2> HIDE DEF pick
  <2> QED BY <2>1, <2>2, <2>3, QuietlyInv DEF GoodSide
<1>4. CASE StageBundle(p)
  <2>1. PackageOf[f.pick] \in Package
    BY <1>1, <1>4, DriverAssumption DEF StageBundle, At, Knows
  <2>2. PrintTypeOK' /\ UNCHANGED <<files, history>>
    BY <1>4, <2>1 DEF StageBundle, SideIInv, SideTypeOK, PrintTypeOK
  <2>3. staged \in SideFrame
    BY <1>1, SetPc DEF SidePc
  <2>4. Knows(staged)
    BY <1>1 DEF SideFrame, Knows, UsbPc, DrivenPc
  <2>5. Step(p, staged)
    BY <1>4 DEF StageBundle
  <2> HIDE DEF staged
  <2> QED BY <2>2, <2>3, <2>4, <2>5, SideStepInv DEF GoodSide, SideIInv, SideTypeOK
<1>5. CASE StageBundleFails(p)
  BY <1>1, <1>5, BundleOverInv DEF StageBundleFails, UsbPc
<1> QED BY <1>2, <1>3, <1>4, <1>5

\* A driver is downloaded only if the manifest has it.
LEMMA SourceInv ==
  ASSUME SideIInv, NEW p \in Proc, Need(p) \/ After(p) \/ FindPort(p) \/ CheckDriver(p)
  PROVE  SideIInv'
<1>1. CASE Need(p)
  BY <1>1, UsbMoveInv DEF Need, At, UsbPc
<1>2. CASE After(p) \/ FindPort(p) \/ CheckDriver(p)
  BY <1>2, UsbMoveInv DEF After, FindPort, CheckDriver, At, UsbPc
<1> QED BY <1>1, <1>2

\* A queue gets its new driver, and the history an entry.
LEMMA UpdateInv ==
  ASSUME SideIInv, NEW p \in Proc,
         AddDriver(p) \/ SetQueue(p) \/ UpdateFails(p) \/ RecordUpdate(p)
  PROVE  SideIInv'
<1> DEFINE f == sl[p]
<1>1. f.pc \in {"addDriver", "setQueue", "record"} /\ f \in SideFrame /\ Knows(f)
  BY SideGood DEF AddDriver, SetQueue, UpdateFails, RecordUpdate, At, GoodSide
<1>2. NewDriver(p) \in Driver /\ f.call \in SideCalls /\ f.call.kind = "usb"
  BY <1>1 DEF NewDriver, Knows, UsbPc, DrivenPc, SideFrame
<1>3. ASSUME NEW pc \in {"setQueue", "record"} PROVE GoodSide([f EXCEPT !.pc = pc])
  <2>1. [f EXCEPT !.pc = pc] \in SideFrame
    BY <1>1, SetPc DEF SidePc
  <2>2. Knows([f EXCEPT !.pc = pc])
    BY <1>1 DEF SideFrame, Knows, UsbPc, DrivenPc
  <2> QED BY <2>1, <2>2 DEF GoodSide
<1>4. CASE AddDriver(p)
  <2>1. PrintTypeOK'
    BY <1>2, <1>4, RegisterType DEF AddDriver, SideIInv, SideTypeOK
  <2> QED BY <1>3, <1>4, <2>1, SideStepInv DEF AddDriver, SideIInv, SideTypeOK
<1>5. CASE SetQueue(p)
  <2>1. PICK q \in queues : queues' = (queues \ {q}) \cup {[q EXCEPT !.driver = NewDriver(p)]}
    BY <1>5 DEF SetQueue
  <2>2. [q EXCEPT !.driver = NewDriver(p)] \in QueueRec
    BY <1>2 DEF SideIInv, SideTypeOK, PrintTypeOK, QueueRec
  <2>3. PrintTypeOK'
    BY <1>5, <2>1, <2>2 DEF SetQueue, SideIInv, SideTypeOK, PrintTypeOK
  <2> QED BY <1>3, <1>5, <2>3, SideStepInv DEF SetQueue, SideIInv, SideTypeOK
<1>6. CASE UpdateFails(p)
  BY <1>1, <1>6, BundleOverInv, DoneInv DEF UpdateFails, UsbPc
<1>7. CASE RecordUpdate(p)
  <2> DEFINE entry == [model |-> Target(p), driver |-> NewDriver(p), source |-> "usb_update"]
  <2>1. Target(p) \in Queue
    BY <1>2, SideCallsAssumption DEF Target, SideCall
  <2>2. history' \subseteq [model: Queue, driver: Driver, source: {"usb_update"}]
    BY <1>2, <1>7, <2>1 DEF RecordUpdate, SideIInv, SideTypeOK
  <2>3. GoodSide([f EXCEPT !.pc = "done", !.outcome = "ok"])
    BY <1>1, EndGood
  <2> QED BY <1>7, <2>2, <2>3, SideStepInv
          DEF RecordUpdate, SideIInv, SideTypeOK, PrintTypeOK, printVars
<1> QED BY <1>4, <1>5, <1>6, <1>7

\* The whole staging directory goes to pnputil.
LEMMA WholeInv ==
  ASSUME SideIInv, NEW p \in Proc, StageWhole(p)
  PROVE  SideIInv'
<1> DEFINE f == sl[p]
           begun == [f EXCEPT !.pc = "poll", !.tries = 0]
           failed == [f EXCEPT !.pc = "done", !.outcome = "error"]
<1>1. f.pc = "whole" /\ f \in SideFrame /\ Knows(f)
  BY SideGood DEF StageWhole, At, GoodSide
<1>2. Staged \subseteq Package
  <2>1. \A x \in StagingDir : files[x] \subseteq File
    BY DirAssumption DEF SideIInv, SideTypeOK
  <2> QED BY <2>1, InfsType DEF Staged
<1>3. PrintTypeOK' /\ UNCHANGED <<files, history>>
  BY <1>2, PnputilType DEF StageWhole, SideIInv, SideTypeOK
<1>4. begun \in SideFrame
  <2>1. [f EXCEPT !.pc = "poll"] \in SideFrame
    BY <1>1, SetPc DEF SidePc
  <2>2. 0 \in 0..Polls
    BY PollsAssumption
  <2> QED BY <2>1, <2>2, SetTries
<1>5. Knows(begun)
  BY <1>1 DEF SideFrame, Knows, UsbPc, DrivenPc
<1>6. GoodSide(failed)
  BY <1>1, EndGood
<1>7. Step(p, begun) \/ Step(p, failed)
  BY DEF StageWhole
<1> HIDE DEF begun, failed
<1> QED BY <1>3, <1>4, <1>5, <1>6, <1>7, SideStepInv DEF GoodSide, SideIInv, SideTypeOK

\* The installation looks for the queue, at most so often.
LEMMA PollInv ==
  ASSUME SideIInv, NEW p \in Proc, PollFinds(p) \/ PollAgain(p) \/ PollOver(p)
  PROVE  SideIInv'
<1> DEFINE f == sl[p]
           again == [f EXCEPT !.tries = f.tries + 1]
<1>1. f.pc = "poll" /\ f \in SideFrame /\ Knows(f)
  BY SideGood DEF PollFinds, PollAgain, PollOver, At, GoodSide
<1>2. CASE PollFinds(p)
  BY <1>1, <1>2, DoneInv DEF PollFinds
<1>3. CASE PollAgain(p)
  <2>1. f.tries + 1 \in 0..Polls
    BY <1>1, <1>3, PollsAssumption DEF PollAgain, SideFrame
  <2>2. again \in SideFrame
    BY <1>1, <2>1 DEF SideFrame
  <2>3. Knows(again)
    BY <1>1 DEF SideFrame, Knows, UsbPc, DrivenPc
  <2>4. Quietly(p, again)
    BY <1>3 DEF PollAgain
  <2> HIDE DEF again
  <2> QED BY <2>2, <2>3, <2>4, QuietlyInv DEF GoodSide
<1>4. CASE PollOver(p)
  BY <1>1, <1>4, BundleOverInv, UsbMoveInv DEF PollOver, UsbPc
<1> QED BY <1>2, <1>3, <1>4

\* The queue is added on the port of the device, or not.
LEMMA FallbackInv ==
  ASSUME SideIInv, NEW p \in Proc, NoPort(p) \/ AddPrinter(p) \/ AddPrinterFails(p)
  PROVE  SideIInv'
<1> DEFINE f == sl[p]
<1>1. f.pc \in {"port", "addQueue"} /\ f \in SideFrame /\ Knows(f)
  BY SideGood DEF NoPort, AddPrinter, AddPrinterFails, At, GoodSide
<1>2. CASE NoPort(p) \/ AddPrinterFails(p)
  BY <1>1, <1>2, DoneInv DEF NoPort, AddPrinterFails
<1>3. CASE AddPrinter(p)
  <2>1. f.call.name \in Queue
    BY <1>1, SideCallsAssumption DEF Knows, UsbPc, SideCall
  <2>2. PrintTypeOK'
    BY <1>3, <2>1 DEF AddPrinter, AddQueue, SideIInv, SideTypeOK, PrintTypeOK, QueueRec
  <2>3. GoodSide([f EXCEPT !.pc = "done", !.outcome = "ok"])
    BY <1>1, EndGood
  <2> QED BY <1>3, <2>2, <2>3, SideStepInv DEF AddPrinter, SideIInv, SideTypeOK
<1> QED BY <1>2, <1>3

\* A killed command knows its command line.
LEMMA KillSideInv ==
  ASSUME SideIInv, NEW p \in Proc, KillSide(p)
  PROVE  SideIInv'
<1> DEFINE upd == [sl[p] EXCEPT !.pc = "killed"]
<1>1. sl[p].pc # "idle" /\ sl[p] \in SideFrame /\ Knows(sl[p])
  BY SideGood DEF KillSide, GoodSide
<1>2. upd \in SideFrame
  BY <1>1, SetPc DEF SidePc
<1>3. upd.pc = "killed" /\ upd.call = sl[p].call
  BY <1>1 DEF SideFrame
<1>4. Knows(upd)
  BY <1>1, <1>3 DEF Knows, UsbPc, DrivenPc
<1> QED BY <1>2, <1>4, ToInv DEF KillSide, GoodSide

\* Plug and play changes the machine and no frame.
LEMMA PnpInv ==
  ASSUME SideIInv, PnpBinds
  PROVE  SideIInv'
<1>1. PICK n \in Device, d \in Driver :
        /\ queues' = queues \cup {[name |-> n, driver |-> d, port |-> UsbPort[n]]}
        /\ registered' = registered \cup {d}
        /\ ports' = ports \cup {UsbPort[n]}
  BY DEF PnpBinds
<1>2. n \in Queue /\ UsbPort[n] \in Port
  BY DeviceAssumption
<1>3. PrintTypeOK'
  BY <1>1, <1>2 DEF PnpBinds, SideIInv, SideTypeOK, PrintTypeOK, QueueRec
<1> QED BY <1>3 DEF PnpBinds, SideIInv, SideTypeOK, Knows

\* Every step keeps the invariant.
LEMMA SideNextInv == SideIInv /\ [SideNext]_sideVars => SideIInv'
<1> SUFFICES ASSUME SideIInv, [SideNext]_sideVars PROVE SideIInv'
  OBVIOUS
<1>1. ASSUME NEW p \in Proc, StartSide(p) \/ DriverAddStep(p) PROVE SideIInv'
  BY <1>1, StartSideInv, OpenInv, PickInv, DownloadInv, UnpackInv, GateInv, StageFolderInv,
     StageInfInv, InfsStagedInv, RegisterInv DEF DriverAddStep
<1>2. ASSUME NEW p \in Proc, UsbStep(p) \/ KillSide(p) PROVE SideIInv'
  BY <1>2, LookInv, ResolveInv, BundleInv, SourceInv, UpdateInv, WholeInv, PollInv, FallbackInv,
     KillSideInv DEF UsbStep
<1>3. CASE UNCHANGED sideVars
  BY <1>3 DEF sideVars, SideIInv, SideTypeOK, PrintTypeOK, printVars, Knows
<1> QED BY <1>1, <1>2, <1>3, PnpInv DEF SideNext, SideStep

\* The invariant holds when prinstall starts.
LEMMA SideInitInv == SideInit => SideIInv
<1> SUFFICES ASSUME SideInit PROVE SideIInv
  OBVIOUS
<1>1. IdleSide \in SideFrame
  BY PollsAssumption DEF IdleSide, SideFrame, SidePc
<1>2. Knows(IdleSide)
  BY DEF IdleSide, Knows, UsbPc, DrivenPc
<1>3. held \in [Driver \cup Port -> Nat]
  BY DEF SideInit
<1> QED BY <1>1, <1>2, <1>3 DEF SideInit, SideIInv, SideTypeOK, PrintTypeOK

\* In every reachable state a command has the driver, the pack and the directory
\* its next step works on.
THEOREM SideInvariance == SideSpec => []SideIInv
  BY SideInitInv, SideNextInv, PTL DEF SideSpec

\* Every variable stays within its type, for any number of invocations.
THEOREM SideTypeCorrect == SideSpec => []SideTypeOK
<1>1. SideIInv => SideTypeOK
  BY DEF SideIInv
<1> QED BY <1>1, SideInvariance, PTL

-----------------------------------------------------------------------------
(* A URL's pack is staged on the strength of its own catalogs.             *)

Running(f) == f.pc \notin {"idle", "done", "killed"}

OneAtATime == \A p, r \in Proc : Running(sl[p]) /\ Running(sl[r]) => p = r

\* The directory of a URL holds nothing but the pack: less than it while it is
\* unpacked, all of it afterwards; past the gate its catalogs are valid.
Sourced(f, fs) ==
  f.call.kind = "url" =>
    /\ f.pc = "unpack" => fs \subseteq FilesOf(f.pack)
    /\ f.pc \in {"gate", "folder"} => f.pack \in Package /\ fs = FilesOf(f.pack)
    /\ f.pc = "folder" /\ ~f.call.noVerify /\ ~f.call.lean => Cats[f.pack] = {"Valid"}

UrlIInv ==
  /\ SideIInv
  /\ OneAtATime
  /\ \A p \in Proc : Sourced(sl[p], files[sl[p].call.at])

\* The INFs and the catalogs of a directory that holds one pack are the pack's.
LEMMA OwnFiles ==
  ASSUME NEW k \in Package
  PROVE  Infs(FilesOf(k)) \subseteq {k} /\ CatStatuses(FilesOf(k)) = Cats[k]
<1>1. \A g \in FilesOf(k) : g.pack = k
  BY DEF FilesOf
<1>2. Infs(FilesOf(k)) \subseteq {k}
  BY <1>1 DEF Infs
<1>3. CatStatuses(FilesOf(k)) \subseteq Cats[k]
  BY <1>1 DEF CatStatuses
<1>4. ASSUME NEW x \in Cats[k] PROVE x \in CatStatuses(FilesOf(k))
  <2>1. [pack |-> k, part |-> "cat"] \in FilesOf(k)
    BY <1>4 DEF FilesOf, Part
  <2> QED BY <2>1 DEF CatStatuses
<1> QED BY <1>2, <1>3, <1>4

\* Where no catalog is overlooked, only a pack whose catalogs are all valid passes.
LEMMA VerifiedIsValid ==
  ASSUME ~CanFail("scan"), NEW c \in SUBSET SigStatus, "Verified" \in VerdictsOf(c)
  PROVE  c = {"Valid"}
<1>1. PICK s \in StatusesOf(c) : Reduce(s) = "Verified"
  BY DEF VerdictsOf, FoundCats
<1>2. Reduce({"UnknownError"}) = "Invalid"
  BY DEF Reduce, Invalid, SigStatus
<1>3. s = c
  BY <1>1, <1>2 DEF StatusesOf
<1>4. c # {} /\ c \cap Invalid = {} /\ "NotSigned" \notin c
  BY <1>1, <1>3 DEF Reduce
<1> QED BY <1>4 DEF Invalid, SigStatus

\* A step of one invocation sets its frame and no other.
LEMMA StepSets ==
  ASSUME SideIInv, NEW p \in Proc, NEW upd, Step(p, upd)
  PROVE  sl'[p] = upd /\ \A r \in Proc \ {p} : sl'[r] = sl[r]
  BY DEF Step, SideIInv, SideTypeOK

\* What a step needs to keep: the invocation that takes it is the only one.
LEMMA UrlStepInv ==
  ASSUME UrlIInv, SideIInv', NEW p \in Proc, SideAtRest \/ Running(sl[p]),
         \A r \in Proc \ {p} : sl'[r] = sl[r],
         Sourced(sl'[p], files'[sl'[p].call.at])
  PROVE  UrlIInv'
<1>1. \A r \in Proc \ {p} : ~Running(sl[r])
  BY DEF UrlIInv, OneAtATime, SideAtRest, Running
<1>2. OneAtATime'
  BY <1>1 DEF OneAtATime, Running
<1>3. ASSUME NEW r \in Proc PROVE Sourced(sl'[r], files'[sl'[r].call.at])
  <2>1. CASE r # p
    BY <1>1, <2>1 DEF Sourced, Running
  <2> QED BY <2>1
<1>4. \A r \in Proc : Sourced(sl[r], files[sl[r].call.at])'
  BY <1>3 DEF Sourced, FilesOf
<1> QED BY <1>2, <1>4 DEF UrlIInv

\* A step that leads elsewhere.
LEMMA ElsewhereInv ==
  ASSUME UrlIInv, SideIInv', NEW p \in Proc, SideAtRest \/ Running(sl[p]),
         NEW upd, Step(p, upd), upd.call.kind # "url" \/ upd.pc \notin {"unpack", "gate", "folder"}
  PROVE  UrlIInv'
<1>1. sl'[p] = upd /\ \A r \in Proc \ {p} : sl'[r] = sl[r]
  BY StepSets DEF UrlIInv
<1>2. Sourced(upd, files'[upd.call.at])
  BY DEF Sourced
<1> QED BY <1>1, <1>2, UrlStepInv

\* The download empties the directory.
LEMMA DownloadUrlSourced ==
  ASSUME ~CanFail("disk"), UrlIInv, SideIInv', NEW p \in Proc, DownloadUrl(p)
  PROVE  UrlIInv'
<1> DEFINE upd(k) == [sl[p] EXCEPT !.pc = "unpack", !.pack = k]
<1>1. sl[p] \in SideFrame /\ Running(sl[p]) /\ Kind(p) = "url" /\ SideIInv
  BY SideGood DEF UrlIInv, GoodSide, DownloadUrl, At, Running
<1>2. PICK k \in Mirror[DirNow(p)] : Step(p, upd(k))
  BY DEF DownloadUrl
<1>3. DirNow(p) = sl[p].call.at /\ DirNow(p) \in Dir
  BY <1>1, DirNowDir DEF DownloadUrl, At, DirNow, Kind
<1>4. files'[sl[p].call.at] = {}
  BY <1>1, <1>3 DEF DownloadUrl, SideIInv, SideTypeOK
<1>5. upd(k).pc = "unpack" /\ upd(k).call = sl[p].call
  BY <1>1 DEF SideFrame
<1> HIDE DEF upd
<1>6. Sourced(upd(k), files'[upd(k).call.at])
  BY <1>4, <1>5 DEF Sourced
<1> QED BY <1>1, <1>2, <1>6, StepSets, UrlStepInv

\* The unpacking adds what the pack has, until all of it is there.
LEMMA UnpackSourced ==
  ASSUME ~CanFail("disk"), UrlIInv, SideIInv', NEW p \in Proc,
         UnpackFile(p) \/ Unpacked(p) \/ UnpackFails(p)
  PROVE  UrlIInv'
<1> DEFINE f == sl[p]
           gate == [f EXCEPT !.pc = "gate"]
           fs == files[f.call.at]
<1>1. f \in SideFrame /\ Knows(f) /\ Running(f) /\ f.pc = "unpack" /\ SideIInv
  BY SideGood DEF UrlIInv, GoodSide, UnpackFile, Unpacked, UnpackFails, At, Running
<1>2. f.call.kind = "url" => /\ DirNow(p) = f.call.at /\ Here(p) = fs /\ f.call.at \in Dir
                             /\ fs \subseteq FilesOf(f.pack) /\ f.pack \in Package
  BY <1>1, DirNowDir DEF DirNow, Kind, Here, UrlIInv, Sourced, Knows
<1>3. CASE UnpackFile(p)
  <2>1. UNCHANGED sl
    BY <1>3 DEF UnpackFile
  <2>2. f.call.kind = "url" => files'[f.call.at] \subseteq FilesOf(f.pack)
    <3>1. SUFFICES ASSUME f.call.kind = "url" PROVE files'[f.call.at] \subseteq FilesOf(f.pack)
      OBVIOUS
    <3>2. PICK g \in FilesOf(f.pack) : files' = [files EXCEPT ![f.call.at] = Put(fs, g)]
      BY <1>2, <1>3, <3>1 DEF UnpackFile
    <3>3. files'[f.call.at] = Put(fs, g)
      BY <1>1, <1>2, <3>1, <3>2 DEF SideIInv, SideTypeOK
    <3> QED BY <1>2, <3>1, <3>2, <3>3 DEF Put
  <2>3. Sourced(f, files'[f.call.at])
    BY <1>1, <2>2 DEF Sourced
  <2> QED BY <1>1, <2>1, <2>3, UrlStepInv
<1>4. CASE Unpacked(p) /\ ~(Kind(p) = "url" /\ Infs(Here(p)) = {})
  <2>1. Step(p, gate) /\ UNCHANGED files
    BY <1>4 DEF Unpacked, To, Quietly
  <2>2. f.call.kind = "url" => fs = FilesOf(f.pack)
    BY <1>2, <1>4 DEF Unpacked
  <2>3. gate.pc = "gate" /\ gate.call = f.call /\ gate.pack = f.pack
    BY <1>1 DEF SideFrame
  <2> HIDE DEF gate
  <2>4. Sourced(gate, files'[gate.call.at])
    BY <1>2, <2>1, <2>2, <2>3 DEF Sourced
  <2> QED BY <1>1, <2>1, <2>4, StepSets, UrlStepInv
<1>5. CASE Unpacked(p) /\ Kind(p) = "url" /\ Infs(Here(p)) = {}
  <2>1. Step(p, [f EXCEPT !.pc = "done", !.outcome = "error"])
    BY <1>5 DEF Unpacked, Done, Quietly
  <2>2. [f EXCEPT !.pc = "done", !.outcome = "error"].pc = "done"
    BY <1>1 DEF SideFrame
  <2> QED BY <1>1, <2>1, <2>2, ElsewhereInv
<1>6. CASE UnpackFails(p)
  <2>1. \/ Step(p, [f EXCEPT !.pc = "after"])
        \/ Step(p, [f EXCEPT !.pc = "done", !.outcome = "error"])
    BY <1>6 DEF UnpackFails
  <2>2. /\ [f EXCEPT !.pc = "after"].pc = "after"
        /\ [f EXCEPT !.pc = "done", !.outcome = "error"].pc = "done"
    BY <1>1 DEF SideFrame
  <2> QED BY <1>1, <2>1, <2>2, ElsewhereInv
<1> QED BY <1>3, <1>4, <1>5, <1>6

\* The gate lets a URL's pack on as a whole, if its own catalogs are valid.
LEMMA GateSourced ==
  ASSUME ~CanFail("scan"), UrlIInv, SideIInv', NEW p \in Proc,
         SideGateOpen(p) \/ SideGatePasses(p) \/ SideNoCatalogs(p)
  PROVE  UrlIInv'
<1> DEFINE f == sl[p]
           ks == IF Kind(p) = "file" THEN {f.call.file} ELSE Infs(Here(p))
           whole(v) == [f EXCEPT !.pc = "folder", !.verdict = v]
           single(v) == [f EXCEPT !.pc = "infs", !.verdict = v, !.todo = ks, !.staged = {}]
<1>1. f \in SideFrame /\ Knows(f) /\ Running(f) /\ f.pc = "gate" /\ SideIInv
  BY SideGood DEF UrlIInv, GoodSide, SideGateOpen, SideGatePasses, SideNoCatalogs, SideGated, At, Running
<1>2. PICK v : Admit(p, v)
  BY DEF SideGateOpen, SideGatePasses, SideNoCatalogs
<1>3. CASE Kind(p) \in {"folder", "url"}
  <2>1. Step(p, whole(v)) /\ UNCHANGED files
    BY <1>2, <1>3 DEF Admit, Quietly
  <2>2. whole(v).pc = "folder" /\ whole(v).call = f.call /\ whole(v).pack = f.pack
    BY <1>1 DEF SideFrame
  <2>3. f.call.kind = "url" => f.pack \in Package /\ Here(p) = FilesOf(f.pack)
                               /\ files[f.call.at] = FilesOf(f.pack)
    BY <1>1 DEF UrlIInv, Sourced, Here, DirNow, Kind
  <2>4. f.call.kind = "url" /\ ~f.call.noVerify /\ ~f.call.lean => Cats[f.pack] = {"Valid"}
    <3>1. SUFFICES ASSUME f.call.kind = "url", ~f.call.noVerify, ~f.call.lean
                   PROVE  Cats[f.pack] = {"Valid"}
      OBVIOUS
    <3>2. "Verified" \in VerdictsOf(CatStatuses(Here(p)))
      BY <3>1 DEF SideGateOpen, SideGatePasses, SideNoCatalogs, Usb, Kind
    <3>3. CatStatuses(Here(p)) = Cats[f.pack] /\ Cats[f.pack] \subseteq SigStatus
      BY <2>3, <3>1, OwnFiles, CatsAssumption
    <3> QED BY <3>2, <3>3, VerifiedIsValid
  <2> HIDE DEF whole
  <2>5. Sourced(whole(v), files'[whole(v).call.at])
    BY <2>1, <2>2, <2>3, <2>4 DEF Sourced
  <2> QED BY <1>1, <2>1, <2>5, StepSets, UrlStepInv
<1>4. CASE Kind(p) \notin {"folder", "url"}
  <2>1. Step(p, single(v))
    BY <1>2, <1>4 DEF Admit, Quietly
  <2>2. single(v).pc = "infs"
    BY <1>1 DEF SideFrame
  <2> HIDE DEF single
  <2> QED BY <1>1, <2>1, <2>2, ElsewhereInv
<1> QED BY <1>3, <1>4

\* Where a step leads that is not on the way of a URL's pack.
Elsewhere(p) ==
  \E upd : Step(p, upd) /\ (upd.call.kind # "url" \/ upd.pc \notin {"unpack", "gate", "folder"})

\* The end of a command is elsewhere.
LEMMA DoneElsewhere ==
  ASSUME SideIInv, NEW p \in Proc, NEW o, Done(p, o)
  PROVE  Elsewhere(p)
<1> DEFINE upd == [sl[p] EXCEPT !.pc = "done", !.outcome = o]
<1>1. sl[p] \in SideFrame
  BY SideGood DEF GoodSide
<1>2. upd.pc = "done"
  BY <1>1 DEF SideFrame
<1>3. Step(p, upd)
  BY DEF Done, Quietly
<1> HIDE DEF upd
<1> QED BY <1>2, <1>3 DEF Elsewhere

\* So is any place but the three.
LEMMA ToElsewhere ==
  ASSUME SideIInv, NEW p \in Proc, NEW pc, To(p, pc), pc \notin {"unpack", "gate", "folder"}
  PROVE  Elsewhere(p)
<1> DEFINE upd == [sl[p] EXCEPT !.pc = pc]
<1>1. sl[p] \in SideFrame
  BY SideGood DEF GoodSide
<1>2. upd.pc = pc
  BY <1>1 DEF SideFrame
<1>3. Step(p, upd)
  BY DEF To, Quietly
<1> HIDE DEF upd
<1> QED BY <1>2, <1>3 DEF Elsewhere

\* A command of another kind is on no such way.
LEMMA OtherElsewhere ==
  ASSUME SideIInv, NEW p \in Proc, sl[p].call.kind # "url",
         NEW upd, Step(p, upd), upd.call = sl[p].call
  PROVE  Elsewhere(p)
  BY DEF Elsewhere

\* The steps of `driver add` that do not unpack, admit or stage a URL's pack.
LEMMA AddElsewhere ==
  ASSUME SideIInv, NEW p \in Proc,
         \/ OpenPath(p) \/ PathMissing(p) \/ PickDriver(p) \/ PickFails(p)
         \/ DownloadPack(p) \/ DownloadFails(p) \/ SideGateRefuses(p)
         \/ StageFolder(p) \/ StageInf(p) \/ StageInfFails(p) \/ InfsStaged(p) \/ NothingStaged(p)
         \/ RegisterName(p) \/ RegisterSkips(p) \/ NamesDone(p)
         \/ RegisterDriver(p) \/ RegisterDriverFails(p)
  PROVE  Elsewhere(p)
<1> DEFINE f == sl[p]
<1>1. f \in SideFrame /\ Knows(f)
  BY SideGood DEF GoodSide
<1>2. CASE OpenPath(p)
  <2>1. f.call.kind # "url"
    BY <1>1, <1>2 DEF OpenPath, At, Knows
  <2>2. Step(p, [f EXCEPT !.pc = "gate"])
    BY <1>2 DEF OpenPath, To, Quietly
  <2>3. [f EXCEPT !.pc = "gate"].call = f.call
    BY <1>1 DEF SideFrame
  <2> QED BY <2>1, <2>2, <2>3, OtherElsewhere
<1>3. CASE PathMissing(p) \/ PickFails(p) \/ NamesDone(p) \/ RegisterDriverFails(p)
  BY <1>3, DoneElsewhere DEF PathMissing, PickFails, NamesDone, RegisterDriverFails
<1>4. CASE PickDriver(p)
  <2>1. PICK d :
          \/ Step(p, [f EXCEPT !.pc = "done", !.driver = d, !.outcome = "ok"])
          \/ Step(p, [f EXCEPT !.pc = "download", !.driver = d])
    BY <1>4 DEF PickDriver, Quietly
  <2>2. /\ [f EXCEPT !.pc = "done", !.driver = d, !.outcome = "ok"].pc = "done"
        /\ [f EXCEPT !.pc = "download", !.driver = d].pc = "download"
    BY <1>1 DEF SideFrame
  <2> QED BY <2>1, <2>2 DEF Elsewhere
<1>5. CASE DownloadPack(p)
  <2>1. PICK k : Step(p, [f EXCEPT !.pc = "unpack", !.pack = k])
    BY <1>5 DEF DownloadPack, Quietly
  <2>2. f.call.kind # "url"
    BY <1>5 DEF DownloadPack, Kind
  <2>3. [f EXCEPT !.pc = "unpack", !.pack = k].call = f.call
    BY <1>1 DEF SideFrame
  <2> QED BY <2>1, <2>2, <2>3, OtherElsewhere
<1>6. CASE DownloadFails(p) \/ NothingStaged(p)
  BY <1>6, DoneElsewhere, ToElsewhere DEF DownloadFails, NothingStaged, Unsourced
<1>7. CASE SideGateRefuses(p)
  <2>1. PICK v : Step(p, [f EXCEPT !.pc = "done", !.verdict = v, !.outcome = "refused"])
    BY <1>7 DEF SideGateRefuses, Quietly
  <2>2. [f EXCEPT !.pc = "done", !.verdict = v, !.outcome = "refused"].pc = "done"
    BY <1>1 DEF SideFrame
  <2> QED BY <2>1, <2>2 DEF Elsewhere
<1>8. CASE StageFolder(p)
  <2>1. \/ Step(p, [f EXCEPT !.pc = "names", !.names = Named(Infs(Here(p)))])
        \/ Step(p, [f EXCEPT !.pc = "done", !.outcome = "error"])
    BY <1>8 DEF StageFolder
  <2>2. /\ [f EXCEPT !.pc = "names", !.names = Named(Infs(Here(p)))].pc = "names"
        /\ [f EXCEPT !.pc = "done", !.outcome = "error"].pc = "done"
    BY <1>1 DEF SideFrame
  <2> QED BY <2>1, <2>2 DEF Elsewhere
<1>9. CASE StageInf(p) \/ StageInfFails(p)
  <2>1. PICK k : \/ Step(p, [f EXCEPT !.todo = @ \ {k}, !.staged = @ \cup {k}])
                 \/ Step(p, [f EXCEPT !.todo = @ \ {k}])
    BY <1>9 DEF StageInf, StageInfFails, Quietly
  <2>2. f.pc = "infs"
    BY <1>9 DEF StageInf, StageInfFails, At
  <2>3. /\ [f EXCEPT !.todo = @ \ {k}, !.staged = @ \cup {k}].pc = f.pc
        /\ [f EXCEPT !.todo = @ \ {k}].pc = f.pc
    BY <1>1 DEF SideFrame
  <2> QED BY <2>1, <2>2, <2>3 DEF Elsewhere
<1>10. CASE InfsStaged(p)
  <2>1. CASE Kind(p) = "file"
    <3>1. Step(p, [f EXCEPT !.pc = "names", !.names = Named(f.staged)])
      BY <1>10, <2>1 DEF InfsStaged, Quietly
    <3>2. [f EXCEPT !.pc = "names", !.names = Named(f.staged)].pc = "names"
      BY <1>1 DEF SideFrame
    <3> QED BY <3>1, <3>2 DEF Elsewhere
  <2>2. CASE Kind(p) # "file"
    <3> DEFINE pc == IF Usb(p) THEN "after" ELSE "register"
               upd(d) == [f EXCEPT !.pc = pc, !.driver = d]
    <3>1. PICK d : Step(p, upd(d))
      BY <1>10, <2>2 DEF InfsStaged, Quietly
    <3>2. upd(d).pc = pc
      BY <1>1 DEF SideFrame
    <3>3. pc \in {"after", "register"}
      OBVIOUS
    <3> HIDE DEF pc, upd
    <3> QED BY <3>1, <3>2, <3>3 DEF Elsewhere
  <2> QED BY <2>1, <2>2
<1>11. CASE RegisterName(p) \/ RegisterSkips(p)
  <2>1. PICK d : Step(p, [f EXCEPT !.names = @ \ {d}])
    BY <1>11 DEF RegisterName, RegisterSkips, Quietly
  <2>2. [f EXCEPT !.names = @ \ {d}].pc = "names"
    BY <1>1, <1>11 DEF RegisterName, RegisterSkips, At, SideFrame
  <2> QED BY <2>1, <2>2 DEF Elsewhere
<1>12. CASE RegisterDriver(p)
  <2>1. Step(p, [f EXCEPT !.pc = "done", !.outcome = "ok"])
    BY <1>12 DEF RegisterDriver
  <2>2. [f EXCEPT !.pc = "done", !.outcome = "ok"].pc = "done"
    BY <1>1 DEF SideFrame
  <2> QED BY <2>1, <2>2 DEF Elsewhere
<1> QED BY <1>2, <1>3, <1>4, <1>5, <1>6, <1>7, <1>8, <1>9, <1>10, <1>11, <1>12

\* `add --usb` works on no URL.
LEMMA UsbElsewhere ==
  ASSUME SideIInv, NEW p \in Proc, UsbStep(p)
  PROVE  Elsewhere(p)
<1> DEFINE f == sl[p]
<1>1. f \in SideFrame /\ Knows(f)
  BY SideGood DEF GoodSide
<1>2. f.pc \in UsbPc
  BY DEF UsbStep, LookQueue, LookDevice, NoDevice, ResolveHint, HintFails, BundleNone, BundlePasses,
         StageBundle, StageBundleFails, Need, After, CheckDriver, AddDriver, SetQueue, UpdateFails,
         RecordUpdate, StageWhole, PollFinds, PollAgain, PollOver, FindPort, NoPort, AddPrinter,
         AddPrinterFails, At, UsbPc
<1>3. f.call.kind # "url"
  BY <1>1, <1>2 DEF Knows
<1>4. ASSUME NEW pc, To(p, pc) PROVE Elsewhere(p)
  <2>1. [f EXCEPT !.pc = pc].call = f.call
    BY <1>1 DEF SideFrame
  <2> QED BY <1>3, <1>4, <2>1, OtherElsewhere DEF To, Quietly
<1>5. ASSUME BundleOver(p) PROVE Elsewhere(p)
  <2>1. [f EXCEPT !.pc = "need", !.pick = None, !.tries = 0].call = f.call
    BY <1>1 DEF SideFrame
  <2> QED BY <1>3, <1>5, <2>1, OtherElsewhere DEF BundleOver, Quietly
<1>6. ASSUME NEW pc, Step(p, [f EXCEPT !.pc = pc]) PROVE Elsewhere(p)
  <2>1. [f EXCEPT !.pc = pc].call = f.call
    BY <1>1 DEF SideFrame
  <2> QED BY <1>3, <1>6, <2>1, OtherElsewhere
<1>7. ASSUME NEW o, Step(p, [f EXCEPT !.pc = "done", !.outcome = o]) PROVE Elsewhere(p)
  <2>1. [f EXCEPT !.pc = "done", !.outcome = o].call = f.call
    BY <1>1 DEF SideFrame
  <2> QED BY <1>3, <1>7, <2>1, OtherElsewhere
<1>8. CASE NoDevice(p) \/ HintFails(p) \/ PollFinds(p) \/ NoPort(p) \/ AddPrinterFails(p)
  BY <1>8, DoneElsewhere DEF NoDevice, HintFails, PollFinds, NoPort, AddPrinterFails
<1>9. CASE LookDevice(p) \/ BundleNone(p) \/ Need(p) \/ After(p) \/ CheckDriver(p) \/ FindPort(p)
  BY <1>4, <1>9 DEF LookDevice, BundleNone, Need, After, CheckDriver, FindPort
<1>10. CASE StageBundleFails(p) \/ UpdateFails(p) \/ PollOver(p)
  BY <1>4, <1>5, <1>10, DoneElsewhere DEF StageBundleFails, UpdateFails, PollOver
<1>11. CASE StageBundle(p) \/ AddDriver(p) \/ SetQueue(p)
  BY <1>6, <1>11 DEF StageBundle, AddDriver, SetQueue
<1>12. CASE RecordUpdate(p) \/ AddPrinter(p)
  BY <1>7, <1>12 DEF RecordUpdate, AddPrinter
<1>13. CASE LookQueue(p)
  <2> DEFINE upd == [f EXCEPT !.pc = "resolve", !.swap = TRUE, !.was = DriverOf(Target(p))]
  <2>1. upd.call = f.call
    BY <1>1 DEF SideFrame
  <2>2. Step(p, upd)
    BY <1>13 DEF LookQueue, Quietly
  <2> HIDE DEF upd
  <2> QED BY <1>3, <2>1, <2>2, OtherElsewhere
<1>14. CASE ResolveHint(p)
  <2>1. PICK d, b : Step(p, [f EXCEPT !.pc = "bundle", !.driver = d, !.local = b])
    BY <1>14 DEF ResolveHint, Quietly
  <2>2. [f EXCEPT !.pc = "bundle", !.driver = d, !.local = b].call = f.call
    BY <1>1 DEF SideFrame
  <2> QED BY <1>3, <2>1, <2>2, OtherElsewhere
<1>15. CASE BundlePasses(p)
  <2>1. PICK d : Step(p, [f EXCEPT !.pc = "bundleStage", !.pick = d])
    BY <1>15 DEF BundlePasses, Quietly
  <2>2. [f EXCEPT !.pc = "bundleStage", !.pick = d].call = f.call
    BY <1>1 DEF SideFrame
  <2> QED BY <1>3, <2>1, <2>2, OtherElsewhere
<1>16. CASE StageWhole(p)
  <2>1. \/ Step(p, [f EXCEPT !.pc = "poll", !.tries = 0])
        \/ Step(p, [f EXCEPT !.pc = "done", !.outcome = "error"])
    BY <1>16 DEF StageWhole
  <2>2. [f EXCEPT !.pc = "poll", !.tries = 0].call = f.call
    BY <1>1 DEF SideFrame
  <2> QED BY <1>3, <1>7, <2>1, <2>2, OtherElsewhere
<1>17. CASE PollAgain(p)
  <2>1. Step(p, [f EXCEPT !.tries = @ + 1])
    BY <1>17 DEF PollAgain, Quietly
  <2>2. [f EXCEPT !.tries = @ + 1].call = f.call
    BY <1>1 DEF SideFrame
  <2> QED BY <1>3, <2>1, <2>2, OtherElsewhere
<1> QED BY <1>8, <1>9, <1>10, <1>11, <1>12, <1>13, <1>14, <1>15, <1>16, <1>17 DEF UsbStep

\* A command that starts has unpacked nothing yet.
LEMMA StartElsewhere ==
  ASSUME SideIInv, NEW p \in Proc, StartSide(p)
  PROVE  Elsewhere(p)
<1>1. PICK c \in SideCalls : Step(p, [IdleSide EXCEPT !.pc = FirstStep(c.kind), !.call = c])
  BY DEF StartSide, Quietly
<1>2. c.kind \in {"folder", "file", "url", "model", "usb"}
  BY SideCallsAssumption DEF SideCall
<1>3. FirstStep(c.kind) \in {"open", "download", "pick", "look"}
  BY <1>2 DEF FirstStep
<1> DEFINE upd == [IdleSide EXCEPT !.pc = FirstStep(c.kind), !.call = c]
<1>4. upd.pc = FirstStep(c.kind)
  BY DEF IdleSide
<1> HIDE DEF upd
<1> QED BY <1>1, <1>3, <1>4 DEF Elsewhere, upd

\* Every step keeps what a URL's directory holds, where the disk does what it is told.
LEMMA UrlNextInv ==
  ASSUME ~CanFail("disk"), ~CanFail("scan"), UrlIInv, SideIInv', [SideNext]_sideVars
  PROVE  UrlIInv'
<1>1. ASSUME NEW p \in Proc, SideAtRest \/ Running(sl[p]), Elsewhere(p) PROVE UrlIInv'
  BY <1>1, ElsewhereInv DEF Elsewhere
<1>2. SideIInv /\ \A p \in Proc : sl[p] \in SideFrame /\ Knows(sl[p])
  BY SideGood DEF UrlIInv, GoodSide
<1>3. ASSUME UNCHANGED <<sl, files>> PROVE UrlIInv'
  BY <1>3 DEF UrlIInv, OneAtATime, Running, Sourced, FilesOf
<1>4. CASE PnpBinds \/ UNCHANGED sideVars
  BY <1>3, <1>4 DEF PnpBinds, sideVars
<1>5. ASSUME NEW p \in Proc, SideAtRest, StartSide(p) PROVE UrlIInv'
  BY <1>1, <1>2, <1>5, StartElsewhere
<1>6. ASSUME NEW p \in Proc, KillSide(p) PROVE UrlIInv'
  BY <1>1, <1>2, <1>6, ToElsewhere DEF KillSide, Running
<1>7. ASSUME NEW p \in Proc, UsbStep(p) PROVE UrlIInv'
  <2>1. Running(sl[p])
    BY <1>7 DEF UsbStep, LookQueue, LookDevice, NoDevice, ResolveHint, HintFails, BundleNone,
         BundlePasses, StageBundle, StageBundleFails, Need, After, CheckDriver, AddDriver, SetQueue,
         UpdateFails, RecordUpdate, StageWhole, PollFinds, PollAgain, PollOver, FindPort, NoPort,
         AddPrinter, AddPrinterFails, At, Running
  <2> QED BY <1>1, <1>2, <1>7, <2>1, UsbElsewhere
<1>8. ASSUME NEW p \in Proc, DriverAddStep(p) PROVE UrlIInv'
  <2>1. Running(sl[p])
    BY <1>8 DEF DriverAddStep, OpenPath, PathMissing, PickDriver, PickFails, DownloadUrl,
         DownloadPack, DownloadFails, UnpackFile, Unpacked, UnpackFails, SideGateOpen,
         SideGatePasses, SideNoCatalogs, SideGateRefuses, SideGated, StageFolder, StageInf,
         StageInfFails, InfsStaged, NothingStaged, RegisterName, RegisterSkips, NamesDone,
         RegisterDriver, RegisterDriverFails, At, Running
  <2>2. CASE \/ DownloadUrl(p) \/ UnpackFile(p) \/ Unpacked(p) \/ UnpackFails(p)
             \/ SideGateOpen(p) \/ SideGatePasses(p) \/ SideNoCatalogs(p)
    BY <2>2, DownloadUrlSourced, UnpackSourced, GateSourced
  <2> QED BY <1>1, <1>2, <1>8, <2>1, <2>2, AddElsewhere DEF DriverAddStep
<1> QED BY <1>4, <1>5, <1>6, <1>7, <1>8 DEF SideNext, SideStep

\* Nothing runs and nothing is unpacked when prinstall starts.
LEMMA UrlInitInv == SideInit => UrlIInv
<1> SUFFICES ASSUME SideInit PROVE UrlIInv
  OBVIOUS
<1>1. \A p \in Proc : sl[p] = IdleSide
  BY DEF SideInit
<1>2. IdleSide.pc = "idle"
  BY DEF IdleSide
<1>3. OneAtATime
  BY <1>1, <1>2 DEF OneAtATime, Running
<1>4. \A p \in Proc : Sourced(sl[p], files[sl[p].call.at])
  BY <1>1, <1>2 DEF Sourced
<1> QED BY <1>3, <1>4, SideInitInv DEF UrlIInv

\* pnputil on the directory of a URL adds the pack that is there, or nothing.
LEMMA FolderStagesPack ==
  ASSUME UrlIInv, NEW p \in Proc, StageFolder(p), Kind(p) = "url"
  PROVE  packages' \ packages \subseteq {sl[p].pack}
<1>1. sl[p].pack \in Package /\ Here(p) = FilesOf(sl[p].pack)
  BY DEF UrlIInv, Sourced, StageFolder, At, Here, DirNow, Kind
<1>2. packages' \subseteq packages \cup Infs(Here(p))
  BY DEF StageFolder, PnputilAll
<1> QED BY <1>1, <1>2, OwnFiles

\* At "folder" a command is staged or killed, and nobody else's step is its own.
LEMMA UrlStepStagesValid ==
  ASSUME UrlIInv, [SideNext]_sideVars, NEW p \in Proc,
         At(p, "folder"), Kind(p) = "url", sl'[p] # sl[p],
         ~sl[p].call.noVerify, ~sl[p].call.lean
  PROVE  \A k \in packages' \ packages : Cats[k] = {"Valid"}
<1>1. SideIInv /\ Cats[sl[p].pack] = {"Valid"}
  BY DEF UrlIInv, Sourced, At, Kind
<1>2. sl # sl' /\ ~SideAtRest
  BY DEF SideAtRest, At
<1>3. PICK r \in Proc : SideStep(r) \/ KillSide(r)
  BY <1>2 DEF SideNext, PnpBinds, sideVars
<1>4. CASE StageFolder(p)
  BY <1>1, <1>4, FolderStagesPack
<1>5. CASE KillSide(r)
  BY <1>5 DEF KillSide, To, Quietly, printVars
<1>6. CASE SideStep(r) /\ r # p
  <2>1. Running(sl[r])
    BY <1>6 DEF SideStep, DriverAddStep, OpenPath, PathMissing, PickDriver, PickFails, DownloadUrl,
         DownloadPack, DownloadFails, UnpackFile, Unpacked, UnpackFails, SideGateOpen,
         SideGatePasses, SideNoCatalogs, SideGateRefuses, SideGated, StageFolder, StageInf,
         StageInfFails, InfsStaged, NothingStaged, RegisterName, RegisterSkips, NamesDone,
         RegisterDriver, RegisterDriverFails, UsbStep, LookQueue, LookDevice, NoDevice, ResolveHint,
         HintFails, BundleNone, BundlePasses, StageBundle, StageBundleFails, Need, After,
         CheckDriver, AddDriver, SetQueue, UpdateFails, RecordUpdate, StageWhole, PollFinds,
         PollAgain, PollOver, FindPort, NoPort, AddPrinter, AddPrinterFails, At, Running
  <2> QED BY <1>6, <2>1 DEF UrlIInv, OneAtATime, Running, At
<1>7. SideStep(p) => StageFolder(p)
  BY DEF SideStep, DriverAddStep, OpenPath, PathMissing, PickDriver, PickFails, DownloadUrl,
         DownloadPack, DownloadFails, UnpackFile, Unpacked, UnpackFails, SideGateOpen,
         SideGatePasses, SideNoCatalogs, SideGateRefuses, SideGated, StageInf,
         StageInfFails, InfsStaged, NothingStaged, RegisterName, RegisterSkips, NamesDone,
         RegisterDriver, RegisterDriverFails, UsbStep, LookQueue, LookDevice, NoDevice, ResolveHint,
         HintFails, BundleNone, BundlePasses, StageBundle, StageBundleFails, Need, After,
         CheckDriver, AddDriver, SetQueue, UpdateFails, RecordUpdate, StageWhole, PollFinds,
         PollAgain, PollOver, FindPort, NoPort, AddPrinter, AddPrinterFails, At
<1> QED BY <1>3, <1>4, <1>5, <1>6, <1>7

\* Where no file operation and no scan for catalogs fails, `driver add <url>`
\* with the gate on stages only packs all of whose own catalogs are valid,
\* whatever a killed or finished download left in the directory it unpacks to.
THEOREM UrlPackSigned ==
  ASSUME ~CanFail("disk"), ~CanFail("scan")
  PROVE  SideSpec => UrlPackIsSigned
<1>1. UrlIInv /\ [SideNext]_sideVars =>
        [\A p \in Proc :
           /\ At(p, "folder") /\ Kind(p) = "url" /\ sl'[p] # sl[p]
           /\ ~sl[p].call.noVerify /\ ~sl[p].call.lean
           => \A k \in packages' \ packages : Cats[k] = {"Valid"}]_sideVars
  BY UrlStepStagesValid
<1>2. UrlIInv /\ [SideNext]_sideVars => UrlIInv'
  BY UrlNextInv, SideNextInv DEF UrlIInv
<1>3. SideSpec => []UrlIInv
  BY <1>2, UrlInitInv, PTL DEF SideSpec
<1> QED BY <1>1, <1>3, PTL DEF SideSpec, UrlPackIsSigned

-----------------------------------------------------------------------------
(* A swap is all or nothing.                                              *)

\* A queue n that prints with the driver d.
Prints(qs, n, d) == \E q \in qs : q.name = n /\ q.driver = d

\* The driver a frame sets the queue to.
Chosen(f) == IF f.pick # None THEN f.pick ELSE f.driver

\* Where a swap is before the queue is set.
SwapPc == {"resolve", "bundle", "bundleStage", "need", "download", "unpack", "gate", "infs",
           "after", "checkDriver", "addDriver", "setQueue"}

\* Until Set-Printer the queue prints as it did, and a swap that gives up leaves it at
\* that; from there on it prints with the chosen driver, which is registered.
Swapping(f, qs, reg) ==
  f.swap =>
    /\ f.pc \in SwapPc \cup {"record", "done", "killed"}
    /\ f.call.kind = "usb"
    /\ f.pc \in SwapPc \/ (f.pc = "done" /\ f.outcome # "ok") =>
         Prints(qs, f.call.device, f.was)
    /\ f.pc = "record" \/ (f.pc = "done" /\ f.outcome = "ok") =>
         Prints(qs, f.call.device, Chosen(f)) /\ Chosen(f) \in reg

\* The only command that ever started, as far as it is a swap.
SwapIInv ==
  \A p \in Proc : (\A r \in Proc \ {p} : sl[r].pc = "idle") => Swapping(sl[p], queues, registered)

\* What a step keeps of a frame f when it goes on to u; it does not go back to the start.
Keeps(f, u) ==
  /\ u.swap = f.swap
  /\ u.call = f.call
  /\ u.was = f.was
  /\ f.pc # "idle" => u.pc # "idle"

\* No edit of the other fields changes that.
LEMMA EditsKeep ==
  ASSUME NEW f \in SideFrame, NEW a, NEW b, NEW c, NEW d, a # "idle"
  PROVE  /\ Keeps(f, [f EXCEPT !.pc = a]) /\ Keeps(f, [f EXCEPT !.pc = a, !.outcome = b])
         /\ Keeps(f, [f EXCEPT !.pc = a, !.driver = b])
         /\ Keeps(f, [f EXCEPT !.pc = a, !.driver = b, !.outcome = c])
         /\ Keeps(f, [f EXCEPT !.pc = a, !.driver = b, !.local = c])
         /\ Keeps(f, [f EXCEPT !.pc = a, !.pack = b]) /\ Keeps(f, [f EXCEPT !.pc = a, !.pick = b])
         /\ Keeps(f, [f EXCEPT !.pc = a, !.pick = b, !.tries = c])
         /\ Keeps(f, [f EXCEPT !.pc = a, !.tries = b])
         /\ Keeps(f, [f EXCEPT !.pc = a, !.verdict = b])
         /\ Keeps(f, [f EXCEPT !.pc = a, !.verdict = b, !.todo = c, !.staged = d])
         /\ Keeps(f, [f EXCEPT !.pc = a, !.verdict = b, !.outcome = c])
         /\ Keeps(f, [f EXCEPT !.pc = a, !.names = b])
  BY DEF Keeps, SideFrame

\* Nor does one that stays where it is.
LEMMA EditsStay ==
  ASSUME NEW f \in SideFrame, NEW b, NEW c
  PROVE  /\ Keeps(f, [f EXCEPT !.tries = b]) /\ Keeps(f, [f EXCEPT !.names = b])
         /\ Keeps(f, [f EXCEPT !.todo = b]) /\ Keeps(f, [f EXCEPT !.todo = b, !.staged = c])
  BY DEF Keeps, SideFrame

\* Every step of `driver add` keeps these.
LEMMA AddKeeps ==
  ASSUME SideIInv, NEW p \in Proc, DriverAddStep(p)
  PROVE  Keeps(sl[p], sl'[p])
<1> DEFINE f == sl[p]
<1>1. f \in SideFrame
  BY SideGood DEF GoodSide
<1>2. ASSUME NEW u, Step(p, u), Keeps(f, u) PROVE Keeps(f, sl'[p])
  BY <1>2, StepSets
<1>3. ASSUME NEW pc, pc # "idle", To(p, pc) \/ Step(p, [f EXCEPT !.pc = pc])
      PROVE  Keeps(f, sl'[p])
  BY <1>1, <1>2, <1>3, EditsKeep DEF To, Quietly
<1>4. ASSUME NEW o, Done(p, o) \/ Step(p, [f EXCEPT !.pc = "done", !.outcome = o])
      PROVE  Keeps(f, sl'[p])
  BY <1>1, <1>2, <1>4, EditsKeep DEF Quietly, Done
<1>5. CASE \/ OpenPath(p) \/ PathMissing(p) \/ PickFails(p) \/ DownloadFails(p) \/ Unpacked(p)
           \/ UnpackFails(p) \/ NothingStaged(p) \/ NamesDone(p) \/ RegisterDriver(p)
           \/ RegisterDriverFails(p)
  BY <1>3, <1>5, <1>4 DEF OpenPath, PathMissing, PickFails, DownloadFails, Unpacked, Unsourced,
       UnpackFails, NothingStaged, NamesDone, RegisterDriver, RegisterDriverFails
<1>6. CASE PickDriver(p)
  <2>1. PICK d : \/ Step(p, [f EXCEPT !.pc = "done", !.driver = d, !.outcome = "ok"])
                 \/ Step(p, [f EXCEPT !.pc = "download", !.driver = d])
    BY <1>6 DEF PickDriver, Quietly
  <2> QED BY <1>1, <1>2, <2>1, EditsKeep
<1>7. CASE DownloadUrl(p) \/ DownloadPack(p)
  <2>1. PICK k : Step(p, [f EXCEPT !.pc = "unpack", !.pack = k])
    BY <1>7 DEF DownloadUrl, DownloadPack, Quietly
  <2> QED BY <1>1, <1>2, <2>1, EditsKeep
<1>8. CASE UnpackFile(p)
  BY <1>8 DEF UnpackFile, Keeps
<1>9. ASSUME NEW v, Admit(p, v) PROVE Keeps(f, sl'[p])
  <2>1. \/ Step(p, [f EXCEPT !.pc = "folder", !.verdict = v])
        \/ \E ks : Step(p, [f EXCEPT !.pc = "infs", !.verdict = v, !.todo = ks, !.staged = {}])
    BY <1>9 DEF Admit, Quietly
  <2> QED BY <1>1, <1>2, <2>1, EditsKeep
<1>10. CASE SideGateOpen(p) \/ SideGatePasses(p) \/ SideNoCatalogs(p)
  BY <1>9, <1>10 DEF SideGateOpen, SideGatePasses, SideNoCatalogs
<1>11. CASE SideGateRefuses(p)
  <2>1. PICK v : Step(p, [f EXCEPT !.pc = "done", !.verdict = v, !.outcome = "refused"])
    BY <1>11 DEF SideGateRefuses, Quietly
  <2> QED BY <1>1, <1>2, <2>1, EditsKeep
<1>12. CASE StageFolder(p)
  <2>1. \/ Step(p, [f EXCEPT !.pc = "names", !.names = Named(Infs(Here(p)))])
        \/ Step(p, [f EXCEPT !.pc = "done", !.outcome = "error"])
    BY <1>12 DEF StageFolder
  <2> QED BY <1>1, <1>2, <2>1, EditsKeep
<1>13. CASE StageInf(p) \/ StageInfFails(p)
  <2>1. PICK k : \/ Step(p, [f EXCEPT !.todo = @ \ {k}, !.staged = @ \cup {k}])
                 \/ Step(p, [f EXCEPT !.todo = @ \ {k}])
    BY <1>13 DEF StageInf, StageInfFails, Quietly
  <2> QED BY <1>1, <1>2, <2>1, EditsStay
<1>14. CASE InfsStaged(p)
  <2>1. \/ Step(p, [f EXCEPT !.pc = "names", !.names = Named(f.staged)])
        \/ \E d, b : b # "idle" /\ Step(p, [f EXCEPT !.pc = b, !.driver = d])
    BY <1>14 DEF InfsStaged, Quietly
  <2> QED BY <1>1, <1>2, <2>1, EditsKeep
<1>15. CASE RegisterName(p) \/ RegisterSkips(p)
  <2>1. PICK d : Step(p, [f EXCEPT !.names = @ \ {d}])
    BY <1>15 DEF RegisterName, RegisterSkips, Quietly
  <2> QED BY <1>1, <1>2, <2>1, EditsStay
<1> QED BY <1>5, <1>6, <1>7, <1>8, <1>10, <1>11, <1>12, <1>13, <1>14, <1>15 DEF DriverAddStep

\* Every step of `add --usb` keeps these, but the one that finds the queue.
LEMMA UsbKeeps ==
  ASSUME SideIInv, NEW p \in Proc, UsbStep(p), ~LookQueue(p)
  PROVE  Keeps(sl[p], sl'[p])
<1> DEFINE f == sl[p]
<1>1. f \in SideFrame
  BY SideGood DEF GoodSide
<1>2. ASSUME NEW u, Step(p, u), Keeps(f, u) PROVE Keeps(f, sl'[p])
  BY <1>2, StepSets
<1>3. ASSUME NEW pc, pc # "idle", To(p, pc) \/ Step(p, [f EXCEPT !.pc = pc])
      PROVE  Keeps(f, sl'[p])
  BY <1>1, <1>2, <1>3, EditsKeep DEF To, Quietly
<1>4. ASSUME NEW o, Done(p, o) \/ Step(p, [f EXCEPT !.pc = "done", !.outcome = o])
      PROVE  Keeps(f, sl'[p])
  BY <1>1, <1>2, <1>4, EditsKeep DEF Quietly, Done
<1>5. ASSUME BundleOver(p) PROVE Keeps(f, sl'[p])
  BY <1>1, <1>2, <1>5, EditsKeep DEF BundleOver, Quietly
<1>6. CASE \/ LookDevice(p) \/ NoDevice(p) \/ HintFails(p) \/ BundleNone(p) \/ StageBundle(p)
           \/ Need(p) \/ After(p) \/ CheckDriver(p) \/ AddDriver(p) \/ SetQueue(p)
           \/ RecordUpdate(p) \/ PollFinds(p) \/ FindPort(p) \/ NoPort(p) \/ AddPrinter(p)
           \/ AddPrinterFails(p)
  BY <1>3, <1>6, <1>4 DEF LookDevice, NoDevice, HintFails, BundleNone, StageBundle, Need, After,
       CheckDriver, AddDriver, SetQueue, RecordUpdate, PollFinds, FindPort, NoPort, AddPrinter,
       AddPrinterFails
<1>7. CASE StageBundleFails(p) \/ UpdateFails(p) \/ PollOver(p)
  BY <1>3, <1>5, <1>7, <1>4 DEF StageBundleFails, UpdateFails, PollOver
<1>8. CASE ResolveHint(p)
  <2>1. PICK d, b : Step(p, [f EXCEPT !.pc = "bundle", !.driver = d, !.local = b])
    BY <1>8 DEF ResolveHint, Quietly
  <2> QED BY <1>1, <1>2, <2>1, EditsKeep
<1>9. CASE BundlePasses(p)
  <2>1. PICK d : Step(p, [f EXCEPT !.pc = "bundleStage", !.pick = d])
    BY <1>9 DEF BundlePasses, Quietly
  <2> QED BY <1>1, <1>2, <2>1, EditsKeep
<1>10. CASE StageWhole(p)
  <2>1. \/ Step(p, [f EXCEPT !.pc = "poll", !.tries = 0])
        \/ Step(p, [f EXCEPT !.pc = "done", !.outcome = "error"])
    BY <1>10 DEF StageWhole
  <2> QED BY <1>1, <1>2, <2>1, EditsKeep
<1>11. CASE PollAgain(p)
  BY <1>1, <1>2, <1>11, EditsStay DEF PollAgain, Quietly
<1> QED BY <1>6, <1>7, <1>8, <1>9, <1>10, <1>11 DEF UsbStep

\* A swap that has not come to Set-Printer, or gave up.
Unset(u) == u.pc \in SwapPc \/ (u.pc = "done" /\ u.outcome # "ok")

\* The places a swap goes to.
LEMMA SwapPlaces ==
  /\ "unpack" \in SwapPc /\ "gate" \in SwapPc /\ "infs" \in SwapPc /\ "after" \in SwapPc
  /\ "bundle" \in SwapPc /\ "bundleStage" \in SwapPc /\ "need" \in SwapPc
  /\ "download" \in SwapPc /\ "checkDriver" \in SwapPc /\ "addDriver" \in SwapPc
  /\ "setQueue" \in SwapPc /\ "resolve" \in SwapPc
  BY DEF SwapPc

\* The steps of a swap that it shares with `driver add`.
LEMMA AddMoves ==
  ASSUME SideIInv, NEW p \in Proc, DriverAddStep(p), sl[p].pc \in SwapPc \cup {"record"},
         sl[p].call.kind = "usb"
  PROVE  sl[p].pc \in SwapPc /\ Unset(sl'[p])
<1> DEFINE f == sl[p]
<1>1. f \in SideFrame /\ Kind(p) = "usb" /\ Usb(p)
  BY SideGood DEF GoodSide, Kind, Usb
<1>2. ASSUME NEW u, Step(p, u), Unset(u) PROVE Unset(sl'[p])
  BY <1>2, StepSets
<1>3. ASSUME NEW pc \in SwapPc, To(p, pc) \/ Step(p, [f EXCEPT !.pc = pc]) PROVE Unset(sl'[p])
  <2>1. Unset([f EXCEPT !.pc = pc])
    BY <1>1 DEF SideFrame, Unset, SwapPc
  <2> QED BY <1>2, <1>3, <2>1 DEF To, Quietly
<1>4. f.pc \in SwapPc
  BY <1>1 DEF DriverAddStep, OpenPath, PathMissing, PickDriver, PickFails, DownloadUrl, DownloadPack,
       DownloadFails, UnpackFile, Unpacked, UnpackFails, SideGateOpen, SideGatePasses,
       SideNoCatalogs, SideGateRefuses, SideGated, StageFolder, StageInf, StageInfFails, InfsStaged,
       NothingStaged, RegisterName, RegisterSkips, NamesDone, RegisterDriver, RegisterDriverFails,
       At, SwapPc
<1>5. CASE DownloadPack(p)
  <2>1. PICK k : Step(p, [f EXCEPT !.pc = "unpack", !.pack = k])
    BY <1>5 DEF DownloadPack, Quietly
  <2>2. Unset([f EXCEPT !.pc = "unpack", !.pack = k])
    BY <1>1 DEF SideFrame, Unset, SwapPc
  <2> QED BY <1>2, <1>4, <2>1, <2>2
<1>6. CASE DownloadFails(p) \/ Unpacked(p) \/ UnpackFails(p) \/ NothingStaged(p)
  <2>1. To(p, "after") \/ To(p, "gate") \/ Step(p, [f EXCEPT !.pc = "after"])
    BY <1>1, <1>6 DEF DownloadFails, Unpacked, UnpackFails, NothingStaged, Unsourced
  <2> QED BY <1>3, <1>4, <2>1, SwapPlaces
<1>7. CASE UnpackFile(p)
  BY <1>4, <1>7 DEF UnpackFile, Unset
<1>8. ASSUME NEW v, Admit(p, v) PROVE Unset(sl'[p])
  <2>1. PICK ks : Step(p, [f EXCEPT !.pc = "infs", !.verdict = v, !.todo = ks, !.staged = {}])
    BY <1>1, <1>8 DEF Admit, Quietly
  <2>2. Unset([f EXCEPT !.pc = "infs", !.verdict = v, !.todo = ks, !.staged = {}])
    BY <1>1 DEF SideFrame, Unset, SwapPc
  <2> QED BY <1>2, <2>1, <2>2
<1>9. CASE SideGateOpen(p) \/ SideGatePasses(p) \/ SideNoCatalogs(p)
  BY <1>4, <1>8, <1>9 DEF SideGateOpen, SideGatePasses, SideNoCatalogs
<1>10. CASE SideGateRefuses(p)
  <2>1. PICK v : Step(p, [f EXCEPT !.pc = "done", !.verdict = v, !.outcome = "refused"])
    BY <1>10 DEF SideGateRefuses, Quietly
  <2>2. Unset([f EXCEPT !.pc = "done", !.verdict = v, !.outcome = "refused"])
    BY <1>1 DEF SideFrame, Unset
  <2> QED BY <1>2, <1>4, <2>1, <2>2
<1>11. CASE StageInf(p) \/ StageInfFails(p)
  <2>1. PICK k : \/ Step(p, [f EXCEPT !.todo = @ \ {k}, !.staged = @ \cup {k}])
                 \/ Step(p, [f EXCEPT !.todo = @ \ {k}])
    BY <1>11 DEF StageInf, StageInfFails, Quietly
  <2>2. /\ Unset([f EXCEPT !.todo = @ \ {k}, !.staged = @ \cup {k}])
        /\ Unset([f EXCEPT !.todo = @ \ {k}])
    BY <1>1, <1>4 DEF SideFrame, Unset
  <2> QED BY <1>2, <1>4, <2>1, <2>2
<1>12. CASE InfsStaged(p)
  <2>1. PICK d : Step(p, [f EXCEPT !.pc = "after", !.driver = d])
    BY <1>1, <1>12 DEF InfsStaged, Quietly
  <2>2. Unset([f EXCEPT !.pc = "after", !.driver = d])
    BY <1>1 DEF SideFrame, Unset, SwapPc
  <2> QED BY <1>2, <1>4, <2>1, <2>2
<1>13. ~(\/ OpenPath(p) \/ PathMissing(p) \/ PickDriver(p) \/ PickFails(p) \/ DownloadUrl(p)
         \/ StageFolder(p) \/ RegisterName(p) \/ RegisterSkips(p) \/ NamesDone(p)
         \/ RegisterDriver(p) \/ RegisterDriverFails(p))
  BY <1>1, <1>4 DEF OpenPath, PathMissing, PickDriver, PickFails, DownloadUrl, StageFolder,
       RegisterName, RegisterSkips, NamesDone, RegisterDriver, RegisterDriverFails, At, SwapPc
<1> QED BY <1>5, <1>6, <1>7, <1>9, <1>10, <1>11, <1>12, <1>13 DEF DriverAddStep

\* The steps of a swap before Set-Printer, and its failures.
LEMMA UsbMoves ==
  ASSUME SideIInv, NEW p \in Proc, UsbStep(p), sl[p].pc \in SwapPc \cup {"record"}, sl[p].swap,
         ~SetQueue(p), ~RecordUpdate(p)
  PROVE  sl[p].pc \in SwapPc /\ Unset(sl'[p])
<1> DEFINE f == sl[p]
<1>1. f \in SideFrame
  BY SideGood DEF GoodSide
<1>2. ASSUME NEW u, Step(p, u), Unset(u) PROVE Unset(sl'[p])
  BY <1>2, StepSets
<1>3. ASSUME NEW pc \in SwapPc, To(p, pc) \/ Step(p, [f EXCEPT !.pc = pc]) PROVE Unset(sl'[p])
  <2>1. Unset([f EXCEPT !.pc = pc])
    BY <1>1 DEF SideFrame, Unset, SwapPc
  <2> QED BY <1>2, <1>3, <2>1 DEF To, Quietly
<1>4. ASSUME BundleOver(p) PROVE Unset(sl'[p])
  <2>1. Unset([f EXCEPT !.pc = "need", !.pick = None, !.tries = 0])
    BY <1>1 DEF SideFrame, Unset, SwapPc
  <2> QED BY <1>2, <1>4, <2>1 DEF BundleOver, Quietly
<1>5. ASSUME Done(p, "error") PROVE Unset(sl'[p])
  <2>1. Unset([f EXCEPT !.pc = "done", !.outcome = "error"])
    BY <1>1 DEF SideFrame, Unset
  <2> QED BY <1>2, <1>5, <2>1 DEF Done, Quietly
<1>6. CASE \/ BundleNone(p) \/ StageBundle(p) \/ Need(p) \/ After(p) \/ CheckDriver(p) \/ AddDriver(p)
  <2>1. f.pc \in SwapPc
    BY <1>6 DEF BundleNone, StageBundle, Need, After, CheckDriver, AddDriver, At, SwapPc
  <2>2. \E pc \in SwapPc : To(p, pc) \/ Step(p, [f EXCEPT !.pc = pc])
    BY <1>6, SwapPlaces DEF BundleNone, StageBundle, Need, After, CheckDriver, AddDriver
  <2> QED BY <1>3, <2>1, <2>2
<1>7. CASE HintFails(p) \/ StageBundleFails(p) \/ UpdateFails(p)
  BY <1>4, <1>5, <1>7 DEF HintFails, StageBundleFails, UpdateFails, At, SwapPc
<1>8. CASE ResolveHint(p)
  <2>1. PICK d, b : Step(p, [f EXCEPT !.pc = "bundle", !.driver = d, !.local = b])
    BY <1>8 DEF ResolveHint, Quietly
  <2>2. Unset([f EXCEPT !.pc = "bundle", !.driver = d, !.local = b])
    BY <1>1 DEF SideFrame, Unset, SwapPc
  <2> QED BY <1>2, <1>8, <2>1, <2>2, SwapPlaces DEF ResolveHint, At
<1>9. CASE BundlePasses(p)
  <2>1. PICK d : Step(p, [f EXCEPT !.pc = "bundleStage", !.pick = d])
    BY <1>9 DEF BundlePasses, Quietly
  <2>2. Unset([f EXCEPT !.pc = "bundleStage", !.pick = d])
    BY <1>1 DEF SideFrame, Unset, SwapPc
  <2> QED BY <1>2, <1>9, <2>1, <2>2, SwapPlaces DEF BundlePasses, At
<1> QED BY <1>6, <1>7, <1>8, <1>9
        DEF UsbStep, LookQueue, LookDevice, NoDevice, StageWhole, PollFinds, PollAgain, PollOver,
            FindPort, NoPort, AddPrinter, AddPrinterFails, At, SwapPc

\* Nobody but Set-Printer takes a queue away, and nobody a driver.
LEMMA StepTakesNothing ==
  ASSUME NEW p \in Proc, SideStep(p), ~SetQueue(p)
  PROVE  queues \subseteq queues' /\ registered \subseteq registered'
<1>1. CASE DriverAddStep(p)
  BY <1>1 DEF DriverAddStep, OpenPath, PathMissing, PickDriver, PickFails, DownloadUrl, DownloadPack,
       DownloadFails, UnpackFile, Unpacked, UnpackFails, SideGateOpen, SideGatePasses,
       SideNoCatalogs, SideGateRefuses, StageFolder, StageInf, StageInfFails, InfsStaged,
       NothingStaged, RegisterName, RegisterSkips, NamesDone, RegisterDriver, RegisterDriverFails,
       Unsourced, Admit, To, Done, Quietly, Register, PnputilAll, printVars
<1>2. CASE UsbStep(p)
  BY <1>2 DEF UsbStep, LookQueue, LookDevice, NoDevice, ResolveHint, HintFails, BundleNone,
       BundlePasses, StageBundle, StageBundleFails, Need, After, CheckDriver, AddDriver,
       UpdateFails, RecordUpdate, StageWhole, PollFinds, PollAgain, PollOver, FindPort, NoPort,
       AddPrinter, AddPrinterFails, BundleOver, To, Done, Quietly, Register, PnputilAll, AddQueue,
       printVars
<1> QED BY <1>1, <1>2 DEF SideStep

\* Only a running command takes a step.
LEMMA StepRuns ==
  ASSUME NEW p \in Proc, SideStep(p)
  PROVE  Running(sl[p])
<1>1. CASE DriverAddStep(p)
  BY <1>1 DEF DriverAddStep, OpenPath, PathMissing, PickDriver, PickFails, DownloadUrl,
       DownloadPack, DownloadFails, UnpackFile, Unpacked, UnpackFails, SideGateOpen,
       SideGatePasses, SideNoCatalogs, SideGateRefuses, SideGated, StageFolder, StageInf,
       StageInfFails, InfsStaged, NothingStaged, RegisterName, RegisterSkips, NamesDone,
       RegisterDriver, RegisterDriverFails, At, Running
<1>2. CASE UsbStep(p)
  BY <1>2 DEF UsbStep, LookQueue, LookDevice, NoDevice, ResolveHint, HintFails, BundleNone,
       BundlePasses, StageBundle, StageBundleFails, Need, After, CheckDriver, AddDriver, SetQueue,
       UpdateFails, RecordUpdate, StageWhole, PollFinds, PollAgain, PollOver, FindPort, NoPort,
       AddPrinter, AddPrinterFails, At, Running
<1> QED BY <1>1, <1>2 DEF SideStep

\* A step of one invocation leaves the frames of the others alone.
LEMMA StepLeavesOthers ==
  ASSUME SideIInv, NEW p \in Proc, SideStep(p) \/ KillSide(p) \/ StartSide(p)
  PROVE  \A r \in Proc \ {p} : sl'[r] = sl[r]
<1> DEFINE Others == \A r \in Proc \ {p} : sl'[r] = sl[r]
<1>1. ASSUME NEW u, Step(p, u) PROVE Others
  BY <1>1, StepSets
<1>2. sl' = sl => Others
  OBVIOUS
<1> SUFFICES Others
  OBVIOUS
<1> HIDE DEF Others
<1>3. ASSUME NEW u, Quietly(p, u) PROVE Others
  BY <1>1, <1>3 DEF Quietly
<1>4. ASSUME NEW pc, To(p, pc) \/ Done(p, pc) PROVE Others
  BY <1>3, <1>4 DEF To, Done
<1>5. CASE DriverAddStep(p)
  BY <1>1, <1>2, <1>3, <1>4, <1>5
     DEF DriverAddStep, OpenPath, PathMissing, PickDriver, PickFails, DownloadUrl, DownloadPack,
       DownloadFails, UnpackFile, Unpacked, UnpackFails, SideGateOpen, SideGatePasses,
       SideNoCatalogs, SideGateRefuses, StageFolder, StageInf, StageInfFails, InfsStaged,
       NothingStaged, RegisterName, RegisterSkips, NamesDone, RegisterDriver, RegisterDriverFails,
       Unsourced, Admit
<1>6. CASE UsbStep(p)
  BY <1>1, <1>3, <1>4, <1>6
     DEF UsbStep, LookQueue, LookDevice, NoDevice, ResolveHint, HintFails, BundleNone,
       BundlePasses, StageBundle, StageBundleFails, Need, After, CheckDriver, AddDriver, SetQueue,
       UpdateFails, RecordUpdate, StageWhole, PollFinds, PollAgain, PollOver, FindPort, NoPort,
       AddPrinter, AddPrinterFails, BundleOver
<1>7. CASE KillSide(p) \/ StartSide(p)
  BY <1>3, <1>4, <1>7 DEF KillSide, StartSide
<1> QED BY <1>5, <1>6, <1>7 DEF SideStep

\* A command that starts has found no queue yet.
LEMMA StartsClean ==
  ASSUME SideIInv, NEW p \in Proc, StartSide(p)
  PROVE  ~sl'[p].swap /\ sl'[p].pc # "idle"
<1>1. PICK c \in SideCalls : Step(p, [IdleSide EXCEPT !.pc = FirstStep(c.kind), !.call = c])
  BY DEF StartSide, Quietly
<1>2. FirstStep(c.kind) \in {"open", "download", "pick", "look"}
  BY SideCallsAssumption DEF SideCall, FirstStep
<1> DEFINE u == [IdleSide EXCEPT !.pc = FirstStep(c.kind), !.call = c]
<1>3. u.pc = FirstStep(c.kind) /\ ~u.swap
  BY DEF IdleSide
<1>4. sl'[p] = u
  BY <1>1, StepSets
<1> HIDE DEF u
<1> QED BY <1>2, <1>3, <1>4

\* A command that took a step has started.
LEMMA StepNotIdle ==
  ASSUME SideIInv, NEW p \in Proc, SideStep(p) \/ KillSide(p) \/ StartSide(p)
  PROVE  sl'[p].pc # "idle"
<1>1. CASE LookQueue(p)
  <2>1. sl'[p] = [sl[p] EXCEPT !.pc = "resolve", !.swap = TRUE, !.was = DriverOf(Target(p))]
    BY <1>1, StepSets DEF LookQueue, Quietly
  <2> QED BY <2>1, SideGood DEF GoodSide, SideFrame
<1>2. CASE SideStep(p) /\ ~LookQueue(p)
  <2>1. sl[p].pc # "idle"
    BY <1>2, StepRuns DEF Running
  <2> QED BY <1>2, <2>1, AddKeeps, UsbKeeps DEF SideStep, Keeps
<1>3. CASE KillSide(p)
  <2>1. sl'[p] = [sl[p] EXCEPT !.pc = "killed"]
    BY <1>3, StepSets DEF KillSide, To, Quietly
  <2> QED BY <2>1, SideGood DEF GoodSide, SideFrame
<1>4. CASE StartSide(p)
  BY <1>4, StartsClean
<1> QED BY <1>1, <1>2, <1>3, <1>4

\* A queue that is there still is, and so is a driver.
LEMMA StillPrints ==
  ASSUME NEW f, queues \subseteq queues', registered \subseteq registered',
         Swapping(f, queues, registered)
  PROVE  Swapping(f, queues', registered')
  BY DEF Swapping, Prints

\* Set-Printer leaves a queue that prints with the chosen driver.
LEMMA SetQueueSwaps ==
  ASSUME SideIInv, NEW p \in Proc, SetQueue(p), Swapping(sl[p], queues, registered)
  PROVE  Swapping(sl'[p], queues', registered')
<1> DEFINE f == sl[p]
           u == [f EXCEPT !.pc = "record"]
<1>1. f \in SideFrame /\ sl'[p] = u
  BY SideGood, StepSets DEF GoodSide, SetQueue
<1>2. /\ u.pc = "record" /\ u.swap = f.swap /\ u.call = f.call /\ u.pick = f.pick
      /\ u.driver = f.driver
  BY <1>1 DEF SideFrame
<1>3. PICK q \in queues :
        q.name = Target(p) /\ queues' = (queues \ {q}) \cup {[q EXCEPT !.driver = NewDriver(p)]}
  BY DEF SetQueue
<1>4. [q EXCEPT !.driver = NewDriver(p)].name = q.name
      /\ [q EXCEPT !.driver = NewDriver(p)].driver = NewDriver(p)
  <2>1. q \in QueueRec
    BY DEF SideIInv, SideTypeOK, PrintTypeOK
  <2> QED BY <2>1 DEF QueueRec
<1>5. Prints(queues', Target(p), NewDriver(p))
  BY <1>3, <1>4 DEF Prints
<1>6. NewDriver(p) \in registered'
  BY DEF SetQueue
<1>7. Chosen(u) = NewDriver(p) /\ u.call.device = Target(p) /\ (f.swap => f.call.kind = "usb")
  BY <1>2 DEF Chosen, NewDriver, Target, Swapping
<1> HIDE DEF u, f
<1> QED BY <1>1, <1>2, <1>5, <1>6, <1>7 DEF Swapping, SwapPc

\* The update is put down and reported.
LEMMA RecordSwaps ==
  ASSUME SideIInv, NEW p \in Proc, RecordUpdate(p), Swapping(sl[p], queues, registered)
  PROVE  Swapping(sl'[p], queues', registered')
<1> DEFINE f == sl[p]
           u == [f EXCEPT !.pc = "done", !.outcome = "ok"]
<1>1. f \in SideFrame /\ sl'[p] = u /\ f.pc = "record"
  BY SideGood, StepSets DEF GoodSide, RecordUpdate, At
<1>2. /\ u.pc = "done" /\ u.outcome = "ok" /\ u.swap = f.swap /\ u.call = f.call
      /\ u.pick = f.pick /\ u.driver = f.driver
  BY <1>1 DEF SideFrame
<1>3. queues' = queues /\ registered' = registered
  BY DEF RecordUpdate, printVars
<1>4. Chosen(u) = Chosen(f)
  BY <1>2 DEF Chosen
<1>5. f.swap => /\ f.call.kind = "usb" /\ Chosen(f) \in registered
                /\ Prints(queues, f.call.device, Chosen(f))
  BY <1>1 DEF Swapping
<1> HIDE DEF u, f
<1> QED BY <1>1, <1>2, <1>3, <1>4, <1>5 DEF Swapping, SwapPc

\* The queue that is found prints with the driver that is noted.
LEMMA LookSwaps ==
  ASSUME SideIInv, NEW p \in Proc, LookQueue(p)
  PROVE  Swapping(sl'[p], queues', registered')
<1> DEFINE f == sl[p]
           u == [f EXCEPT !.pc = "resolve", !.swap = TRUE, !.was = DriverOf(Target(p))]
<1>1. f \in SideFrame /\ sl'[p] = u /\ f.pc = "look" /\ Knows(f)
  BY SideGood, StepSets DEF GoodSide, LookQueue, At, Quietly
<1>2. u.pc = "resolve" /\ u.call = f.call /\ u.was = DriverOf(Target(p))
  BY <1>1 DEF SideFrame
<1>3. f.call.kind = "usb"
  BY <1>1 DEF Knows, UsbPc
<1>4. Prints(queues, f.call.device, DriverOf(Target(p)))
  BY DEF LookQueue, Exists, Prints, DriverOf, Target
<1>5. queues' = queues
  BY DEF LookQueue, Quietly, printVars
<1> HIDE DEF u, f
<1> QED BY <1>1, <1>2, <1>3, <1>4, <1>5 DEF Swapping, SwapPc

\* Every step of a swap keeps that.
LEMMA StepSwaps ==
  ASSUME SideIInv, NEW p \in Proc, SideNext, SideStep(p), Swapping(sl[p], queues, registered)
  PROVE  Swapping(sl'[p], queues', registered')
<1>1. CASE LookQueue(p)
  BY <1>1, LookSwaps
<1>2. CASE SetQueue(p)
  BY <1>2, SetQueueSwaps
<1>3. CASE RecordUpdate(p)
  BY <1>3, RecordSwaps
<1>4. CASE ~LookQueue(p) /\ ~SetQueue(p) /\ ~RecordUpdate(p)
  <2>1. Keeps(sl[p], sl'[p])
    BY <1>4, AddKeeps, UsbKeeps DEF SideStep
  <2>2. queues \subseteq queues' /\ registered \subseteq registered'
    BY <1>4, StepTakesNothing
  <2>3. CASE sl[p].swap
    <3>1. sl[p].pc \in SwapPc \cup {"record"} /\ sl[p].call.kind = "usb"
      <4>1. sl[p].pc \notin {"done", "killed"}
        BY StepRuns DEF Running
      <4> QED BY <2>3, <4>1 DEF Swapping
    <3>2. sl[p].pc \in SwapPc /\ Unset(sl'[p])
      BY <1>4, <2>3, <3>1, AddMoves, UsbMoves DEF SideStep
    <3> QED BY <2>1, <2>2, <2>3, <3>1, <3>2 DEF Swapping, Keeps, Unset, Prints, SwapPc
  <2>4. CASE ~sl[p].swap
    BY <2>1, <2>4 DEF Swapping, Keeps
  <2> QED BY <2>3, <2>4
<1> QED BY <1>1, <1>2, <1>3, <1>4

\* Every step keeps what the one command that ever started knows of its swap.
LEMMA SwapNextInv ==
  ASSUME SideIInv, SwapIInv, [SideNext]_sideVars
  PROVE  SwapIInv'
<1> SUFFICES ASSUME NEW p \in Proc, \A r \in Proc \ {p} : sl'[r].pc = "idle"
             PROVE  Swapping(sl'[p], queues', registered')
  <2>1. \A p \in Proc : Swapping(sl'[p], queues', registered') => Swapping(sl[p], queues, registered)'
    BY DEF Swapping, Prints, Chosen, SwapPc
  <2> QED BY <2>1 DEF SwapIInv
<1>1. CASE PnpBinds \/ UNCHANGED sideVars
  <2>1. sl' = sl /\ queues \subseteq queues' /\ registered \subseteq registered'
    BY <1>1 DEF PnpBinds, sideVars, printVars
  <2> QED BY <2>1, StillPrints DEF SwapIInv
<1>2. ASSUME NEW r \in Proc, SideStep(r) \/ KillSide(r) \/ StartSide(r) PROVE r = p
  <2>1. sl'[r].pc # "idle"
    BY <1>2, StepNotIdle
  <2> QED BY <2>1
<1>3. ASSUME SideStep(p) \/ KillSide(p) \/ StartSide(p)
      PROVE  Swapping(sl[p], queues, registered)
  <2>1. \A r \in Proc \ {p} : sl[r].pc = "idle"
    BY <1>3, StepLeavesOthers
  <2> QED BY <2>1 DEF SwapIInv
<1>4. CASE StartSide(p)
  <2>1. ~sl'[p].swap
    BY <1>4, StartsClean
  <2> QED BY <2>1 DEF Swapping
<1>5. CASE KillSide(p)
  <2>1. sl'[p] = [sl[p] EXCEPT !.pc = "killed"] /\ sl[p] \in SideFrame
    BY <1>5, SideGood, StepSets DEF KillSide, To, Quietly, GoodSide
  <2>2. sl'[p].pc = "killed" /\ sl'[p].swap = sl[p].swap /\ sl'[p].call = sl[p].call
    BY <2>1 DEF SideFrame
  <2>3. Swapping(sl[p], queues, registered)
    BY <1>3, <1>5
  <2> QED BY <2>2, <2>3 DEF Swapping, SwapPc
<1>6. CASE SideNext /\ SideStep(p)
  BY <1>3, <1>6, StepSwaps
<1> QED BY <1>1, <1>2, <1>4, <1>5, <1>6 DEF SideNext

\* No swap is under way when prinstall starts.
LEMMA SwapInitInv == SideInit => SwapIInv
<1> SUFFICES ASSUME SideInit, NEW p \in Proc PROVE Swapping(sl[p], queues, registered)
  BY DEF SwapIInv
<1>1. ~sl[p].swap
  BY DEF SideInit, IdleSide
<1> QED BY <1>1 DEF Swapping

\* SwapIsAllOrNothing follows from where a swap is.
LEMMA SwapDone == SideIInv /\ SwapIInv => SwapIsAllOrNothing
<1> SUFFICES ASSUME SideIInv, SwapIInv, NEW p \in Proc, sl[p].pc = "done", sl[p].swap,
                    \A r \in Proc \ {p} : sl[r].pc = "idle"
             PROVE  \E q \in queues :
                      /\ q.name = Target(p)
                      /\ q.driver = IF sl[p].outcome = "ok" THEN NewDriver(p) ELSE sl[p].was
                      /\ sl[p].outcome = "ok" => q.driver \in registered
  BY DEF SwapIsAllOrNothing
<1>1. Swapping(sl[p], queues, registered)
  BY DEF SwapIInv
<1>2. NewDriver(p) = Chosen(sl[p]) /\ Target(p) = sl[p].call.device
  BY DEF NewDriver, Chosen, Target
<1> QED BY <1>1, <1>2 DEF Swapping, Prints

\* A swap that is over has swapped the driver of the queue, and the driver is registered,
\* or it has failed and the queue prints as it did: for any device, any packs, failures
\* and kills anywhere, while no other command runs (SwapIsAllOrNothing; run_usb and
\* update_printer_driver).
THEOREM SwapsAreWhole == SideSpec => []SwapIsAllOrNothing
<1>1. SideInit => SideIInv /\ SwapIInv
  BY SideInitInv, SwapInitInv
<1>2. (SideIInv /\ SwapIInv) /\ [SideNext]_sideVars => (SideIInv /\ SwapIInv)'
  BY SideNextInv, SwapNextInv
<1>3. SideIInv /\ SwapIInv => SwapIsAllOrNothing
  BY SwapDone
<1> QED BY <1>1, <1>2, <1>3, PTL DEF SideSpec

=============================================================================
