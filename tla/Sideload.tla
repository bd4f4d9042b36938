------------------------------ MODULE Sideload ------------------------------
(***************************************************************************)
(* The two commands that put a pack into the driver store from a directory *)
(* on disk: `prinstall driver add <folder | inf | url | model>` (add in    *)
(* src/src/commands/driver.rs) and `prinstall add --usb <name>` (run_usb   *)
(* in src/src/commands/add.rs), which swaps the driver of a queue that is  *)
(* there or installs a device that has none.                               *)
(*                                                                         *)
(* Both unpack a download, ask the Authenticode gate about the directory   *)
(* it went to, stage its INFs and go on under the name that an INF gives.  *)
(* One command, or one file written, is one step; a kill may come between  *)
(* any two.  Plug and play is free to bind a device whose pack is staged.  *)
(*                                                                         *)
(* A definition marked "Variant" is a plausible mistake in the definition  *)
(* after it; no action uses it.  The runs must tell the two apart.         *)
(***************************************************************************)
EXTENDS Staging

CONSTANTS
  Proc,         \* invocations of prinstall
  SideCalls,    \* the command lines
  Hint,         \* the names resolve_driver and resolve_driver_pick come up with
  Release,      \* the packs a manifest URL has served, for the drivers it knows
  Mirror,       \* the packs a URL has served, by the directory it unpacks to
  BundleOffer,  \* the drivers the bundle folder may have for a device
  Device,       \* USB printers, each by the queue plug and play makes for it
  Fits,         \* the drivers that name a device
  UsbPort,      \* the port of a device
  Polls,        \* how often the installation looks for the queue: 10
  None

\* `at`: the folder, or the directory of the URL; `file`: the INF in it;
\* `device`: the queue or device of --usb; `name`: --name, or the device's.
SideCall ==
  [kind: {"folder", "file", "url", "model", "usb"}, noVerify: BOOLEAN, lean: BOOLEAN,
   at: Dir \cup {None}, file: Package \cup {None},
   device: Queue \cup {None}, name: Queue \cup {None}]

ASSUME SideCallsAssumption ==
  /\ SideCalls \subseteq SideCall
  /\ \A c \in SideCalls :
       /\ c.kind \in {"folder", "file"} => c.at # None
       /\ c.kind = "file" => c.file # None
       /\ c.kind = "url" => c.at \in StagingDir
       /\ c.kind = "usb" => c.device # None /\ c.name # None
ASSUME OfferAssumption ==
  /\ Hint \cup BundleOffer \subseteq Driver
  /\ DOMAIN Release \subseteq Driver
  /\ \A d \in DOMAIN Release : Release[d] \subseteq Package
  /\ Mirror \in [StagingDir -> SUBSET Package]
ASSUME DeviceAssumption ==
  /\ Device \subseteq Queue
  /\ Fits \in [Device -> SUBSET Driver]
  /\ UsbPort \in [Device -> Port]
ASSUME PollsAssumption == Polls \in Nat \ {0}
ASSUME NoneAssumption == None \notin Queue \cup Driver \cup Package \cup Dir

VARIABLES
  sl,      \* the frame of each invocation
  history  \* the entries of history.toml

sideVars == <<printVars, files, sl, history>>

SidePc == {"idle", "open", "download", "unpack", "gate", "folder", "infs", "names",
           "pick", "register", "look", "resolve", "bundle", "bundleStage", "need",
           "after", "checkDriver", "addDriver", "setQueue", "record",
           "whole", "poll", "port", "addQueue", "done", "killed"}

\* `local`: the driver was in the list of drivers; `pick`: the driver of a
\* bundle while that tier is tried; `was`: what the queue printed with before.
SideFrame ==
  [pc: SidePc, call: SideCalls \cup {None}, driver: Driver \cup {None}, local: BOOLEAN,
   pack: Package \cup {None}, verdict: Verdict \cup {"none", "waived"},
   todo: SUBSET Package, staged: SUBSET Package, names: SUBSET Driver,
   swap: BOOLEAN, pick: Driver \cup {None}, was: Driver \cup {None},
   tries: 0..Polls, outcome: {"none", "ok", "error", "refused"}]

IdleSide ==
  [pc |-> "idle", call |-> None, driver |-> None, local |-> FALSE, pack |-> None,
   verdict |-> "none", todo |-> {}, staged |-> {}, names |-> {}, swap |-> FALSE,
   pick |-> None, was |-> None, tries |-> 0, outcome |-> "none"]

At(p, pc) == sl[p].pc = pc
Kind(p) == sl[p].call.kind
Usb(p) == Kind(p) = "usb"

Step(p, upd) == sl' = [sl EXCEPT ![p] = upd]

\* A step that changes nothing on the machine.
Quietly(p, upd) == Step(p, upd) /\ UNCHANGED <<printVars, files, history>>

To(p, pc) == Quietly(p, [sl[p] EXCEPT !.pc = pc])

Done(p, outcome) == Quietly(p, [sl[p] EXCEPT !.pc = "done", !.outcome = outcome])

\* The directory the invocation reads.
DirNow(p) == IF Kind(p) \in {"model", "usb"} THEN DirOf[sl[p].driver] ELSE sl[p].call.at

Here(p) == files[DirNow(p)]

-----------------------------------------------------------------------------
(* The command line.                                                       *)

FirstStep(kind) ==
  CASE kind \in {"folder", "file"} -> "open"
    [] kind = "url" -> "download"
    [] kind = "model" -> "pick"
    [] kind = "usb" -> "look"

StartSide(p) ==
  /\ At(p, "idle")
  /\ \E c \in SideCalls : Quietly(p, [IdleSide EXCEPT !.pc = FirstStep(c.kind), !.call = c])

OpenPath(p) ==
  /\ At(p, "open")
  /\ IF Kind(p) = "file" THEN sl[p].call.file \in Infs(Here(p)) ELSE Here(p) # {}
  /\ To(p, "gate")

PathMissing(p) ==
  /\ At(p, "open")
  /\ IF Kind(p) = "file" THEN sl[p].call.file \notin Infs(Here(p)) ELSE Here(p) = {}
  /\ Done(p, "error")

\* resolve_driver_pick: --driver, an exact name, a curated or the only match.
PickDriver(p) ==
  /\ At(p, "pick")
  /\ \E d \in Hint :
       \/ d \in registered /\ Quietly(p, [sl[p] EXCEPT !.pc = "done", !.driver = d,
                                                       !.outcome = "ok"])
       \/ /\ d \notin registered \/ CanFail("query")
          /\ d \in DOMAIN Release
          /\ Quietly(p, [sl[p] EXCEPT !.pc = "download", !.driver = d])

\* Nothing matches, several do, or the manifest has no URL.
PickFails(p) == At(p, "pick") /\ Done(p, "error")

-----------------------------------------------------------------------------
(* Download and unpack.                                                    *)

\* DownloadFailed and StageFailed: `add --usb` goes on all the same.
Unsourced(p) ==
  IF Usb(p) THEN To(p, "after") ELSE Done(p, "error")

\* Variant: the directory of a URL is not emptied either.
DownloadKeeping(p) ==
  /\ At(p, "download")
  /\ Kind(p) = "url"
  /\ \E k \in Mirror[DirNow(p)] : Quietly(p, [sl[p] EXCEPT !.pc = "unpack", !.pack = k])

\* download_and_extract_url empties the directory; that it could not is ignored.
DownloadUrl(p) ==
  /\ At(p, "download")
  /\ Kind(p) = "url"
  /\ \E k \in Mirror[DirNow(p)] : Step(p, [sl[p] EXCEPT !.pc = "unpack", !.pack = k])
  /\ \E left \in IF CanFail("disk") THEN SUBSET Here(p) ELSE {{}} :
       files' = [files EXCEPT ![DirNow(p)] = left]
  /\ UNCHANGED <<printVars, history>>

\* download_and_stage leaves what the directory holds.
DownloadPack(p) ==
  /\ At(p, "download")
  /\ Kind(p) # "url"
  /\ \E k \in Release[sl[p].driver] : Quietly(p, [sl[p] EXCEPT !.pc = "unpack", !.pack = k])

DownloadFails(p) == At(p, "download") /\ Unsourced(p)

\* download_and_stage knows zip and cab; a URL may have more, but 7z only with
\* the sdi feature, and an installer is read as a zip and then as a 7z.
CanUnpack(p) == sl[p].pack \in SevenZ => Kind(p) = "url" /\ ~sl[p].call.lean

UnpackFile(p) ==
  /\ At(p, "unpack")
  /\ CanUnpack(p)
  /\ \E f \in FilesOf(sl[p].pack) \ Here(p) :
       files' = [files EXCEPT ![DirNow(p)] = Put(@, f)]
  /\ UNCHANGED <<printVars, sl, history>>

Unpacked(p) ==
  /\ At(p, "unpack")
  /\ CanUnpack(p)
  /\ FilesOf(sl[p].pack) \subseteq Here(p)
  /\ IF Kind(p) = "url" /\ Infs(Here(p)) = {} THEN Done(p, "error") ELSE To(p, "gate")

\* An installer that does not unpack leaves an empty directory, any other pack
\* what it got to.
UnpackFails(p) ==
  /\ At(p, "unpack")
  /\ ~CanUnpack(p) \/ CanFail("disk")
  /\ files' = IF Kind(p) = "url" /\ sl[p].pack \in Installer
              THEN [files EXCEPT ![DirNow(p)] = {}] ELSE files
  /\ IF Usb(p) THEN Step(p, [sl[p] EXCEPT !.pc = "after"])
     ELSE Step(p, [sl[p] EXCEPT !.pc = "done", !.outcome = "error"])
  /\ UNCHANGED <<printVars, history>>

-----------------------------------------------------------------------------
(* The gate.                                                               *)

\* A folder and a URL go to pnputil as a whole, the others INF by INF.
Admit(p, verdict) ==
  LET ks == IF Kind(p) = "file" THEN {sl[p].call.file} ELSE Infs(Here(p)) IN
  IF Kind(p) \in {"folder", "url"}
  THEN Quietly(p, [sl[p] EXCEPT !.pc = "folder", !.verdict = verdict])
  ELSE Quietly(p, [sl[p] EXCEPT !.pc = "infs", !.verdict = verdict, !.todo = ks,
                                !.staged = {}])

\* --no-verify, or the lean build.
SideGateOpen(p) ==
  /\ At(p, "gate")
  /\ sl[p].call.noVerify \/ sl[p].call.lean
  /\ Admit(p, "waived")

SideGated(p) == At(p, "gate") /\ ~sl[p].call.noVerify /\ ~sl[p].call.lean

SideGatePasses(p) ==
  /\ SideGated(p)
  /\ "Verified" \in VerdictsOf(CatStatuses(Here(p)))
  /\ Admit(p, "Verified")

\* run_manufacturer_verify: without catalogs `add --usb` goes on, unverified.
SideNoCatalogs(p) ==
  /\ SideGated(p)
  /\ Usb(p)
  /\ "NoCatalogs" \in VerdictsOf(CatStatuses(Here(p)))
  /\ Admit(p, "NoCatalogs")

SideGateRefuses(p) ==
  /\ SideGated(p)
  /\ \E v \in VerdictsOf(CatStatuses(Here(p))) :
       /\ ~IsSafeToInstall(v)
       /\ Usb(p) => v # "NoCatalogs"
       /\ Quietly(p, [sl[p] EXCEPT !.pc = "done", !.verdict = v, !.outcome = "refused"])

-----------------------------------------------------------------------------
(* Staging and registration.                                               *)

StageFolder(p) ==
  /\ At(p, "folder")
  /\ \/ /\ PnputilAll(Infs(Here(p)), TRUE)
        /\ Step(p, [sl[p] EXCEPT !.pc = "names", !.names = Named(Infs(Here(p)))])
     \/ /\ PnputilAll(Infs(Here(p)), FALSE)
        /\ Step(p, [sl[p] EXCEPT !.pc = "done", !.outcome = "error"])
  /\ UNCHANGED <<files, history>>

StageInf(p) ==
  /\ At(p, "infs")
  /\ \E k \in sl[p].todo :
       /\ packages' = packages \cup {k}
       /\ Step(p, [sl[p] EXCEPT !.todo = @ \ {k}, !.staged = @ \cup {k}])
  /\ UNCHANGED <<queues, registered, ports, held, files, history>>

\* An INF that is not staged is passed over.
StageInfFails(p) ==
  /\ At(p, "infs")
  /\ CanFail("change")
  /\ \E k \in sl[p].todo : Quietly(p, [sl[p] EXCEPT !.todo = @ \ {k}])

\* collect_actual_driver_name: a name out of the staged INFs, or the hint when
\* none could be read.
ActualNames(p) ==
  LET named == Named(sl[p].staged) IN
  IF named = {} THEN {sl[p].driver}
  ELSE named \cup (IF CanFail("disk") THEN {sl[p].driver} ELSE {})

InfsStaged(p) ==
  /\ At(p, "infs")
  /\ sl[p].todo = {}
  /\ sl[p].staged # {}
  /\ IF Kind(p) = "file"
     THEN Quietly(p, [sl[p] EXCEPT !.pc = "names", !.names = Named(sl[p].staged)])
     ELSE \E d \in ActualNames(p) :
            Quietly(p, [sl[p] EXCEPT !.pc = IF Usb(p) THEN "after" ELSE "register",
                                     !.driver = d])

NothingStaged(p) ==
  /\ At(p, "infs")
  /\ sl[p].todo = {}
  /\ sl[p].staged = {}
  /\ Unsourced(p)

\* Add-PrinterDriver: only a driver whose package is in the store.
Register(d) ==
  /\ PackageOf[d] \in packages
  /\ registered' = registered \cup {d}
  /\ UNCHANGED <<queues, packages, ports, held>>

RegisterName(p) ==
  /\ At(p, "names")
  /\ \E d \in sl[p].names :
       Register(d) /\ Step(p, [sl[p] EXCEPT !.names = @ \ {d}])
  /\ UNCHANGED <<files, history>>

RegisterSkips(p) ==
  /\ At(p, "names")
  /\ \E d \in sl[p].names :
       /\ PackageOf[d] \notin packages \/ CanFail("change")
       /\ Quietly(p, [sl[p] EXCEPT !.names = @ \ {d}])

NamesDone(p) == At(p, "names") /\ sl[p].names = {} /\ Done(p, "ok")

RegisterDriver(p) ==
  /\ At(p, "register")
  /\ Register(sl[p].driver)
  /\ Step(p, [sl[p] EXCEPT !.pc = "done", !.outcome = "ok"])
  /\ UNCHANGED <<files, history>>

\* Staged but not registered is success with a warning.
RegisterDriverFails(p) ==
  /\ At(p, "register")
  /\ PackageOf[sl[p].driver] \notin packages \/ CanFail("change")
  /\ Done(p, "ok")

-----------------------------------------------------------------------------
(* add --usb: the queue or the device.                                     *)

Target(p) == sl[p].call.device

DriverOf(n) == (CHOOSE q \in queues : q.name = n).driver

LookQueue(p) ==
  /\ At(p, "look")
  /\ Exists(Target(p))
  /\ Quietly(p, [sl[p] EXCEPT !.pc = "resolve", !.swap = TRUE, !.was = DriverOf(Target(p))])

LookDevice(p) ==
  /\ At(p, "look")
  /\ ~Exists(Target(p)) \/ CanFail("query")
  /\ Target(p) \in Device
  /\ To(p, "resolve")

NoDevice(p) ==
  /\ At(p, "look")
  /\ ~Exists(Target(p)) \/ CanFail("query")
  /\ Target(p) \notin Device \/ CanFail("query")
  /\ Done(p, "error")

\* The list of local drivers is read once, here, and used in "need".
ResolveHint(p) ==
  /\ At(p, "resolve")
  /\ \E d \in Hint :
       \/ d \in registered
          /\ Quietly(p, [sl[p] EXCEPT !.pc = "bundle", !.driver = d, !.local = TRUE])
       \/ /\ d \notin registered \/ CanFail("query")
          /\ Quietly(p, [sl[p] EXCEPT !.pc = "bundle", !.driver = d, !.local = FALSE])

HintFails(p) == At(p, "resolve") /\ Done(p, "error")

\* No pack in the bundle, a refused one, or no device behind the queue.
BundleNone(p) == At(p, "bundle") /\ To(p, "need")

BundlePasses(p) ==
  /\ At(p, "bundle")
  /\ \E d \in BundleOffer :
       /\ \/ sl[p].call.noVerify \/ sl[p].call.lean
          \/ \E v \in Verdicts(PackageOf[d]) : IsSafeToInstall(v)
       /\ Quietly(p, [sl[p] EXCEPT !.pc = "bundleStage", !.pick = d])

\* The rescan that follows is plug and play's business.
StageBundle(p) ==
  /\ At(p, "bundleStage")
  /\ packages' = packages \cup {PackageOf[sl[p].pick]}
  /\ Step(p, [sl[p] EXCEPT !.pc = IF sl[p].swap THEN "checkDriver" ELSE "poll"])
  /\ UNCHANGED <<queues, registered, ports, held, files, history>>

\* A failed bundle is passed over in silence.
BundleOver(p) == Quietly(p, [sl[p] EXCEPT !.pc = "need", !.pick = None, !.tries = 0])

StageBundleFails(p) == At(p, "bundleStage") /\ CanFail("change") /\ BundleOver(p)

\* stage_driver_if_needed: AlreadyStaged, NoManifestEntry, or a download.
Need(p) ==
  /\ At(p, "need")
  /\ To(p, IF ~sl[p].local /\ sl[p].driver \in DOMAIN Release THEN "download" ELSE "after")

After(p) ==
  /\ At(p, "after")
  /\ To(p, IF sl[p].swap THEN "checkDriver" ELSE "whole")

-----------------------------------------------------------------------------
(* update_printer_driver: install the driver, Set-Printer, record.         *)

NewDriver(p) == IF sl[p].pick # None THEN sl[p].pick ELSE sl[p].driver

CheckDriver(p) ==
  /\ At(p, "checkDriver")
  /\ \/ NewDriver(p) \in registered /\ To(p, "setQueue")
     \/ (NewDriver(p) \notin registered \/ CanFail("query")) /\ To(p, "addDriver")

AddDriver(p) ==
  /\ At(p, "addDriver")
  /\ Register(NewDriver(p))
  /\ Step(p, [sl[p] EXCEPT !.pc = "setQueue"])
  /\ UNCHANGED <<files, history>>

SetQueue(p) ==
  /\ At(p, "setQueue")
  /\ NewDriver(p) \in registered
  /\ \E q \in queues :
       /\ q.name = Target(p)
       /\ queues' = (queues \ {q}) \cup {[q EXCEPT !.driver = NewDriver(p)]}
  /\ Step(p, [sl[p] EXCEPT !.pc = "record"])
  /\ UNCHANGED <<registered, packages, ports, held, files, history>>

\* Variant: a Set-Printer that fails is taken for one that worked.
UpdateUnchecked(p) ==
  /\ At(p, "setQueue")
  /\ ~Exists(Target(p)) \/ NewDriver(p) \notin registered \/ CanFail("change")
  /\ To(p, "record")

\* After a bundle the other sources still have their turn.
UpdateFails(p) ==
  /\ \/ At(p, "addDriver") /\ (PackageOf[NewDriver(p)] \notin packages \/ CanFail("change"))
     \/ /\ At(p, "setQueue")
        /\ ~Exists(Target(p)) \/ NewDriver(p) \notin registered \/ CanFail("change")
  /\ IF sl[p].pick # None THEN BundleOver(p) ELSE Done(p, "error")

\* history::record_install; a file that cannot be read is started afresh.
RecordUpdate(p) ==
  LET entry == [model |-> Target(p), driver |-> NewDriver(p), source |-> "usb_update"] IN
  /\ At(p, "record")
  /\ \/ history' = history \cup {entry}
     \/ CanFail("disk") /\ (history' = {entry} \/ UNCHANGED history)
  /\ Step(p, [sl[p] EXCEPT !.pc = "done", !.outcome = "ok"])
  /\ UNCHANGED <<printVars, files>>

-----------------------------------------------------------------------------
(* run_usb_stage_and_install: the whole staging directory, plug and play,  *)
(* and Add-Printer as a last resort.                                       *)

Staged == UNION {Infs(files[x]) : x \in StagingDir}

StageWhole(p) ==
  /\ At(p, "whole")
  /\ \/ /\ PnputilAll(Staged, TRUE)
        /\ Step(p, [sl[p] EXCEPT !.pc = "poll", !.tries = 0])
     \/ /\ PnputilAll(Staged, FALSE)
        /\ Step(p, [sl[p] EXCEPT !.pc = "done", !.outcome = "error"])
  /\ UNCHANGED <<files, history>>

\* No history entry on this way out.
PollFinds(p) ==
  /\ At(p, "poll")
  /\ Exists(sl[p].call.name)
  /\ sl[p].tries < Polls
  /\ Done(p, "ok")

\* Variant: one try more than there are.
PollOnce(p) ==
  /\ At(p, "poll")
  /\ ~Exists(sl[p].call.name) \/ CanFail("query")
  /\ sl[p].tries <= Polls
  /\ Quietly(p, [sl[p] EXCEPT !.tries = @ + 1])

PollAgain(p) ==
  /\ At(p, "poll")
  /\ ~Exists(sl[p].call.name) \/ CanFail("query")
  /\ sl[p].tries < Polls
  /\ Quietly(p, [sl[p] EXCEPT !.tries = @ + 1])

PollOver(p) ==
  /\ At(p, "poll")
  /\ sl[p].tries = Polls
  /\ IF sl[p].pick # None THEN BundleOver(p) ELSE To(p, "port")

\* find_usb_port_for_device.
FindPort(p) ==
  /\ At(p, "port")
  /\ UsbPort[Target(p)] \in ports
  /\ To(p, "addQueue")

NoPort(p) ==
  /\ At(p, "port")
  /\ UsbPort[Target(p)] \notin ports \/ CanFail("query")
  /\ Done(p, "error")

AddPrinter(p) ==
  /\ At(p, "addQueue")
  /\ AddQueue(sl[p].call.name, sl[p].driver, UsbPort[Target(p)])
  /\ Step(p, [sl[p] EXCEPT !.pc = "done", !.outcome = "ok"])
  /\ UNCHANGED <<files, history>>

AddPrinterFails(p) ==
  /\ At(p, "addQueue")
  /\ \/ Exists(sl[p].call.name) \/ sl[p].driver \notin registered
     \/ UsbPort[Target(p)] \notin ports \/ CanFail("change")
  /\ Done(p, "error")

-----------------------------------------------------------------------------
(* The whole.                                                              *)

DriverAddStep(p) ==
  \/ OpenPath(p) \/ PathMissing(p) \/ PickDriver(p) \/ PickFails(p)
  \/ DownloadUrl(p) \/ DownloadPack(p) \/ DownloadFails(p)
  \/ UnpackFile(p) \/ Unpacked(p) \/ UnpackFails(p)
  \/ SideGateOpen(p) \/ SideGatePasses(p) \/ SideNoCatalogs(p) \/ SideGateRefuses(p)
  \/ StageFolder(p) \/ StageInf(p) \/ StageInfFails(p) \/ InfsStaged(p) \/ NothingStaged(p)
  \/ RegisterName(p) \/ RegisterSkips(p) \/ NamesDone(p)
  \/ RegisterDriver(p) \/ RegisterDriverFails(p)

UsbStep(p) ==
  \/ LookQueue(p) \/ LookDevice(p) \/ NoDevice(p) \/ ResolveHint(p) \/ HintFails(p)
  \/ BundleNone(p) \/ BundlePasses(p) \/ StageBundle(p) \/ StageBundleFails(p)
  \/ Need(p) \/ After(p)
  \/ CheckDriver(p) \/ AddDriver(p) \/ SetQueue(p) \/ UpdateFails(p) \/ RecordUpdate(p)
  \/ StageWhole(p) \/ PollFinds(p) \/ PollAgain(p) \/ PollOver(p)
  \/ FindPort(p) \/ NoPort(p) \/ AddPrinter(p) \/ AddPrinterFails(p)

SideStep(p) == DriverAddStep(p) \/ UsbStep(p)

KillSide(p) ==
  /\ sl[p].pc \notin {"idle", "done", "killed"}
  /\ To(p, "killed")

\* Plug and play makes a queue for a device that has none, with a driver that
\* is in the store and names the device.
PnpBinds ==
  /\ \E n \in Device, d \in Driver :
       /\ ~Exists(n)
       /\ ~PortInUse(UsbPort[n])
       /\ d \in Fits[n]
       /\ PackageOf[d] \in packages
       /\ queues' = queues \cup {[name |-> n, driver |-> d, port |-> UsbPort[n]]}
       /\ registered' = registered \cup {d}
       /\ ports' = ports \cup {UsbPort[n]}
  /\ UNCHANGED <<packages, held, files, sl, history>>

\* Any machine, and whatever earlier downloads left in the directories.
SideInit ==
  /\ queues \in SUBSET QueueRec
  /\ registered \in SUBSET Driver
  /\ packages \in SUBSET Package
  /\ ports \in SUBSET Port
  /\ held = [x \in Driver \cup Port |-> 0]
  /\ files \in [Dir -> SUBSET File]
  /\ sl = [p \in Proc |-> IdleSide]
  /\ history = {}

\* One command after the other, whether the one before ended or was killed.
SideAtRest == \A p \in Proc : sl[p].pc \in {"idle", "done", "killed"}

SideNext ==
  \/ \E p \in Proc : (SideAtRest /\ StartSide(p)) \/ SideStep(p) \/ KillSide(p)
  \/ PnpBinds

SideSpec == SideInit /\ [][SideNext]_sideVars

-----------------------------------------------------------------------------
(* Properties.                                                             *)

\* Every variable has the values the frames, the disk and the subsystem allow.
SideTypeOK ==
  /\ PrintTypeOK
  /\ files \in [Dir -> SUBSET File]
  /\ sl \in [Proc -> SideFrame]
  /\ history \subseteq [model: Queue, driver: Driver, source: {"usb_update"}]

\* What `driver add <url>` puts into the store without --no-verify is a pack all
\* of whose own catalogs are valid: nothing an earlier download, a killed one
\* among them, left in the directory is staged with it or vouches for it.
\* (Where the disk does what it is told, and one command runs at a time.)
UrlPackIsSigned ==
  [][\A p \in Proc :
       /\ At(p, "folder") /\ Kind(p) = "url" /\ sl'[p] # sl[p]
       /\ ~sl[p].call.noVerify /\ ~sl[p].call.lean
       => \A k \in packages' \ packages : Cats[k] = {"Valid"}]_sideVars

\* `add --usb` on a queue that is there swaps its driver altogether or leaves
\* the queue as it was: a failure on the way, in the bundle tier or after it, is
\* never reported for a queue that prints with another driver by now, nor
\* success for one that does not print with the driver just registered.
SwapIsAllOrNothing ==
  \A p \in Proc :
    /\ sl[p].pc = "done"
    /\ sl[p].swap
    /\ \A r \in Proc \ {p} : sl[r].pc = "idle"
    => \E q \in queues :
         /\ q.name = Target(p)
         /\ q.driver = IF sl[p].outcome = "ok" THEN NewDriver(p) ELSE sl[p].was
         /\ sl[p].outcome = "ok" => q.driver \in registered

\* The last resort can work: when it comes to Add-Printer for a driver whose
\* package is in the store, the spooler knows that driver.
FallbackHasDriver ==
  \A p \in Proc :
    At(p, "addQueue") /\ PackageOf[sl[p].driver] \in packages => sl[p].driver \in registered

=============================================================================
