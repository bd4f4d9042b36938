-------------------------------- MODULE Add --------------------------------
(***************************************************************************)
(* `prinstall add <ip>` (run_network of src/src/commands/add.rs and what it *)
(* calls in src/src/installer/), next to `prinstall remove`.               *)
(*                                                                         *)
(* An invocation looks for a queue on its address, identifies the printer, *)
(* picks a driver name and then walks the tiers: local store, bundle,      *)
(* manufacturer, catalog, SDI, and the IPP class driver as the last one.   *)
(* Every tier that has something to offer goes through the gate, pnputil,  *)
(* and the three steps port, driver, queue.  As in Remove, one command is  *)
(* one step; --force runs a whole `remove` in the middle.                  *)
(*                                                                         *)
(* A definition marked "Variant" is a plausible mistake in the definition  *)
(* after it; no action uses it.  The runs must tell the two apart.         *)
(***************************************************************************)
EXTENDS Remove, Authenticode

CONSTANTS
  Adds,        \* the command lines of `add`
  Hint,        \* the driver names --driver or the matcher may come up with
  Manifest,    \* the pack the manifest has for a driver name, where it has one
  Offer,       \* the drivers bundle, catalog and SDI cache may find
  Beside,      \* the packs that may lie in the directory a tier looks into
  IppName,     \* the queue "<model> (IPP)"
  IppDriver    \* Microsoft IPP Class Driver

\* `lean`: the command is of the build without the sdi feature.
AddCall ==
  [lean: BOOLEAN, ip: Ip, model: Queue, name: Queue, force: BOOLEAN, noVerify: BOOLEAN,
   noCatalog: BOOLEAN, noSdi: BOOLEAN, sdiFetch: BOOLEAN]

ASSUME AddsAssumption == Adds \subseteq AddCall
ASSUME OfferAssumption ==
  /\ Hint \subseteq Driver
  /\ DOMAIN Manifest \subseteq Driver
  /\ \A d \in DOMAIN Manifest : Manifest[d] \in Package
  /\ Offer \in [{"bundle", "catalog", "sdi"} -> SUBSET Driver]
ASSUME BesideAssumption == Beside \in [{"bundle", "mfr", "catalog", "sdi"} -> SUBSET Package]
ASSUME IppAssumption == IppName \in [Queue -> Queue] /\ IppDriver \in SystemDriver
ASSUME NoPackAssumption == None \notin Package

VARIABLE ad  \* the frame of each invocation of `add`

addVars == <<removeVars, ad>>

Tier == {"local", "bundle", "mfr", "catalog", "sdi", "ipp"}
Success == {"Matched", "Unverified", "Verified"}
Status == Success \cup {"none", "Failed", "Skipped", "Disabled"}

AddPc == {"idle", "early", "forcing", "discover", "resolve", "bundle", "mfr", "catalog",
          "sdi", "gate", "stage", "port", "addPort", "driver", "addDriver", "queue",
          "addQueue", "record", "ipp", "ippPort", "ippQueue", "ippRecord", "done", "killed"}

NoReport == [t \in Tier |-> "none"]

AddFrame ==
  [pc: AddPc, call: Adds \cup {None}, hint: Driver \cup {None},
   deviceId: BOOLEAN, ippOk: BOOLEAN,
   tier: Tier \cup {None}, driver: Driver \cup {None}, pack: Package \cup {None},
   dir: SUBSET Package,
   mark: Success, report: [Tier -> Status], outcome: {"none", "ok", "error"}]

IdleAdd ==
  [pc |-> "idle", call |-> None, hint |-> None, deviceId |-> FALSE, ippOk |-> FALSE,
   tier |-> None, driver |-> None, pack |-> None, dir |-> {}, mark |-> "Matched",
   report |-> NoReport, outcome |-> "none"]

AddAt(p, pc) == ad[p].pc = pc

AddGoto(p, upd) == ad' = [ad EXCEPT ![p] = upd] /\ UNCHANGED <<rm, wait>>

\* A step of an `add` that changes nothing on the machine.
Quietly(p, upd) == AddGoto(p, upd) /\ UNCHANGED <<printVars, history>>

Fail(p) == Quietly(p, [ad[p] EXCEPT !.pc = "done", !.outcome = "error"])

\* Variant: the port is given the bare address for a name.
BareTargetPort(p) == ad[p].call.ip

TargetPort(p) == IpPort[ad[p].call.ip]

\* The tier that is asked when `t` has failed; the lean build has no SDI tier.
NextTier(t, lean) ==
  CASE t = "bundle" -> "mfr"
    [] t \in {"local", "mfr"} -> "catalog"
    [] t = "catalog" -> IF lean THEN "ipp" ELSE "sdi"
    [] t = "sdi" -> "ipp"

\* The invocation leaves tier t for the next one, for the reason `s`.
Leave(p, t, s) ==
  Quietly(p, [ad[p] EXCEPT !.pc = NextTier(t, ad[p].call.lean), !.report[t] = s])

-----------------------------------------------------------------------------
(* Before the cascade.                                                     *)

StartAdd(p) ==
  /\ AddAt(p, "idle") /\ rm[p].pc = "idle"
  /\ \E c \in Adds : Quietly(p, [IdleAdd EXCEPT !.pc = "early", !.call = c])

OnTarget(p, q) == q.port = TargetPort(p)

\* Variant: the early check is left out.
EarlyUnchecked(p) ==
  /\ AddAt(p, "early")
  /\ Quietly(p, [ad[p] EXCEPT !.pc = "discover"])

\* find_printer_on_port finds nothing, which is also what a failed query finds.
EarlyFree(p) ==
  /\ AddAt(p, "early")
  /\ (\A q \in queues : ~OnTarget(p, q)) \/ CanFail("query")
  /\ Quietly(p, [ad[p] EXCEPT !.pc = "discover"])

EarlyTaken(p) ==
  /\ AddAt(p, "early")
  /\ \E q \in queues : OnTarget(p, q)
  /\ ~ad[p].call.force
  /\ Fail(p)

\* --force: remove::run with keep_driver = false, keep_port = true.
EarlyForce(p) ==
  /\ AddAt(p, "early")
  /\ ad[p].call.force
  /\ \E q \in queues :
       /\ OnTarget(p, q)
       /\ BeginRemove(p, [target |-> q.name, keepDriver |-> FALSE, keepPort |-> TRUE])
  /\ ad' = [ad EXCEPT ![p].pc = "forcing"]
  /\ UNCHANGED <<printVars, history>>

\* Variant: "already absent" is taken for neither success nor failure.
ForcedRemoved(p) ==
  /\ AddAt(p, "forcing")
  /\ rm[p].pc = "done"
  /\ rm[p].outcome = "removed"
  /\ Quietly(p, [ad[p] EXCEPT !.pc = "discover"])

\* "Already absent" is a success of `remove`, too.
Forced(p) ==
  /\ AddAt(p, "forcing")
  /\ rm[p].pc = "done"
  /\ rm[p].outcome # "error"
  /\ Quietly(p, [ad[p] EXCEPT !.pc = "discover"])

ForceFailed(p) ==
  /\ AddAt(p, "forcing")
  /\ rm[p].pc = "done"
  /\ rm[p].outcome = "error"
  /\ Fail(p)

\* SNMP names the model, IPP perhaps a device id, port 631 is open or not.
Discover(p) ==
  /\ AddAt(p, "discover")
  /\ \E deviceId, ippOk, scanner \in BOOLEAN :
       IF ~ad[p].call.force /\ ~deviceId /\ ~ippOk /\ scanner
       THEN Fail(p)
       ELSE Quietly(p, [ad[p] EXCEPT !.pc = "resolve", !.deviceId = deviceId,
                                     !.ippOk = ippOk])

Unidentified(p) == AddAt(p, "discover") /\ Fail(p)

\* A driver name that the list of local drivers holds is installed as it is; a
\* list that could not be read is empty.
Resolve(p) ==
  /\ AddAt(p, "resolve")
  /\ \E d \in Hint :
       \/ /\ d \in registered
          /\ Quietly(p, [ad[p] EXCEPT !.pc = "port", !.hint = d, !.tier = "local",
                                      !.driver = d, !.mark = "Matched"])
       \/ /\ d \notin registered \/ CanFail("query")
          /\ Quietly(p, [ad[p] EXCEPT !.pc = "bundle", !.hint = d])

Unresolved(p) == AddAt(p, "resolve") /\ Fail(p)

-----------------------------------------------------------------------------
(* The tiers.                                                              *)

\* The tier has a pack, in a directory where others may lie: an SDI pack has one
\* root for all its drivers, the download directories are never emptied, and a
\* bundle is the user's.  On to the gate, which looks at that directory.
Propose(p, t, d, k) ==
  \E rest \in SUBSET Beside[t] :
    Quietly(p, [ad[p] EXCEPT !.pc = "gate", !.tier = t, !.driver = d, !.pack = k,
                             !.dir = {k} \cup rest])

\* stage_best_bundle finds no pack that names the device.
BundleEmpty(p) ==
  /\ AddAt(p, "bundle")
  /\ Quietly(p, [ad[p] EXCEPT !.pc = "mfr"])

BundleMatch(p) ==
  /\ AddAt(p, "bundle")
  /\ \E d \in Offer["bundle"] : Propose(p, "bundle", d, PackageOf[d])

\* NoManifestEntry, DownloadFailed: the install is tried all the same, under
\* the name the matcher gave.
InstallHint(p) ==
  Quietly(p, [ad[p] EXCEPT !.pc = "port", !.tier = "mfr", !.driver = ad[p].hint,
                           !.mark = "Matched"])

MfrNothing(p) == AddAt(p, "mfr") /\ InstallHint(p)

MfrDownload(p) ==
  /\ AddAt(p, "mfr")
  /\ ad[p].hint \in DOMAIN Manifest
  /\ Propose(p, "mfr", ad[p].hint, Manifest[ad[p].hint])

CatalogPasses(p) ==
  /\ AddAt(p, "catalog")
  /\ Leave(p, "catalog",
           CASE ad[p].call.noCatalog -> "Disabled"
             [] ~ad[p].call.noCatalog /\ ~ad[p].deviceId -> "Skipped"
             [] OTHER -> "Failed")

CatalogMatch(p) ==
  /\ AddAt(p, "catalog")
  /\ ~ad[p].call.noCatalog
  /\ ad[p].deviceId
  /\ \E d \in Offer["catalog"] : Propose(p, "catalog", d, PackageOf[d])

SdiDisabled(p) ==
  /\ AddAt(p, "sdi")
  /\ ad[p].call.noSdi
  /\ Leave(p, "sdi", "Disabled")

\* No device id, or a cache that cannot be loaded.
SdiSkipped(p) ==
  /\ AddAt(p, "sdi")
  /\ ~ad[p].call.noSdi
  /\ ~ad[p].deviceId \/ CanFail("disk")
  /\ Leave(p, "sdi", "Skipped")

\* No index names the device; or only a pack that is not cached does, which
\* --sdi-fetch picks and extract_sdi_driver then gives up on.
SdiNothing(p) ==
  /\ AddAt(p, "sdi")
  /\ ~ad[p].call.noSdi
  /\ ad[p].deviceId
  /\ \/ Leave(p, "sdi", "Failed")
     \/ Leave(p, "sdi", IF ad[p].call.sdiFetch THEN "Failed" ELSE "Skipped")

SdiMatch(p) ==
  /\ AddAt(p, "sdi")
  /\ ~ad[p].call.noSdi
  /\ ad[p].deviceId
  /\ \E d \in Offer["sdi"] : Propose(p, "sdi", d, PackageOf[d])

-----------------------------------------------------------------------------
(* The gate and pnputil.                                                   *)

\* The catalogs the gate finds are those of everything in the directory.
Signatures(f) == UNION {Cats[k] : k \in f.dir}

\* What verify_pack_directory may make of them.
DirVerdicts(p) == VerdictsOf(Signatures(ad[p]))

ToStage(p, mark) == Quietly(p, [ad[p] EXCEPT !.pc = "stage", !.mark = mark])

Gated(p) == AddAt(p, "gate") /\ ~ad[p].call.noVerify /\ ~ad[p].call.lean

\* --no-verify lets the pack through and tags it.
GateSkipped(p) ==
  /\ AddAt(p, "gate")
  /\ ad[p].call.noVerify
  /\ ToStage(p, "Unverified")

\* The lean build has no gate; bundle and manufacturer report "verified".
GateAbsent(p) ==
  /\ AddAt(p, "gate")
  /\ ~ad[p].call.noVerify
  /\ ad[p].call.lean
  /\ ToStage(p, IF ad[p].tier = "catalog" THEN "Matched" ELSE "Verified")

\* The catalog tier checks the pack a second time for the signer's name.
GatePasses(p) ==
  /\ Gated(p)
  /\ \E v \in DirVerdicts(p) : IsSafeToInstall(v)
  /\ IF ad[p].tier = "catalog"
     THEN \E again \in DirVerdicts(p) :
            \/ IsSafeToInstall(again) /\ ToStage(p, "Verified")
            \/ ToStage(p, "Matched")
     ELSE ToStage(p, "Verified")

\* Variant: every tier lets a pack without catalogs through.
GateNoCatalogsAnyTier(p) ==
  /\ Gated(p)
  /\ "NoCatalogs" \in DirVerdicts(p)
  /\ ToStage(p, "Unverified")

\* A manufacturer's directory without catalogs is let through with a tag.
GateNoCatalogs(p) ==
  /\ Gated(p)
  /\ ad[p].tier = "mfr"
  /\ "NoCatalogs" \in DirVerdicts(p)
  /\ ToStage(p, "Unverified")

\* Variant: a rejected pack is passed over in silence.
GateRejectsSilently(p) ==
  /\ Gated(p)
  /\ \E v \in DirVerdicts(p) :
       /\ ~IsSafeToInstall(v)
       /\ ad[p].tier = "mfr" => v # "NoCatalogs"
  /\ Leave(p, ad[p].tier, "none")

GateRejects(p) ==
  /\ Gated(p)
  /\ \E v \in DirVerdicts(p) :
       /\ ~IsSafeToInstall(v)
       /\ ad[p].tier = "mfr" => v # "NoCatalogs"
  /\ Leave(p, ad[p].tier, "Failed")

\* Of a manufacturer's directory every INF is staged, else the one that matched.
Infs(f) == IF f.tier = "mfr" THEN f.dir ELSE {f.pack}

\* The names that staged packs may be installed under: a manufacturer's are
\* read for the name Windows registers, else the matcher's name stands.
StagedNames(p, staged) ==
  {ad[p].driver} \cup
    (IF ad[p].tier = "mfr" THEN {d \in Driver : PackageOf[d] \in staged} ELSE {})

\* One INF that pnputil takes is enough.
Stage(p) ==
  /\ AddAt(p, "stage")
  /\ \E staged \in SUBSET Infs(ad[p]) :
       /\ staged = Infs(ad[p]) \/ (staged # {} /\ (CanFail("change") \/ CanFail("scan")))
       /\ packages' = packages \cup staged
       /\ \E d \in StagedNames(p, staged) :
            AddGoto(p, [ad[p] EXCEPT !.pc = "port", !.driver = d])
  /\ UNCHANGED <<queues, registered, ports, held, history>>

StageFails(p) ==
  /\ AddAt(p, "stage")
  /\ CanFail("change") \/ (ad[p].tier = "mfr" /\ CanFail("disk"))
  /\ IF ad[p].tier = "mfr" THEN InstallHint(p) ELSE Leave(p, ad[p].tier, "Failed")

-----------------------------------------------------------------------------
(* install_printer: port, driver, queue, each looked for before it is made. *)

To(p, pc) == Quietly(p, [ad[p] EXCEPT !.pc = pc])

CheckPort(p) ==
  /\ AddAt(p, "port")
  /\ \/ TargetPort(p) \in ports /\ To(p, "driver")
     \/ (TargetPort(p) \notin ports \/ CanFail("query")) /\ To(p, "addPort")

\* The command ends in a literal: Add-PrinterPort may fail unnoticed, when the
\* port is there by now or for reasons of its own.
AddPort(p) ==
  /\ AddAt(p, "addPort")
  /\ \/ ports' = ports \cup {TargetPort(p)}
     \/ (TargetPort(p) \in ports \/ CanFail("change")) /\ UNCHANGED ports
  /\ AddGoto(p, [ad[p] EXCEPT !.pc = "driver"])
  /\ UNCHANGED <<queues, registered, packages, held, history>>

CheckDriver(p) ==
  /\ AddAt(p, "driver")
  /\ \/ ad[p].driver \in registered /\ To(p, "queue")
     \/ (ad[p].driver \notin registered \/ CanFail("query")) /\ To(p, "addDriver")

AddDriver(p) ==
  /\ AddAt(p, "addDriver")
  /\ PackageOf[ad[p].driver] \in packages
  /\ registered' = registered \cup {ad[p].driver}
  /\ AddGoto(p, [ad[p] EXCEPT !.pc = "queue"])
  /\ UNCHANGED <<queues, packages, ports, held, history>>

\* Any queue of that name will do, wherever it prints to.
CheckQueue(p) ==
  /\ AddAt(p, "queue")
  /\ \/ Exists(ad[p].call.name) /\ To(p, "record")
     \/ (~Exists(ad[p].call.name) \/ CanFail("query")) /\ To(p, "addQueue")

AddPrinter(p) ==
  /\ AddAt(p, "addQueue")
  /\ AddQueue(ad[p].call.name, ad[p].driver, TargetPort(p))
  /\ AddGoto(p, [ad[p] EXCEPT !.pc = "record"])
  /\ UNCHANGED history

InstallFails(p) ==
  /\ \/ AddAt(p, "addPort") /\ CanFail("change")
     \/ AddAt(p, "addDriver") /\ (PackageOf[ad[p].driver] \notin packages \/ CanFail("change"))
     \/ /\ AddAt(p, "addQueue")
        /\ \/ Exists(ad[p].call.name)
           \/ ad[p].driver \notin registered \/ TargetPort(p) \notin ports
           \/ CanFail("change")
  /\ Leave(p, ad[p].tier, "Failed")

RecordInstall(p) ==
  /\ AddAt(p, "record")
  /\ RecordEntry([model |-> ad[p].call.model, driver |-> ad[p].driver, source |-> "install"])
  /\ AddGoto(p, [ad[p] EXCEPT !.pc = "done", !.outcome = "ok",
                              !.report[ad[p].tier] = ad[p].mark])
  /\ UNCHANGED printVars

-----------------------------------------------------------------------------
(* The last tier.                                                          *)

IppQueue(p) == IppName[ad[p].call.model]

FailIpp(p) ==
  Quietly(p, [ad[p] EXCEPT !.pc = "done", !.outcome = "error", !.report["ipp"] = "Failed"])

IppUnreachable(p) == AddAt(p, "ipp") /\ ~ad[p].ippOk /\ FailIpp(p)

\* "Already installed": success without a change and without a history entry.
IppThere(p) ==
  /\ AddAt(p, "ipp")
  /\ ad[p].ippOk
  /\ Exists(IppQueue(p))
  /\ Quietly(p, [ad[p] EXCEPT !.pc = "done", !.outcome = "ok", !.report["ipp"] = "Matched"])

\* Variant: the port is taken to be there already.
IppNoPort(p) ==
  /\ AddAt(p, "ipp")
  /\ ad[p].ippOk
  /\ ~Exists(IppQueue(p)) \/ CanFail("query")
  /\ To(p, "ippQueue")

IppNotThere(p) ==
  /\ AddAt(p, "ipp")
  /\ ad[p].ippOk
  /\ ~Exists(IppQueue(p)) \/ CanFail("query")
  /\ To(p, "ippPort")

\* One command looks for the port and makes it.
IppPort(p) ==
  /\ AddAt(p, "ippPort")
  /\ ports' = ports \cup {TargetPort(p)}
  /\ AddGoto(p, [ad[p] EXCEPT !.pc = "ippQueue"])
  /\ UNCHANGED <<queues, registered, packages, held, history>>

IppAdd(p) ==
  /\ AddAt(p, "ippQueue")
  /\ AddQueue(IppQueue(p), IppDriver, TargetPort(p))
  /\ AddGoto(p, [ad[p] EXCEPT !.pc = "ippRecord"])
  /\ UNCHANGED history

IppFails(p) ==
  /\ \/ /\ AddAt(p, "ippPort")
        /\ CanFail("change") \/ (CanFail("query") /\ TargetPort(p) \in ports)
     \/ /\ AddAt(p, "ippQueue")
        /\ \/ Exists(IppQueue(p))
           \/ IppDriver \notin registered \/ TargetPort(p) \notin ports
           \/ CanFail("change")
  /\ FailIpp(p)

IppRecord(p) ==
  /\ AddAt(p, "ippRecord")
  /\ RecordEntry([model |-> ad[p].call.model, driver |-> IppDriver,
                  source |-> "install_ipp_fallback"])
  /\ AddGoto(p, [ad[p] EXCEPT !.pc = "done", !.outcome = "ok", !.report["ipp"] = "Matched"])
  /\ UNCHANGED printVars

-----------------------------------------------------------------------------
(* The whole.                                                              *)

AddStep(p) ==
  \/ EarlyFree(p) \/ EarlyTaken(p) \/ EarlyForce(p) \/ Forced(p) \/ ForceFailed(p)
  \/ Discover(p) \/ Unidentified(p) \/ Resolve(p) \/ Unresolved(p)
  \/ BundleEmpty(p) \/ BundleMatch(p) \/ MfrNothing(p) \/ MfrDownload(p)
  \/ CatalogPasses(p) \/ CatalogMatch(p)
  \/ SdiDisabled(p) \/ SdiSkipped(p) \/ SdiNothing(p) \/ SdiMatch(p)
  \/ GateSkipped(p) \/ GateAbsent(p) \/ GatePasses(p) \/ GateNoCatalogs(p) \/ GateRejects(p)
  \/ Stage(p) \/ StageFails(p)
  \/ CheckPort(p) \/ AddPort(p) \/ CheckDriver(p) \/ AddDriver(p)
  \/ CheckQueue(p) \/ AddPrinter(p) \/ InstallFails(p) \/ RecordInstall(p)
  \/ IppUnreachable(p) \/ IppThere(p) \/ IppNotThere(p) \/ IppPort(p)
  \/ IppAdd(p) \/ IppFails(p) \/ IppRecord(p)

\* A kill takes the `add` and the `remove` inside it.
KillAdd(p) ==
  /\ ad[p].pc \notin {"idle", "done", "killed"}
  /\ ad' = [ad EXCEPT ![p].pc = "killed"]
  /\ IF rm[p].pc \in {"idle", "done"}
     THEN UNCHANGED <<rm, wait>>
     ELSE Goto(p, [rm[p] EXCEPT !.pc = "killed"])
  /\ UNCHANGED <<printVars, history>>

\* A step of `remove`, on its own or inside an `add --force`.
RemoveSide(p) ==
  /\ \/ RemoveStep(p)
     \/ ad[p].pc = "idle" /\ (Start(p) \/ Kill(p))
  /\ UNCHANGED ad

Around == (AdminAdds \/ Tick) /\ UNCHANGED ad

AddInit == Init /\ ad = [p \in Proc |-> IdleAdd]

AddNext ==
  \/ \E p \in Proc : StartAdd(p) \/ AddStep(p) \/ KillAdd(p) \/ RemoveSide(p)
  \/ Around

AddFairness ==
  /\ WF_addVars(Tick /\ UNCHANGED ad)
  /\ \A p \in Proc : WF_addVars(AddStep(p)) /\ WF_addVars(RemoveStep(p) /\ UNCHANGED ad)

AddSpec == AddInit /\ [][AddNext]_addVars /\ AddFairness

\* One command after the other, whether the one before ended or was killed.
Rest(p) == ad[p].pc \in {"idle", "done", "killed"} /\ rm[p].pc \in {"idle", "done", "killed"}

SerialNext ==
  \/ \E p \in Proc :
       \/ (\A r \in Proc : Rest(r)) /\ StartAdd(p)
       \/ (\A r \in Proc : Rest(r)) /\ ad[p].pc = "idle" /\ Start(p) /\ UNCHANGED ad
       \/ AddStep(p)
       \/ KillAdd(p)
       \/ RemoveStep(p) /\ UNCHANGED ad
       \/ ad[p].pc = "idle" /\ Kill(p) /\ UNCHANGED ad
  \/ Tick /\ UNCHANGED ad

-----------------------------------------------------------------------------
(* Properties.                                                             *)

\* Every variable has the values the frames and the subsystem allow.
AddTypeOK == TypeOK /\ ad \in [Proc -> AddFrame]

Finished(p) == ad[p].pc = "done" /\ ad[p].hint # None

\* The tiers that must have failed, or been left out, before the last one.
Behind(p) == {"catalog"} \cup (IF ad[p].call.lean THEN {} ELSE {"sdi"})

\* The audit trail is complete and agrees with the outcome: a success shows as
\* exactly one successful tier, the one that installed, an error as none, and
\* the IPP class driver is only reached over the recorded failure of the local
\* store or the manufacturer and a recorded reason for every tier in between.
ReportTellsAll ==
  \A p \in Proc : Finished(p) =>
    LET f == ad[p]
        last == IF f.report["ipp"] = "none" THEN f.tier ELSE "ipp" IN
    /\ {t \in Tier : f.report[t] \in Success} = IF f.outcome = "ok" THEN {last} ELSE {}
    /\ last = "ipp" =>
         /\ "Failed" \in {f.report["local"], f.report["mfr"]}
         /\ \A t \in Behind(p) : f.report[t] \in {"Failed", "Skipped", "Disabled"}
    /\ f.outcome = "error" => last = "ipp"

Signed(k) == Cats[k] = {"Valid"}

\* A signed pack vouches for everything in its directory.
SignedBeside(f) == \E k \in f.dir : Signed(k)

\* A package gets into the driver store only without an unsigned or invalid
\* catalog of its own and, but for a manufacturer's, with a signed one in its
\* directory; or because --no-verify was given.  (The gate counts a catalog it
\* cannot read as absent: this is about machines where prinstall can walk its
\* own packs, and about the full build: the lean one has no gate.)
OnlyVouchedIsStaged ==
  [][\A k \in packages' \ packages : \E p \in Proc :
       /\ k \in Infs(ad[p])
       /\ \/ ad[p].call.noVerify \/ ad[p].call.lean
          \/ Cats[k] \subseteq {"Valid"} /\ (ad[p].tier = "mfr" \/ SignedBeside(ad[p]))]_addVars

\* What the report calls verified is what the gate can vouch for: no tier is
\* marked so for a pack with an unsigned or invalid catalog, nor for one in a
\* directory without a signed one, unless the build has no gate.
VerifiedIsVouched ==
  \A p \in Proc, t \in Tier :
    ad[p].report[t] = "Verified" /\ ~ad[p].call.lean =>
      Cats[ad[p].pack] \subseteq {"Valid"} /\ SignedBeside(ad[p])

\* The documented gate: every pack's signature is verified before it is installed
\* (README.md), and one without catalogs is untrustworthy (sdi_verify.rs).
VerifiedIsSigned ==
  \A p \in Proc, t \in Tier :
    ad[p].report[t] = "Verified" /\ ~ad[p].call.lean => Signed(ad[p].pack)

\* One add at a time, killed, repeated and forced in any order, and removals in
\* between, never put a second queue on an address (where no queue is named like
\* one: --force would then remove what prints there instead of the named queue).
OneQueuePerAddress ==
  \A q, r \in queues : q.port = r.port /\ q.port \in {IpPort[a] : a \in Ip} => q = r

\* The always-works safety net (README.md, tier 6): where only the tiers fail
\* and no command does, an add that has identified the printer ends in an error
\* only if the printer does not answer on port 631.
IppRescues ==
  \A p \in Proc : Finished(p) /\ ad[p].outcome = "error" => ~ad[p].ippOk

\* Every add comes to an end, with the forced removal inside it.
AddTerminates ==
  \A p \in Proc : ad[p].pc = "early" ~> ad[p].pc \in {"done", "killed"}

=============================================================================
