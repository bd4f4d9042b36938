# prinstall in TLA+

`prinstall` is a command-line program that installs and removes printers on
Windows. It is one process without threads of its own; everything it changes it
changes by running PowerShell commands one at a time, by downloading files, and
by writing a few files under `C:\ProgramData\prinstall`. What is hard about it
is not its own concurrency but the world around it: the Windows spooler, which
holds on to drivers and ports for seconds after a queue is gone; commands that
fail for reasons of their own; a second invocation, an administrator or an RMM
agent at work on the same machine; a kill between two commands.

The modules here are translated from the Rust code under `src/`. TLC checks them
on small machines, and TLAPS proves the theorems of the eight modules named
`..._proofs` for every value of the constants.

## 1. The system

| component (source under `src/src`) | state | operations | what makes it correct |
|---|---|---|---|
| Windows print subsystem, driven by `installer/powershell.rs` | queues, registered drivers, driver-store packages, ports, spooler references | Get-*, Add-*, Remove-*, pnputil | not part of the repository; modelled as the code relies on it |
| `commands/remove.rs` | one invocation's progress | resolve, info, Remove-Printer, settle, driver and port cleanup with retries, history | cleans up what it orphaned, touches nothing else, always ends |
| `commands/add.rs`, network flow, with `installer/mod.rs` | one invocation's progress and its report | early check, `--force`, discovery, driver resolution, six tiers, gate, staging, three-step install | a queue on the address; only packs the gate can vouch for; an honest report; ends |
| `commands/sdi_verify.rs` | none | statuses of catalogs to one verdict | one bad catalog condemns a pack |
| `commands/add.rs`, USB flow | one invocation's progress | bundle, swap, download, gate, stage, wait for PnP, Add-Printer | a queue moves to a registered driver altogether or not at all |
| `commands/driver.rs` | one invocation | `driver add`, `driver remove [--force]`, `driver list` | removes queues only when it is going to remove the driver |
| `commands/clean.rs` | one invocation | filter queues, remove each, sweep the address's ports | leaves nothing of an address, touches no other address |
| `history.rs` | `history.toml` | load, push, save | every change is in the log |
| `drivers/sdi/cache.rs`, `commands/sdi.rs` | `metadata.json`, pack files, index files | register, prune, refresh, prefetch, clean | metadata agrees with the files; budget respected |
| `drivers/sdi/fetcher.rs` | temporary files | manifest, index, pack download | only a complete, verified file gets its name |
| `drivers/downloader.rs`, `drivers/sdi/pack.rs` | extraction directories | download, extract, reuse | a pack is installed from its own files |
| `drivers/resolver.rs`, `catalog.rs`, `inf.rs`, `sdi/index.rs`, `sdi/resolver.rs` | none | candidate enumeration, matching, parsing | the best candidate, whatever is unreadable on the way |
| `drivers/matcher.rs`, `name_match.rs`, `known_matches.rs`, `manifest.rs` | embedded tables | score, pick | the right name |
| `discovery/*` | none | SNMP, IPP, mDNS, port scan, USB, local queues, merge | every printer once |
| `commands/setup.rs` | machine PATH, firewall rule, install directory | install, uninstall | uninstall undoes install |
| `core/*`, `cli.rs`, `main.rs`, `output.rs`, `verbose.rs`, `paths.rs`, `config.rs`, `privilege.rs` | none | arguments, rendering, running PowerShell | – |

Components interact by calls (`add --force`, `driver remove --force` and `clean`
each run `remove::run`), through the print subsystem and through the files.

The hard behaviours, with their lines, are the `hazards` of `PROJECT.json`.

## 2. The modules

```
PrintSystem            Windows as the code sees it
 ├─ Remove             prinstall remove, any number at once; run
 │                     within MCDriverRemove and MCClean         MCRemove
 │   └─ Remove_proofs  its theorems
 ├─ Authenticode       the signature gate
 │   └─ Staging        packs on disk, file by file
 │       └─ Sideload   prinstall driver add; prinstall add --usb MCSideload
 │           └─ Sideload_proofs   its theorems
 ├─ Add                prinstall add <ip>; EXTENDS Remove and
                       Authenticode, runs a Remove inside        MCAdd
 │   └─ Add_proofs     its theorems; EXTENDS Remove_proofs
 │       └─ AddSerial_proofs      commands one after the other
 ├─ DriverRemove       prinstall driver remove; EXTENDS Remove,
                       one Remove per dependent queue            MCDriverRemove
 │   └─ DriverRemove_proofs   its theorems; EXTENDS Remove_proofs
 └─ Clean              prinstall clean; EXTENDS Remove, one
                       Remove per queue, then the ports          MCClean
     └─ Clean_proofs   its theorems; EXTENDS Remove_proofs
Custody                what every removal promises; Remove, Add,
                       DriverRemove and Clean implement it
SdiCache               the SDI cache, its downloads, prinstall sdi
                       and the SDI tier of an add                MCSdiCache
 └─ SdiCache_proofs    its theorems
Lists                  sort and filter over lists
 ├─ Inf                INF files, hardware ids
 │   └─ SdiIndex       SDI indexes, candidates
 │       └─ Resolver   the Update Catalog resolver
 ├─ Matcher            model and driver names
 └─ Discovery          subnets, probes, merging
Selection              asks each of the last five about a case   MCSelection
 └─ Selection_proofs   its theorems
```

**PrintSystem.** Five variables: `queues` (name, driver, port), `registered`
drivers, driver-store `packages`, `ports`, and `held`, the half seconds until the
spooler lets go of a driver or a port. Each cmdlet that changes something is one
atomic operator. `Remove-Printer` starts the lag; `Remove-PrinterDriver` and
`Remove-PrinterPort` refuse while a queue or the spooler uses the thing;
`-RemoveFromDriverStore` takes the package and the sibling drivers it registers.
`CanFail` says which commands may fail for reasons of their own: queries,
changes, and prinstall's own files. These operators are marked external in
`map`: they describe Windows as `remove.rs` and `powershell.rs` rely on it (their
comments and retry schedules state it).

**Remove.** One frame `rm[p]` per invocation; `pc` is the command it issues
next. Every action is one command with the code that runs before the next one.
`Tick` lets half a second pass for sleepers and spooler alike, so the settle
sleep (500 ms) and the retry schedule (0, 1, 2, 2.5 s; with the driver store,
then again without it) are compared with the lag in the same unit. History is
written in one step: the race between two writers of `history.toml` is not
modelled yet. `Kill` ends an invocation anywhere, `AdminAdds` adds a queue. A
queue may be named like an address: `Matches` then looks for the queue on the
address's port and never for the name, as `resolve_printer_name` does.

**Authenticode.** A pack is the set of the statuses of its catalogs; `Reduce` is
`from_cat_results`. A directory that cannot be read hides its catalogs, a query
that fails gives them the status UnknownError.

**Add.** A frame `ad[p]` beside `rm[p]`. The tiers are steps of their own:
`bundle`, `mfr`, `catalog`, `sdi` each propose a driver, a pack and the directory it
lies in, and all share the gate, `pnputil` and the steps of `install_printer` (look for the port, make
it; look for the driver, add it; look for the queue, add it). `report` holds one
status per tier, as `InstallReport` does. What discovery, the matcher, the
manifest and the tiers' searches find is a choice over constants (`Hint`,
`Manifest`, `Offer`). `--force` starts a removal in `rm[p]` and waits for it.
The status that the code renders as Matched with `[UNVERIFIED]` is "Unverified".
The gate looks at the directory: `Beside` says which packs may lie there beside
the one the tier proposes. An SDI pack has one extraction root for all its drivers
(commands/add.rs:833), a manufacturer's download directory is never emptied
(drivers/downloader.rs:67), and of that one every INF is staged (`Infs`).
`AddNext` lets any number of adds and removals overlap; `SerialNext` starts a command
only when the one before is through or killed (`Rest`).

**DriverRemove.** A frame `dr[p]` beside `rm[p]`. The target resolves to a
registered driver by its name or, if one driver alone scores enough, by
similarity (`Scored`). The dependent queues are listed once (`todo`), each is
removed by a whole `Remove` with --keep-driver, which `NextDependent` starts in
`rm[p]` and `DependentGone` waits for; the driver goes last, in one try with its
package and one without. `astray` notes, for the properties, that the cascade has
handed over a name that reads as an address.

**Clean.** A frame `cl[p]` beside `rm[p]`. A filter on names is the set of names
it matches. Of a port's name the model keeps what the code looks at: the address
in it (`AddrOf`), whether an underscore stands before it (`Underscore`), and
whether it stands amid other text (`Amid`, as in `http://10.0.0.1:631`), where
`port_targets_ip` does not find it and the sweep does.
`Longer` and `Containing` say which addresses, as text, begin with or contain
another: `port_targets_ip` and the sweep match text. The queues are listed once
and removed one after the other with --keep-port, then the ports of the address
are listed, counted and removed; a port that cannot be removed costs a restart
of the spooler, which drops all its references, and one more try.

**Staging.** What each directory holds: the INF and the catalogs of each pack,
file by file. Packs with one `Base` name their files alike, so that a newer release
overwrites an older one's files where it has them and leaves the others; the gate
and `pnputil` look at the directory, whichever pack a file came with.

**Sideload.** A frame `sl[p]` for `driver add` (a folder, an INF, a URL, a
model) and `add --usb`. Both share the download, the unpacking (one file a
step), the gate and the staging; they differ in what the code makes of a failure
(`Unsourced`, `UnpackFails`) and of a directory without catalogs
(`SideNoCatalogs`, `SideGateRefuses`). `download_and_extract_url` empties its
directory (`DownloadUrl`), `download_and_stage` does not (`DownloadPack`). The USB
flow tries the bundle first (`pick`), then the download, and ends in
`update_printer_driver` if the queue is there (`CheckDriver`, `AddDriver`, `SetQueue`,
`RecordUpdate`), else in staging the whole staging directory, the polling and an
explicit `Add-Printer`. `PnpBinds` is plug and play: at any time it may make a
queue for a device that has none, with a driver of the store that names it.

**SdiCache.** The disk (`file`, its `.downloading` siblings `part`,
`metadata.json` and its `.tmp`, the extracted directories) and a frame `sd[p]` with
the invocation's own copy of the metadata. Creating a file, writing it and
renaming it are three steps; an open handle follows its file, so that two
downloads of one asset, or two saves of the metadata, really mix: `shared` marks a
temporary file that another process writes to, and what is written there may come
out torn. A `prefetch` runs a refresh with a cache object of its own (`nested`) and
loads the metadata again. `failed` and `met` are history variables for the
properties: what failed, and what else was at work meanwhile. `SdiSpec` starts from any
cache that earlier commands left whole (`SdiStart`); the runs start from some of these.

**Lists.** `sort` and `filter` over a list, by position: the element at place k is
the one that k - 1 others stand before. The five modules after it are written with
this, with the folds of the community modules and with recursive functions, so that
they can be proved about.

**Inf.** The parser of INF files, from the lines of a text (section headers
and entries) to hardware ids, the ids synthesized from a device's IEEE 1284 fields
or USB instance, and the lookup of the first of these ids that the INF has.

**SdiIndex.** An index is its sections as the header declares them and the
records in them. `Accepts` is the checks at the door, `FindHits` the lookup,
`Enumerate` the candidates of all indexes, `PickCandidate` the choice of the SDI tier.

**Resolver.** The walk over the rows of the Update Catalog; a row is what becomes
of it (no link, a failed download, INFs that cannot be read, do not match, match).

**Matcher.** `match_drivers` with its tiers in order: known names, scored names,
local universal drivers, the manifest's universals. A name is the sequence of its
words as they are spelled. Rows are told apart by the exact spelling (`Has`), all
else is compared in lower case (`Lower`); what the code finds with `starts_with` and
`contains` is found from the words that start with, end in or contain another
(`Extends`, `Versioned`, `EndsIn`, `Within`). `pick_best_driver_name` compares shared
words.

**Discovery.** `decompose_cidr`, `parse_cidr` and `normalize_cidr` on addresses of `Bits` bits
(32 in the code); the probes with their retries; the merging of the results.

**Selection** composes the five pure modules: one action per decision, which takes
a case from a CONSTANT set and keeps case and answer in `decision`; each
property compares the answer with a definition written without the algorithm. The
assumptions on the sets say only that a list is a list, an address an address and a
count a number (`IsText`, `IsIndex`, `IsRow`): what an INF, an index or a row holds
is arbitrary, a CIDR string that does not parse (`Unknown`) is a case like any other.

**Custody** is the abstract specification: queues come and go one at a time; a
driver goes only if it is no Windows system driver and nothing prints with it;
a package goes only with its driver; a port goes only if the cleanup manages it
and nothing prints to it; no step takes two kinds of things. The refinement
mapping is the identity on the four variables of the machine, `KeepsPromise`
in `Remove` (and so in `Add` and `DriverRemove`). In `Clean` the cleanup also manages
the ports with an address in their name (`CleanKeepsPromise`).

Definitions marked "Variant" are plausible mistakes in the definition after
them. No action uses them; replacing the definition by its variant must make
the named property fail, which shows that the property depends on that line. Some
are not mistakes but what a comment says (`TotalOnDisk`, `ReadManufacturerFallback`,
`SynthesizeUsbVid`, `AcceptsByOffsets`, `ScanRawPort`, `ScanAllSnmp`): the property that
fails for them is how the code differs from the comment.

## 3. The runs

| run | what it asks | answer |
|---|---|---|
| AddCascade | one add, of the full or the lean build, every command may fail, kills, `--force`: the report, what gets into the driver store, what is called verified, Custody, the end (`ReportTellsAll`, `OnlyVouchedIsStaged`, `VerifiedIsVouched`, `KeepsPromise`, `AddTerminates`, `AddTypeOK`) | holds |
| SharedRoot | is every pack that is reported as verified signed (`VerifiedIsSigned`)? | no: one without catalogs passes on those of a driver extracted beside it |
| AddSerial | adds, forced adds, removals one after the other, killed anywhere: one queue per address; the last tier rescues (`OneQueuePerAddress`, `IppRescues`) | holds |
| DriverCascade | one `driver remove` or `remove`, every command may fail, kills, an administrator (`TakesOnlyDependents`, `KeepsPromise`, `Terminates`, `DriverRemoveTerminates`, `DriverTypeOK`) | holds |
| CleanRace | two invocations, each a clean of an address or a removal, that share a driver, a port or a package, with a lag of six seconds or none: is anything stranded, is anything of the address left? (`LastOneOut`, `TypeOK`, `NothingLeft`, `CleanTypeOK`) | no |
| CleanFaults | one clean with all kinds of filters, every command may fail, kills, an administrator (`TakesOnlyMatches`, `CleanKeepsPromise`, `CleanTerminates`) | holds |
| CleanOtherQueues | does a clean of an address spare the queues of other addresses? | no: 10.0.0.1 begins 10.0.0.11 |
| SdiFaults | one SDI command, everything may fail, kills: what does eviction take, what does a refresh deliver, does it end? (`EvictsByRecord`, `RefreshDelivers`, `SdiTerminates`, `SdiTypeOK`) | the oldest, no more than needed; every index of one version; yes |
| SdiRace | two SDI commands on one cache, everything may fail, kills: is a file torn, a pack forgotten, half a driver handed on? (`WholeFiles`, `MetaReadable`, `NothingForgotten`, `StagedIsWhole`) | no, within the preconditions below |
| Sideload | two commands, one after the other, of `driver add` and `add --usb`, every command may fail, kills, plug and play (`SwapIsAllOrNothing`, `UrlPackIsSigned`, `SideTypeOK`) | holds |
| UsbFallback | can the explicit `Add-Printer` of the USB flow work? | no: nobody registered the driver |
| Selection | every decision on every small input, against its reference (`InfMatches`, `CatalogGoesOn`, `IndexAnswers`, `PackIsPicked`, `ModelMatches`, `NameMatches`, `ScanAsksTheNetwork`, `ScanLists`) | holds |

The three negative answers are `findings` of `PROJECT.json`, each with the line of
the repository that says otherwise. Eight more findings are about passing runs: the
property states what the code does, a comment or the repository's README says
something else, and the run has the case in which the two differ.

- `TakesOnlyDependents`, `TakesOnlyMatches`: a queue that is named like an IPv4 address.
  `remove` resolves such a name by the port of the address (commands/remove.rs:202), so
  the cascade of `driver remove --force`, `clean` and `add --force`, which pass names,
  may take another queue than the one they listed, while cli.rs:486 says "each dependent
  queue is removed first". DriverCascade and CleanFaults start from such machines; the
  two properties except what follows such a name (`astray`), so `OneQueuePerAddress`
  and the theorems on it are about machines without such names (AddSerial has none).
- `EvictsByRecord`: `Total` sums recorded sizes, those of packs whose file is gone
  included, though the comment of prune counts these as 0 bytes (drivers/sdi/cache.rs:259);
  and `used` never changes after the registration, because `record_pack_used` has no
  caller (cache.rs:95, 191-197).
- `InfMatches`: the bare section is read in addition to the NTamd64 one
  (drivers/inf.rs:146: "Only if no NTamd64 hits"), and a USB id without a `VID_`
  segment gives its full id, not an empty list (inf.rs:385).
- `IndexAnswers`: an index with a string offset outside of its table is accepted
  (drivers/sdi/index.rs:36: "or the file is rejected as corrupt").
- `ScanLists`: a scan by all methods asks IPP and SNMP only where a port is open
  (the repository's README.md:122: "Probes every IP on the subnet via TCP port checks,
  IPP, and SNMP in parallel"); a scan by ports takes any of 9100, 631 and 515
  (README.md:131: "TCP 9100 only").

Other places where the code does something else than its comments say or a reader
may expect, found while translating and visible in the definitions named here:

- `ResolveAbsent`: a `Get-Printer` query that fails is reported as "already
  absent" (commands/remove.rs:213, models.rs:331). A removal that was killed half
  way therefore cleans up nothing when it is repeated.
- `ManagedPort`: the cleanup may delete an orphaned `http://` port, though
  prinstall creates `IP_` ports only (commands/remove.rs:78-84).
- `EarlyForce`: `add --force` removes the queue, and its orphaned driver, before
  the printer is identified (commands/add.rs:91).
- `CheckQueue` (Add): a queue of the wanted name counts as the wanted queue
  although it prints to another port (installer/powershell.rs:198).
- `GateAbsent`: the lean build has no gate and reports packs as verified
  (commands/add.rs:1513); the properties of the gate are about the full build.
- `SdiNothing`, `PickNothing`: `--sdi-fetch` lets an uncached pack be picked, but
  the extraction gives up on every such pack (commands/add.rs:803).
- `Mentions`: the sweep of `clean` lists ports by substring, so an orphaned port
  of a longer address goes with the shorter one (commands/clean.rs:228); a clean
  whose sweep failed finds no queue the next time and leaves the ports (clean.rs:130);
  an empty `--manufacturer` matches everything (clean.rs:99).
- `DropPackageFails`: one `Remove-PrinterDriver` with the package and one without,
  right after the queues are gone, lose against a spooler that still holds
  the driver (commands/driver.rs:637).
- `StageWhole`: the USB flow stages the whole staging directory, what earlier
  downloads left in it included (commands/add.rs:1131); `PollFinds`: a queue that plug and
  play made is not recorded in the history (add.rs:1143).
- `Propose`, `DownloadPack`: the directory of a manufacturer's pack is not emptied
  (drivers/downloader.rs:67), so an old catalog vouches for a new INF, and the old INF
  is staged with it.
- `EvictFails`: prune returns without saving what it removed
  (drivers/sdi/cache.rs:290).
- `RecordRefresh`: a refresh in which every index failed is recorded
  (commands/sdi.rs:138). `PickCached`: an extraction that broke off counts as
  complete as soon as its INF is there (commands/add.rs:841).
- The error text for a prefix that is too short raises 2 to its power in 32 bits
  (discovery/subnet.rs:125), which overflows at prefix 0.

**Bounds.** Two invocations show every race of two, and no code distinguishes
three. CleanRace: two drivers in one package, the `IP_` port of an address and a
vendor's port for it; two queues share a driver, a port, both, or the package; the
command lines are the clean of the address, the removals of either queue, one with
--keep-driver, and that of the address. The lag of 12 half seconds is the longest that the settle
sleep and one retry schedule outlast (`LightsOut`); the runs with faults use none or one second. The Add runs
have two addresses, the class driver and three vendor drivers whose packages are
fully signed, partly signed, and without catalogs, which are the cases
`from_cat_results` tells apart; the signed one may lie beside each pack of the
manufacturer and SDI tiers; the command lines set every flag at least once.
SharedRoot leaves the manufacturer's directory to the pack alone, so that the SDI
tier must show it. DriverCascade has three drivers (one system, two in one package),
three ports (`IP_`, `http://`, USB), machines in which two queues share a driver, a
port, both, a package, or nothing, one with a dependent queue that is named like an
address, and a target that scores against both vendor drivers. The Clean runs have two addresses, one
the beginning of the other, the IP_ port of each, a vendor's port for the first
and for CleanFaults an `http://` and a USB port, and a queue named like the other
address; each filter occurs alone or with another.
`held` and `wait` never exceed the largest lag and the largest delay.

SdiFaults has two packs of different size with an index each, a mirror that
publishes once (`MaxVersion`), and budgets that hold both packs, the larger one
and none; it starts from an empty cache and from caches with both packs in either
order of use, with one lost or one unregistered. SdiRace has one pack and one index,
because a race is about one temporary name. Sideload has one USB printer, a signed pack whose next
release has no catalogs and overwrites its INF, an unsigned pack, a signed pack
that only the 7z reader unpacks, and the bundle; `Polls` is 2, where the code has 10: what counts is a look
that finds the queue, one that does not, and the last. Selection: INFs of one
manufacturer section and two model sections with every mixture of decorations and
cases; up to three catalog rows of seven kinds with `MaxCandidates` 2 (the code's limit
is 5: rows within and beyond it); indexes of up to two records a section with every reference in and
out of range; local driver stores of up to three names, among them two spellings of one, versions
after a blank and attached, and names that hold "universal" or "upd" within a word; all addresses and
prefixes of four bits, prefixes that are too long, and a string that does not parse; two hosts, one of which has every mixture of answers.
Runs with two identical invocations use symmetry over them (no liveness property
is checked there).

**Deadlock** is not checked, but in Selection: an invocation ends, and then nothing
has to happen.

**Fairness.** Time passes (`Tick`), and an invocation that can take its next step
takes it: PowerShell is a child process that is waited for without a timeout, so
that a command that never returns is outside the model. SDI commands take their next
step as well: a download has a timeout. There is no fairness for
the administrator, the mirror, plug and play, kills or for starting a command.

**Preconditions of the properties.** `LastOneOut` is checked where no command
fails for reasons of its own and nobody kills: the code gives up with a warning
otherwise. `IppRescues` is checked where only the tiers fail and one command runs
at a time. `OnlyVouchedIsStaged` and `VerifiedIsVouched` are checked on machines
where prinstall can read its own files, because the gate counts a catalog it
cannot read as absent; what they say is what the gate can say of a directory: the
pack has no bad catalog of its own, and a signed pack lies there. That the pack itself is
signed is `VerifiedIsSigned`, which SharedRoot refutes. (The gate on a bundle looks at the
bundle's folder, which Sideload takes for one pack.) `OneQueuePerAddress` is checked for one add at a time: the
early check and `Add-Printer` are seconds apart and two adds can pass each other,
which the code does not guard against; and for queues none of which is named like an
address, since a forced add would remove another one. `TakesOnlyDependents` and
`TakesOnlyMatches` are checked for one invocation at a time, because the queues
are looked up again by name: between the list and the removal a second prinstall
may remove a queue and an administrator give its name to another. `NothingLeft`
is checked, like `LastOneOut`, where nothing fails, and speaks of the ports that
stand for the address as `port_targets_ip` takes it (`StandsFor`): a port such as
`http://10.0.0.1:631` mentions it and keeps its queue, though clean.rs:204 and cli.rs
speak of all queues of the address. `LastOneOut` takes the last removal of each
clean. `EvictsByRecord` goes by what the metadata records.

The cache takes no lock, so its properties say what a race excuses. `WholeFiles`
excuses two downloads at once (both write to one temporary name),
`MetaReadable` any two commands at once (both write to one `.tmp`), and
`StagedIsWhole` an extraction that broke off before or a second tier.
`NothingForgotten` excuses nothing that is over: a tier that starts alone has every pack on
disk in the metadata again. The race itself is in the run: the states after it
must still satisfy every property. `UrlPackIsSigned` and `SwapIsAllOrNothing` are
about commands run one after the other, any of them killed, on a disk that can be emptied.

## 4. The proofs

Of the 38 properties of the passing runs 32 are theorems: all but the five about
liveness and `LastOneOut`, of which the part about removals alone is one (`LightsOut`). The theorems hold for any
number of invocations, any queues, drivers, ports, packages and directories, any lag
and any set of failing commands, from the assumptions the modules name
(`DriverAssumption`: no inbox system driver shares a package with a vendor driver;
`IpAssumption`: the port of an address is one the cleanup manages (a queue may be
named like an address); `BesideAssumption`: any packs may lie beside any; `AddrAssumption`
and `SideCallsAssumption`: a command line names what its kind needs; the rest are
types). Where a theorem needs more it says so in an ASSUME of its own.

**`Remove_proofs`**, about `Remove`'s `Spec`:

- `TypeCorrect`: `Spec => []TypeOK`.
- `RemoveKeepsPromise`: `Spec => KeepsPromise`, that is, `Remove` implements
  `Custody`.
- `LightsOut`: `Init /\ [][Next /\ NoNameReused]_removeVars => [](AtRest => LightsOff)`,
  that is, `LastOneOut` for removals alone.

`TypeOK` is not inductive for the second: nothing in it says that the driver an
invocation is about to remove was found not to be a system driver. `IInv` adds two
parts. `Knows`: between the lookup and the end, a frame has a queue, a driver and a
port. `Checks`: a frame at "dropDriver" has no system driver, one at "dropPort" has
a managed port. `Invariance` proves it inductive, with one lemma per action; every
action but the administrator's and the clock's goes through `StepInv`, which asks
only that the new frame be good. `RemoveKeepsPromise` then shows that only four
kinds of steps change what Custody sees, and that each is one of its actions. That
nobody prints with a removed driver needs no invariant (Windows refuses); that its
siblings in the package are no system drivers needs `DriverAssumption`.

`LightsOut` is about clocks. That the last removal of the queues of a driver cleans
up after all of them says that one of them comes to a try late enough: `LightsIInv`
states for every abandoned and unused driver that somebody who took a queue from it
has a try to come (`ClearsDriver`), at a time, counted in the sleeps still ahead of
that frame, when the spooler has let go (`DriverCared`); the same for ports
(`PortCared`). Time passes for sleepers and spooler alike, so `Tick` keeps it; a new
`Remove-Printer` starts the lag anew but also brings a remover with its whole
schedule before it; and a lookup that still counts a queue leaves the driver to
whoever removes that queue. What the theorem assumes is what the code needs.
Commands do not fail for reasons of their own. The lag is at most `SettleDelay +
TriesLeft[1]`, 12 half seconds: the settle sleep and one schedule, since a port gets
one. And a queue is not added under the name of one that is about to be removed
(`NoNameReused`): between `fetch_printer_info` and `Remove-Printer` the removal
holds the driver and the port of the old queue, and would clean up these. Kills and
the administrator's other queues, which the run leaves out, are in the theorem;
`AtRest` speaks of states in which nobody was killed, because a killed removal
strands what it took.

**`Add_proofs`**, about `AddSpec`: `AddTypeCorrect`, `ReportComplete`,
`VerifiedVouched`, `OnlyVouchedStaged` and `AddKeepsPromise`, for any number of adds
and removals at once. `ReportTellsAll` speaks of finished invocations only;
`AddIInv` carries it through the cascade. `Has` says what a frame has where: a hint,
a tier, a driver, a pack. `Trail` says that while the cascade runs no tier has
succeeded, and that each tier behind the one being asked has its reason. `Vouched`
says what the gate has seen of the directory that is about to be staged from, and of every
tier marked verified. Each kind of change to a frame keeps the three by a lemma of
its own (`GoodLeave`, `GoodStage` and so on), so that the lemmas about the actions
only sort the actions by kind. `VerifiedVouched` and `OnlyVouchedStaged` assume that
no scan fails (`~CanFail("scan")`), because the gate does not count a catalog it
cannot read; a failing signature query is allowed. For `AddKeepsPromise` the two
steps that make a queue are Custody's `OneQueueMore`, the four that bring in a port,
a driver or a package `MoreSupply`, and every other step of an add leaves the
machine alone (`QuietSteps`); the forced removal keeps the promise by
`StepKeepsPromise`.

**`AddSerial_proofs`**, about commands one after the other, each killed wherever it
may be: `OneQueueEach` and `SafetyNet`, both from `AddInit /\ OneQueuePerAddress /\
[][SerialNext]_addVars`. A machine on which two queues share an address stays that
way, hence the second conjunct. `SerialIInv` says that one command moves (`Alone`)
and that the address stays free from the early check, or from the forced removal, to
`Add-Printer` (`Clear`): `Follows` says how a step of an add can change its frame at
all, and of all these changes only `Add-Printer` ends `Clear`. The early check must
see the queue that is there, so queries do not fail; changes may. Both assume `Ip \cap
Queue = {}`: no queue is named like an address, or the forced removal may clear another port. `SafetyNet` in
addition excludes changes that fail, because `Add-PrinterPort` and `Add-Printer` of
the last tier are changes; what the tiers find, stage or miss is as arbitrary as in
the run.

**`DriverRemove_proofs`**, about `DriverSpec`, in which every invocation also runs
removals: `DriverTypeCorrect`, `DriverKeepsPromise` and `DriverTakesOnlyDependents`.
`DriverIInv` is `IInv` of the removals inside and one fact of the frame: a driver
that is about to be removed is a vendor's (`Chosen`). The steps of the removals keep
it by the lemmas of `Remove_proofs`; so do they keep the promise, and what is left
to show is that the two steps that remove the driver are Custody's.
`DriverTakesOnlyDependents` assumes one invocation, as its run does (`\A p, r \in
Proc : p = r`): with two, the queue of a list may be another one by the time it is
removed. Its invariant follows the cascade: each queue still to be removed prints
with the driver (a queue never changes its driver, and a name is taken by one queue
at a time), the removal under way is aimed at one of them (`Aimed`), and what a
removal has taken printed with the driver (`Takes`), until a name that reads as an
address has been handed over (`astray`).

**`Clean_proofs`**, about `CleanSpec`: `CleanTypeCorrect`, `CleanKeepsItsPromise`,
`CleanTakesOnlyMatches` and `CleanLeavesNothing`. A promise over fewer ports is a
promise over more (`PromiseSwept`), so that the removals inside need no second
proof; the frame adds that the port to be swept has an address in its name
(`Sweeping`). `CleanTakesOnlyMatches` assumes one invocation and goes the way of
`DriverTakesOnlyDependents`, with the filters in the place of the driver.
`CleanLeavesNothing` is for any number of cleans and removals at once: `Leaves` says
what an address still has at each stage of a full clean, first only queues that are
still to come, then no queue, then only ports that are still to be swept, then
nothing. The restart of the spooler does away with the lag, whatever it is; that the
port is not held anew before the second try follows from nobody using it. It assumes
that no command fails for reasons of its own and that nobody adds a queue at the
address once the clean has begun (`NobodyMovesIn`). It proves more than the run
asks: `NothingThere` holds as soon as a clean is through, not only when all others
are.

**`Sideload_proofs`**, about `SideSpec`: `SideTypeCorrect`, `UrlPackSigned` and
`SwapsAreWhole`. `SideSpec` starts on any machine, with any files in any directory.
`Knows` says what a frame has where: its kind, a directory, a driver, a pack the
manifest or the URL has served. `UrlPackSigned` assumes that no file operation and
no scan fails: a directory that could not be emptied mixes packs, and a catalog that
could not be read is not counted. Its invariant `UrlIInv` is that one command runs
at a time and that a URL's directory, from the download to the staging, holds less
than the pack, then all of it, and past the gate a pack whose catalogs are valid
(`Sourced`). Only seven actions touch that; all others lead `Elsewhere`.
`SwapsAreWhole` assumes nothing: `Swapping` says that a swap is at one of twelve
places before `Set-Printer`, with the queue as it was, or behind it, with the queue
at the chosen driver and that driver registered. `AddMoves` and `UsbMoves` show that
every other step stays on the near side, or fails; nobody but `Set-Printer` takes a
queue away or changes one (`StepTakesNothing`), plug and play included.

**`SdiCache_proofs`**, about `SdiSpec`: `SdiTypes`, `MetadataSurvives`,
`FilesAreWhole`, `StagedWhole`, `AllRemembered`, `RefreshBrings` and `EvictsOldest`,
for any number of invocations, any finite set of packs, any sizes, budgets and
failures, and any cache to start from that is whole. Each rests on `Sane` (types,
and a frame that commands can come to: `Sound`), on `Acquainted` (who is at work at
the same time has met) and on an invariant of its own. `Moves` and `Effects` state
once what any step does to the disk and to the frames, its own and those it touches
through an open handle, so that the seven proofs go by kinds of steps, not action by
action. `MetaIInv`, `FilesIInv` and `StagedIInv` are about everybody as long as
there was no race; `ForgetIInv`, `DeliverIInv` and `EvictIInv` about whoever runs
alone (`Loners`), after whatever races: the tier has every pack it does not know
still on its list (`Remembers`), the download has every index it is past at the
version of its manifest (`Delivers`), the clean has taken only the oldest, in order,
and no more than it had to (`Evicts`). The last needs that taking a pack away lowers
the total by its size. `Total` is a fold of the community modules, a recursive
function over the subsets of the packs that takes an arbitrary element at a time;
`SmallestSet` to `TotalTakes` show from the well-foundedness of the subsets of a
finite set that the order does not matter. This induction
goes by the smallest counterexample, because the library's induction
theorems are out of the provers' reach.

**`Selection_proofs`**, about `Selection`'s `Spec`: `InfIsMatched`,
`CatalogIsSearched`, `IndexIsSound`, `PackIsTheBest`, `ModelIsMatched`,
`NameIsPicked`, `NetworkIsAsked` and `AnswersAreListed`, for every INF, catalog,
index, local driver store, manifest, network and width of address. Each property is
inductive as it stands: a step computes one answer and keeps it beside its case
(`Turn`), so that the work is in the lemmas about what the code computes (`MatchIs`,
`ResolveIs`, `IndexIs`, `PackIs`, `ModelIs`, `NameIs`, `HostsAre`, `ScanIs`), in the
order of the modules:

- What `sort` does: counting who stands before whom is a bijection onto the places
  when the order is strict and total (`SortedIs`); `InOrder` and `Keep` follow.
- What a fold does: the library defines it by recursion over sets or lists, and the
  induction theorems cannot be used, so that `FoldExists` and its
  relatives show by the smallest counterexample that the function exists and satisfies
  its equation. Everything folded over later (the walk over the catalog's rows, the
  passes of the matcher, the backfill of the list of printers) only cites this.
- `decompose_cidr` on numbers: powers of two, and that an address shares a prefix
  with another exactly if dividing by the size of the block says so (`Pow2` is a
  recursive function, because the provers know nothing of `^`).
- `parse_inf`: a section is what stands under any header of its spelling, so that
  merging repeated headers loses nothing and makes nothing up.
- The index: the checks at the door bound each link of the chain from a hardware id
  to an INF. The strings need no bound beyond the one that `read_string_checked`
  makes itself.
- The list of printers: `Collapse` leaves one row per address, `MergeMdns` keeps that
  and fills in what a probe did not learn, sorting permutes, and `Deduplicate` drops a
  local queue exactly if its address is in the list.
- The matcher: each of its passes offers a row per name and takes it unless the name
  is listed, a recursion over the names (`OffersExist`) after which no name is listed
  twice and every name that was offered is there (`PassIs`). That a stopgap stands behind
  every real match needs the promotion that comes before the sort, and the sort.

What they assume besides the shape of the inputs is `FloorAssumption` (the floor of a
fuzzy match is at most the exact score) and `UnknownAssumption` (no CIDR is the
absence of one).

Only model-checked: liveness (`AddTerminates`, `Terminates`,
`DriverRemoveTerminates`, `CleanTerminates`, `SdiTerminates`), which is beyond the
prover, and `LastOneOut` for removals next to and inside cleans.

## 5. What is not modelled, and the plan

Not modelled:

- `setup`: PATH entry, firewall rule, install directory. A straight line of
  commands that share no state with the rest.
- The interleaving of two writers of `history.toml` (`record_install` is one step), and
  the migration of its legacy file. The code promises nothing about it.
- `driver list`, `driver init`, `sdi status`, `sdi list`, `sdi verify` as commands: they print
  or make an empty directory. The verification they share with `add` is in Authenticode.
- Wire formats (SNMP, IPP, mDNS), the .7z, .cab and LZMA decoders, the HTML of the Update Catalog,
  argument parsing, rendering, the wording of errors. `paths`, `config`, `privilege`: names and defaults.

What a continuation would take first: an abstract cache that `SdiCache` implements for
one command at a time; `OneQueuePerAddress` for `add` next to plug and play; and what the
answers of `Selection` mean for `Add`, whose `Hint` and `Offer` are constants.
