------------------------------ MODULE SdiCache ------------------------------
(***************************************************************************)
(* The cache of SDI indexes and driver packs (src/src/drivers/sdi/cache.rs *)
(* and fetcher.rs), the commands on it (src/src/commands/sdi.rs), and its  *)
(* use by the SDI tier of `add` (src/src/commands/add.rs).                 *)
(*                                                                         *)
(* On disk are the files, their half-written `.downloading` siblings, and  *)
(* metadata.json with its `.tmp` sibling.  Every invocation works on its   *)
(* own copy of the metadata and no lock is taken.  A file handle follows   *)
(* its file: what a second writer truncates, renames or removes is what    *)
(* the first one goes on writing to.                                       *)
(*                                                                         *)
(* A file is Absent, Torn, or holds one version; a pack has one version.   *)
(* A definition marked "Variant" is a plausible mistake in the definition  *)
(* after it; no action uses it.  The runs must tell the two apart.         *)
(***************************************************************************)
EXTENDS Naturals, FiniteSetsExt

CONSTANTS
  Proc,        \* invocations of prinstall
  Pack,        \* the .7z packs of the mirror's manifest
  Index,       \* its .bin indexes
  PackOf,      \* the pack an index speaks of
  SizeOf,      \* size of a pack
  MaxVersion,  \* bound: how often the mirror publishes indexes
  SdiCalls,    \* the command lines
  Flaky,       \* "net", "disk": what may fail for reasons of its own
  None

Asset == Pack \cup Index

ASSUME SdiAssumption ==
  /\ Pack # {} /\ Index # {} /\ Pack \cap Index = {} /\ None \notin Asset
  /\ IsFiniteSet(Pack)
  /\ PackOf \in [Index -> Pack]
  /\ SizeOf \in [Pack -> Nat \ {0}]
  /\ MaxVersion \in Nat \ {0}
  /\ Flaky \subseteq {"net", "disk"}

\* `budget` is the configured max_cache_mb, `offline` the configured mode.
SdiOp == {"refresh", "prefetch", "clean", "tier"}
SdiCall == [op: SdiOp, budget: Nat, offline: BOOLEAN]

ASSUME SdiCallsAssumption == SdiCalls \subseteq SdiCall

Absent == 0
Torn == MaxVersion + 1
Content == Absent..Torn

\* What metadata.json says: when its refresh was is only looked at for age.
Stamp == Nat
PackMeta == [size: Nat, used: Stamp]
Metadata ==
  [version: 0..MaxVersion, refreshed: BOOLEAN, packs: [Pack -> {None} \cup PackMeta]]

ASSUME NoneAssumption == None \notin SdiCalls /\ None \notin PackMeta

Default == [version |-> 0, refreshed |-> FALSE, packs |-> [k \in Pack |-> None]]
NoFile == [Default EXCEPT !.version = -1]
TornFile == [Default EXCEPT !.version = -2]

VARIABLES
  mirror,     \* the version of the indexes the mirror serves
  file,       \* the index and pack files under their final names
  part,       \* their `.downloading` siblings
  meta,       \* metadata.json
  metaTmp,    \* metadata.json.tmp
  extracted,  \* what stands in sdi/extracted/ of each pack
  clock,      \* the time of the next registration
  sd          \* the frame of each invocation

diskVars == <<file, part, meta, metaTmp, extracted>>
sdiVars == <<mirror, diskVars, clock, sd>>

SdiPc == {"idle", "load", "nested", "reload", "manifest", "packManifest", "next", "get", "create",
          "receive", "rename", "register", "autoRegister", "pick", "extract", "evict",
          "saveCreate", "saveWrite", "saveRename", "done", "killed"}

\* Where the bytes of an open file go.
Handle == {"none", "part", "final", "gone"}

SdiFrame ==
  [pc: SdiPc, call: SdiCalls \cup {None}, meta: Metadata, version: 0..MaxVersion,
   todo: SUBSET Asset, asset: Asset \cup {None}, got: Content, handle: Handle, shared: BOOLEAN,
   running: Nat, after: SdiPc, failed: SUBSET Asset, met: SUBSET (SdiOp \cup {"place"}),
   outcome: {"none", "ok", "error", "staged"}]

IdleSdi ==
  [pc |-> "idle", call |-> None, meta |-> Default, version |-> 0, todo |-> {}, asset |-> None,
   got |-> Absent, handle |-> "none", shared |-> FALSE, running |-> 0, after |-> "done",
   failed |-> {}, met |-> {}, outcome |-> "none"]

SdiAt(p, pc) == sd[p].pc = pc
SdiFails(kind) == kind \in Flaky

\* A step of p that leaves the disk alone.
SdiQuietly(p, upd) == sd' = [sd EXCEPT ![p] = upd] /\ UNCHANGED <<mirror, diskVars, clock>>

SdiEnd(p, outcome) == SdiQuietly(p, [sd[p] EXCEPT !.pc = "done", !.outcome = outcome])

-----------------------------------------------------------------------------
(* Beginning and loading.                                                  *)

Busy(p) == sd[p].pc \notin {"idle", "done", "killed"}

\* `met` remembers, for the properties, what else was at work on the cache at
\* any time of this invocation.
StartSdi(p) ==
  /\ SdiAt(p, "idle")
  /\ \E c \in SdiCalls :
       LET skip == c.offline /\ c.op \in {"refresh", "prefetch"}
           mine == [IdleSdi EXCEPT !.pc = IF skip THEN "done" ELSE "load", !.call = c,
                                   !.met = {sd[q].call.op : q \in {r \in Proc : Busy(r)}}]
       IN sd' = [q \in Proc |-> CASE q = p -> mine
                                  [] q # p /\ Busy(q) /\ ~skip -> [sd[q] EXCEPT !.met = @ \cup {c.op}]
                                  [] OTHER -> sd[q]]
  /\ UNCHANGED <<mirror, diskVars, clock>>

\* load_from_root: what is missing, corrupt or unreadable counts as empty.
Loads ==
  (IF meta \in {NoFile, TornFile} THEN {Default} ELSE {meta})
    \cup (IF SdiFails("disk") THEN {Default} ELSE {})

\* is_stale: never refreshed, or refreshed too long ago.
StaleChoices(m) == IF m.refreshed THEN BOOLEAN ELSE {TRUE}

OnDisk(k) == file[k] # Absent
Listed(m) == {k \in Pack : m.packs[k] # None}
Unregistered(m) == {k \in Pack : OnDisk(k)} \ Listed(m)

\* Variant: what is missing from the disk counts nothing.
TotalOnDisk(m) == MapThenSumSet(LAMBDA k : m.packs[k].size, {k \in Listed(m) : OnDisk(k)})

\* total_cache_size_bytes
Total(m) == MapThenSumSet(LAMBDA k : m.packs[k].size, Listed(m))

LoadRefresh(p) ==
  /\ SdiAt(p, "load") /\ sd[p].call.op = "refresh"
  /\ \E m \in Loads : SdiQuietly(p, [sd[p] EXCEPT !.pc = "manifest", !.meta = m])

LoadPrefetch(p) ==
  /\ SdiAt(p, "load") /\ sd[p].call.op = "prefetch"
  /\ \E m \in Loads : \E stale \in StaleChoices(m) :
       SdiQuietly(p, [sd[p] EXCEPT !.pc = IF stale THEN "nested" ELSE "packManifest",
                                   !.meta = m])

\* refresh inside prefetch loads a copy of its own; prefetch loads anew after it.
LoadNested(p) ==
  /\ SdiAt(p, "nested")
  /\ \E m \in Loads : SdiQuietly(p, [sd[p] EXCEPT !.pc = "manifest", !.meta = m])

Reload(p) ==
  /\ SdiAt(p, "reload")
  /\ \E m \in Loads : SdiQuietly(p, [sd[p] EXCEPT !.pc = "packManifest", !.meta = m])

LoadClean(p) ==
  /\ SdiAt(p, "load") /\ sd[p].call.op = "clean"
  /\ \E m \in Loads :
       IF Total(m) <= sd[p].call.budget
       THEN SdiQuietly(p, [sd[p] EXCEPT !.pc = "done", !.meta = m, !.outcome = "ok"])
       ELSE SdiQuietly(p, [sd[p] EXCEPT !.pc = "evict", !.meta = m, !.running = Total(m)])

\* auto_register_packs lists the directory once.
LoadTier(p) ==
  /\ SdiAt(p, "load") /\ sd[p].call.op = "tier"
  /\ \E m \in Loads :
       SdiQuietly(p, [sd[p] EXCEPT !.pc = "autoRegister", !.meta = m, !.todo = Unregistered(m)])

-----------------------------------------------------------------------------
(* save_metadata: write metadata.json.tmp in full, rename it.              *)

\* Save the copy m and go on at `after`.
Saving(p, upd, m, after) == [upd EXCEPT !.pc = "saveCreate", !.meta = m, !.after = after]

\* The frames when p does something to a file that others have open at `pc`.
Redirect(upd, p, Reaches(_), to) ==
  [q \in Proc |-> CASE q = p -> upd
                    [] q # p /\ Reaches(q) -> [sd[q] EXCEPT !.handle = to[sd[q].handle]]
                    [] OTHER -> sd[q]]

Deleted == [h \in Handle |-> IF h = "part" THEN "gone" ELSE h]
Renamed == [h \in Handle |-> CASE h = "part" -> "final" [] h = "final" -> "gone" [] OTHER -> h]

WritesMeta(q) == sd[q].pc = "saveWrite"
SharesMeta(p) == {q \in Proc \ {p} : WritesMeta(q) /\ sd[q].handle = "part"}

\* Variant: the file is written in place.
SaveInPlace(p) ==
  /\ SdiAt(p, "saveCreate")
  /\ meta' = TornFile
  /\ sd' = [sd EXCEPT ![p].pc = "saveWrite", ![p].handle = "final"]
  /\ UNCHANGED <<mirror, file, part, metaTmp, extracted, clock>>

SaveCreate(p) ==
  /\ SdiAt(p, "saveCreate")
  /\ metaTmp' = TornFile
  /\ sd' = [q \in Proc |->
       CASE q = p -> [sd[p] EXCEPT !.pc = "saveWrite", !.handle = "part",
                                   !.shared = SharesMeta(p) # {}]
         [] q \in SharesMeta(p) -> [sd[q] EXCEPT !.shared = TRUE]
         [] OTHER -> sd[q]]
  /\ UNCHANGED <<mirror, file, part, meta, extracted, clock>>

SaveWrite(p) ==
  /\ SdiAt(p, "saveWrite")
  /\ \E m \in {sd[p].meta} \cup (IF sd[p].shared THEN {TornFile} ELSE {}) :
       /\ metaTmp' = IF sd[p].handle = "part" THEN m ELSE metaTmp
       /\ meta' = IF sd[p].handle = "final" THEN m ELSE meta
  /\ sd' = [sd EXCEPT ![p].pc = "saveRename", ![p].handle = "none", ![p].shared = FALSE]
  /\ UNCHANGED <<mirror, file, part, extracted, clock>>

\* Variant: what could not be saved is put down even where it is no asset.
AfterSaveAny(p, ok) ==
  [sd[p] EXCEPT !.pc = sd[p].after, !.handle = "none", !.shared = FALSE,
                !.failed = IF ok THEN @ ELSE @ \cup {sd[p].asset},
                !.outcome = IF sd[p].after = "done" THEN "ok" ELSE "none"]

\* A failed save is fatal to `clean` and a warning to everybody else.
AfterSave(p, ok) ==
  [sd[p] EXCEPT !.pc = sd[p].after, !.handle = "none", !.shared = FALSE,
                !.failed = IF ok THEN @ ELSE @ \cup ({sd[p].asset} \ {None}),
                !.outcome = CASE sd[p].after # "done" -> "none"
                              [] sd[p].after = "done" /\ ~ok /\ sd[p].call.op = "clean" -> "error"
                              [] OTHER -> "ok"]

SaveRename(p) ==
  /\ SdiAt(p, "saveRename") /\ metaTmp # NoFile
  /\ meta' = metaTmp
  /\ metaTmp' = NoFile
  /\ sd' = Redirect(AfterSave(p, TRUE), p, WritesMeta, Renamed)
  /\ UNCHANGED <<mirror, file, part, extracted, clock>>

\* Only a failed rename takes the temporary file away.
SaveRenameFails(p) ==
  /\ SdiAt(p, "saveRename") /\ (metaTmp = NoFile \/ SdiFails("disk"))
  /\ metaTmp' = NoFile
  /\ sd' = Redirect(AfterSave(p, FALSE), p, WritesMeta, Deleted)
  /\ UNCHANGED <<mirror, file, part, meta, extracted, clock>>

SaveWriteFails(p) ==
  /\ sd[p].pc \in {"saveCreate", "saveWrite"} /\ SdiFails("disk")
  /\ sd' = [sd EXCEPT ![p] = AfterSave(p, FALSE)]
  /\ UNCHANGED <<mirror, diskVars, clock>>

-----------------------------------------------------------------------------
(* stream_to_file: a download into `.downloading`, its checks, the rename. *)

\* The version the manifest declares, and the one the mirror serves by now.
Declared(p, a) == IF a \in Pack THEN 1 ELSE sd[p].version
Served(a) == IF a \in Pack THEN 1 ELSE mirror

Downloads(p, a) == sd[p].pc = "receive" /\ sd[p].asset = a
SharesPart(p) == {q \in Proc \ {p} : Downloads(q, sd[p].asset) /\ sd[q].handle = "part"}

\* Variant: the asset is asked for again.
MissedRetried(p) ==
  [sd[p] EXCEPT !.pc = "get", !.failed = @ \cup {sd[p].asset}, !.handle = "none",
                !.shared = FALSE, !.got = Absent]

\* The asset is given up; the loop over the manifest goes on.
Missed(p) ==
  [sd[p] EXCEPT !.pc = "next", !.failed = @ \cup {sd[p].asset}, !.handle = "none",
                !.shared = FALSE, !.got = Absent]

\* The leftover of an earlier run is cleared, then the mirror is asked; what it
\* sends may be the wrong bytes (Torn).
Get(p) ==
  /\ SdiAt(p, "get")
  /\ part' = [part EXCEPT ![sd[p].asset] = Absent]
  /\ \E c \in {Served(sd[p].asset)} \cup (IF SdiFails("net") THEN {Torn} ELSE {}) :
       sd' = Redirect([sd[p] EXCEPT !.pc = "create", !.got = c], p,
                      LAMBDA q : Downloads(q, sd[p].asset), Deleted)
  /\ UNCHANGED <<mirror, file, meta, metaTmp, extracted, clock>>

\* No answer, an HTTP status that is no success, or too long a body.
GetFails(p) ==
  /\ SdiAt(p, "get") /\ SdiFails("net")
  /\ part' = [part EXCEPT ![sd[p].asset] = Absent]
  /\ sd' = Redirect(Missed(p), p, LAMBDA q : Downloads(q, sd[p].asset), Deleted)
  /\ UNCHANGED <<mirror, file, meta, metaTmp, extracted, clock>>

Create(p) ==
  /\ SdiAt(p, "create")
  /\ part' = [part EXCEPT ![sd[p].asset] = Torn]
  /\ sd' = [q \in Proc |->
       CASE q = p -> [sd[p] EXCEPT !.pc = "receive", !.handle = "part",
                                   !.shared = SharesPart(p) # {}]
         [] q \in SharesPart(p) -> [sd[q] EXCEPT !.shared = TRUE]
         [] OTHER -> sd[q]]
  /\ UNCHANGED <<mirror, file, meta, metaTmp, extracted, clock>>

CreateFails(p) ==
  /\ SdiAt(p, "create") /\ SdiFails("disk")
  /\ SdiQuietly(p, Missed(p))

\* Variant: the hash of what came is not compared.
ReceiveUnchecked(p) ==
  LET a == sd[p].asset IN
  /\ SdiAt(p, "receive")
  /\ part' = [part EXCEPT ![a] = sd[p].got]
  /\ sd' = [sd EXCEPT ![p].pc = "rename", ![p].handle = "none", ![p].shared = FALSE]
  /\ UNCHANGED <<mirror, file, meta, metaTmp, extracted, clock>>

\* The body has come, of the declared size and hash; it went where the handle
\* points, and a second writer may have spoiled it.
Receive(p) ==
  LET a == sd[p].asset IN
  /\ SdiAt(p, "receive") /\ sd[p].got = Declared(p, a)
  /\ \E c \in {sd[p].got} \cup (IF sd[p].shared THEN {Torn} ELSE {}) :
       /\ part' = IF sd[p].handle = "part" THEN [part EXCEPT ![a] = c] ELSE part
       /\ file' = IF sd[p].handle = "final" THEN [file EXCEPT ![a] = c] ELSE file
  /\ sd' = [sd EXCEPT ![p].pc = "rename", ![p].handle = "none", ![p].shared = FALSE]
  /\ UNCHANGED <<mirror, meta, metaTmp, extracted, clock>>

\* The body breaks off, cannot be written, or is not what was declared.
ReceiveFails(p) ==
  LET a == sd[p].asset IN
  /\ SdiAt(p, "receive")
  /\ sd[p].got # Declared(p, a) \/ SdiFails("net") \/ SdiFails("disk")
  /\ part' = [part EXCEPT ![a] = Absent]
  /\ sd' = Redirect(Missed(p), p, LAMBDA q : Downloads(q, a), Deleted)
  /\ UNCHANGED <<mirror, file, meta, metaTmp, extracted, clock>>

Rename(p) ==
  LET a == sd[p].asset IN
  /\ SdiAt(p, "rename") /\ part[a] # Absent
  /\ file' = [file EXCEPT ![a] = part[a]]
  /\ part' = [part EXCEPT ![a] = Absent]
  /\ sd' = Redirect([sd[p] EXCEPT !.pc = IF a \in Pack THEN "register" ELSE "next",
                                  !.got = Absent],
                    p, LAMBDA q : Downloads(q, a), Renamed)
  /\ UNCHANGED <<mirror, meta, metaTmp, extracted, clock>>

\* The one failure that leaves `.downloading` behind.
RenameFails(p) ==
  /\ SdiAt(p, "rename")
  /\ part[sd[p].asset] = Absent \/ SdiFails("disk")
  /\ SdiQuietly(p, Missed(p))

-----------------------------------------------------------------------------
(* refresh and prefetch.                                                   *)

RefreshAfter(p) == IF sd[p].call.op = "prefetch" THEN "reload" ELSE "done"

Manifest(p) ==
  /\ SdiAt(p, "manifest")
  /\ SdiQuietly(p, [sd[p] EXCEPT !.pc = "next", !.version = mirror, !.todo = Index,
                                 !.asset = None, !.failed = {}])

\* Without a manifest a refresh ends; a prefetch around it goes on.
ManifestFails(p) ==
  /\ SdiAt(p, "manifest") /\ SdiFails("net")
  /\ SdiQuietly(p, [sd[p] EXCEPT !.pc = RefreshAfter(p),
                                 !.outcome = IF RefreshAfter(p) = "done" THEN "error" ELSE "none"])

\* Variant: an index that is there already is not fetched again.
NextMissingIndex(p) ==
  /\ SdiAt(p, "next")
  /\ \E i \in sd[p].todo \cap Index :
       SdiQuietly(p, [sd[p] EXCEPT !.pc = IF file[i] = Absent THEN "get" ELSE "next",
                                   !.asset = i, !.todo = @ \ {i}])

NextIndex(p) ==
  /\ SdiAt(p, "next")
  /\ \E i \in sd[p].todo \cap Index :
       SdiQuietly(p, [sd[p] EXCEPT !.pc = "get", !.asset = i, !.todo = @ \ {i}])

\* record_refresh, whatever became of the indexes.
RecordRefresh(p) ==
  /\ SdiAt(p, "next") /\ sd[p].todo = {} /\ sd[p].asset \in Index
  /\ SdiQuietly(p, Saving(p, [sd[p] EXCEPT !.asset = None],
                          [sd[p].meta EXCEPT !.version = sd[p].version, !.refreshed = TRUE],
                          RefreshAfter(p)))

PackManifest(p) ==
  /\ SdiAt(p, "packManifest")
  /\ SdiQuietly(p, [sd[p] EXCEPT !.pc = "next", !.todo = Pack, !.asset = None, !.failed = {}])

PackManifestFails(p) ==
  /\ SdiAt(p, "packManifest") /\ SdiFails("net")
  /\ SdiEnd(p, "error")

HasPack(m, k) == k \in Listed(m) /\ OnDisk(k)

\* A pack that is cached is passed over; one too large is not asked for.
NextPack(p) ==
  /\ SdiAt(p, "next")
  /\ \E k \in sd[p].todo \cap Pack :
       LET rest == [sd[p] EXCEPT !.asset = k, !.todo = @ \ {k}] IN
       SdiQuietly(p,
         CASE HasPack(sd[p].meta, k) -> rest
           [] ~HasPack(sd[p].meta, k) /\ SizeOf[k] > sd[p].call.budget ->
                [rest EXCEPT !.failed = @ \cup {k}]
           [] OTHER -> [rest EXCEPT !.pc = "get"])

PrefetchEnd(p) ==
  /\ SdiAt(p, "next") /\ sd[p].todo = {} /\ sd[p].asset \in Pack
  /\ SdiEnd(p, "ok")

-----------------------------------------------------------------------------
(* register_pack, from prefetch and from the tier's first step.            *)

FileSize(k) == IF file[k] = Torn THEN SizeOf[k] - 1 ELSE SizeOf[k]

WithPack(m, k) == [m EXCEPT !.packs[k] = [size |-> FileSize(k), used |-> clock]]

Register(p) ==
  LET k == sd[p].asset IN
  /\ SdiAt(p, "register") /\ OnDisk(k)
  /\ clock' = clock + 1
  /\ sd' = [sd EXCEPT ![p] = Saving(p, sd[p], WithPack(sd[p].meta, k), "next")]
  /\ UNCHANGED <<mirror, diskVars>>

RegisterFails(p) ==
  /\ SdiAt(p, "register") /\ (~OnDisk(sd[p].asset) \/ SdiFails("disk"))
  /\ SdiQuietly(p, Missed(p))

\* Variant: the found packs are put down in the copy only.
AutoRegisterUnsaved(p) ==
  /\ SdiAt(p, "autoRegister")
  /\ \E k \in sd[p].todo :
       SdiQuietly(p, [sd[p] EXCEPT !.todo = @ \ {k}, !.meta = WithPack(sd[p].meta, k)])

\* auto_register_packs: one found pack after the other.
AutoRegister(p) ==
  /\ SdiAt(p, "autoRegister")
  /\ \E k \in sd[p].todo :
       /\ OnDisk(k)
       /\ sd' = [sd EXCEPT ![p] = Saving(p, [sd[p] EXCEPT !.asset = k, !.todo = @ \ {k}],
                                         WithPack(sd[p].meta, k), "autoRegister")]
  /\ clock' = clock + 1
  /\ UNCHANGED <<mirror, diskVars>>

AutoRegisterFails(p) ==
  /\ SdiAt(p, "autoRegister")
  /\ \E k \in sd[p].todo :
       /\ ~OnDisk(k) \/ SdiFails("disk")
       /\ SdiQuietly(p, [sd[p] EXCEPT !.todo = @ \ {k}, !.failed = @ \cup {k}])

AutoRegistered(p) ==
  /\ SdiAt(p, "autoRegister") /\ sd[p].todo = {}
  /\ SdiQuietly(p, [sd[p] EXCEPT !.pc = "pick", !.asset = None])

-----------------------------------------------------------------------------
(* prune.                                                                  *)

\* Variant: the youngest goes first.
Youngest(m) == {k \in Listed(m) : \A l \in Listed(m) : m.packs[k].used >= m.packs[l].used}

\* The oldest pack; of two with one timestamp either.
Oldest(m) == {k \in Listed(m) : \A l \in Listed(m) : m.packs[k].used <= m.packs[l].used}

Evict(p) ==
  /\ SdiAt(p, "evict") /\ sd[p].running > sd[p].call.budget
  /\ \E k \in Oldest(sd[p].meta) :
       LET left == sd[p].running - sd[p].meta.packs[k].size
           rest == [sd[p].meta EXCEPT !.packs[k] = None]
       IN /\ file' = [file EXCEPT ![k] = Absent]
          /\ sd' = [sd EXCEPT ![p] =
               IF left <= sd[p].call.budget \/ Listed(rest) = {}
               THEN Saving(p, [sd[p] EXCEPT !.running = left], rest, "done")
               ELSE [sd[p] EXCEPT !.running = left, !.meta = rest]]
  /\ UNCHANGED <<mirror, part, meta, metaTmp, extracted, clock>>

\* The file is in use: prune returns, and saves nothing of what it did.
EvictFails(p) ==
  /\ SdiAt(p, "evict") /\ SdiFails("disk")
  /\ \E k \in Oldest(sd[p].meta) : OnDisk(k)
  /\ SdiEnd(p, "error")

-----------------------------------------------------------------------------
(* The SDI tier of `add`: candidates, extraction, hand-over to the gate.   *)

\* A driver directory of a pack: its INF and the files the INF needs.
Entry == {"inf", "rest"}

\* The packs of the indexes that can be parsed, as far as they are cached.
Cached(m) == {k \in {PackOf[i] : i \in {j \in Index : file[j] \notin {Absent, Torn}}} : HasPack(m, k)}

\* An extraction whose INF is there is taken for a whole one.
PickCached(p) ==
  /\ SdiAt(p, "pick")
  /\ \E k \in Cached(sd[p].meta) :
       SdiQuietly(p, IF "inf" \in extracted[k]
                     THEN [sd[p] EXCEPT !.pc = "done", !.asset = k, !.outcome = "staged"]
                     ELSE [sd[p] EXCEPT !.pc = "extract", !.asset = k])

PickNothing(p) ==
  /\ SdiAt(p, "pick") /\ Cached(sd[p].meta) = {}
  /\ SdiEnd(p, "ok")

\* The entries come in the order of the archive; each is written over.
ExtractEntry(p) ==
  LET k == sd[p].asset IN
  /\ SdiAt(p, "extract") /\ OnDisk(k)
  /\ \E e \in Entry \ extracted[k] : extracted' = [extracted EXCEPT ![k] = @ \cup {e}]
  /\ UNCHANGED <<mirror, file, part, meta, metaTmp, clock, sd>>

\* Variant: the extraction stops at the INF it looks for.
ExtractToInf(p) ==
  LET k == sd[p].asset IN
  /\ SdiAt(p, "extract") /\ "inf" \in extracted[k]
  /\ SdiEnd(p, "staged")

Extracted(p) ==
  LET k == sd[p].asset IN
  /\ SdiAt(p, "extract") /\ extracted[k] = Entry /\ file[k] # Torn
  /\ SdiEnd(p, "staged")

\* The pack is gone, damaged, or cannot be unpacked; what was written stays.
ExtractFails(p) ==
  /\ SdiAt(p, "extract")
  /\ file[sd[p].asset] \in {Absent, Torn} \/ SdiFails("disk")
  /\ SdiEnd(p, "error")

-----------------------------------------------------------------------------
(* Specification.                                                          *)

\* The mirror publishes new indexes; a technician copies a pack into the cache.
Publish ==
  /\ mirror < MaxVersion
  /\ mirror' = mirror + 1
  /\ UNCHANGED <<diskVars, clock, sd>>

PlacePack ==
  /\ \E k \in Pack : ~OnDisk(k) /\ file' = [file EXCEPT ![k] = 1]
  /\ sd' = [q \in Proc |-> IF Busy(q) THEN [sd[q] EXCEPT !.met = @ \cup {"place"}] ELSE sd[q]]
  /\ UNCHANGED <<mirror, part, meta, metaTmp, extracted, clock>>

KillSdi(p) ==
  /\ Busy(p)
  /\ SdiQuietly(p, [sd[p] EXCEPT !.pc = "killed", !.handle = "none"])

SdiStep(p) ==
  \/ LoadRefresh(p) \/ LoadPrefetch(p) \/ LoadNested(p) \/ Reload(p)
  \/ LoadClean(p) \/ LoadTier(p)
  \/ SaveCreate(p) \/ SaveWrite(p) \/ SaveRename(p) \/ SaveRenameFails(p) \/ SaveWriteFails(p)
  \/ Get(p) \/ GetFails(p) \/ Create(p) \/ CreateFails(p)
  \/ Receive(p) \/ ReceiveFails(p) \/ Rename(p) \/ RenameFails(p)
  \/ Manifest(p) \/ ManifestFails(p) \/ NextIndex(p) \/ RecordRefresh(p)
  \/ PackManifest(p) \/ PackManifestFails(p) \/ NextPack(p) \/ PrefetchEnd(p)
  \/ Register(p) \/ RegisterFails(p)
  \/ AutoRegister(p) \/ AutoRegisterFails(p) \/ AutoRegistered(p)
  \/ Evict(p) \/ EvictFails(p)
  \/ PickCached(p) \/ PickNothing(p) \/ ExtractEntry(p) \/ Extracted(p) \/ ExtractFails(p)

SdiNext == (\E p \in Proc : StartSdi(p) \/ SdiStep(p) \/ KillSdi(p)) \/ Publish \/ PlacePack

SdiInit ==
  /\ mirror = 1
  /\ part = [a \in Asset |-> Absent]
  /\ metaTmp = NoFile
  /\ extracted = [k \in Pack |-> {}]
  /\ sd = [p \in Proc |-> IdleSdi]

\* Any cache that commands have left whole; the runs begin with some of these.
SdiStart ==
  /\ meta \in Metadata \cup {NoFile}
  /\ file \in [Asset -> Content \ {Torn}]
  /\ clock \in Stamp
  /\ SdiInit

SdiSpec == SdiStart /\ [][SdiNext]_sdiVars

\* A started command is carried out; nothing makes anybody start one.
SdiFairness == \A p \in Proc : WF_sdiVars(SdiStep(p))

-----------------------------------------------------------------------------
(* Properties.                                                             *)

\* Types, of the frames and of the disk (src/src/drivers/sdi/cache.rs:62-100).
SdiTypeOK ==
  /\ mirror \in 1..MaxVersion
  /\ file \in [Asset -> Content] /\ part \in [Asset -> Content]
  /\ meta \in Metadata \cup {NoFile, TornFile} /\ metaTmp \in Metadata \cup {NoFile, TornFile}
  /\ extracted \in [Pack -> SUBSET Entry]
  /\ clock \in Stamp
  /\ sd \in [Proc -> SdiFrame]

Alone(p) == sd[p].met = {}

\* Two invocations that may do what `ops` do were at work at a time.
Raced(ops) ==
  \E p \in Proc : sd[p].call # None /\ sd[p].call.op \in ops /\ sd[p].met \cap ops # {}

\* As long as no two downloads overlap, a file under a final name is whole,
\* whatever broke off, failed or was killed (src/src/drivers/sdi/fetcher.rs:274-277).
WholeFiles == Raced({"refresh", "prefetch"}) \/ \A a \in Asset : file[a] # Torn

\* As long as no two invocations overlap, no crash and no failure leaves a
\* metadata.json that cannot be parsed (src/src/drivers/sdi/cache.rs:11-14).
MetaReadable == Raced(SdiOp) \/ meta # TornFile

\* What a clean is about to save is, by what metadata.json records, the least
\* that has to go: the evicted packs are no younger than the kept ones, the sizes
\* of these fit the budget, and did not fit before the last eviction
\* (src/src/drivers/sdi/cache.rs:263-302).  Both are the record's, not the disk's:
\* a pack whose file is lost counts with its recorded size (cache.rs:259-262 have
\* it count 0), and its age is that of its registration, which no read renews
\* (cache.rs:95 and 191-193 have every read do so).
EvictsByRecord ==
  \A p \in Proc :
    (SdiAt(p, "saveCreate") /\ sd[p].call.op = "clean" /\ Alone(p)) =>
      LET kept == sd[p].meta
          gone == Listed(meta) \ Listed(kept)
          total == Total(kept)
      IN /\ \A k \in gone : file[k] = Absent
         /\ \A k \in gone, l \in Listed(kept) : meta.packs[k].used <= kept.packs[l].used
         /\ total <= sd[p].call.budget
         /\ \E k \in gone : total + meta.packs[k].size > sd[p].call.budget

\* Whatever was raced, lost or killed before: a tier that starts alone and meets
\* no failure has every pack on disk in the metadata, its own copy and the file
\* (src/src/drivers/sdi/cache.rs:389-436).
NothingForgotten ==
  \A p \in Proc :
    (SdiAt(p, "pick") /\ Alone(p) /\ sd[p].failed = {}) =>
      Unregistered(sd[p].meta) = {} /\ Unregistered(meta) = {}

\* A refresh that missed no index leaves each at the version of its manifest,
\* though the mirror may publish in between (src/src/commands/sdi.rs:81-143).
RefreshDelivers ==
  [][\A p \in Proc :
       (SdiAt(p, "next") /\ sd'[p].pc = "saveCreate" /\ Alone(p) /\ sd[p].failed = {}
          /\ sd'[p].after # "next")
         => \A i \in Index : file[i] = sd[p].version]_sdiVars

\* What is handed to the gate is a whole driver directory, unless an extraction
\* broke off before or somebody interfered (src/src/commands/add.rs:802-876).
StagedIsWhole ==
  \A p \in Proc :
    sd[p].outcome = "staged" =>
      \/ extracted[sd[p].asset] = Entry
      \/ Raced({"tier"})
      \/ \E q \in Proc : sd[q].pc = "killed" \/ sd[q].outcome = "error"

\* Every command ends, by itself or by a kill (src/src/commands/sdi.rs:81-264).
SdiTerminates == \A p \in Proc : Busy(p) ~> ~Busy(p)

=============================================================================
