------------------------------ MODULE Staging ------------------------------
(***************************************************************************)
(* Driver packs on disk: the folders a user points at and the directories  *)
(* below paths::staging_dir() that src/src/drivers/downloader.rs unpacks   *)
(* downloads into.  What a later step does depends on two things only, the *)
(* INFs and the catalogs a directory holds, whichever pack they came with. *)
(***************************************************************************)
EXTENDS Authenticode

CONSTANTS
  Dir,         \* directories that hold packs
  StagingDir,  \* those below the staging directory
  DirOf,       \* sanitize_name: the directory of a manifest driver
  Base,        \* packs with the same base name their files alike
  NoInf,       \* packs without an INF
  SevenZ,      \* packs that only the 7z reader unpacks
  Installer    \* packs that come as an .exe

Part == {"inf", "cat"}
File == [pack: Package, part: Part]

ASSUME DirAssumption ==
  /\ StagingDir \subseteq Dir
  /\ DirOf \in [Driver -> StagingDir]
  /\ DOMAIN Base = Package
  /\ NoInf \cup SevenZ \cup Installer \subseteq Package

VARIABLE files  \* what each directory holds

\* What a pack unpacks to.
FilesOf(k) ==
  {[pack |-> k, part |-> x] :
     x \in {y \in Part : IF y = "inf" THEN k \notin NoInf ELSE Cats[k] # {}}}

\* find_inf_files: the INFs below a directory, each the mark of its pack.
Infs(fs) == {f.pack : f \in {g \in fs : g.part = "inf"}}

\* find_cat_files and the status of each.
CatStatuses(fs) == UNION {Cats[f.pack] : f \in {g \in fs : g.part = "cat"}}

\* File::create truncates a file of the same name.
Put(fs, f) == {g \in fs : g.part # f.part \/ Base[g.pack] # Base[f.pack]} \cup {f}

\* The names the INFs of some packs register (parse_inf, the [Models] section).
Named(ks) == {d \in Driver : PackageOf[d] \in ks}

\* pnputil /add-driver <dir>\*.inf: all INFs, or some of them and an exit code
\* that counts as success if the output says of one that it exists already.
PnputilAll(ks, success) ==
  /\ \E done \in SUBSET ks :
       /\ done # ks => CanFail("change")
       /\ success => done = ks \/ packages \cap ks # {}
       /\ ~success => done # ks \/ ks = {}
       /\ packages' = packages \cup done
  /\ UNCHANGED <<queues, registered, ports, held>>

=============================================================================
