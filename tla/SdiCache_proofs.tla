--------------------------- MODULE SdiCache_proofs ---------------------------
(***************************************************************************)
(* Theorems about the SDI cache, for any number of invocations, packs and  *)
(* indexes, any sizes, limits, command lines and failures, and any cache   *)
(* that earlier commands left whole.  Liveness stays with the runs.        *)
(***************************************************************************)
EXTENDS SdiCache, FiniteSetTheorems, TLAPS

-----------------------------------------------------------------------------
(* The total of a cache.  MapThenSumSet is a fold that chooses its next    *)
(* element: that the packs may be taken out in any order is shown from the *)
(* well-foundedness of the subsets of a finite set.                        *)

\* A set of subsets of a finite set has a smallest one.
LEMMA SmallestSet ==
  ASSUME NEW S, IsFiniteSet(S), NEW T, T \subseteq SUBSET S, T # {}
  PROVE  \E x \in T : \A y \in T : y \subseteq x => y = x
<1>1. IsWellFoundedOn(StrictSubsetOrdering(S), SUBSET S)
  BY FS_StrictSubsetOrderingWellFounded, FS_FiniteSubsetsOfFinite
<1>2. PICK x \in T : \A y \in T : <<y, x>> \notin StrictSubsetOrdering(S)
  BY <1>1, WFMin
<1>3. ASSUME NEW y \in T, y \subseteq x, y # x PROVE FALSE
  <2>1. <<y, x>> \in (SUBSET S) \X (SUBSET S)
    OBVIOUS
  <2>2. <<y, x>>[1] \subseteq <<y, x>>[2] /\ <<y, x>>[1] # <<y, x>>[2]
    BY <1>3
  <2>3. <<y, x>> \in StrictSubsetOrdering(S)
    BY <2>1, <2>2 DEF StrictSubsetOrdering
  <2> QED BY <1>2, <2>3
<1> QED BY <1>2, <1>3

\* How the fold over a set adds up the weights w of its elements: the element it
\* chooses first, then the others.
First(s) == CHOOSE x \in s : TRUE
SumsUp(g, w, S) ==
  g = [s \in SUBSET S |-> IF s = {} THEN 0 ELSE w[First(s)] + g[s \ {First(s)}]]

\* The sum of the weights w over S.
Sum(w, S) == (CHOOSE g : SumsUp(g, w, S))[S]

\* The element chosen first is one of the set.
LEMMA FirstIn == \A s : s # {} => First(s) \in s
  BY DEF First

\* Two ways to add up agree on the sets they share.
LEMMA SumsAgree ==
  ASSUME NEW S, IsFiniteSet(S), NEW V, V \subseteq S, NEW w, NEW v, NEW g, NEW h,
         SumsUp(g, w, S), SumsUp(h, v, V), \A x \in V : w[x] = v[x]
  PROVE  \A s \in SUBSET V : g[s] = h[s]
<1> DEFINE Bad == {s \in SUBSET V : g[s] # h[s]}
<1> SUFFICES ASSUME Bad # {} PROVE FALSE
  OBVIOUS
<1>1. IsFiniteSet(V)
  BY FS_Subset
<1>2. PICK s \in Bad : \A y \in Bad : y \subseteq s => y = s
  <2>1. Bad \subseteq SUBSET V
    OBVIOUS
  <2> HIDE DEF Bad
  <2> QED BY <1>1, <2>1, SmallestSet
<1>3. \A r \in SUBSET V : /\ g[r] = IF r = {} THEN 0 ELSE w[First(r)] + g[r \ {First(r)}]
                          /\ h[r] = IF r = {} THEN 0 ELSE v[First(r)] + h[r \ {First(r)}]
  BY DEF SumsUp
<1>4. s # {}
  BY <1>3
<1>5. First(s) \in s /\ w[First(s)] = v[First(s)]
  BY <1>4, FirstIn
<1>6. s \ {First(s)} \notin Bad /\ s \ {First(s)} \in SUBSET V
  BY <1>2, <1>5
<1> QED BY <1>3, <1>4, <1>5, <1>6

\* There is a way to add up any finite set.
LEMMA SumExists ==
  ASSUME NEW S, IsFiniteSet(S), NEW w
  PROVE  \E g : SumsUp(g, w, S)
<1> DEFINE Bad == {U \in SUBSET S : ~\E g : SumsUp(g, w, U)}
<1> SUFFICES ASSUME Bad # {} PROVE FALSE
  OBVIOUS
<1>1. PICK U \in Bad : \A y \in Bad : y \subseteq U => y = U
  <2>1. Bad \subseteq SUBSET S
    OBVIOUS
  <2> HIDE DEF Bad
  <2> QED BY <2>1, SmallestSet
<1> DEFINE G(t) == CHOOSE g : SumsUp(g, w, t)
           h == [s \in SUBSET U |-> IF s = {} THEN 0
                                    ELSE w[First(s)] + G(s \ {First(s)})[s \ {First(s)}]]
<1>2. ASSUME NEW t \in SUBSET U, t # U PROVE SumsUp(G(t), w, t) /\ IsFiniteSet(t)
  <2>1. \E g : SumsUp(g, w, t)
    BY <1>1, <1>2
  <2> QED BY <2>1, FS_Subset
<1>3. ASSUME NEW t \in SUBSET U, t # U PROVE h[t] = G(t)[t]
  <2>1. SumsUp(G(t), w, t) /\ IsFiniteSet(t)
    BY <1>2, <1>3
  <2>2. G(t)[t] = IF t = {} THEN 0 ELSE w[First(t)] + G(t)[t \ {First(t)}]
    BY <2>1 DEF SumsUp
  <2>3. ASSUME t # {} PROVE G(t)[t \ {First(t)}] = G(t \ {First(t)})[t \ {First(t)}]
    <3>1. First(t) \in t
      BY <2>3, FirstIn
    <3>2. t \ {First(t)} \in SUBSET U /\ t \ {First(t)} # U
      BY <3>1
    <3>3. SumsUp(G(t \ {First(t)}), w, t \ {First(t)})
      BY <1>2, <3>2
    <3> HIDE DEF G
    <3> QED BY <2>1, <3>3, SumsAgree
  <2> HIDE DEF G
  <2> QED BY <2>2, <2>3
<1>4. ASSUME NEW s \in SUBSET U, s # {} PROVE h[s] = w[First(s)] + h[s \ {First(s)}]
  <2>1. First(s) \in s
    BY <1>4, FirstIn
  <2>2. s \ {First(s)} \in SUBSET U /\ s \ {First(s)} # U
    BY <2>1
  <2>3. h[s \ {First(s)}] = G(s \ {First(s)})[s \ {First(s)}]
    BY <1>3, <2>2
  <2> HIDE DEF G
  <2> QED BY <1>4, <2>3
<1>5. h[{}] = 0 /\ h = [s \in SUBSET U |-> h[s]]
  OBVIOUS
<1> HIDE DEF h
<1>6. SumsUp(h, w, U)
  <2>1. \A s \in SUBSET U : h[s] = IF s = {} THEN 0 ELSE w[First(s)] + h[s \ {First(s)}]
    BY <1>4, <1>5
  <2> QED BY <1>5, <2>1 DEF SumsUp
<1> QED BY <1>1, <1>6

\* The sum of natural weights is a natural number, whichever element is taken
\* first.
LEMMA SumTakes ==
  ASSUME NEW S, IsFiniteSet(S), NEW w \in [S -> Nat], NEW g, SumsUp(g, w, S)
  PROVE  \A s \in SUBSET S : g[s] \in Nat /\ \A k \in s : g[s] = w[k] + g[s \ {k}]
<1> DEFINE Fine(s) == g[s] \in Nat /\ \A k \in s : g[s] = w[k] + g[s \ {k}]
           Bad == {s \in SUBSET S : ~Fine(s)}
<1> SUFFICES ASSUME Bad # {} PROVE FALSE
  OBVIOUS
<1>1. PICK s \in Bad : \A y \in Bad : y \subseteq s => y = s
  <2>1. Bad \subseteq SUBSET S
    OBVIOUS
  <2> HIDE DEF Bad
  <2> QED BY <2>1, SmallestSet
<1>2. \A r \in SUBSET S : g[r] = IF r = {} THEN 0 ELSE w[First(r)] + g[r \ {First(r)}]
  BY DEF SumsUp
<1>3. s # {}
  <2>1. g[{}] = 0
    BY <1>2
  <2>2. Fine({})
    BY <2>1
  <2> QED BY <1>1, <2>2
<1>4. ASSUME NEW r \in SUBSET s, r # s PROVE Fine(r)
  BY <1>1, <1>4
<1> DEFINE c == First(s)
<1>5. c \in s /\ g[s] = w[c] + g[s \ {c}] /\ s \in SUBSET S
  BY <1>1, <1>2, <1>3, FirstIn
<1>6. g[s \ {c}] \in Nat /\ w[c] \in Nat
  BY <1>4, <1>5
<1>7. ASSUME NEW k \in s, k # c PROVE g[s] = w[k] + g[s \ {k}]
  <2>1. g[s \ {c}] = w[k] + g[(s \ {c}) \ {k}]
    BY <1>4, <1>5, <1>7
  <2>2. g[s \ {k}] = w[c] + g[(s \ {k}) \ {c}]
    BY <1>4, <1>5, <1>7
  <2>3. (s \ {k}) \ {c} = (s \ {c}) \ {k}
    OBVIOUS
  <2>4. g[(s \ {c}) \ {k}] \in Nat /\ w[k] \in Nat
    <3>1. Fine((s \ {c}) \ {k})
      BY <1>4, <1>5
    <3> QED BY <1>1, <1>7, <3>1
  <2> HIDE DEF c
  <2> QED BY <1>5, <1>6, <2>1, <2>2, <2>3, <2>4
<1>8. Fine(s)
  <2>1. g[s] \in Nat
    BY <1>5, <1>6
  <2>2. ASSUME NEW k \in s PROVE g[s] = w[k] + g[s \ {k}]
    BY <1>5, <1>7
  <2> QED BY <2>1, <2>2
<1> QED BY <1>1, <1>8

\* The sizes of the packs that the metadata m lists.
Sizes(m) == [k \in Listed(m) |-> m.packs[k].size]

\* The sum that the cache's limit is compared with is one of these.
LEMMA TotalIsSum ==
  ASSUME NEW m
  PROVE  Total(m) = Sum(Sizes(m), Listed(m))
<1> DEFINE S == Listed(m)
           w == Sizes(m)
<1>1. ASSUME NEW g
      PROVE  SumsUp(g, w, S) <=>
             g = [s \in SUBSET S |-> IF s = {} THEN 0
                   ELSE m.packs[CHOOSE x \in s : TRUE].size + g[s \ {CHOOSE x \in s : TRUE}]]
  <2>1. \A s \in SUBSET S : s # {} => w[First(s)] = m.packs[CHOOSE x \in s : TRUE].size
    <3>1. \A s \in SUBSET S : s # {} => First(s) \in S
      BY FirstIn
    <3> QED BY <3>1 DEF Sizes, First
  <2>2. \A s \in SUBSET S :
          (IF s = {} THEN 0 ELSE w[First(s)] + g[s \ {First(s)}])
            = (IF s = {} THEN 0
               ELSE m.packs[CHOOSE x \in s : TRUE].size + g[s \ {CHOOSE x \in s : TRUE}])
    BY <2>1 DEF First
  <2> HIDE DEF S, w
  <2> QED BY <2>2, Zenon DEF SumsUp
<1> HIDE DEF S, w
<1>2. (CHOOSE g : SumsUp(g, w, S)) =
      (CHOOSE g : g = [s \in SUBSET S |-> IF s = {} THEN 0
           ELSE m.packs[CHOOSE x \in s : TRUE].size + g[s \ {CHOOSE x \in s : TRUE}]])
  BY <1>1, Zenon
<1> QED BY <1>2, Zenon DEF Total, MapThenSumSet, MapThenFoldSet, Sum, S, w

\* The total is a natural number, and a pack adds its own size to it.
LEMMA TotalTakes ==
  ASSUME NEW m \in Metadata
  PROVE  /\ Total(m) \in Nat
         /\ Listed(m) = {} => Total(m) = 0
         /\ \A k \in Listed(m) :
              Total(m) = m.packs[k].size + Total([m EXCEPT !.packs[k] = None])
<1> DEFINE S == Listed(m)
           w == Sizes(m)
<1>1. IsFiniteSet(S)
  BY FS_Subset, SdiAssumption DEF Listed
<1>2. w \in [S -> Nat]
  BY DEF Sizes, Listed, Metadata, PackMeta
<1>3. PICK g : SumsUp(g, w, S) /\ Total(m) = g[S]
  <2>1. \E g : SumsUp(g, w, S)
    BY <1>1, SumExists
  <2> HIDE DEF S, w
  <2>2. SumsUp(CHOOSE g : SumsUp(g, w, S), w, S)
    BY <2>1
  <2> QED BY <2>2, TotalIsSum DEF Sum, S, w
<1>4. g[{}] = 0
  BY <1>3 DEF SumsUp
<1>5. g[S] \in Nat /\ \A k \in S : g[S] = w[k] + g[S \ {k}]
  <2> HIDE DEF S, w
  <2>1. \A s \in SUBSET S : g[s] \in Nat /\ \A k \in s : g[s] = w[k] + g[s \ {k}]
    BY <1>1, <1>2, <1>3, SumTakes
  <2> QED BY <2>1
<1>6. ASSUME NEW k \in S
      PROVE  Total(m) = m.packs[k].size + Total([m EXCEPT !.packs[k] = None])
  <2> DEFINE r == [m EXCEPT !.packs[k] = None]
             V == Listed(r)
             v == Sizes(r)
  <2>1. r.packs = [m.packs EXCEPT ![k] = None] /\ m.packs \in [Pack -> {None} \cup PackMeta]
    BY DEF Metadata
  <2> HIDE DEF r
  <2>2. V = S \ {k} /\ \A x \in V : w[x] = v[x]
    <3>1. \A x \in Pack : r.packs[x] = IF x = k THEN None ELSE m.packs[x]
      BY <2>1
    <3> QED BY <3>1 DEF Listed, Sizes
  <2>3. PICK h : SumsUp(h, v, V) /\ Total(r) = h[V]
    <3>1. IsFiniteSet(V)
      BY FS_Subset, SdiAssumption DEF Listed
    <3>2. \E h : SumsUp(h, v, V)
      BY <3>1, SumExists
    <3> HIDE DEF V, v
    <3>3. SumsUp(CHOOSE h : SumsUp(h, v, V), v, V)
      BY <3>2
    <3> QED BY <3>3, TotalIsSum DEF Sum, V, v
  <2>4. g[V] = h[V]
    <3>1. V \subseteq S
      BY <2>2
    <3> HIDE DEF V, v, S, w
    <3>2. \A s \in SUBSET V : g[s] = h[s]
      BY <1>1, <1>3, <2>2, <2>3, <3>1, SumsAgree
    <3> QED BY <3>2
  <2>5. w[k] = m.packs[k].size
    BY <1>6 DEF Sizes
  <2> QED BY <1>3, <1>5, <2>2, <2>3, <2>4, <2>5 DEF r
<1> QED BY <1>3, <1>4, <1>5, <1>6

-----------------------------------------------------------------------------
(* The frames, and the invariants.                                         *)

\* Where an invocation downloads, and where it saves.
Fetching == {"get", "create", "receive", "rename"}
SavePc == {"saveCreate", "saveWrite", "saveRename"}

\* A frame that commands come to: which command is where, and with what in hand.
Sound(s) ==
  LET saves(after) == s.pc \in SavePc /\ s.after = after IN
  /\ s \in SdiFrame
  /\ s.pc = "idle" => s.call = None /\ s.met = {}
  /\ s.pc # "idle" => s.call \in SdiCalls
  /\ s.pc \notin {"done", "killed"} => s.outcome = "none"
  /\ s.outcome = "staged" => s.asset \in Pack
  /\ s.pc \in Fetching \cup {"nested", "reload", "manifest", "packManifest", "next", "register"} =>
       s.call.op \in {"refresh", "prefetch"}
  /\ s.pc \in {"autoRegister", "pick", "extract"} => s.call.op = "tier"
  /\ s.pc \in Fetching => s.asset \in Asset
  /\ s.pc \in {"register", "extract"} => s.asset \in Pack
  /\ s.pc = "next" => s.asset \in Asset \/ s.todo \in {Index, Pack}
  /\ s.pc \in Fetching \cup {"next", "register"} =>
       (s.asset \in Pack => s.todo \subseteq Pack) /\ (s.asset \in Index => s.todo \subseteq Index)
  /\ s.pc = "autoRegister" => s.todo \subseteq Pack
  /\ s.pc = "evict" =>
       s.call.op = "clean" /\ s.running = Total(s.meta) /\ s.running > s.call.budget
  /\ s.pc \in SavePc => s.after \in {"done", "reload", "next", "autoRegister"}
  /\ saves("done") => s.call.op \in {"refresh", "clean"}
  /\ saves("reload") => s.call.op = "prefetch"
  /\ saves("next") =>
       s.call.op \in {"refresh", "prefetch"} /\ s.asset \in Pack /\ s.todo \subseteq Pack
  /\ saves("autoRegister") => s.call.op = "tier" /\ s.asset \in Pack /\ s.todo \subseteq Pack

\* Whoever is at work has met everybody else who is.
Acquainted ==
  \A p, q \in Proc : p # q /\ Busy(p) /\ Busy(q) => sd[q].call.op \in sd[p].met

\* Without a race, metadata.json can be parsed, and so can a temporary file that is
\* about to be renamed to it.
MetaIInv ==
  \/ Raced(SdiOp)
  \/ /\ meta # TornFile
     /\ \A p \in Proc :
          /\ SdiAt(p, "saveWrite") => sd[p].handle = "part" /\ ~sd[p].shared
          /\ SdiAt(p, "saveRename") => metaTmp # TornFile

\* Without a race of downloads, every file is whole, and so is what is about to be
\* renamed to one.
FilesIInv ==
  \/ Raced({"refresh", "prefetch"})
  \/ /\ \A a \in Asset : file[a] # Torn
     /\ \A p \in Proc :
          /\ SdiAt(p, "receive") => sd[p].handle = "part" /\ ~sd[p].shared
          /\ SdiAt(p, "rename") => part[sd[p].asset] # Torn

\* Something broke off, in the way or in between.
Excused == \E p \in Proc : sd[p].pc = "killed" \/ sd[p].outcome = "error"

\* Without these or a race, an INF is only alone in its directory while somebody is
\* extracting the rest.
StagedIInv ==
  \/ Raced({"tier"}) \/ Excused
  \/ /\ \A p \in Proc : sd[p].outcome = "staged" => extracted[sd[p].asset] = Entry
     /\ \A k \in Pack : "inf" \in extracted[k] =>
          extracted[k] = Entry \/ \E p \in Proc : sd[p].pc = "extract" /\ sd[p].asset = k

\* The packs with a file in f that the metadata m do not list.
Unlisted(f, m) == {k \in Pack : f[k] # Absent} \ Listed(m)

\* Before each of its steps, a tier that runs alone knows, has yet to register, or
\* has given up, every pack on disk; what it knows is what it saves.
Remembers(p) ==
  LET s == sd[p] IN
  s.call.op = "tier" =>
    /\ s.pc = "autoRegister" =>
         Unlisted(file, s.meta) \subseteq s.todo /\ Unlisted(file, meta) \subseteq s.todo
    /\ s.pc \in SavePc => Unlisted(file, s.meta) \subseteq s.todo
    /\ s.pc = "saveWrite" => s.handle = "part" /\ ~s.shared
    /\ s.pc = "saveRename" => metaTmp \in {s.meta, NoFile}
    /\ s.pc = "pick" => Unlisted(file, s.meta) = {} /\ Unlisted(file, meta) = {}

\* Every tier that runs alone and met no failure remembers.
ForgetIInv == \A p \in Proc : Busy(p) /\ Alone(p) /\ sd[p].failed = {} => Remembers(p)

\* A download that runs alone has brought every index it is past to the version of
\* its manifest.
Delivers(p) ==
  LET s == sd[p]
      brought(left) == \A i \in Index \ left : file[i] = s.version
  IN s.call.op \in {"refresh", "prefetch"} =>
       /\ s.pc = "next" /\ (s.asset \in Index \/ s.todo \cap Index # {}) => brought(s.todo)
       /\ s.pc \in Fetching /\ s.asset \in Index => brought(s.todo \cup {s.asset})
       /\ s.pc = "receive" => s.handle = "part" /\ ~s.shared
       /\ s.pc = "rename" /\ s.asset \in Index => part[s.asset] \in {Absent, s.version}

\* Every download that runs alone and met no failure delivers.
DeliverIInv == \A p \in Proc : Busy(p) /\ Alone(p) /\ sd[p].failed = {} => Delivers(p)

\* A clean that runs alone has taken the oldest packs away from those in the metadata
\* file, has their files deleted, and stopped no later than it had to.
Evicts(p) ==
  LET kept == sd[p].meta
      gone == Listed(meta) \ Listed(kept)
  IN sd[p].pc \in {"evict", "saveCreate"} /\ sd[p].call.op = "clean" =>
       /\ meta \in Metadata
       /\ \A k \in Listed(kept) : k \in Listed(meta) /\ kept.packs[k] = meta.packs[k]
       /\ \A k \in gone : file[k] = Absent
       /\ \A k \in gone, l \in Listed(kept) : meta.packs[k].used <= kept.packs[l].used
       /\ SdiAt(p, "saveCreate") =>
            /\ Total(kept) <= sd[p].call.budget
            /\ \E k \in gone : Total(kept) + meta.packs[k].size > sd[p].call.budget

\* Every clean that runs alone evicts in order.
EvictIInv == \A p \in Proc : Busy(p) /\ Alone(p) => Evicts(p)

\* What a step of its own makes of a frame s.
Follows(s, u) ==
  /\ s.pc \notin {"idle", "done", "killed"}
  /\ Sound(u) /\ u.call = s.call /\ u.met = s.met
  /\ s.pc \notin SavePc => u.pc \notin {"saveWrite", "saveRename"}
  /\ s.pc \notin Fetching => u.pc \notin {"receive", "rename"}
  /\ s.pc \notin {"pick", "extract"} => u.outcome # "staged" /\ u.pc # "extract"

\* What a step of another invocation, whose frame was r, makes of it.
Touched(s, t, r) ==
  \/ t = s
  \/ /\ t = [s EXCEPT !.handle = t.handle, !.shared = t.shared]
     /\ t.handle \in Handle /\ t.shared \in BOOLEAN
     /\ \/ s.pc = "receive" /\ r.pc \in Fetching /\ s.asset = r.asset
        \/ s.pc = "saveWrite" /\ r.pc \in SavePc

\* What a step of p changes.
Effects(p) ==
  /\ Follows(sd[p], sd'[p])
  /\ \A q \in Proc \ {p} : Touched(sd[q], sd'[q], sd[p])
  /\ sd[p].pc \notin SavePc => UNCHANGED <<meta, metaTmp>>
  /\ sd[p].pc \notin Fetching => UNCHANGED part
  /\ sd[p].pc \notin Fetching \cup {"evict"} => UNCHANGED file
  /\ sd[p].pc # "extract" => UNCHANGED extracted

\* Types, and frames that commands come to.
Sane == SdiTypeOK /\ \A p \in Proc : Sound(sd[p])

\* What Sane says of one frame.
LEMMA SaneFrames == ASSUME Sane, NEW p \in Proc PROVE Sound(sd[p]) /\ sd[p] \in SdiFrame
  BY DEF Sane, Sound

-----------------------------------------------------------------------------
(* Every step keeps types and frames, and changes no more than Effects.    *)

\* A step that leaves the disk and the other frames alone.
LEMMA Quiet ==
  ASSUME Sane, NEW p \in Proc, NEW u, Follows(sd[p], u),
         sd' = [sd EXCEPT ![p] = u], UNCHANGED <<mirror, diskVars>>, clock' \in Stamp
  PROVE  Sane' /\ Effects(p)
<1>1. sd \in [Proc -> SdiFrame] /\ u \in SdiFrame
  BY DEF Sane, SdiTypeOK, Sound, Follows
<1>2. UNCHANGED <<mirror, file, part, meta, metaTmp, extracted>>
  BY DEF diskVars
<1>3. sd' \in [Proc -> SdiFrame] /\ sd'[p] = u /\ \A q \in Proc \ {p} : sd'[q] = sd[q]
  BY <1>1
<1>4. SdiTypeOK'
  BY <1>2, <1>3 DEF Sane, SdiTypeOK
<1>5. \A q \in Proc \ {p} : Touched(sd[q], sd'[q], sd[p])
  BY <1>3 DEF Touched
<1>6. \A q \in Proc : Sound(sd'[q])
  BY <1>3 DEF Sane, Follows
<1> QED BY <1>2, <1>3, <1>4, <1>5, <1>6 DEF Effects, Sane

\* Contents of a file.
LEMMA AbsentIsContent == Absent \in Content /\ Torn \in Content /\ 0..MaxVersion \subseteq Content
  BY SdiAssumption DEF Absent, Content, Torn

\* Whatever is loaded is metadata.
LEMMA LoadedIsMetadata == ASSUME SdiTypeOK, NEW m \in Loads PROVE m \in Metadata
<1>1. Default \in Metadata
  BY SdiAssumption DEF Metadata, Default
<1>2. m = Default \/ (m = meta /\ meta \notin {NoFile, TornFile})
  BY DEF Loads
<1> QED BY <1>1, <1>2 DEF SdiTypeOK

\* A refresh loads the metadata.
LEMMA StepLoadRefresh ==
  ASSUME Sane, NEW p \in Proc, LoadRefresh(p) PROVE Sane' /\ Effects(p)
<1> DEFINE s == sd[p]
<1>1. Sound(s) /\ s.pc = "load" /\ s.call.op = "refresh"
  BY SaneFrames DEF LoadRefresh, SdiAt
<1>2. PICK m \in Loads :
        sd' = [sd EXCEPT ![p] = [s EXCEPT !.pc = "manifest", !.meta = m]]
  BY DEF LoadRefresh, SdiQuietly
<1> DEFINE u == [s EXCEPT !.pc = "manifest", !.meta = m]
<1>3. m \in Metadata
  BY LoadedIsMetadata DEF Sane
<1>4. UNCHANGED <<mirror, diskVars>> /\ clock' \in Stamp
  BY DEF LoadRefresh, SdiQuietly, Sane, SdiTypeOK
<1> HIDE DEF s
<1>5. Follows(s, u)
  BY <1>1, <1>2, <1>3 DEF Follows, Sound, SdiFrame, SdiPc, SavePc, Fetching
<1> HIDE DEF u
<1> QED BY <1>2, <1>4, <1>5, Quiet DEF s, u

\* A prefetch loads the metadata.
LEMMA StepLoadPrefetch ==
  ASSUME Sane, NEW p \in Proc, LoadPrefetch(p) PROVE Sane' /\ Effects(p)
<1> DEFINE s == sd[p]
<1>1. Sound(s) /\ s.pc = "load" /\ s.call.op = "prefetch"
  BY SaneFrames DEF LoadPrefetch, SdiAt
<1>2. PICK m \in Loads, stale \in BOOLEAN :
        sd' = [sd EXCEPT ![p] =
          [s EXCEPT !.pc = IF stale THEN "nested" ELSE "packManifest", !.meta = m]]
  BY DEF LoadPrefetch, SdiQuietly, StaleChoices
<1> DEFINE u == [s EXCEPT !.pc = IF stale THEN "nested" ELSE "packManifest", !.meta = m]
<1>3. m \in Metadata
  BY LoadedIsMetadata DEF Sane
<1>4. UNCHANGED <<mirror, diskVars>> /\ clock' \in Stamp
  BY DEF LoadPrefetch, SdiQuietly, Sane, SdiTypeOK
<1> HIDE DEF s
<1>5. Follows(s, u)
  BY ZenonT(60), <1>1, <1>2, <1>3 DEF Follows, Sound, SdiFrame, SdiPc, SavePc, Fetching
<1> HIDE DEF u
<1> QED BY <1>2, <1>4, <1>5, Quiet DEF s, u

\* The refresh inside a prefetch loads a copy of its own.
LEMMA StepLoadNested ==
  ASSUME Sane, NEW p \in Proc, LoadNested(p) PROVE Sane' /\ Effects(p)
<1> DEFINE s == sd[p]
<1>1. Sound(s) /\ s.pc = "nested"
  BY SaneFrames DEF LoadNested, SdiAt
<1>2. PICK m \in Loads :
        sd' = [sd EXCEPT ![p] = [s EXCEPT !.pc = "manifest", !.meta = m]]
  BY DEF LoadNested, SdiQuietly
<1> DEFINE u == [s EXCEPT !.pc = "manifest", !.meta = m]
<1>3. m \in Metadata
  BY LoadedIsMetadata DEF Sane
<1>4. UNCHANGED <<mirror, diskVars>> /\ clock' \in Stamp
  BY DEF LoadNested, SdiQuietly, Sane, SdiTypeOK
<1> HIDE DEF s
<1>5. Follows(s, u)
  BY <1>1, <1>2, <1>3 DEF Follows, Sound, SdiFrame, SdiPc, SavePc, Fetching
<1> HIDE DEF u
<1> QED BY <1>2, <1>4, <1>5, Quiet DEF s, u

\* A prefetch loads anew after its refresh.
LEMMA StepReload ==
  ASSUME Sane, NEW p \in Proc, Reload(p) PROVE Sane' /\ Effects(p)
<1> DEFINE s == sd[p]
<1>1. Sound(s) /\ s.pc = "reload"
  BY SaneFrames DEF Reload, SdiAt
<1>2. PICK m \in Loads :
        sd' = [sd EXCEPT ![p] = [s EXCEPT !.pc = "packManifest", !.meta = m]]
  BY DEF Reload, SdiQuietly
<1> DEFINE u == [s EXCEPT !.pc = "packManifest", !.meta = m]
<1>3. m \in Metadata
  BY LoadedIsMetadata DEF Sane
<1>4. UNCHANGED <<mirror, diskVars>> /\ clock' \in Stamp
  BY DEF Reload, SdiQuietly, Sane, SdiTypeOK
<1> HIDE DEF s
<1>5. Follows(s, u)
  BY <1>1, <1>2, <1>3 DEF Follows, Sound, SdiFrame, SdiPc, SavePc, Fetching
<1> HIDE DEF u
<1> QED BY <1>2, <1>4, <1>5, Quiet DEF s, u

\* The tier loads the metadata and lists what it does not know.
LEMMA StepLoadTier ==
  ASSUME Sane, NEW p \in Proc, LoadTier(p) PROVE Sane' /\ Effects(p)
<1> DEFINE s == sd[p]
<1>1. Sound(s) /\ s.pc = "load" /\ s.call.op = "tier"
  BY SaneFrames DEF LoadTier, SdiAt
<1>2. PICK m \in Loads :
        sd' = [sd EXCEPT ![p] =
          [s EXCEPT !.pc = "autoRegister", !.meta = m, !.todo = Unregistered(m)]]
  BY DEF LoadTier, SdiQuietly
<1> DEFINE u == [s EXCEPT !.pc = "autoRegister", !.meta = m, !.todo = Unregistered(m)]
<1>3. m \in Metadata
  BY LoadedIsMetadata DEF Sane
<1>4. Unregistered(m) \subseteq Pack
  BY DEF Unregistered
<1>5. UNCHANGED <<mirror, diskVars>> /\ clock' \in Stamp
  BY DEF LoadTier, SdiQuietly, Sane, SdiTypeOK
<1> HIDE DEF s
<1>6. Follows(s, u)
  BY <1>1, <1>2, <1>3, <1>4 DEF Follows, Sound, SdiFrame, SdiPc, SavePc, Fetching, Asset
<1> HIDE DEF u
<1> QED BY <1>2, <1>5, <1>6, Quiet DEF s, u

\* The end of a save.
LEMMA SaveEnds ==
  ASSUME Sane, NEW p \in Proc, sd[p].pc \in SavePc, NEW ok \in BOOLEAN
  PROVE  Follows(sd[p], AfterSave(p, ok))
<1> DEFINE s == sd[p]
           u == [s EXCEPT !.pc = s.after, !.handle = "none", !.shared = FALSE,
                          !.failed = IF ok THEN @ ELSE @ \cup ({s.asset} \ {None}),
                          !.outcome = CASE s.after # "done" -> "none"
                                        [] s.after = "done" /\ ~ok /\ s.call.op = "clean" -> "error"
                                        [] OTHER -> "ok"]
<1>1. Sound(s) /\ s.pc \in SavePc
  BY SaneFrames
<1> HIDE DEF s
<1> DEFINE
           f == IF ok THEN s.failed ELSE s.failed \cup ({s.asset} \ {None})
           o == CASE s.after # "done" -> "none"
                  [] s.after = "done" /\ ~ok /\ s.call.op = "clean" -> "error"
                  [] OTHER -> "ok"
<1>2. f \in SUBSET Asset /\ o \in {"none", "ok", "error"} /\ s.after \in SdiPc
  BY <1>1 DEF Sound, SdiFrame
<1>3. u \in SdiFrame
  <2>1. u = [s EXCEPT !.pc = s.after, !.handle = "none", !.shared = FALSE, !.failed = f,
                      !.outcome = o]
    OBVIOUS
  <2> HIDE DEF u, f, o
  <2> QED BY <1>1, <1>2, <2>1 DEF Sound, SdiFrame, Handle
<1>4. /\ u.pc = s.after /\ u.call = s.call /\ u.met = s.met /\ u.asset = s.asset
      /\ u.todo = s.todo /\ u.outcome \in {"none", "ok", "error"}
      /\ s.after # "done" => u.outcome = "none"
  BY <1>1 DEF Sound, SdiFrame
<1> HIDE DEF u
<1>5. Follows(s, u)
  BY <1>1, <1>3, <1>4, SdiAssumption DEF Follows, Sound, SavePc, Fetching, Asset
<1> QED BY <1>5 DEF AfterSave, s, u

\* A save fails before its rename.
LEMMA StepSaveWriteFails ==
  ASSUME Sane, NEW p \in Proc, SaveWriteFails(p) PROVE Sane' /\ Effects(p)
<1> DEFINE s == sd[p]
<1>1. Sound(s) /\ s.pc \in {"saveCreate", "saveWrite"}
  BY SaneFrames DEF SaveWriteFails, SdiAt
<1> DEFINE u == AfterSave(p, FALSE)
<1>2. sd' = [sd EXCEPT ![p] = u]
  BY DEF SaveWriteFails, SdiQuietly
<1>3. UNCHANGED <<mirror, diskVars>> /\ clock' \in Stamp
  BY DEF SaveWriteFails, SdiQuietly, Sane, SdiTypeOK
<1> HIDE DEF s
<1>4. Follows(s, u)
  BY <1>1, SaveEnds DEF SavePc, s
<1> HIDE DEF u
<1> QED BY <1>2, <1>3, <1>4, Quiet DEF s, u

\* An asset is given up.
LEMMA MissFollows ==
  ASSUME Sane, NEW p \in Proc, sd[p].pc \in Fetching \cup {"register"}
  PROVE  Follows(sd[p], Missed(p))
<1> DEFINE s == sd[p]
           f == s.failed \cup {s.asset}
           u == [s EXCEPT !.pc = "next", !.failed = f, !.handle = "none",
                          !.shared = FALSE, !.got = Absent]
<1>1. Sound(s) /\ s.pc \in Fetching \cup {"register"}
  BY SaneFrames
<1> HIDE DEF s
<1>2. f \in SUBSET Asset /\ s.asset \in Asset
  BY <1>1 DEF Sound, SdiFrame, Asset
<1> HIDE DEF f
<1>3. u \in SdiFrame
  BY ZenonT(60), <1>1, <1>2, AbsentIsContent DEF Sound, SdiFrame, SdiPc, Handle
<1>4. /\ u.pc = "next" /\ u.call = s.call /\ u.met = s.met /\ u.asset = s.asset
      /\ u.todo = s.todo /\ u.outcome = s.outcome
  BY <1>1 DEF Sound, SdiFrame
<1> HIDE DEF u
<1>5. Follows(s, u)
  BY <1>1, <1>2, <1>3, <1>4, SdiAssumption DEF Follows, Sound, SavePc, Fetching
<1> QED BY <1>5 DEF Missed, s, f, u

\* A download cannot be created.
LEMMA StepCreateFails ==
  ASSUME Sane, NEW p \in Proc, CreateFails(p) PROVE Sane' /\ Effects(p)
<1>1. Follows(sd[p], Missed(p))
  BY MissFollows DEF CreateFails, SdiAt, Fetching
<1>2. /\ sd' = [sd EXCEPT ![p] = Missed(p)]
      /\ UNCHANGED <<mirror, diskVars>> /\ clock' \in Stamp
  BY DEF CreateFails, SdiQuietly, Sane, SdiTypeOK
<1> QED BY <1>1, <1>2, Quiet

\* A download cannot be renamed.
LEMMA StepRenameFails ==
  ASSUME Sane, NEW p \in Proc, RenameFails(p) PROVE Sane' /\ Effects(p)
<1>1. Follows(sd[p], Missed(p))
  BY MissFollows DEF RenameFails, SdiAt, Fetching
<1>2. /\ sd' = [sd EXCEPT ![p] = Missed(p)]
      /\ UNCHANGED <<mirror, diskVars>> /\ clock' \in Stamp
  BY DEF RenameFails, SdiQuietly, Sane, SdiTypeOK
<1> QED BY <1>1, <1>2, Quiet

\* A pack cannot be registered.
LEMMA StepRegisterFails ==
  ASSUME Sane, NEW p \in Proc, RegisterFails(p) PROVE Sane' /\ Effects(p)
<1>1. Follows(sd[p], Missed(p))
  BY MissFollows DEF RegisterFails, SdiAt, Fetching
<1>2. /\ sd' = [sd EXCEPT ![p] = Missed(p)]
      /\ UNCHANGED <<mirror, diskVars>> /\ clock' \in Stamp
  BY DEF RegisterFails, SdiQuietly, Sane, SdiTypeOK
<1> QED BY <1>1, <1>2, Quiet

\* The manifest of the indexes has come.
LEMMA StepManifest ==
  ASSUME Sane, NEW p \in Proc, Manifest(p) PROVE Sane' /\ Effects(p)
<1> DEFINE s == sd[p]
<1>1. Sound(s) /\ s.pc = "manifest" /\ mirror \in 0..MaxVersion
  BY SaneFrames, SdiAssumption DEF Sane, SdiTypeOK, Manifest, SdiAt
<1> DEFINE u == [s EXCEPT !.pc = "next", !.version = mirror, !.todo = Index, !.asset = None,
                          !.failed = {}]
<1>2. sd' = [sd EXCEPT ![p] = u]
  BY DEF Manifest, SdiQuietly
<1>3. UNCHANGED <<mirror, diskVars>> /\ clock' \in Stamp
  BY DEF Manifest, SdiQuietly, Sane, SdiTypeOK
<1> HIDE DEF s
<1>4. Follows(s, u)
  BY ZenonT(60), <1>1, SdiAssumption DEF Follows, Sound, SdiFrame, SdiPc, SavePc, Fetching, Asset
<1> HIDE DEF u
<1> QED BY <1>2, <1>3, <1>4, Quiet DEF s, u

\* There is no manifest of the indexes.
LEMMA StepManifestFails ==
  ASSUME Sane, NEW p \in Proc, ManifestFails(p) PROVE Sane' /\ Effects(p)
<1> DEFINE s == sd[p]
<1>1. Sound(s) /\ s.pc = "manifest"
  BY SaneFrames DEF ManifestFails, SdiAt
<1> DEFINE u == [s EXCEPT !.pc = RefreshAfter(p),
                          !.outcome = IF RefreshAfter(p) = "done" THEN "error" ELSE "none"]
<1>2. sd' = [sd EXCEPT ![p] = u]
  BY DEF ManifestFails, SdiQuietly
<1>3. UNCHANGED <<mirror, diskVars>> /\ clock' \in Stamp
  BY DEF ManifestFails, SdiQuietly, Sane, SdiTypeOK
<1> HIDE DEF s
<1>4. Follows(s, u)
  BY ZenonT(60), <1>1 DEF Follows, Sound, SdiFrame, SdiPc, SavePc, Fetching, RefreshAfter, s
<1> HIDE DEF u
<1> QED BY <1>2, <1>3, <1>4, Quiet DEF s, u

\* A refresh goes on to its next index.
LEMMA StepNextIndex ==
  ASSUME Sane, NEW p \in Proc, NextIndex(p) PROVE Sane' /\ Effects(p)
<1> DEFINE s == sd[p]
<1>1. Sound(s) /\ s.pc = "next"
  BY SaneFrames DEF NextIndex, SdiAt
<1>2. PICK i \in s.todo \cap Index :
        sd' = [sd EXCEPT ![p] = [s EXCEPT !.pc = "get", !.asset = i, !.todo = @ \ {i}]]
  BY DEF NextIndex, SdiQuietly
<1> DEFINE u == [s EXCEPT !.pc = "get", !.asset = i, !.todo = @ \ {i}]
<1>3. UNCHANGED <<mirror, diskVars>> /\ clock' \in Stamp
  BY DEF NextIndex, SdiQuietly, Sane, SdiTypeOK
<1> HIDE DEF s
<1>4. Follows(s, u)
  BY ZenonT(60), <1>1, <1>2, SdiAssumption DEF Follows, Sound, SdiFrame, SdiPc, SavePc, Fetching, Asset
<1> HIDE DEF u
<1> QED BY <1>2, <1>3, <1>4, Quiet DEF s, u

\* A refresh puts down that it was made.
LEMMA StepRecordRefresh ==
  ASSUME Sane, NEW p \in Proc, RecordRefresh(p) PROVE Sane' /\ Effects(p)
<1> DEFINE s == sd[p]
<1>1. Sound(s) /\ s.pc = "next"
  BY SaneFrames DEF RecordRefresh, SdiAt
<1> DEFINE u == [s EXCEPT !.asset = None, !.pc = "saveCreate",
                          !.meta = [s.meta EXCEPT !.version = s.version, !.refreshed = TRUE],
                          !.after = RefreshAfter(p)]
<1>2. sd' = [sd EXCEPT ![p] = u]
  BY DEF RecordRefresh, SdiQuietly, Saving
<1>3. s.asset \in Index /\ s.todo = {}
  BY DEF RecordRefresh
<1>4. [s.meta EXCEPT !.version = s.version, !.refreshed = TRUE] \in Metadata
  BY <1>1 DEF Sound, SdiFrame, Metadata
<1>5. UNCHANGED <<mirror, diskVars>> /\ clock' \in Stamp
  BY DEF RecordRefresh, SdiQuietly, Sane, SdiTypeOK
<1> HIDE DEF s
<1>6. Follows(s, u)
  BY ZenonT(60), <1>1, <1>3, <1>4, SdiAssumption 
     DEF Follows, Sound, SdiFrame, SdiPc, SavePc, Fetching, RefreshAfter, s, Asset, SdiCall, SdiOp
<1> HIDE DEF u
<1> QED BY <1>2, <1>5, <1>6, Quiet DEF s, u

\* The manifest of the packs has come.
LEMMA StepPackManifest ==
  ASSUME Sane, NEW p \in Proc, PackManifest(p) PROVE Sane' /\ Effects(p)
<1> DEFINE s == sd[p]
<1>1. Sound(s) /\ s.pc = "packManifest"
  BY SaneFrames DEF PackManifest, SdiAt
<1> DEFINE u == [s EXCEPT !.pc = "next", !.todo = Pack, !.asset = None, !.failed = {}]
<1>2. sd' = [sd EXCEPT ![p] = u]
  BY DEF PackManifest, SdiQuietly
<1>3. UNCHANGED <<mirror, diskVars>> /\ clock' \in Stamp
  BY DEF PackManifest, SdiQuietly, Sane, SdiTypeOK
<1> HIDE DEF s
<1>4. Follows(s, u)
  BY ZenonT(60), <1>1, SdiAssumption DEF Follows, Sound, SdiFrame, SdiPc, SavePc, Fetching, Asset
<1> HIDE DEF u
<1> QED BY <1>2, <1>3, <1>4, Quiet DEF s, u

\* There is no manifest of the packs.
LEMMA StepPackManifestFails ==
  ASSUME Sane, NEW p \in Proc, PackManifestFails(p) PROVE Sane' /\ Effects(p)
<1> DEFINE s == sd[p]
<1>1. Sound(s) /\ s.pc = "packManifest"
  BY SaneFrames DEF PackManifestFails, SdiAt
<1> DEFINE u == [s EXCEPT !.pc = "done", !.outcome = "error"]
<1>2. sd' = [sd EXCEPT ![p] = u]
  BY DEF PackManifestFails, SdiQuietly, SdiEnd
<1>3. UNCHANGED <<mirror, diskVars>> /\ clock' \in Stamp
  BY DEF PackManifestFails, SdiQuietly, SdiEnd, Sane, SdiTypeOK
<1> HIDE DEF s
<1>4. Follows(s, u)
  BY ZenonT(60), <1>1 DEF Follows, Sound, SdiFrame, SdiPc, SavePc, Fetching
<1> HIDE DEF u
<1> QED BY <1>2, <1>3, <1>4, Quiet DEF s, u

\* A pack is passed over, too large, or asked for.
LEMMA StepNextPack ==
  ASSUME Sane, NEW p \in Proc, NextPack(p) PROVE Sane' /\ Effects(p)
<1> DEFINE s == sd[p]
           rest(k) == [s EXCEPT !.asset = k, !.todo = @ \ {k}]
           over(k) == [rest(k) EXCEPT !.failed = @ \cup {k}]
           ask(k) == [rest(k) EXCEPT !.pc = "get"]
<1>1. Sound(s) /\ s.pc = "next"
  BY SaneFrames DEF NextPack, SdiAt
<1>2. PICK k \in s.todo \cap Pack : sd' = [sd EXCEPT ![p] =
        CASE HasPack(s.meta, k) -> rest(k)
          [] ~HasPack(s.meta, k) /\ SizeOf[k] > s.call.budget -> over(k)
          [] OTHER -> ask(k)]
  BY DEF NextPack, SdiQuietly
<1>3. UNCHANGED <<mirror, diskVars>> /\ clock' \in Stamp
  BY DEF NextPack, SdiQuietly, Sane, SdiTypeOK, Stamp
<1> HIDE DEF s
<1>4. Follows(s, rest(k)) /\ Follows(s, over(k)) /\ Follows(s, ask(k))
  BY ZenonT(60), <1>1, <1>2, SdiAssumption DEF Follows, Sound, SdiFrame, SdiPc, SavePc, Fetching, Asset
<1> HIDE DEF rest, over, ask
<1>5. \E u \in {rest(k), over(k), ask(k)} : sd' = [sd EXCEPT ![p] = u]
  BY <1>2
<1> QED BY <1>3, <1>4, <1>5, Quiet DEF s

\* A prefetch has no pack left.
LEMMA StepPrefetchEnd ==
  ASSUME Sane, NEW p \in Proc, PrefetchEnd(p) PROVE Sane' /\ Effects(p)
<1> DEFINE s == sd[p]
<1>1. Sound(s) /\ s.pc = "next"
  BY SaneFrames DEF PrefetchEnd, SdiAt
<1> DEFINE u == [s EXCEPT !.pc = "done", !.outcome = "ok"]
<1>2. sd' = [sd EXCEPT ![p] = u]
  BY DEF PrefetchEnd, SdiQuietly, SdiEnd
<1>3. UNCHANGED <<mirror, diskVars>> /\ clock' \in Stamp
  BY DEF PrefetchEnd, SdiQuietly, SdiEnd, Sane, SdiTypeOK
<1> HIDE DEF s
<1>4. Follows(s, u)
  BY ZenonT(60), <1>1 DEF Follows, Sound, SdiFrame, SdiPc, SavePc, Fetching
<1> HIDE DEF u
<1> QED BY <1>2, <1>3, <1>4, Quiet DEF s, u

\* The tier cannot register a pack it found.
LEMMA StepAutoRegisterFails ==
  ASSUME Sane, NEW p \in Proc, AutoRegisterFails(p) PROVE Sane' /\ Effects(p)
<1> DEFINE s == sd[p]
<1>1. Sound(s) /\ s.pc = "autoRegister"
  BY SaneFrames DEF AutoRegisterFails, SdiAt
<1>2. PICK k \in s.todo :
        sd' = [sd EXCEPT ![p] = [s EXCEPT !.todo = @ \ {k}, !.failed = @ \cup {k}]]
  BY DEF AutoRegisterFails, SdiQuietly
<1> DEFINE f == s.failed \cup {k}
           t == s.todo \ {k}
           u == [s EXCEPT !.todo = t, !.failed = f]
<1>3. UNCHANGED <<mirror, diskVars>> /\ clock' \in Stamp
  BY DEF AutoRegisterFails, SdiQuietly, Sane, SdiTypeOK
<1> HIDE DEF s
<1>4. f \in SUBSET Asset /\ t \in SUBSET Asset /\ t \subseteq Pack
  BY <1>1, <1>2 DEF Sound, SdiFrame, Asset
<1> HIDE DEF f, t
<1>5. Follows(s, u)
  BY <1>1, <1>4 DEF Follows, Sound, SdiFrame, SdiPc, SavePc, Fetching
<1> HIDE DEF u
<1> QED BY <1>2, <1>3, <1>5, Quiet DEF s, u, f, t

\* The tier has registered what it found.
LEMMA StepAutoRegistered ==
  ASSUME Sane, NEW p \in Proc, AutoRegistered(p) PROVE Sane' /\ Effects(p)
<1> DEFINE s == sd[p]
<1>1. Sound(s) /\ s.pc = "autoRegister"
  BY SaneFrames DEF AutoRegistered, SdiAt
<1> DEFINE u == [s EXCEPT !.pc = "pick", !.asset = None]
<1>2. sd' = [sd EXCEPT ![p] = u]
  BY DEF AutoRegistered, SdiQuietly
<1>3. UNCHANGED <<mirror, diskVars>> /\ clock' \in Stamp
  BY DEF AutoRegistered, SdiQuietly, Sane, SdiTypeOK
<1> HIDE DEF s
<1>4. Follows(s, u)
  BY <1>1 DEF Follows, Sound, SdiFrame, SdiPc, SavePc, Fetching
<1> HIDE DEF u
<1> QED BY <1>2, <1>3, <1>4, Quiet DEF s, u

\* A pack cannot be evicted.
LEMMA StepEvictFails ==
  ASSUME Sane, NEW p \in Proc, EvictFails(p) PROVE Sane' /\ Effects(p)
<1> DEFINE s == sd[p]
<1>1. Sound(s) /\ s.pc = "evict"
  BY SaneFrames DEF EvictFails, SdiAt
<1> DEFINE u == [s EXCEPT !.pc = "done", !.outcome = "error"]
<1>2. sd' = [sd EXCEPT ![p] = u]
  BY DEF EvictFails, SdiQuietly, SdiEnd
<1>3. UNCHANGED <<mirror, diskVars>> /\ clock' \in Stamp
  BY DEF EvictFails, SdiQuietly, SdiEnd, Sane, SdiTypeOK
<1> HIDE DEF s
<1>4. Follows(s, u)
  BY <1>1 DEF Follows, Sound, SdiFrame, SdiPc, SavePc, Fetching
<1> HIDE DEF u
<1> QED BY <1>2, <1>3, <1>4, Quiet DEF s, u

\* The tier picks a cached pack.
LEMMA StepPickCached ==
  ASSUME Sane, NEW p \in Proc, PickCached(p) PROVE Sane' /\ Effects(p)
<1> DEFINE s == sd[p]
<1>1. Sound(s) /\ s.pc = "pick"
  BY SaneFrames DEF PickCached, SdiAt
<1>2. PICK k \in Cached(s.meta) :
        sd' = [sd EXCEPT ![p] = IF "inf" \in extracted[k]
             THEN [s EXCEPT !.pc = "done", !.asset = k, !.outcome = "staged"]
             ELSE [s EXCEPT !.pc = "extract", !.asset = k]]
  BY DEF PickCached, SdiQuietly
<1> DEFINE u == IF "inf" \in extracted[k]
             THEN [s EXCEPT !.pc = "done", !.asset = k, !.outcome = "staged"]
             ELSE [s EXCEPT !.pc = "extract", !.asset = k]
<1>3. k \in Pack
  BY DEF Cached, HasPack, Listed
<1>4. UNCHANGED <<mirror, diskVars>> /\ clock' \in Stamp
  BY DEF PickCached, SdiQuietly, Sane, SdiTypeOK
<1> HIDE DEF s
<1>5. Follows(s, u)
  BY ZenonT(60), <1>1, <1>2, <1>3 DEF Follows, Sound, SdiFrame, SdiPc, SavePc, Fetching, Asset
<1> HIDE DEF u
<1> QED BY <1>2, <1>4, <1>5, Quiet DEF s, u

\* The tier finds no cached pack.
LEMMA StepPickNothing ==
  ASSUME Sane, NEW p \in Proc, PickNothing(p) PROVE Sane' /\ Effects(p)
<1> DEFINE s == sd[p]
<1>1. Sound(s) /\ s.pc = "pick"
  BY SaneFrames DEF PickNothing, SdiAt
<1> DEFINE u == [s EXCEPT !.pc = "done", !.outcome = "ok"]
<1>2. sd' = [sd EXCEPT ![p] = u]
  BY DEF PickNothing, SdiQuietly, SdiEnd
<1>3. UNCHANGED <<mirror, diskVars>> /\ clock' \in Stamp
  BY DEF PickNothing, SdiQuietly, SdiEnd, Sane, SdiTypeOK
<1> HIDE DEF s
<1>4. Follows(s, u)
  BY <1>1 DEF Follows, Sound, SdiFrame, SdiPc, SavePc, Fetching
<1> HIDE DEF u
<1> QED BY <1>2, <1>3, <1>4, Quiet DEF s, u

\* The pack is extracted.
LEMMA StepExtracted ==
  ASSUME Sane, NEW p \in Proc, Extracted(p) PROVE Sane' /\ Effects(p)
<1> DEFINE s == sd[p]
<1>1. Sound(s) /\ s.pc = "extract"
  BY SaneFrames DEF Extracted, SdiAt
<1> DEFINE u == [s EXCEPT !.pc = "done", !.outcome = "staged"]
<1>2. sd' = [sd EXCEPT ![p] = u]
  BY DEF Extracted, SdiQuietly, SdiEnd
<1>3. UNCHANGED <<mirror, diskVars>> /\ clock' \in Stamp
  BY DEF Extracted, SdiQuietly, SdiEnd, Sane, SdiTypeOK
<1> HIDE DEF s
<1>4. Follows(s, u)
  BY <1>1 DEF Follows, Sound, SdiFrame, SdiPc, SavePc, Fetching
<1> HIDE DEF u
<1> QED BY <1>2, <1>3, <1>4, Quiet DEF s, u

\* The pack cannot be extracted.
LEMMA StepExtractFails ==
  ASSUME Sane, NEW p \in Proc, ExtractFails(p) PROVE Sane' /\ Effects(p)
<1> DEFINE s == sd[p]
<1>1. Sound(s) /\ s.pc = "extract"
  BY SaneFrames DEF ExtractFails, SdiAt
<1> DEFINE u == [s EXCEPT !.pc = "done", !.outcome = "error"]
<1>2. sd' = [sd EXCEPT ![p] = u]
  BY DEF ExtractFails, SdiQuietly, SdiEnd
<1>3. UNCHANGED <<mirror, diskVars>> /\ clock' \in Stamp
  BY DEF ExtractFails, SdiQuietly, SdiEnd, Sane, SdiTypeOK
<1> HIDE DEF s
<1>4. Follows(s, u)
  BY <1>1 DEF Follows, Sound, SdiFrame, SdiPc, SavePc, Fetching
<1> HIDE DEF u
<1> QED BY <1>2, <1>3, <1>4, Quiet DEF s, u

\* A sound frame stays sound when its open file is renamed, removed or shared.
LEMMA TouchedSound ==
  ASSUME NEW s, NEW t, NEW r, Sound(s), Touched(s, t, r)
  PROVE  Sound(t)
<1>1. CASE t = s
  BY <1>1
<1>2. ASSUME t # s PROVE Sound(t)
  <2> DEFINE h == t.handle
             b == t.shared
  <2>1. t = [s EXCEPT !.handle = h, !.shared = b] /\ h \in Handle /\ b \in BOOLEAN
    BY <1>2 DEF Touched
  <2> HIDE DEF h, b
  <2>2. t \in SdiFrame
    BY <2>1 DEF Sound, SdiFrame
  <2>3. /\ t.pc = s.pc /\ t.call = s.call /\ t.met = s.met /\ t.asset = s.asset
        /\ t.todo = s.todo /\ t.outcome = s.outcome /\ t.after = s.after
        /\ t.meta = s.meta /\ t.running = s.running
    BY <2>1 DEF Sound, SdiFrame
  <2> QED BY <2>2, <2>3 DEF Sound
<1> QED BY <1>1, <1>2

\* A step that writes to the disk, or that touches what others have open.
LEMMA Loud ==
  ASSUME Sane, NEW p \in Proc, NEW u, Follows(sd[p], u),
         sd' = [q \in Proc |-> IF q = p THEN u ELSE sd'[q]],
         \A q \in Proc \ {p} : Touched(sd[q], sd'[q], sd[p]),
         UNCHANGED <<mirror, clock>>,
         file' \in [Asset -> Content], part' \in [Asset -> Content],
         meta' \in Metadata \cup {NoFile, TornFile}, metaTmp' \in Metadata \cup {NoFile, TornFile},
         extracted' \in [Pack -> SUBSET Entry],
         sd[p].pc \notin SavePc => UNCHANGED <<meta, metaTmp>>,
         sd[p].pc \notin Fetching => UNCHANGED part,
         sd[p].pc \notin Fetching \cup {"evict"} => UNCHANGED file,
         sd[p].pc # "extract" => UNCHANGED extracted
  PROVE  Sane' /\ Effects(p)
<1>1. sd'[p] = u
  OBVIOUS
<1>2. \A q \in Proc : Sound(sd'[q])
  BY <1>1, SaneFrames, TouchedSound DEF Follows
<1>3. sd' \in [Proc -> SdiFrame]
  <2>1. \A q \in Proc : sd'[q] \in SdiFrame
    BY <1>2 DEF Sound
  <2>2. sd' = [q \in Proc |-> sd'[q]]
    BY <1>1
  <2> QED BY <2>1, <2>2
<1>4. SdiTypeOK'
  BY <1>3 DEF Sane, SdiTypeOK
<1> QED BY <1>1, <1>2, <1>4 DEF Sane, Effects

\* A clean that has to make room begins to evict.
LEMMA StepLoadClean ==
  ASSUME Sane, NEW p \in Proc, LoadClean(p) PROVE Sane' /\ Effects(p)
<1> DEFINE s == sd[p]
           fits(m) == [s EXCEPT !.pc = "done", !.meta = m, !.outcome = "ok"]
           over(m) == [s EXCEPT !.pc = "evict", !.meta = m, !.running = Total(m)]
<1>1. Sound(s) /\ s.pc = "load" /\ s.call.op = "clean"
  BY SaneFrames DEF LoadClean, SdiAt
<1>2. PICK m \in Loads : sd' = [sd EXCEPT ![p] =
        IF Total(m) <= s.call.budget THEN fits(m) ELSE over(m)]
  BY DEF LoadClean, SdiQuietly
<1>3. UNCHANGED <<mirror, diskVars>> /\ clock' \in Stamp
  BY DEF LoadClean, SdiQuietly, Sane, SdiTypeOK
<1>4. m \in Metadata /\ Total(m) \in Nat
  BY LoadedIsMetadata, TotalTakes DEF Sane
<1> HIDE DEF s
<1>5. s.call.budget \in Nat
  BY <1>1, SdiCallsAssumption DEF Sound, SdiCall
<1>6. Follows(s, fits(m))
  BY <1>1, <1>4 DEF Follows, Sound, SdiFrame, SdiPc, SavePc, Fetching
<1>7. ASSUME ~(Total(m) <= s.call.budget) PROVE Follows(s, over(m))
  <2> DEFINE u == over(m)
  <2>1. u \in SdiFrame
    BY <1>1, <1>4 DEF Sound, SdiFrame, SdiPc
  <2>2. /\ u.pc = "evict" /\ u.call = s.call /\ u.met = s.met /\ u.outcome = s.outcome
        /\ u.meta = m /\ u.running = Total(m)
    BY <1>1 DEF Sound, SdiFrame
  <2> HIDE DEF u
  <2>3. Total(m) > s.call.budget
    BY <1>4, <1>5, <1>7
  <2>4. Follows(s, u)
    BY <1>1, <2>1, <2>2, <2>3 DEF Follows, Sound, SavePc, Fetching
  <2> QED BY <2>4 DEF u
<1>8. CASE Total(m) <= s.call.budget
  <2>1. sd' = [sd EXCEPT ![p] = fits(m)]
    BY <1>2, <1>8
  <2> HIDE DEF fits, over
  <2> QED BY <1>3, <1>6, <2>1, Quiet DEF s
<1>9. CASE ~(Total(m) <= s.call.budget)
  <2>1. sd' = [sd EXCEPT ![p] = over(m)]
    BY <1>2, <1>9
  <2> HIDE DEF fits, over
  <2> QED BY <1>3, <1>7, <1>9, <2>1, Quiet DEF s
<1> QED BY <1>8, <1>9

\* A pack on disk, put down in the metadata.
LEMMA WithPackIsMetadata ==
  ASSUME SdiTypeOK, NEW m \in Metadata, NEW k \in Pack
  PROVE  WithPack(m, k) \in Metadata
<1>1. FileSize(k) \in Nat
  BY SdiAssumption DEF FileSize
<1>2. [size |-> FileSize(k), used |-> clock] \in PackMeta
  BY <1>1 DEF SdiTypeOK, PackMeta
<1> QED BY <1>2 DEF WithPack, Metadata

\* A downloaded pack is registered.
LEMMA StepRegister ==
  ASSUME Sane, NEW p \in Proc, Register(p) PROVE Sane' /\ Effects(p)
<1> DEFINE s == sd[p]
           m == WithPack(s.meta, s.asset)
           u == [s EXCEPT !.pc = "saveCreate", !.meta = m, !.after = "next"]
<1>1. Sound(s) /\ s.pc = "register"
  BY SaneFrames DEF Register, SdiAt
<1>2. sd' = [sd EXCEPT ![p] = u] /\ UNCHANGED <<mirror, diskVars>>
  BY DEF Register, Saving
<1>3. clock' \in Stamp
  BY DEF Register, Sane, SdiTypeOK, Stamp
<1>4. m \in Metadata
  BY <1>1, WithPackIsMetadata DEF Sound, SdiFrame, Sane
<1> HIDE DEF m
<1> HIDE DEF s
<1>6. Follows(s, u)
  BY ZenonT(60), <1>1, <1>4 DEF Follows, Sound, SdiFrame, SdiPc, SavePc, Fetching
<1> HIDE DEF u
<1> QED BY <1>2, <1>3, <1>6, Quiet DEF s

\* A pack found on disk is registered.
LEMMA StepAutoRegister ==
  ASSUME Sane, NEW p \in Proc, AutoRegister(p) PROVE Sane' /\ Effects(p)
<1> DEFINE s == sd[p]
<1>1. Sound(s) /\ s.pc = "autoRegister"
  BY SaneFrames DEF AutoRegister, SdiAt
<1>2. PICK k \in s.todo : sd' = [sd EXCEPT ![p] =
        Saving(p, [s EXCEPT !.asset = k, !.todo = @ \ {k}], WithPack(s.meta, k), "autoRegister")]
  BY DEF AutoRegister
<1>3. UNCHANGED <<mirror, diskVars>> /\ clock' \in Stamp
  BY DEF AutoRegister, Sane, SdiTypeOK, Stamp
<1> DEFINE m == WithPack(s.meta, k)
           t == s.todo \ {k}
           u == [s EXCEPT !.asset = k, !.todo = t, !.pc = "saveCreate", !.meta = m,
                          !.after = "autoRegister"]
<1>4. k \in Pack /\ m \in Metadata /\ t \in SUBSET Asset /\ t \subseteq Pack
  BY <1>1, <1>2, WithPackIsMetadata DEF Sound, SdiFrame, Sane
<1>5. sd' = [sd EXCEPT ![p] = u]
  BY <1>2 DEF Saving
<1> HIDE DEF m, t, s
<1>6. Follows(s, u)
  BY <1>1, <1>4 DEF Follows, Sound, SdiFrame, SdiPc, SavePc, Fetching, Asset
<1> HIDE DEF u
<1> QED BY <1>3, <1>5, <1>6, Quiet DEF s

\* A save or a download goes on with its file.
LEMMA GoesOn ==
  ASSUME NEW s, Sound(s), NEW pc, NEW c \in Content, NEW h \in Handle, NEW b \in BOOLEAN,
         \/ s.pc \in SavePc /\ pc \in SavePc
         \/ s.pc \in Fetching /\ pc \in Fetching \cup {"next"}
         \/ s.pc \in Fetching /\ s.asset \in Pack /\ pc = "register"
  PROVE  Follows(s, [s EXCEPT !.pc = pc, !.got = c, !.handle = h, !.shared = b])
<1> DEFINE u == [s EXCEPT !.pc = pc, !.got = c, !.handle = h, !.shared = b]
<1>1. pc \in SdiPc
  BY DEF SavePc, Fetching, SdiPc
<1>2. u \in SdiFrame
  BY <1>1 DEF Sound, SdiFrame
<1>3. /\ u.pc = pc /\ u.call = s.call /\ u.met = s.met /\ u.asset = s.asset
      /\ u.todo = s.todo /\ u.outcome = s.outcome /\ u.after = s.after
  BY DEF Sound, SdiFrame
<1> HIDE DEF u
<1>4. Follows(s, u)
  BY <1>2, <1>3 DEF Follows, Sound, SavePc, Fetching
<1> QED BY <1>4 DEF u

\* The temporary file is created.
LEMMA StepSaveCreate ==
  ASSUME Sane, NEW p \in Proc, SaveCreate(p) PROVE Sane' /\ Effects(p)
<1> DEFINE s == sd[p]
           b == SharesMeta(p) # {}
           u == [s EXCEPT !.pc = "saveWrite", !.handle = "part", !.shared = b]
<1>1. Sound(s) /\ s.pc = "saveCreate"
  BY SaneFrames DEF SaveCreate, SdiAt
<1>2. /\ sd' = [q \in Proc |-> IF q = p THEN u
                               ELSE IF q \in SharesMeta(p) THEN [sd[q] EXCEPT !.shared = TRUE]
                               ELSE sd[q]]
      /\ metaTmp' = TornFile
      /\ UNCHANGED <<mirror, file, part, meta, extracted, clock>>
  BY DEF SaveCreate, SharesMeta
<1>3. ASSUME NEW q \in Proc \ {p} PROVE Touched(sd[q], sd'[q], s)
  <2>1. CASE q \in SharesMeta(p)
    <3>1. sd[q] \in SdiFrame /\ sd[q].pc = "saveWrite" /\ sd[q].handle \in Handle
      BY <2>1, SaneFrames DEF SharesMeta, WritesMeta, SdiFrame
    <3>2. sd'[q] = [sd[q] EXCEPT !.shared = TRUE]
      BY <1>2, <2>1
    <3> HIDE DEF s
    <3> QED BY <1>1, <3>1, <3>2 DEF Touched, SdiFrame, SavePc
  <2>2. CASE q \notin SharesMeta(p)
    BY <1>2, <2>2 DEF Touched
  <2> QED BY <2>1, <2>2
<1> HIDE DEF b
<1>4. b \in BOOLEAN
  BY DEF b
<1> HIDE DEF s
<1>5. Follows(s, u)
  <2>1. u = [s EXCEPT !.pc = "saveWrite", !.got = s.got, !.handle = "part", !.shared = b]
    BY <1>1 DEF Sound, SdiFrame
  <2>2. s.got \in Content /\ "part" \in Handle
    BY <1>1 DEF Sound, SdiFrame, Handle
  <2> HIDE DEF u
  <2> QED BY <1>1, <1>4, <2>1, <2>2, GoesOn DEF SavePc
<1>6. sd' = [q \in Proc |-> IF q = p THEN u ELSE sd'[q]]
  BY <1>2
<1> HIDE DEF u
<1> QED BY <1>1, <1>2, <1>3, <1>5, <1>6, Loud DEF s, SavePc, Sane, SdiTypeOK

\* The metadata is written.
LEMMA StepSaveWrite ==
  ASSUME Sane, NEW p \in Proc, SaveWrite(p) PROVE Sane' /\ Effects(p)
<1> DEFINE s == sd[p]
           u == [s EXCEPT !.pc = "saveRename", !.handle = "none", !.shared = FALSE]
<1>1. Sound(s) /\ s.pc = "saveWrite"
  BY SaneFrames DEF SaveWrite, SdiAt
<1>2. sd' = [sd EXCEPT ![p] = u] /\ UNCHANGED <<mirror, file, part, extracted, clock>>
  BY DEF SaveWrite
<1>3. /\ meta' \in Metadata \cup {NoFile, TornFile}
      /\ metaTmp' \in Metadata \cup {NoFile, TornFile}
  <2>1. s.meta \in Metadata
    BY <1>1 DEF Sound, SdiFrame
  <2>2. PICK m \in {s.meta, TornFile} : /\ metaTmp' = IF s.handle = "part" THEN m ELSE metaTmp
                                        /\ meta' = IF s.handle = "final" THEN m ELSE meta
    BY DEF SaveWrite
  <2> QED BY <2>1, <2>2 DEF Sane, SdiTypeOK
<1>4. /\ sd' = [q \in Proc |-> IF q = p THEN u ELSE sd'[q]]
      /\ \A q \in Proc \ {p} : Touched(sd[q], sd'[q], s)
  BY <1>2 DEF Sane, SdiTypeOK, Touched
<1> HIDE DEF s
<1>5. Follows(s, u)
  <2>1. u = [s EXCEPT !.pc = "saveRename", !.got = s.got, !.handle = "none", !.shared = FALSE]
    BY <1>1 DEF Sound, SdiFrame
  <2>2. s.got \in Content /\ "none" \in Handle
    BY <1>1 DEF Sound, SdiFrame, Handle
  <2> HIDE DEF u
  <2> QED BY <1>1, <2>1, <2>2, GoesOn DEF SavePc
<1> HIDE DEF u
<1> QED BY <1>1, <1>2, <1>3, <1>4, <1>5, Loud DEF s, SavePc, Sane, SdiTypeOK

\* What a rename or a removal of its file does to the handle of a writer.
LEMMA Redirected ==
  ASSUME Sane, NEW p \in Proc, NEW q \in Proc \ {p}, NEW to \in [Handle -> Handle],
         sd'[q] = [sd[q] EXCEPT !.handle = to[sd[q].handle]],
         \/ sd[q].pc = "saveWrite" /\ sd[p].pc \in SavePc
         \/ sd[q].pc = "receive" /\ sd[p].pc \in Fetching /\ sd[q].asset = sd[p].asset
  PROVE  Touched(sd[q], sd'[q], sd[p])
<1>1. sd[q] \in SdiFrame
  BY SaneFrames
<1> DEFINE h == to[sd[q].handle]
<1>2. h \in Handle
  BY <1>1 DEF SdiFrame
<1>3. sd'[q] = [sd[q] EXCEPT !.handle = h]
  OBVIOUS
<1> HIDE DEF h
<1> QED BY <1>1, <1>2, <1>3 DEF Touched, SdiFrame

\* What becomes of the handles keeps them handles.
LEMMA HandleMaps == Deleted \in [Handle -> Handle] /\ Renamed \in [Handle -> Handle]
  BY DEF Deleted, Renamed, Handle

\* The temporary file becomes metadata.json.
LEMMA StepSaveRename ==
  ASSUME Sane, NEW p \in Proc, SaveRename(p) PROVE Sane' /\ Effects(p)
<1> DEFINE u == AfterSave(p, TRUE)
<1>1. sd[p].pc = "saveRename" /\ Follows(sd[p], u)
  BY SaveEnds DEF SaveRename, SdiAt, SavePc
<1>2. /\ sd' = [q \in Proc |-> CASE q = p -> u
                   [] q # p /\ WritesMeta(q) -> [sd[q] EXCEPT !.handle = Renamed[sd[q].handle]]
                   [] OTHER -> sd[q]]
      /\ meta' = metaTmp /\ metaTmp' = NoFile
      /\ UNCHANGED <<mirror, file, part, extracted, clock>>
  BY DEF SaveRename, Redirect
<1> HIDE DEF u
<1>3. ASSUME NEW q \in Proc \ {p} PROVE Touched(sd[q], sd'[q], sd[p])
  <2>1. CASE WritesMeta(q)
    BY <1>1, <1>2, <2>1, Redirected, HandleMaps DEF WritesMeta, SavePc
  <2>2. CASE ~WritesMeta(q)
    BY <1>2, <2>2 DEF Touched
  <2> QED BY <2>1, <2>2
<1>4. sd' = [q \in Proc |-> IF q = p THEN u ELSE sd'[q]]
  BY <1>2
<1> QED BY <1>1, <1>2, <1>3, <1>4, Loud DEF SavePc, Sane, SdiTypeOK

\* The rename fails, and the temporary file goes.
LEMMA StepSaveRenameFails ==
  ASSUME Sane, NEW p \in Proc, SaveRenameFails(p) PROVE Sane' /\ Effects(p)
<1> DEFINE u == AfterSave(p, FALSE)
<1>1. sd[p].pc = "saveRename" /\ Follows(sd[p], u)
  BY SaveEnds DEF SaveRenameFails, SdiAt, SavePc
<1>2. /\ sd' = [q \in Proc |-> CASE q = p -> u
                   [] q # p /\ WritesMeta(q) -> [sd[q] EXCEPT !.handle = Deleted[sd[q].handle]]
                   [] OTHER -> sd[q]]
      /\ metaTmp' = NoFile
      /\ UNCHANGED <<mirror, file, part, meta, extracted, clock>>
  BY DEF SaveRenameFails, Redirect
<1> HIDE DEF u
<1>3. ASSUME NEW q \in Proc \ {p} PROVE Touched(sd[q], sd'[q], sd[p])
  <2>1. CASE WritesMeta(q)
    BY <1>1, <1>2, <2>1, Redirected, HandleMaps DEF WritesMeta, SavePc
  <2>2. CASE ~WritesMeta(q)
    BY <1>2, <2>2 DEF Touched
  <2> QED BY <2>1, <2>2
<1>4. sd' = [q \in Proc |-> IF q = p THEN u ELSE sd'[q]]
  BY <1>2
<1> QED BY <1>1, <1>2, <1>3, <1>4, Loud DEF SavePc, Sane, SdiTypeOK

\* What is sent and what is declared are contents of a file.
LEMMA ServedIsContent ==
  ASSUME SdiTypeOK, NEW a \in Asset
  PROVE  Served(a) \in Content
<1>1. Absent + 1 \in Content /\ mirror \in Content
  BY SdiAssumption DEF SdiTypeOK, Content, Torn, Absent
<1> QED BY <1>1 DEF Served, Absent

\* The mirror answers.
LEMMA StepGet ==
  ASSUME Sane, NEW p \in Proc, Get(p) PROVE Sane' /\ Effects(p)
<1> DEFINE s == sd[p]
<1>1. Sound(s) /\ s.pc = "get"
  BY SaneFrames DEF Get, SdiAt
<1>2. s.asset \in Asset /\ s.got \in Content /\ s.handle \in Handle /\ s.shared \in BOOLEAN
  BY <1>1 DEF Sound, SdiFrame, Fetching
<1>3. PICK c \in {Served(s.asset), Torn} :
        sd' = Redirect([s EXCEPT !.pc = "create", !.got = c], p,
                       LAMBDA q : Downloads(q, s.asset), Deleted)
  BY DEF Get
<1> DEFINE u == [s EXCEPT !.pc = "create", !.got = c]
<1>4. c \in Content
  BY <1>2, <1>3, ServedIsContent, AbsentIsContent DEF Sane
<1>5. sd' = [q \in Proc |-> CASE q = p -> u
               [] q # p /\ Downloads(q, s.asset) -> [sd[q] EXCEPT !.handle = Deleted[sd[q].handle]]
               [] OTHER -> sd[q]]
  BY <1>3 DEF Redirect
<1>6. Follows(s, u)
  <2>1. u = [s EXCEPT !.pc = "create", !.got = c, !.handle = s.handle, !.shared = s.shared]
    BY <1>1 DEF Sound, SdiFrame
  <2> HIDE DEF u, s
  <2> QED BY <1>1, <1>2, <1>4, <2>1, GoesOn DEF Fetching
<1>7. UNCHANGED <<mirror, file, meta, metaTmp, extracted, clock>>
  BY DEF Get
<1>8. part' \in [Asset -> Content]
  BY <1>2, AbsentIsContent DEF Get, Sane, SdiTypeOK
<1> HIDE DEF u
<1>9. ASSUME NEW q \in Proc \ {p} PROVE Touched(sd[q], sd'[q], sd[p])
  <2>1. CASE Downloads(q, s.asset)
    BY <1>1, <1>5, <2>1, Redirected, HandleMaps DEF Downloads, Fetching
  <2>2. CASE ~Downloads(q, s.asset)
    BY <1>5, <2>2 DEF Touched
  <2> QED BY <2>1, <2>2
<1>10. sd' = [q \in Proc |-> IF q = p THEN u ELSE sd'[q]]
  BY <1>5
<1> QED BY <1>1, <1>6, <1>7, <1>8, <1>9, <1>10, Loud DEF Fetching, Sane, SdiTypeOK

\* The mirror does not answer.
LEMMA StepGetFails ==
  ASSUME Sane, NEW p \in Proc, GetFails(p) PROVE Sane' /\ Effects(p)
<1> DEFINE s == sd[p]
           u == Missed(p)
<1>1. Sound(s) /\ s.pc = "get" /\ Follows(s, u)
  BY SaneFrames, MissFollows DEF GetFails, SdiAt, Fetching
<1>2. s.asset \in Asset
  BY <1>1 DEF Sound, Fetching
<1>3. sd' = [q \in Proc |-> CASE q = p -> u
               [] q # p /\ Downloads(q, s.asset) -> [sd[q] EXCEPT !.handle = Deleted[sd[q].handle]]
               [] OTHER -> sd[q]]
  BY DEF GetFails, Redirect
<1>4. UNCHANGED <<mirror, file, meta, metaTmp, extracted, clock>>
  BY DEF GetFails
<1>5. part' \in [Asset -> Content]
  BY <1>2, AbsentIsContent DEF GetFails, Sane, SdiTypeOK
<1> HIDE DEF u
<1>6. ASSUME NEW q \in Proc \ {p} PROVE Touched(sd[q], sd'[q], sd[p])
  <2>1. CASE Downloads(q, s.asset)
    BY <1>1, <1>3, <2>1, Redirected, HandleMaps DEF Downloads, Fetching
  <2>2. CASE ~Downloads(q, s.asset)
    BY <1>3, <2>2 DEF Touched
  <2> QED BY <2>1, <2>2
<1>7. sd' = [q \in Proc |-> IF q = p THEN u ELSE sd'[q]]
  BY <1>3
<1> QED BY <1>1, <1>4, <1>5, <1>6, <1>7, Loud DEF Fetching, Sane, SdiTypeOK

\* The download breaks off.
LEMMA StepReceiveFails ==
  ASSUME Sane, NEW p \in Proc, ReceiveFails(p) PROVE Sane' /\ Effects(p)
<1> DEFINE s == sd[p]
           u == Missed(p)
<1>1. Sound(s) /\ s.pc = "receive" /\ Follows(s, u)
  BY SaneFrames, MissFollows DEF ReceiveFails, SdiAt, Fetching
<1>2. s.asset \in Asset
  BY <1>1 DEF Sound, Fetching
<1>3. sd' = [q \in Proc |-> CASE q = p -> u
               [] q # p /\ Downloads(q, s.asset) -> [sd[q] EXCEPT !.handle = Deleted[sd[q].handle]]
               [] OTHER -> sd[q]]
  BY DEF ReceiveFails, Redirect
<1>4. UNCHANGED <<mirror, file, meta, metaTmp, extracted, clock>>
  BY DEF ReceiveFails
<1>5. part' \in [Asset -> Content]
  BY <1>2, AbsentIsContent DEF ReceiveFails, Sane, SdiTypeOK
<1> HIDE DEF u
<1>6. ASSUME NEW q \in Proc \ {p} PROVE Touched(sd[q], sd'[q], sd[p])
  <2>1. CASE Downloads(q, s.asset)
    BY <1>1, <1>3, <2>1, Redirected, HandleMaps DEF Downloads, Fetching
  <2>2. CASE ~Downloads(q, s.asset)
    BY <1>3, <2>2 DEF Touched
  <2> QED BY <2>1, <2>2
<1>7. sd' = [q \in Proc |-> IF q = p THEN u ELSE sd'[q]]
  BY <1>3
<1> QED BY <1>1, <1>4, <1>5, <1>6, <1>7, Loud DEF Fetching, Sane, SdiTypeOK

\* `.downloading` is created.
LEMMA StepCreate ==
  ASSUME Sane, NEW p \in Proc, Create(p) PROVE Sane' /\ Effects(p)
<1> DEFINE s == sd[p]
           b == SharesPart(p) # {}
           u == [s EXCEPT !.pc = "receive", !.handle = "part", !.shared = b]
<1>1. Sound(s) /\ s.pc = "create"
  BY SaneFrames DEF Create, SdiAt
<1>2. s.asset \in Asset /\ s.got \in Content
  BY <1>1 DEF Sound, SdiFrame, Fetching
<1>3. /\ sd' = [q \in Proc |-> IF q = p THEN u
                               ELSE IF q \in SharesPart(p) THEN [sd[q] EXCEPT !.shared = TRUE]
                               ELSE sd[q]]
      /\ UNCHANGED <<mirror, file, meta, metaTmp, extracted, clock>>
  BY DEF Create, SharesPart
<1>4. part' \in [Asset -> Content]
  BY <1>2, AbsentIsContent DEF Create, Sane, SdiTypeOK
<1>5. ASSUME NEW q \in Proc \ {p} PROVE Touched(sd[q], sd'[q], s)
  <2>1. CASE q \in SharesPart(p)
    <3>1. sd[q] \in SdiFrame /\ sd[q].pc = "receive" /\ sd[q].asset = s.asset
      BY <2>1, SaneFrames DEF SharesPart, Downloads
    <3>2. sd'[q] = [sd[q] EXCEPT !.shared = TRUE]
      BY <1>3, <2>1
    <3> HIDE DEF s
    <3> QED BY <1>1, <3>1, <3>2 DEF Touched, SdiFrame, Fetching
  <2>2. CASE q \notin SharesPart(p)
    BY <1>3, <2>2 DEF Touched
  <2> QED BY <2>1, <2>2
<1> HIDE DEF b
<1>6. b \in BOOLEAN
  BY DEF b
<1>7. Follows(s, u)
  <2>1. u = [s EXCEPT !.pc = "receive", !.got = s.got, !.handle = "part", !.shared = b]
    BY <1>1 DEF Sound, SdiFrame
  <2> HIDE DEF u, s
  <2> QED BY <1>1, <1>2, <1>6, <2>1, GoesOn DEF Fetching, Handle
<1>8. sd' = [q \in Proc |-> IF q = p THEN u ELSE sd'[q]]
  BY <1>3
<1> HIDE DEF u
<1> QED BY <1>1, <1>3, <1>4, <1>5, <1>7, <1>8, Loud DEF Fetching, Sane, SdiTypeOK

\* The body has come.
LEMMA StepReceive ==
  ASSUME Sane, NEW p \in Proc, Receive(p) PROVE Sane' /\ Effects(p)
<1> DEFINE s == sd[p]
           u == [s EXCEPT !.pc = "rename", !.handle = "none", !.shared = FALSE]
<1>1. Sound(s) /\ s.pc = "receive"
  BY SaneFrames DEF Receive, SdiAt
<1>2. s.asset \in Asset /\ s.got \in Content
  BY <1>1 DEF Sound, SdiFrame, Fetching
<1>3. sd' = [sd EXCEPT ![p] = u] /\ UNCHANGED <<mirror, meta, metaTmp, extracted, clock>>
  BY DEF Receive
<1>4. file' \in [Asset -> Content] /\ part' \in [Asset -> Content]
  <2>1. PICK c \in {s.got, Torn} :
          /\ part' = IF s.handle = "part" THEN [part EXCEPT ![s.asset] = c] ELSE part
          /\ file' = IF s.handle = "final" THEN [file EXCEPT ![s.asset] = c] ELSE file
    BY DEF Receive
  <2> QED BY <1>2, <2>1, AbsentIsContent DEF Sane, SdiTypeOK
<1>5. /\ sd' = [q \in Proc |-> IF q = p THEN u ELSE sd'[q]]
      /\ \A q \in Proc \ {p} : Touched(sd[q], sd'[q], s)
  BY <1>3 DEF Sane, SdiTypeOK, Touched
<1>6. Follows(s, u)
  <2>1. u = [s EXCEPT !.pc = "rename", !.got = s.got, !.handle = "none", !.shared = FALSE]
    BY <1>1 DEF Sound, SdiFrame
  <2> HIDE DEF u, s
  <2> QED BY <1>1, <1>2, <2>1, GoesOn DEF Fetching, Handle
<1> HIDE DEF u
<1> QED BY <1>1, <1>3, <1>4, <1>5, <1>6, Loud DEF Fetching, Sane, SdiTypeOK

\* The download gets its name.
LEMMA StepRename ==
  ASSUME Sane, NEW p \in Proc, Rename(p) PROVE Sane' /\ Effects(p)
<1> DEFINE s == sd[p]
           next == IF s.asset \in Pack THEN "register" ELSE "next"
           u == [s EXCEPT !.pc = next, !.got = Absent]
<1>1. Sound(s) /\ s.pc = "rename"
  BY SaneFrames DEF Rename, SdiAt
<1>2. s.asset \in Asset /\ s.handle \in Handle /\ s.shared \in BOOLEAN
  BY <1>1 DEF Sound, SdiFrame, Fetching
<1>3. sd' = [q \in Proc |-> CASE q = p -> u
               [] q # p /\ Downloads(q, s.asset) -> [sd[q] EXCEPT !.handle = Renamed[sd[q].handle]]
               [] OTHER -> sd[q]]
  BY DEF Rename, Redirect
<1>4. UNCHANGED <<mirror, meta, metaTmp, extracted, clock>>
  BY DEF Rename
<1>5. file' \in [Asset -> Content] /\ part' \in [Asset -> Content]
  BY <1>2, AbsentIsContent DEF Rename, Sane, SdiTypeOK
<1>6. Follows(s, u)
  <2>1. u = [s EXCEPT !.pc = next, !.got = Absent, !.handle = s.handle, !.shared = s.shared]
    BY <1>1 DEF Sound, SdiFrame
  <2> HIDE DEF u, s
  <2> QED BY <1>1, <1>2, <2>1, GoesOn, AbsentIsContent DEF Fetching
<1> HIDE DEF u
<1>7. ASSUME NEW q \in Proc \ {p} PROVE Touched(sd[q], sd'[q], sd[p])
  <2>1. CASE Downloads(q, s.asset)
    BY <1>1, <1>3, <2>1, Redirected, HandleMaps DEF Downloads, Fetching
  <2>2. CASE ~Downloads(q, s.asset)
    BY <1>3, <2>2 DEF Touched
  <2> QED BY <2>1, <2>2
<1>8. sd' = [q \in Proc |-> IF q = p THEN u ELSE sd'[q]]
  BY <1>3
<1> QED BY <1>1, <1>4, <1>5, <1>6, <1>7, <1>8, Loud DEF Fetching, Sane, SdiTypeOK

\* The oldest pack goes.
LEMMA StepEvict ==
  ASSUME Sane, NEW p \in Proc, Evict(p) PROVE Sane' /\ Effects(p)
<1> DEFINE s == sd[p]
           rest(k) == [s.meta EXCEPT !.packs[k] = None]
           left(k) == s.running - s.meta.packs[k].size
           stop(k) == left(k) <= s.call.budget \/ Listed(rest(k)) = {}
           save(k) == [s EXCEPT !.running = left(k), !.pc = "saveCreate", !.meta = rest(k),
                                !.after = "done"]
           more(k) == [s EXCEPT !.running = left(k), !.meta = rest(k)]
<1>1. Sound(s) /\ s.pc = "evict"
  BY SaneFrames DEF Evict, SdiAt
<1>2. PICK k \in Oldest(s.meta) :
        /\ file' = [file EXCEPT ![k] = Absent]
        /\ sd' = [sd EXCEPT ![p] = IF stop(k) THEN save(k) ELSE more(k)]
  BY DEF Evict, Saving
<1>3. UNCHANGED <<mirror, part, meta, metaTmp, extracted, clock>>
  BY DEF Evict
<1>4. k \in Pack /\ k \in Listed(s.meta) /\ s.meta \in Metadata
  BY <1>1, <1>2 DEF Oldest, Listed, Sound, SdiFrame
<1>5. file' \in [Asset -> Content]
  BY <1>2, <1>4, AbsentIsContent DEF Sane, SdiTypeOK, Asset
<1>6. rest(k) \in Metadata
  BY <1>4 DEF Metadata
<1>7. left(k) = Total(rest(k)) /\ left(k) \in Nat
  <2>1. Total(s.meta) = s.meta.packs[k].size + Total(rest(k)) /\ Total(rest(k)) \in Nat
    BY <1>4, <1>6, TotalTakes
  <2>2. s.meta.packs[k].size \in Nat
    BY <1>4 DEF Listed, Metadata, PackMeta
  <2>3. s.running = Total(s.meta)
    BY <1>1 DEF Sound
  <2> HIDE DEF rest, s
  <2> QED BY <2>1, <2>2, <2>3
<1>8. s.call.op = "clean" /\ s.call \in SdiCalls /\ s.call.budget \in Nat
  BY <1>1, SdiCallsAssumption DEF Sound, SdiCall
<1> DEFINE v == left(k)
           m == rest(k)
           a == [s EXCEPT !.running = v, !.pc = "saveCreate", !.meta = m, !.after = "done"]
           c == [s EXCEPT !.running = v, !.meta = m]
<1>9. v = Total(m) /\ v \in Nat /\ m \in Metadata
  BY <1>6, <1>7
<1>10. sd' = [sd EXCEPT ![p] = a] \/ (sd' = [sd EXCEPT ![p] = c] /\ ~(v <= s.call.budget))
  BY <1>2
<1> HIDE DEF s, v, m, rest, left, stop, save, more
<1>11. Follows(s, a)
  <2>1. a \in SdiFrame
    BY <1>1, <1>9 DEF Sound, SdiFrame, SdiPc
  <2>2. /\ a.pc = "saveCreate" /\ a.call = s.call /\ a.met = s.met /\ a.outcome = s.outcome
        /\ a.after = "done"
    BY <1>1 DEF Sound, SdiFrame
  <2> HIDE DEF a
  <2> QED BY <1>1, <1>8, <2>1, <2>2 DEF Follows, Sound, SavePc, Fetching
<1>12. ASSUME ~(v <= s.call.budget) PROVE Follows(s, c)
  <2>1. c \in SdiFrame
    BY <1>1, <1>9 DEF Sound, SdiFrame
  <2>2. /\ c.pc = "evict" /\ c.call = s.call /\ c.met = s.met /\ c.outcome = s.outcome
        /\ c.running = v /\ c.meta = m
    BY <1>1 DEF Sound, SdiFrame
  <2>3. v > s.call.budget
    BY <1>8, <1>9, <1>12
  <2> HIDE DEF c
  <2> QED BY <1>1, <1>8, <1>9, <2>1, <2>2, <2>3 DEF Follows, Sound, SavePc, Fetching
<1>13. ASSUME NEW u, Follows(s, u), sd' = [sd EXCEPT ![p] = u] PROVE Sane' /\ Effects(p)
  <2>1. /\ sd' = [q \in Proc |-> IF q = p THEN u ELSE sd'[q]]
        /\ \A q \in Proc \ {p} : Touched(sd[q], sd'[q], sd[p])
    BY <1>13 DEF Sane, SdiTypeOK, Touched
  <2> QED BY <1>1, <1>3, <1>5, <1>13, <2>1, Loud DEF s, Fetching, Sane, SdiTypeOK
<1> HIDE DEF a, c
<1> QED BY <1>10, <1>11, <1>12, <1>13

\* An entry of a pack is extracted.
LEMMA StepExtractEntry ==
  ASSUME Sane, NEW p \in Proc, ExtractEntry(p) PROVE Sane' /\ Effects(p)
<1> DEFINE s == sd[p]
<1>1. Sound(s) /\ s.pc = "extract"
  BY SaneFrames DEF ExtractEntry, SdiAt
<1>2. UNCHANGED <<mirror, file, part, meta, metaTmp, clock, sd>>
  BY DEF ExtractEntry
<1>3. s.asset \in Pack
  BY <1>1 DEF Sound
<1>4. extracted' \in [Pack -> SUBSET Entry]
  BY <1>3 DEF ExtractEntry, Sane, SdiTypeOK
<1>5. /\ sd' = [q \in Proc |-> IF q = p THEN s ELSE sd'[q]]
      /\ \A q \in Proc \ {p} : Touched(sd[q], sd'[q], s)
  BY <1>2 DEF Sane, SdiTypeOK, Touched
<1>6. Follows(s, s)
  BY <1>1 DEF Follows
<1> QED BY <1>1, <1>2, <1>4, <1>5, <1>6, Loud DEF Sane, SdiTypeOK

\* Every step of an invocation.
LEMMA Steps ==
  ASSUME Sane, NEW p \in Proc, SdiStep(p)
  PROVE  Sane' /\ Effects(p)
  BY StepLoadRefresh, StepLoadPrefetch, StepLoadNested, StepReload, StepLoadClean, StepLoadTier,
     StepSaveCreate, StepSaveWrite, StepSaveRename, StepSaveRenameFails, StepSaveWriteFails,
     StepGet, StepGetFails, StepCreate, StepCreateFails, StepReceive, StepReceiveFails,
     StepRename, StepRenameFails, StepManifest, StepManifestFails, StepNextIndex,
     StepRecordRefresh, StepPackManifest, StepPackManifestFails, StepNextPack, StepPrefetchEnd,
     StepRegister, StepRegisterFails, StepAutoRegister, StepAutoRegisterFails,
     StepAutoRegistered, StepEvict, StepEvictFails, StepPickCached, StepPickNothing,
     StepExtractEntry, StepExtracted, StepExtractFails, Zenon
  DEF SdiStep

\* What a beginning, or a pack put there, makes of the frame s of a bystander.
Greeted(s, t) ==
  \/ t = s
  \/ /\ s.pc \notin {"idle", "done", "killed"}
     /\ t = [s EXCEPT !.met = t.met]
     /\ s.met \subseteq t.met /\ t.met \subseteq SdiOp \cup {"place"} /\ t.met # {}

\* A sound frame stays sound when it meets somebody.
LEMMA GreetedSound ==
  ASSUME NEW s, NEW t, Sound(s), Greeted(s, t)
  PROVE  Sound(t)
<1>1. CASE t = s
  BY <1>1
<1>2. ASSUME t # s PROVE Sound(t)
  <2> DEFINE m == t.met
  <2>1. t = [s EXCEPT !.met = m] /\ m \in SUBSET (SdiOp \cup {"place"}) /\ s.pc # "idle"
    BY <1>2 DEF Greeted
  <2> HIDE DEF m
  <2>2. t \in SdiFrame
    BY <2>1 DEF Sound, SdiFrame
  <2>3. /\ t.pc = s.pc /\ t.call = s.call /\ t.asset = s.asset
        /\ t.todo = s.todo /\ t.outcome = s.outcome /\ t.after = s.after
        /\ t.meta = s.meta /\ t.running = s.running
    BY <2>1 DEF Sound, SdiFrame
  <2> QED BY <2>1, <2>2, <2>3 DEF Sound
<1> QED BY <1>1, <1>2

\* What a command finds and does when it is started.
Begins(p) ==
  /\ UNCHANGED <<mirror, diskVars, clock>>
  /\ sd[p].pc = "idle"
  /\ sd'[p].pc \in {"load", "done"} /\ sd'[p].call \in SdiCalls /\ sd'[p].outcome = "none"
  /\ sd'[p].met = {sd[q].call.op : q \in {r \in Proc : Busy(r)}}
  /\ \A q \in Proc \ {p} : Greeted(sd[q], sd'[q])
  /\ Busy(p)' => \A q \in Proc \ {p} : Busy(q) => sd'[p].call.op \in sd'[q].met

\* The beginning of a command.
LEMMA Beginning ==
  ASSUME Sane, NEW p \in Proc, StartSdi(p)
  PROVE  Sane' /\ Begins(p)
<1> DEFINE ops == {sd[q].call.op : q \in {r \in Proc : Busy(r)}}
           skip(c) == c.offline /\ c.op \in {"refresh", "prefetch"}
           mine(c) == [IdleSdi EXCEPT !.pc = IF skip(c) THEN "done" ELSE "load", !.call = c,
                                      !.met = ops]
<1>1. PICK c \in SdiCalls :
        sd' = [q \in Proc |-> CASE q = p -> mine(c)
                                [] q # p /\ Busy(q) /\ ~skip(c) -> [sd[q] EXCEPT !.met = @ \cup {c.op}]
                                [] OTHER -> sd[q]]
  BY DEF StartSdi
<1>2. sd[p].pc = "idle" /\ UNCHANGED <<mirror, diskVars, clock>>
  BY DEF StartSdi, SdiAt
<1>3. c.op \in SdiOp
  BY SdiCallsAssumption DEF SdiCall
<1>4. ops \subseteq SdiOp
  <2>1. ASSUME NEW q \in Proc, Busy(q) PROVE sd[q].call.op \in SdiOp
    <3>1. sd[q].call \in SdiCalls
      BY <2>1, SaneFrames DEF Busy, Sound
    <3> QED BY <3>1, SdiCallsAssumption DEF SdiCall
  <2> QED BY <2>1
<1> DEFINE k == IF skip(c) THEN "done" ELSE "load"
           u == [IdleSdi EXCEPT !.pc = k, !.call = c, !.met = ops]
<1>5. sd'[p] = u /\ k \in {"load", "done"} /\ (k = "load" => ~skip(c))
  BY <1>1
<1> HIDE DEF ops, k, skip
<1>6. Default \in Metadata
  BY SdiAssumption DEF Metadata, Default
<1>7. u \in SdiFrame
  <2>1. k \in SdiPc /\ "done" \in SdiPc /\ "none" \in Handle /\ 0 \in 0..MaxVersion
    BY <1>5, SdiAssumption DEF SdiPc, Handle
  <2>2. "idle" \in SdiPc
    BY DEF SdiPc
  <2>3. IdleSdi \in SdiFrame
    BY <1>6, <2>1, <2>2, AbsentIsContent DEF IdleSdi, SdiFrame
  <2> QED BY <1>4, <2>1, <2>3 DEF SdiFrame
<1>8. u.pc = k /\ u.call = c /\ u.met = ops /\ u.outcome = "none"
  BY DEF IdleSdi
<1> HIDE DEF u
<1>9. Sound(u)
  BY <1>5, <1>7, <1>8 DEF Sound, SavePc, Fetching
<1>10. ASSUME NEW q \in Proc \ {p}
       PROVE  /\ Greeted(sd[q], sd'[q])
              /\ ~skip(c) /\ Busy(q) => c.op \in sd'[q].met
  <2>1. sd[q] \in SdiFrame
    BY SaneFrames
  <2>2. CASE Busy(q) /\ ~skip(c)
    <3> DEFINE m == sd[q].met \cup {c.op}
    <3>1. sd'[q] = [sd[q] EXCEPT !.met = m]
      BY <1>1, <2>2
    <3>2. m \subseteq SdiOp \cup {"place"} /\ m # {} /\ sd[q].met \subseteq m /\ c.op \in m
      BY <1>3, <2>1 DEF SdiFrame
    <3> HIDE DEF m
    <3>3. sd'[q].met = m
      BY <2>1, <3>1 DEF SdiFrame
    <3> QED BY <2>2, <3>1, <3>2, <3>3 DEF Greeted, Busy
  <2>3. CASE ~(Busy(q) /\ ~skip(c))
    BY <1>1, <2>3 DEF Greeted
  <2> QED BY <2>2, <2>3
<1>11. \A q \in Proc : Sound(sd'[q])
  BY <1>5, <1>9, <1>10, SaneFrames, GreetedSound
<1>12. SdiTypeOK'
  <2>1. \A q \in Proc : sd'[q] \in SdiFrame
    BY <1>11 DEF Sound
  <2>2. sd' = [q \in Proc |-> sd'[q]]
    BY <1>1
  <2>3. sd' \in [Proc -> SdiFrame]
    BY <2>1, <2>2
  <2> QED BY <1>2, <2>3 DEF Sane, SdiTypeOK, diskVars
<1> QED BY <1>2, <1>5, <1>8, <1>10, <1>11, <1>12 DEF Sane, Begins, Busy, ops

\* What a kill does.
Dies(p) ==
  /\ Busy(p) /\ UNCHANGED <<mirror, diskVars, clock>>
  /\ sd'[p].pc = "killed" /\ sd'[p].call = sd[p].call /\ sd'[p].met = sd[p].met
  /\ sd'[p].outcome = "none"
  /\ \A q \in Proc \ {p} : sd'[q] = sd[q]

\* A kill.
LEMMA Killing ==
  ASSUME Sane, NEW p \in Proc, KillSdi(p)
  PROVE  Sane' /\ Dies(p)
<1> DEFINE s == sd[p]
           u == [s EXCEPT !.pc = "killed", !.handle = "none"]
<1>1. Sound(s) /\ s.pc \notin {"idle", "done", "killed"} /\ s \in SdiFrame
  BY SaneFrames DEF KillSdi, Busy
<1>2. sd' = [sd EXCEPT ![p] = u] /\ UNCHANGED <<mirror, file, part, meta, metaTmp, extracted, clock>>
  BY DEF KillSdi, SdiQuietly, diskVars
<1>3. sd'[p] = u /\ \A q \in Proc \ {p} : sd'[q] = sd[q]
  BY <1>2 DEF Sane, SdiTypeOK
<1> HIDE DEF s
<1>4. u \in SdiFrame
  <2>1. "killed" \in SdiPc /\ "none" \in Handle
    BY DEF SdiPc, Handle
  <2> QED BY <1>1, <2>1 DEF SdiFrame
<1>5. /\ u.pc = "killed" /\ u.call = s.call /\ u.met = s.met /\ u.outcome = "none"
      /\ s.call \in SdiCalls
  BY <1>1 DEF Sound, SdiFrame
<1> HIDE DEF u
<1>6. Sound(u)
  BY <1>4, <1>5 DEF Sound, SavePc, Fetching
<1>7. Sane'
  BY <1>2, <1>3, <1>4, <1>6 DEF Sane, SdiTypeOK
<1> QED BY <1>1, <1>2, <1>3, <1>5, <1>7 DEF Dies, s, Busy, diskVars

\* What a technician does.
Places ==
  /\ UNCHANGED <<mirror, part, meta, metaTmp, extracted, clock>>
  /\ \A a \in Asset : file'[a] # file[a] => file'[a] = 1
  /\ \A q \in Proc : Greeted(sd[q], sd'[q]) /\ (Busy(q) => sd'[q].met # {})

\* A pack is put there.
LEMMA Placing ==
  ASSUME Sane, PlacePack
  PROVE  Sane' /\ Places
<1>1. PICK k \in Pack : file' = [file EXCEPT ![k] = 1]
  BY DEF PlacePack
<1>2. /\ UNCHANGED <<mirror, part, meta, metaTmp, extracted, clock>>
      /\ sd' = [q \in Proc |-> IF Busy(q) THEN [sd[q] EXCEPT !.met = @ \cup {"place"}] ELSE sd[q]]
  BY DEF PlacePack
<1>3. ASSUME NEW q \in Proc PROVE Greeted(sd[q], sd'[q]) /\ (Busy(q) => sd'[q].met # {})
  <2>1. sd[q] \in SdiFrame
    BY SaneFrames
  <2>2. CASE Busy(q)
    <3> DEFINE m == sd[q].met \cup {"place"}
    <3>1. sd'[q] = [sd[q] EXCEPT !.met = m]
      BY <1>2, <2>2
    <3>2. m \subseteq SdiOp \cup {"place"} /\ m # {} /\ sd[q].met \subseteq m
      BY <2>1 DEF SdiFrame
    <3> HIDE DEF m
    <3>3. sd'[q].met = m
      BY <2>1, <3>1 DEF SdiFrame
    <3> QED BY <2>2, <3>1, <3>2, <3>3 DEF Greeted, Busy
  <2>3. CASE ~Busy(q)
    BY <1>2, <2>3 DEF Greeted
  <2> QED BY <2>2, <2>3
<1>4. \A q \in Proc : Sound(sd'[q])
  BY <1>3, SaneFrames, GreetedSound
<1>5. file' \in [Asset -> Content] /\ \A a \in Asset : file'[a] # file[a] => file'[a] = 1
  <2>1. 1 \in Content
    BY SdiAssumption DEF Content, Torn, Absent
  <2> QED BY <1>1, <2>1 DEF Sane, SdiTypeOK
<1>6. sd' \in [Proc -> SdiFrame]
  BY <1>2, <1>4 DEF Sound
<1> QED BY <1>2, <1>3, <1>4, <1>5, <1>6 DEF Sane, SdiTypeOK, Places

\* The mirror publishes.
LEMMA Publishing ==
  ASSUME Sane, Publish
  PROVE  Sane' /\ UNCHANGED <<diskVars, sd>>
<1>1. mirror' \in 1..MaxVersion /\ UNCHANGED <<file, part, meta, metaTmp, extracted, clock, sd>>
  BY SdiAssumption DEF Publish, Sane, SdiTypeOK, diskVars
<1> QED BY <1>1 DEF Sane, SdiTypeOK, diskVars

\* Nothing happens.
LEMMA Stuttering ==
  ASSUME Sane, UNCHANGED sdiVars
  PROVE  Sane' /\ UNCHANGED <<diskVars, sd>>
  BY DEF Sane, SdiTypeOK, sdiVars, diskVars

-----------------------------------------------------------------------------
(* Who is at work with whom.                                               *)

\* A step is one of these.
LEMMA Moves ==
  ASSUME Sane, [SdiNext]_sdiVars
  PROVE  /\ Sane'
         /\ \/ \E p \in Proc : SdiStep(p) /\ Effects(p)
            \/ \E p \in Proc : Begins(p)
            \/ \E p \in Proc : Dies(p)
            \/ Places
            \/ UNCHANGED <<diskVars, sd>>
<1>1. CASE \E p \in Proc : SdiStep(p)
  BY <1>1, Steps
<1>2. CASE \E p \in Proc : StartSdi(p)
  BY <1>2, Beginning
<1>3. CASE \E p \in Proc : KillSdi(p)
  BY <1>3, Killing
<1>4. CASE PlacePack
  BY <1>4, Placing
<1>5. CASE Publish
  BY <1>5, Publishing
<1>6. CASE UNCHANGED sdiVars
  BY <1>6, Stuttering
<1> QED BY <1>1, <1>2, <1>3, <1>4, <1>5, <1>6 DEF SdiNext

\* What a step of another invocation leaves as it is.
LEMMA TouchedKeeps ==
  ASSUME NEW s \in SdiFrame, NEW t, NEW r, Touched(s, t, r)
  PROVE  /\ t.pc = s.pc /\ t.call = s.call /\ t.met = s.met /\ t.asset = s.asset
         /\ t.meta = s.meta /\ t.todo = s.todo /\ t.failed = s.failed /\ t.outcome = s.outcome
         /\ t.version = s.version
  BY DEF Touched, SdiFrame

\* What a greeting leaves as it is.
LEMMA GreetedKeeps ==
  ASSUME NEW s \in SdiFrame, NEW t, Greeted(s, t)
  PROVE  /\ t.pc = s.pc /\ t.call = s.call /\ s.met \subseteq t.met /\ t.asset = s.asset
         /\ t.meta = s.meta /\ t.todo = s.todo /\ t.failed = s.failed /\ t.outcome = s.outcome
         /\ t.version = s.version /\ t.handle = s.handle /\ t.shared = s.shared
  BY DEF Greeted, SdiFrame

\* A command line stays what it is, and nobody who was met is forgotten.
LEMMA CallsStay ==
  ASSUME Sane, [SdiNext]_sdiVars, NEW q \in Proc, sd[q].pc # "idle"
  PROVE  sd'[q].call = sd[q].call /\ sd[q].met \subseteq sd'[q].met /\ sd'[q].pc # "idle"
<1>1. sd[q] \in SdiFrame /\ Sound(sd[q])
  BY SaneFrames
<1>2. ASSUME NEW p \in Proc, Effects(p)
      PROVE  sd'[q].call = sd[q].call /\ sd[q].met \subseteq sd'[q].met /\ sd'[q].pc # "idle"
  <2>1. CASE q = p
    <3>1. sd'[q].call # None
      BY <1>1, <1>2, <2>1, NoneAssumption DEF Effects, Follows, Sound
    <3> QED BY <1>2, <2>1, <3>1 DEF Effects, Follows, Sound
  <2>2. CASE q # p
    <3>1. Touched(sd[q], sd'[q], sd[p])
      BY <1>2, <2>2 DEF Effects
    <3> QED BY <1>1, <3>1, TouchedKeeps
  <2> QED BY <2>1, <2>2
<1>3. ASSUME NEW p \in Proc, Begins(p)
      PROVE  sd'[q].call = sd[q].call /\ sd[q].met \subseteq sd'[q].met /\ sd'[q].pc # "idle"
  <2>1. Greeted(sd[q], sd'[q])
    BY <1>3 DEF Begins
  <2> QED BY <1>1, <2>1, GreetedKeeps
<1>4. ASSUME NEW p \in Proc, Dies(p)
      PROVE  sd'[q].call = sd[q].call /\ sd[q].met \subseteq sd'[q].met /\ sd'[q].pc # "idle"
  BY <1>4 DEF Dies
<1>5. ASSUME Places
      PROVE  sd'[q].call = sd[q].call /\ sd[q].met \subseteq sd'[q].met /\ sd'[q].pc # "idle"
  <2>1. Greeted(sd[q], sd'[q])
    BY <1>5 DEF Places
  <2> QED BY <1>1, <2>1, GreetedKeeps
<1>6. CASE UNCHANGED <<diskVars, sd>>
  BY <1>6
<1> QED BY <1>2, <1>3, <1>4, <1>5, <1>6, Moves

\* What was raced stays raced.
LEMMA RacedStays ==
  ASSUME Sane, [SdiNext]_sdiVars, NEW ops, Raced(ops)
  PROVE  Raced(ops)'
<1>1. PICK p \in Proc : sd[p].call # None /\ sd[p].call.op \in ops /\ sd[p].met \cap ops # {}
  BY DEF Raced
<1>2. sd[p].pc # "idle"
  BY <1>1, SaneFrames DEF Sound
<1> QED BY <1>1, <1>2, CallsStay DEF Raced

\* Who was not at work comes to be so only by its own beginning.
LEMMA BusyStays ==
  ASSUME Sane, [SdiNext]_sdiVars, NEW q \in Proc, Busy(q)', ~Busy(q)
  PROVE  Begins(q)
<1>1. sd[q] \in SdiFrame
  BY SaneFrames
<1>2. ASSUME NEW p \in Proc, Effects(p) PROVE FALSE
  <2>1. CASE q = p
    BY <1>2, <2>1 DEF Effects, Follows, Busy
  <2>2. CASE q # p
    <3>1. Touched(sd[q], sd'[q], sd[p])
      BY <1>2, <2>2 DEF Effects
    <3> QED BY <1>1, <3>1, TouchedKeeps DEF Busy
  <2> QED BY <2>1, <2>2
<1>3. ASSUME NEW p \in Proc, Begins(p) PROVE p = q
  <2>1. p # q => Greeted(sd[q], sd'[q])
    BY <1>3 DEF Begins
  <2> QED BY <1>1, <2>1, GreetedKeeps DEF Busy
<1>4. ASSUME NEW p \in Proc, Dies(p) PROVE FALSE
  BY <1>4 DEF Dies, Busy
<1>5. ASSUME Places PROVE FALSE
  BY <1>1, <1>5, GreetedKeeps DEF Places, Busy
<1>6. ~UNCHANGED <<diskVars, sd>>
  BY DEF Busy
<1> QED BY <1>2, <1>3, <1>4, <1>5, <1>6, Moves

\* Everybody at work knows of everybody else who is.
LEMMA AcquaintedStays ==
  ASSUME Sane, Acquainted, [SdiNext]_sdiVars
  PROVE  Acquainted'
<1> SUFFICES ASSUME NEW p \in Proc, NEW q \in Proc, p # q, Busy(p)', Busy(q)'
             PROVE  sd'[q].call.op \in sd'[p].met
  BY DEF Acquainted
<1>1. CASE Busy(p) /\ Busy(q)
  <2>1. sd[q].call.op \in sd[p].met /\ sd[p].pc # "idle" /\ sd[q].pc # "idle"
    BY <1>1 DEF Acquainted, Busy
  <2> QED BY <2>1, CallsStay
<1>2. CASE ~Busy(p)
  <2>1. Begins(p)
    BY <1>2, BusyStays
  <2>2. Busy(q) /\ sd[q].pc # "idle"
    <3>1. sd[q] \in SdiFrame /\ Greeted(sd[q], sd'[q])
      BY <2>1, SaneFrames DEF Begins
    <3> QED BY <3>1, GreetedKeeps DEF Busy
  <2> QED BY <2>1, <2>2, CallsStay DEF Begins
<1>3. CASE ~Busy(q) /\ Busy(p)
  <2>1. Begins(q)
    BY <1>3, BusyStays
  <2> QED BY <1>3, <2>1 DEF Begins
<1> QED BY <1>1, <1>2, <1>3

\* While p has met nobody, nothing happens to it or to the disk but by p itself.
LEMMA Loners ==
  ASSUME Sane, Acquainted, [SdiNext]_sdiVars, NEW p \in Proc, Busy(p)', Alone(p)'
  PROVE  \/ SdiStep(p) /\ Effects(p) /\ Alone(p)
         \/ sd'[p].pc = "load"
         \/ UNCHANGED diskVars /\ sd'[p] = sd[p] /\ Alone(p) /\ Busy(p)
<1>1. sd[p] \in SdiFrame
  BY SaneFrames
<1>2. CASE ~Busy(p)
  BY <1>2, BusyStays DEF Begins, Busy
<1>3. CASE Busy(p)
  <2>1. sd[p].pc # "idle" /\ Alone(p)
    BY <1>3, CallsStay DEF Busy, Alone
  <2>2. ASSUME NEW q \in Proc, SdiStep(q), Effects(q) PROVE SdiStep(p) /\ Effects(p)
    <3>1. ASSUME q # p PROVE FALSE
      <4>1. Busy(q)
        BY <2>2 DEF Effects, Follows, Busy
      <4>2. sd[q].call.op \in sd[p].met
        BY <1>3, <3>1, <4>1 DEF Acquainted
      <4> QED BY <2>1, <4>2 DEF Alone
    <3> QED BY <2>2, <3>1
  <2>3. ASSUME NEW q \in Proc, Begins(q) PROVE UNCHANGED diskVars /\ sd'[p] = sd[p]
    <3>1. q # p
      BY <1>3, <2>3 DEF Begins, Busy
    <3>2. Greeted(sd[p], sd'[p])
      BY <2>3, <3>1 DEF Begins
    <3>3. sd'[p] = sd[p]
      BY <3>2 DEF Greeted, Alone
    <3> QED BY <2>3, <3>3 DEF Begins
  <2>4. ASSUME NEW q \in Proc, Dies(q) PROVE UNCHANGED diskVars /\ sd'[p] = sd[p]
    <3>1. q # p
      BY <2>4 DEF Dies, Busy
    <3> QED BY <2>4, <3>1 DEF Dies
  <2>5. ~Places
    BY <1>3 DEF Places, Alone
  <2> QED BY <1>3, <2>1, <2>2, <2>3, <2>4, <2>5, Moves
<1> QED BY <1>2, <1>3

\* The beginning.
LEMMA StartIsSane == ASSUME SdiStart PROVE Sane /\ Acquainted
<1>1. Default \in Metadata
  BY SdiAssumption DEF Metadata, Default
<1>2. "idle" \in SdiPc /\ "done" \in SdiPc /\ "none" \in Handle /\ 0 \in 0..MaxVersion
  BY SdiAssumption DEF SdiPc, Handle
<1>3. IdleSdi \in SdiFrame
  BY <1>1, <1>2, AbsentIsContent DEF IdleSdi, SdiFrame
<1>4. Sound(IdleSdi)
  BY <1>3 DEF IdleSdi, Sound, SavePc, Fetching
<1>5. \A p \in Proc : sd[p] = IdleSdi
  BY DEF SdiStart, SdiInit
<1>6. SdiTypeOK
  BY <1>3, AbsentIsContent, SdiAssumption DEF SdiTypeOK, SdiStart, SdiInit
<1>7. \A p \in Proc : ~Busy(p)
  BY <1>5 DEF Busy, IdleSdi
<1> QED BY <1>4, <1>5, <1>6, <1>7 DEF Sane, Acquainted

\* Types hold, and every frame is one that commands come to.
THEOREM SdiTypes == SdiSpec => []SdiTypeOK
<1>1. SdiStart => Sane
  BY StartIsSane
<1>2. Sane /\ [SdiNext]_sdiVars => Sane'
  BY Moves
<1>3. Sane => SdiTypeOK
  BY DEF Sane
<1> QED BY <1>1, <1>2, <1>3, PTL DEF SdiSpec

-----------------------------------------------------------------------------
(* metadata.json, and the files.                                           *)

\* The steps of a save, of a download, and of the rest.
LEMMA Whereabouts ==
  ASSUME NEW p \in Proc, SdiStep(p)
  PROVE  /\ sd[p].pc \in SavePc =>
              \/ SaveCreate(p) \/ SaveWrite(p) \/ SaveRename(p) \/ SaveRenameFails(p)
              \/ SaveWriteFails(p)
         /\ sd[p].pc \in Fetching =>
              \/ Get(p) \/ GetFails(p) \/ Create(p) \/ CreateFails(p)
              \/ Receive(p) \/ ReceiveFails(p) \/ Rename(p) \/ RenameFails(p)
         /\ sd[p].pc = "evict" => Evict(p) \/ EvictFails(p)
         /\ sd[p].pc \in {"pick", "extract"} =>
              PickCached(p) \/ PickNothing(p) \/ ExtractEntry(p) \/ Extracted(p) \/ ExtractFails(p)
         /\ sd[p].pc = "load" => LoadRefresh(p) \/ LoadPrefetch(p) \/ LoadClean(p) \/ LoadTier(p)
         /\ sd[p].pc = "autoRegister" =>
              AutoRegister(p) \/ AutoRegisterFails(p) \/ AutoRegistered(p)
         /\ sd[p].pc = "nested" => LoadNested(p)
         /\ sd[p].pc = "reload" => Reload(p)
         /\ sd[p].pc = "manifest" => Manifest(p) \/ ManifestFails(p)
         /\ sd[p].pc = "packManifest" => PackManifest(p) \/ PackManifestFails(p)
         /\ sd[p].pc = "next" => NextIndex(p) \/ RecordRefresh(p) \/ NextPack(p) \/ PrefetchEnd(p)
         /\ sd[p].pc = "register" => Register(p) \/ RegisterFails(p)
<1>1. /\ LoadRefresh(p) => sd[p].pc = "load"
      /\ LoadPrefetch(p) => sd[p].pc = "load"
      /\ LoadNested(p) => sd[p].pc = "nested"
      /\ Reload(p) => sd[p].pc = "reload"
      /\ LoadClean(p) => sd[p].pc = "load"
      /\ LoadTier(p) => sd[p].pc = "load"
  BY DEF LoadRefresh, LoadPrefetch, LoadNested, Reload, LoadClean, LoadTier, SdiAt
<1>2. /\ SaveCreate(p) => sd[p].pc = "saveCreate"
      /\ SaveWrite(p) => sd[p].pc = "saveWrite"
      /\ SaveRename(p) => sd[p].pc = "saveRename"
      /\ SaveRenameFails(p) => sd[p].pc = "saveRename"
      /\ SaveWriteFails(p) => sd[p].pc \in {"saveCreate", "saveWrite"}
  BY DEF SaveCreate, SaveWrite, SaveRename, SaveRenameFails, SaveWriteFails, SdiAt
<1>3. /\ Get(p) => sd[p].pc = "get"
      /\ GetFails(p) => sd[p].pc = "get"
      /\ Create(p) => sd[p].pc = "create"
      /\ CreateFails(p) => sd[p].pc = "create"
      /\ Receive(p) => sd[p].pc = "receive"
      /\ ReceiveFails(p) => sd[p].pc = "receive"
      /\ Rename(p) => sd[p].pc = "rename"
      /\ RenameFails(p) => sd[p].pc = "rename"
  BY DEF Get, GetFails, Create, CreateFails, Receive, ReceiveFails, Rename, RenameFails, SdiAt
<1>4. /\ Manifest(p) => sd[p].pc = "manifest"
      /\ ManifestFails(p) => sd[p].pc = "manifest"
      /\ NextIndex(p) => sd[p].pc = "next"
      /\ RecordRefresh(p) => sd[p].pc = "next"
      /\ PackManifest(p) => sd[p].pc = "packManifest"
      /\ PackManifestFails(p) => sd[p].pc = "packManifest"
      /\ NextPack(p) => sd[p].pc = "next"
      /\ PrefetchEnd(p) => sd[p].pc = "next"
  BY DEF Manifest, ManifestFails, NextIndex, RecordRefresh, PackManifest, PackManifestFails,
         NextPack, PrefetchEnd, SdiAt
<1>5. /\ Register(p) => sd[p].pc = "register"
      /\ RegisterFails(p) => sd[p].pc = "register"
      /\ AutoRegister(p) => sd[p].pc = "autoRegister"
      /\ AutoRegisterFails(p) => sd[p].pc = "autoRegister"
      /\ AutoRegistered(p) => sd[p].pc = "autoRegister"
      /\ Evict(p) => sd[p].pc = "evict"
      /\ EvictFails(p) => sd[p].pc = "evict"
  BY DEF Register, RegisterFails, AutoRegister, AutoRegisterFails, AutoRegistered, Evict,
         EvictFails, SdiAt
<1>6. /\ PickCached(p) => sd[p].pc = "pick"
      /\ PickNothing(p) => sd[p].pc = "pick"
      /\ ExtractEntry(p) => sd[p].pc = "extract"
      /\ Extracted(p) => sd[p].pc = "extract"
      /\ ExtractFails(p) => sd[p].pc = "extract"
  BY DEF PickCached, PickNothing, ExtractEntry, Extracted, ExtractFails, SdiAt
<1> QED BY <1>1, <1>2, <1>3, <1>4, <1>5, <1>6 DEF SdiStep, SavePc, Fetching

\* Of those that are not to race only one is at work.
LEMMA OneAtATime ==
  ASSUME Sane, Acquainted, NEW ops, ~Raced(ops),
         NEW p \in Proc, NEW q \in Proc, Busy(p), Busy(q),
         sd[p].call.op \in ops, sd[q].call.op \in ops
  PROVE  p = q
<1>1. sd[p].call # None
  BY SaneFrames, NoneAssumption DEF Busy, Sound
<1>2. p # q => sd[q].call.op \in sd[p].met
  BY DEF Acquainted
<1> QED BY <1>1, <1>2 DEF Raced

\* What a command at work is.
LEMMA BusyCall ==
  ASSUME Sane, NEW p \in Proc, Busy(p)
  PROVE  /\ sd[p].call \in SdiCalls /\ sd[p].call.op \in SdiOp
         /\ sd[p].pc \in Fetching => sd[p].call.op \in {"refresh", "prefetch"}
         /\ sd[p].pc \in {"pick", "extract"} => sd[p].call.op = "tier"
  BY SaneFrames, SdiCallsAssumption DEF Busy, Sound, SdiCall, Fetching

\* The metadata that can be read is no torn file.
LEMMA MetadataIsWhole == TornFile \notin Metadata /\ NoFile \notin Metadata /\ NoFile # TornFile
<1>1. TornFile.version = -2 /\ NoFile.version = -1
  BY DEF TornFile, NoFile, Default
<1>2. -2 \notin 0..MaxVersion /\ -1 \notin 0..MaxVersion
  BY SdiAssumption
<1> QED BY <1>1, <1>2 DEF Metadata

\* A save by the only command at work.
LEMMA MetaSaves ==
  ASSUME Sane, Acquainted, MetaIInv, ~Raced(SdiOp),
         NEW p \in Proc, SdiStep(p), Effects(p), sd[p].pc \in SavePc
  PROVE  /\ meta' # TornFile
         /\ sd'[p].pc = "saveWrite" => sd'[p].handle = "part" /\ ~sd'[p].shared
         /\ sd'[p].pc = "saveRename" => metaTmp' # TornFile
<1> DEFINE s == sd[p]
<1>1. Sound(s) /\ s \in SdiFrame /\ Busy(p)
  BY SaneFrames DEF Effects, Follows, Busy
<1>2. /\ meta # TornFile
      /\ s.pc = "saveWrite" => s.handle = "part" /\ ~s.shared
      /\ s.pc = "saveRename" => metaTmp # TornFile
  BY DEF MetaIInv, SdiAt
<1>3. s.meta \in Metadata /\ s.meta # TornFile /\ sd \in [Proc -> SdiFrame]
  BY <1>1, MetadataIsWhole DEF SdiFrame, Sane, SdiTypeOK
<1>4. s.after \notin SavePc
  BY <1>1 DEF Sound, SavePc
<1>5. CASE SaveCreate(p)
  <2>1. SharesMeta(p) = {}
    <3>1. ASSUME NEW q \in SharesMeta(p) PROVE FALSE
      <4>1. q \in Proc /\ q # p /\ Busy(q)
        BY <3>1 DEF SharesMeta, WritesMeta, Busy
      <4> QED BY <1>1, <4>1, BusyCall, OneAtATime
    <3> QED BY <3>1
  <2>2. sd'[p] = [s EXCEPT !.pc = "saveWrite", !.handle = "part", !.shared = FALSE]
        /\ UNCHANGED meta
    BY <1>5, <2>1 DEF SaveCreate
  <2> HIDE DEF s
  <2> QED BY <1>1, <1>2, <2>2 DEF SdiFrame
<1>6. CASE SaveWrite(p)
  <2>1. s.pc = "saveWrite"
    BY <1>6 DEF SaveWrite, SdiAt
  <2>2. metaTmp' = s.meta /\ meta' = meta
    BY <1>2, <1>6, <2>1 DEF SaveWrite
  <2>3. sd'[p] = [s EXCEPT !.pc = "saveRename", !.handle = "none", !.shared = FALSE]
    BY <1>3, <1>6 DEF SaveWrite
  <2> HIDE DEF s
  <2> QED BY <1>1, <1>2, <1>3, <2>2, <2>3 DEF SdiFrame
<1>7. ASSUME NEW ok, sd'[p] = AfterSave(p, ok) PROVE sd'[p].pc \notin SavePc
  BY <1>1, <1>4, <1>7 DEF AfterSave, SdiFrame
<1>8. CASE SaveRename(p)
  <2>1. sd'[p] = AfterSave(p, TRUE) /\ meta' = metaTmp /\ s.pc = "saveRename"
    BY <1>8 DEF SaveRename, Redirect, SdiAt
  <2> QED BY <1>2, <1>7, <2>1 DEF SavePc
<1>9. CASE SaveRenameFails(p)
  <2>1. sd'[p] = AfterSave(p, FALSE) /\ meta' = meta
    BY <1>9 DEF SaveRenameFails, Redirect
  <2> QED BY <1>2, <1>7, <2>1 DEF SavePc
<1>10. CASE SaveWriteFails(p)
  <2>1. sd'[p] = AfterSave(p, FALSE) /\ meta' = meta
    BY <1>3, <1>10 DEF SaveWriteFails, diskVars
  <2> QED BY <1>2, <1>7, <2>1 DEF SavePc
<1> QED BY <1>5, <1>6, <1>8, <1>9, <1>10, Whereabouts

\* Every step keeps metadata.json readable.
LEMMA MetaStep ==
  ASSUME Sane, Acquainted, MetaIInv, [SdiNext]_sdiVars
  PROVE  MetaIInv'
<1> SUFFICES ASSUME ~Raced(SdiOp)' PROVE MetaIInv'
  BY DEF MetaIInv
<1>1. ~Raced(SdiOp)
  BY RacedStays
<1>2. /\ meta # TornFile
      /\ \A q \in Proc : /\ sd[q].pc = "saveWrite" => sd[q].handle = "part" /\ ~sd[q].shared
                         /\ sd[q].pc = "saveRename" => metaTmp # TornFile
  BY <1>1 DEF MetaIInv, SdiAt
<1> DEFINE Good(q) == /\ sd'[q].pc = "saveWrite" => sd'[q].handle = "part" /\ ~sd'[q].shared
                      /\ sd'[q].pc = "saveRename" => metaTmp' # TornFile
<1> SUFFICES meta' # TornFile /\ \A q \in Proc : Good(q)
  BY DEF MetaIInv, SdiAt
<1>3. ASSUME NEW q \in Proc, sd'[q] = sd[q], metaTmp' = metaTmp PROVE Good(q)
  BY <1>2, <1>3
<1>4. ASSUME NEW p \in Proc, SdiStep(p), Effects(p)
      PROVE  meta' # TornFile /\ \A q \in Proc : Good(q)
  <2>1. Busy(p)
    BY <1>4 DEF Effects, Follows, Busy
  <2>2. ASSUME NEW q \in Proc, q # p PROVE Good(q)
    <3>1. ~Busy(q)
      BY <1>1, <2>1, <2>2, BusyCall, OneAtATime
    <3>2. sd'[q].pc = sd[q].pc
      BY <1>4, <2>2, SaneFrames, TouchedKeeps DEF Effects
    <3> QED BY <3>1, <3>2 DEF Busy
  <2>3. CASE sd[p].pc \in SavePc
    <3>1. meta' # TornFile /\ Good(p)
      BY <1>1, <1>4, <2>3, MetaSaves
    <3> QED BY <2>2, <3>1
  <2>4. CASE sd[p].pc \notin SavePc
    <3>1. UNCHANGED meta /\ sd'[p].pc \notin {"saveWrite", "saveRename"}
      BY <1>4, <2>4 DEF Effects, Follows
    <3> QED BY <1>2, <2>2, <3>1
  <2> QED BY <2>3, <2>4
<1>5. ASSUME NEW p \in Proc, Begins(p) PROVE meta' # TornFile /\ \A q \in Proc : Good(q)
  <2>1. UNCHANGED <<meta, metaTmp>> /\ Good(p)
    BY <1>5 DEF Begins, diskVars
  <2>2. ASSUME NEW q \in Proc, q # p PROVE Good(q)
    <3>1. /\ sd'[q].pc = sd[q].pc /\ sd'[q].handle = sd[q].handle /\ sd'[q].shared = sd[q].shared
      BY <1>5, <2>2, SaneFrames, GreetedKeeps DEF Begins
    <3> QED BY <1>2, <2>1, <3>1
  <2> QED BY <1>2, <2>1, <2>2
<1>6. ASSUME NEW p \in Proc, Dies(p) PROVE meta' # TornFile /\ \A q \in Proc : Good(q)
  <2>1. UNCHANGED <<meta, metaTmp>> /\ Good(p)
    BY <1>6 DEF Dies, diskVars
  <2>2. ASSUME NEW q \in Proc, q # p PROVE Good(q)
    BY <1>3, <1>6, <2>1, <2>2 DEF Dies
  <2> QED BY <1>2, <2>1, <2>2
<1>7. ASSUME Places PROVE meta' # TornFile /\ \A q \in Proc : Good(q)
  <2>1. UNCHANGED <<meta, metaTmp>>
    BY <1>7 DEF Places
  <2>2. ASSUME NEW q \in Proc PROVE Good(q)
    <3>1. /\ sd'[q].pc = sd[q].pc /\ sd'[q].handle = sd[q].handle /\ sd'[q].shared = sd[q].shared
      BY <1>7, SaneFrames, GreetedKeeps DEF Places
    <3> QED BY <1>2, <2>1, <3>1
  <2> QED BY <1>2, <2>1, <2>2
<1>8. ASSUME UNCHANGED <<diskVars, sd>> PROVE meta' # TornFile /\ \A q \in Proc : Good(q)
  BY <1>2, <1>8 DEF diskVars
<1> HIDE DEF Good
<1> QED BY <1>4, <1>5, <1>6, <1>7, <1>8, Moves

\* As long as no two invocations overlap, nothing leaves a metadata.json that
\* cannot be parsed.
THEOREM MetadataSurvives == SdiSpec => []MetaReadable
<1> DEFINE I == Sane /\ Acquainted /\ MetaIInv
<1>1. SdiStart => I
  <2>1. SdiStart => meta # TornFile /\ \A p \in Proc : sd[p].pc = "idle"
    BY MetadataIsWhole DEF SdiStart, SdiInit, IdleSdi
  <2> QED BY <2>1, StartIsSane DEF MetaIInv, SdiAt
<1>2. I /\ [SdiNext]_sdiVars => I'
  BY Moves, AcquaintedStays, MetaStep
<1>3. I => MetaReadable
  BY DEF MetaIInv, MetaReadable
<1> QED BY <1>1, <1>2, <1>3, PTL DEF SdiSpec

\* A download by the only command that downloads.
LEMMA FilesArrive ==
  ASSUME Sane, Acquainted, FilesIInv, ~Raced({"refresh", "prefetch"}),
         NEW p \in Proc, SdiStep(p), Effects(p), sd[p].pc \in Fetching
  PROVE  /\ \A a \in Asset : file'[a] # Torn
         /\ sd'[p].pc = "receive" => sd'[p].handle = "part" /\ ~sd'[p].shared
         /\ sd'[p].pc = "rename" => part'[sd'[p].asset] # Torn
<1> DEFINE s == sd[p]
           a == s.asset
<1>1. Sound(s) /\ s \in SdiFrame /\ Busy(p) /\ a \in Asset
  BY SaneFrames DEF Effects, Follows, Busy, Sound
<1>2. /\ \A b \in Asset : file[b] # Torn
      /\ s.pc = "receive" => s.handle = "part" /\ ~s.shared
      /\ s.pc = "rename" => part[a] # Torn
  BY DEF FilesIInv, SdiAt
<1>3. sd \in [Proc -> SdiFrame] /\ part \in [Asset -> Content] /\ file \in [Asset -> Content]
  BY DEF Sane, SdiTypeOK
<1>4. CASE Get(p)
  <2>1. PICK c : sd'[p] = [s EXCEPT !.pc = "create", !.got = c]
    BY <1>4 DEF Get, Redirect
  <2>2. sd'[p].pc = "create" /\ file' = file
    BY <1>1, <1>4, <2>1 DEF SdiFrame, Get
  <2> QED BY <1>2, <2>2
<1>5. ASSUME sd'[p] = Missed(p), file' = file
      PROVE  sd'[p].pc = "next" /\ \A b \in Asset : file'[b] # Torn
  BY <1>1, <1>2, <1>5 DEF Missed, SdiFrame
<1>6. CASE GetFails(p) \/ CreateFails(p) \/ ReceiveFails(p) \/ RenameFails(p)
  <2>1. sd'[p] = Missed(p) /\ file' = file
    BY <1>3, <1>6 DEF GetFails, CreateFails, ReceiveFails, RenameFails, SdiQuietly, diskVars,
       Redirect
  <2> QED BY <1>5, <2>1
<1>7. CASE Create(p)
  <2>1. SharesPart(p) = {}
    <3>1. ASSUME NEW q \in SharesPart(p) PROVE FALSE
      <4>1. q \in Proc /\ q # p /\ Busy(q) /\ sd[q].pc \in Fetching
        BY <3>1 DEF SharesPart, Downloads, Busy, Fetching
      <4> QED BY <1>1, <4>1, BusyCall, OneAtATime
    <3> QED BY <3>1
  <2>2. sd'[p] = [s EXCEPT !.pc = "receive", !.handle = "part", !.shared = FALSE]
        /\ file' = file
    BY <1>7, <2>1 DEF Create
  <2> HIDE DEF s
  <2> QED BY <1>1, <1>2, <2>2 DEF SdiFrame
<1>8. CASE Receive(p)
  <2>1. s.pc = "receive" /\ s.got = Declared(p, a)
    BY <1>8 DEF Receive, SdiAt
  <2>2. s.got # Torn
    BY <1>1, <2>1, SdiAssumption DEF SdiFrame, Declared, Torn
  <2>3. part' = [part EXCEPT ![a] = s.got] /\ file' = file
    BY <1>2, <1>8, <2>1 DEF Receive
  <2>4. sd'[p] = [s EXCEPT !.pc = "rename", !.handle = "none", !.shared = FALSE]
    BY <1>3, <1>8 DEF Receive
  <2>5. sd'[p].pc = "rename" /\ sd'[p].asset = a
    BY <1>1, <2>4 DEF SdiFrame
  <2> QED BY <1>1, <1>2, <1>3, <2>2, <2>3, <2>5
<1>9. CASE Rename(p)
  <2>1. s.pc = "rename" /\ file' = [file EXCEPT ![a] = part[a]]
    BY <1>9 DEF Rename, SdiAt
  <2>2. sd'[p] = [s EXCEPT !.pc = IF a \in Pack THEN "register" ELSE "next", !.got = Absent]
    BY <1>9 DEF Rename, Redirect
  <2>3. sd'[p].pc \in {"register", "next"}
    BY <1>1, <2>2 DEF SdiFrame
  <2> QED BY <1>1, <1>2, <1>3, <2>1, <2>3
<1> QED BY <1>4, <1>6, <1>7, <1>8, <1>9, Whereabouts

\* Every step keeps the files whole.
LEMMA FilesStep ==
  ASSUME Sane, Acquainted, FilesIInv, [SdiNext]_sdiVars
  PROVE  FilesIInv'
<1> SUFFICES ASSUME ~Raced({"refresh", "prefetch"})' PROVE FilesIInv'
  BY DEF FilesIInv
<1>1. ~Raced({"refresh", "prefetch"})
  BY RacedStays
<1>2. /\ \A a \in Asset : file[a] # Torn
      /\ \A q \in Proc : /\ sd[q].pc = "receive" => sd[q].handle = "part" /\ ~sd[q].shared
                         /\ sd[q].pc = "rename" => part[sd[q].asset] # Torn
  BY <1>1 DEF FilesIInv, SdiAt
<1> DEFINE Good(q) == /\ sd'[q].pc = "receive" => sd'[q].handle = "part" /\ ~sd'[q].shared
                      /\ sd'[q].pc = "rename" => part'[sd'[q].asset] # Torn
           Whole == \A a \in Asset : file'[a] # Torn
<1> SUFFICES Whole /\ \A q \in Proc : Good(q)
  BY DEF FilesIInv, SdiAt
<1>3. ASSUME NEW q \in Proc, part' = part, sd'[q].pc = sd[q].pc, sd'[q].asset = sd[q].asset,
             sd[q].pc = "receive" => sd'[q].handle = sd[q].handle /\ sd'[q].shared = sd[q].shared
      PROVE Good(q)
  BY <1>2, <1>3
<1>4. ASSUME NEW p \in Proc, SdiStep(p), Effects(p) PROVE Whole /\ \A q \in Proc : Good(q)
  <2>1. Busy(p)
    BY <1>4 DEF Effects, Follows, Busy
  <2>2. ASSUME NEW q \in Proc, q # p
        PROVE  sd'[q].pc = sd[q].pc /\ sd'[q].asset = sd[q].asset /\ Touched(sd[q], sd'[q], sd[p])
    BY <1>4, <2>2, SaneFrames, TouchedKeeps DEF Effects
  <2>3. CASE sd[p].pc \in Fetching
    <3>1. Whole /\ Good(p)
      BY <1>1, <1>4, <2>3, FilesArrive
    <3>2. ASSUME NEW q \in Proc, q # p PROVE Good(q)
      <4>1. sd[q].pc \notin Fetching
        BY <1>1, <2>1, <2>3, <3>2, BusyCall, OneAtATime DEF Busy, Fetching
      <4> QED BY <2>2, <3>2, <4>1 DEF Fetching
    <3> QED BY <3>1, <3>2
  <2>4. CASE sd[p].pc \notin Fetching
    <3>1. UNCHANGED part /\ sd'[p].pc \notin {"receive", "rename"}
      BY <1>4, <2>4 DEF Effects, Follows
    <3>2. ASSUME NEW q \in Proc, q # p PROVE Good(q)
      <4>1. sd[q].pc = "receive" => sd'[q] = sd[q]
        BY <2>2, <2>4, <3>2 DEF Touched
      <4> QED BY <1>3, <2>2, <3>1, <3>2, <4>1
    <3>3. Whole
      <4>1. CASE sd[p].pc = "evict"
        <5>1. file' = file \/ \E k \in Pack : file' = [file EXCEPT ![k] = Absent]
          BY <1>4, <4>1, Whereabouts DEF Evict, EvictFails, SdiEnd, SdiQuietly, diskVars, Oldest, Listed
        <5>2. Absent # Torn
          BY SdiAssumption DEF Absent, Torn
        <5> QED BY <1>2, <5>1, <5>2 DEF Sane, SdiTypeOK
      <4>2. CASE sd[p].pc # "evict"
        BY <1>2, <1>4, <2>4, <4>2 DEF Effects
      <4> QED BY <4>1, <4>2
    <3> QED BY <3>1, <3>2, <3>3
  <2> QED BY <2>3, <2>4
<1>5. ASSUME NEW p \in Proc, Begins(p) PROVE Whole /\ \A q \in Proc : Good(q)
  <2>1. UNCHANGED <<file, part>> /\ Good(p)
    BY <1>5 DEF Begins, diskVars
  <2>2. ASSUME NEW q \in Proc, q # p PROVE Good(q)
    <3>1. /\ sd'[q].pc = sd[q].pc /\ sd'[q].handle = sd[q].handle /\ sd'[q].shared = sd[q].shared
          /\ sd'[q].asset = sd[q].asset
      BY <1>5, <2>2, SaneFrames, GreetedKeeps DEF Begins
    <3> QED BY <1>3, <2>1, <3>1
  <2> QED BY <1>2, <2>1, <2>2
<1>6. ASSUME NEW p \in Proc, Dies(p) PROVE Whole /\ \A q \in Proc : Good(q)
  <2>1. UNCHANGED <<file, part>> /\ Good(p)
    BY <1>6 DEF Dies, diskVars
  <2>2. ASSUME NEW q \in Proc, q # p PROVE Good(q)
    BY <1>3, <1>6, <2>1, <2>2 DEF Dies
  <2> QED BY <1>2, <2>1, <2>2
<1>7. ASSUME Places PROVE Whole /\ \A q \in Proc : Good(q)
  <2>1. UNCHANGED part
    BY <1>7 DEF Places
  <2>2. ASSUME NEW q \in Proc PROVE Good(q)
    <3>1. /\ sd'[q].pc = sd[q].pc /\ sd'[q].handle = sd[q].handle /\ sd'[q].shared = sd[q].shared
          /\ sd'[q].asset = sd[q].asset
      BY <1>7, SaneFrames, GreetedKeeps DEF Places
    <3> QED BY <1>3, <2>1, <3>1
  <2>3. 1 # Torn
    BY SdiAssumption DEF Torn
  <2>4. Whole
    BY <1>2, <1>7, <2>3 DEF Places
  <2> QED BY <2>2, <2>4
<1>8. ASSUME UNCHANGED <<diskVars, sd>> PROVE Whole /\ \A q \in Proc : Good(q)
  BY <1>2, <1>8 DEF diskVars
<1> HIDE DEF Good, Whole
<1> QED BY <1>4, <1>5, <1>6, <1>7, <1>8, Moves

\* As long as no two downloads overlap, a file under a final name is whole.
THEOREM FilesAreWhole == SdiSpec => []WholeFiles
<1> DEFINE I == Sane /\ Acquainted /\ FilesIInv
<1>1. SdiStart => I
  <2>1. SdiStart => (\A a \in Asset : file[a] # Torn) /\ \A p \in Proc : sd[p].pc = "idle"
    BY DEF SdiStart, SdiInit, IdleSdi
  <2> QED BY <2>1, StartIsSane DEF FilesIInv, SdiAt
<1>2. I /\ [SdiNext]_sdiVars => I'
  BY Moves, AcquaintedStays, FilesStep
<1>3. I => WholeFiles
  BY DEF FilesIInv, WholeFiles
<1> QED BY <1>1, <1>2, <1>3, PTL DEF SdiSpec

-----------------------------------------------------------------------------
(* The extracted driver directories.                                       *)

\* What broke off stays so.
LEMMA ExcusesStay ==
  ASSUME Sane, [SdiNext]_sdiVars, Excused
  PROVE  Excused'
<1>1. PICK q \in Proc : sd[q].pc = "killed" \/ sd[q].outcome = "error"
  BY DEF Excused
<1>2. sd[q].pc \in {"killed", "done"} /\ sd[q] \in SdiFrame
  BY <1>1, SaneFrames DEF Sound
<1> SUFFICES sd'[q].pc = sd[q].pc /\ sd'[q].outcome = sd[q].outcome
  BY <1>1 DEF Excused
<1>3. ASSUME NEW p \in Proc, Effects(p)
      PROVE  sd'[q].pc = sd[q].pc /\ sd'[q].outcome = sd[q].outcome
  <2>1. p # q
    BY <1>2, <1>3 DEF Effects, Follows
  <2>2. Touched(sd[q], sd'[q], sd[p])
    BY <1>3, <2>1 DEF Effects
  <2> QED BY <1>2, <2>2, TouchedKeeps
<1>4. ASSUME NEW p \in Proc, Begins(p)
      PROVE  sd'[q].pc = sd[q].pc /\ sd'[q].outcome = sd[q].outcome
  <2>1. Greeted(sd[q], sd'[q])
    BY <1>2, <1>4 DEF Begins
  <2> QED BY <1>2, <2>1, GreetedKeeps
<1>5. ASSUME NEW p \in Proc, Dies(p)
      PROVE  sd'[q].pc = sd[q].pc /\ sd'[q].outcome = sd[q].outcome
  BY <1>2, <1>5 DEF Dies, Busy
<1>6. ASSUME Places
      PROVE  sd'[q].pc = sd[q].pc /\ sd'[q].outcome = sd[q].outcome
  BY <1>2, <1>6, GreetedKeeps DEF Places
<1> QED BY <1>3, <1>4, <1>5, <1>6, Moves

\* Every step keeps what is staged, and what could be, whole.
LEMMA StagedStep ==
  ASSUME Sane, Acquainted, StagedIInv, [SdiNext]_sdiVars
  PROVE  StagedIInv'
<1> SUFFICES ASSUME ~Raced({"tier"})', ~Excused' PROVE StagedIInv'
  BY DEF StagedIInv
<1>1. ~Raced({"tier"}) /\ ~Excused
  BY RacedStays, ExcusesStay
<1>2. /\ \A q \in Proc : sd[q].outcome = "staged" => extracted[sd[q].asset] = Entry
      /\ \A k \in Pack : "inf" \in extracted[k] =>
           extracted[k] = Entry \/ \E q \in Proc : sd[q].pc = "extract" /\ sd[q].asset = k
  BY <1>1 DEF StagedIInv
<1> DEFINE Good(q) == sd'[q].outcome = "staged" => extracted'[sd'[q].asset] = Entry
           Fine(k) == "inf" \in extracted'[k] =>
             extracted'[k] = Entry \/ \E q \in Proc : sd'[q].pc = "extract" /\ sd'[q].asset = k
           Stays(q) == /\ sd'[q].pc = sd[q].pc /\ sd'[q].asset = sd[q].asset
                       /\ sd'[q].outcome = sd[q].outcome
<1> SUFFICES (\A q \in Proc : Good(q)) /\ (\A k \in Pack : Fine(k))
  BY DEF StagedIInv
<1>3. ASSUME extracted' = extracted, NEW q \in Proc, Stays(q) PROVE Good(q)
  BY <1>2, <1>3
<1>4. ASSUME extracted' = extracted, \A q \in Proc : sd[q].pc = "extract" => Stays(q),
             NEW k \in Pack
      PROVE  Fine(k)
  BY <1>2, <1>4
<1>5. ASSUME NEW p \in Proc, SdiStep(p), Effects(p)
      PROVE  (\A q \in Proc : Good(q)) /\ (\A k \in Pack : Fine(k))
  <2> DEFINE s == sd[p]
  <2>1. Busy(p) /\ s \in SdiFrame /\ Sound(s)
    BY <1>5, SaneFrames DEF Effects, Follows, Busy
  <2>2. ASSUME NEW q \in Proc, q # p PROVE Stays(q)
    BY <1>5, <2>2, SaneFrames, TouchedKeeps DEF Effects
  <2>3. CASE s.pc \notin {"pick", "extract"}
    <3>1. extracted' = extracted /\ Good(p)
      BY <1>5, <2>3 DEF Effects, Follows
    <3>2. \A q \in Proc : sd[q].pc = "extract" => Stays(q)
      BY <2>2, <2>3
    <3> HIDE DEF Good, Fine, Stays
    <3> QED BY <1>3, <1>4, <2>2, <3>1, <3>2
  <2>4. CASE s.pc \in {"pick", "extract"}
    <3>1. ASSUME NEW q \in Proc, q # p PROVE sd[q].pc # "extract"
      <4>1. sd[q].pc = "extract" => Busy(q)
        BY DEF Busy
      <4> QED BY <1>1, <2>1, <2>4, <3>1, <4>1, BusyCall, OneAtATime
    <3>2. CASE PickNothing(p)
      <4>1. /\ s.pc = "pick" /\ extracted' = extracted
            /\ sd'[p] = [s EXCEPT !.pc = "done", !.outcome = "ok"]
        BY <3>2 DEF PickNothing, SdiAt, SdiEnd, SdiQuietly, diskVars, Sane, SdiTypeOK
      <4>2. Good(p) /\ \A q \in Proc : sd[q].pc = "extract" => Stays(q)
        BY <2>1, <2>2, <4>1 DEF SdiFrame
      <4> HIDE DEF Good, Fine, Stays
      <4> QED BY <1>3, <1>4, <2>2, <4>1, <4>2
    <3>3. CASE PickCached(p)
      <4>1. PICK k \in Pack : sd'[p] = IF "inf" \in extracted[k]
                     THEN [s EXCEPT !.pc = "done", !.asset = k, !.outcome = "staged"]
                     ELSE [s EXCEPT !.pc = "extract", !.asset = k]
        BY <3>3 DEF PickCached, SdiQuietly, Sane, SdiTypeOK, Cached, HasPack, Listed
      <4>2. s.pc = "pick" /\ extracted' = extracted
        BY <3>3 DEF PickCached, SdiAt, SdiQuietly, diskVars
      <4>3. "inf" \in extracted[k] => extracted[k] = Entry
        BY <1>2, <3>1, <4>2
      <4>4. s.outcome = "none"
        BY <2>1, <4>2 DEF Sound
      <4>5. Good(p)
        BY <2>1, <4>1, <4>2, <4>3, <4>4 DEF SdiFrame
      <4>6. \A q \in Proc : sd[q].pc = "extract" => Stays(q)
        BY <3>1, <4>2
      <4> HIDE DEF Good, Fine, Stays
      <4> QED BY <1>3, <1>4, <2>2, <4>2, <4>5, <4>6
    <3>4. CASE ExtractEntry(p)
      <4>1. sd' = sd /\ s.pc = "extract" /\ s.asset \in Pack
        BY <2>1, <3>4 DEF ExtractEntry, SdiAt, Sound
      <4>2. PICK e \in Entry \ extracted[s.asset] :
              extracted' = [extracted EXCEPT ![s.asset] = @ \cup {e}]
        BY <3>4 DEF ExtractEntry
      <4>3. extracted[s.asset] # Entry
        BY <4>2
      <4>4. ASSUME NEW q \in Proc PROVE Good(q)
        <5>1. sd[q].outcome = "staged" => sd[q].asset # s.asset
          BY <1>2, <4>3
        <5>2. sd[q].outcome = "staged" => sd[q].asset \in Pack
          BY SaneFrames DEF Sound
        <5> QED BY <1>2, <4>1, <4>2, <5>1, <5>2 DEF Sane, SdiTypeOK
      <4>5. ASSUME NEW k \in Pack PROVE Fine(k)
        <5>1. k # s.asset => extracted'[k] = extracted[k]
          BY <4>1, <4>2 DEF Sane, SdiTypeOK
        <5> QED BY <1>2, <4>1, <5>1
      <4> QED BY <4>4, <4>5
    <3>5. CASE Extracted(p)
      <4>1. /\ s.pc = "extract" /\ s.asset \in Pack /\ extracted[s.asset] = Entry
            /\ extracted' = extracted /\ sd'[p] = [s EXCEPT !.pc = "done", !.outcome = "staged"]
        BY <2>1, <3>5 DEF Extracted, SdiAt, SdiEnd, SdiQuietly, diskVars, Sane, SdiTypeOK, Sound
      <4>2. sd'[p].asset = s.asset
        BY <2>1, <4>1 DEF SdiFrame
      <4>3. Good(p)
        BY <4>1, <4>2
      <4>4. ASSUME NEW k \in Pack PROVE Fine(k)
        <5>1. ASSUME k # s.asset, NEW q \in Proc, sd[q].pc = "extract", sd[q].asset = k
              PROVE  sd'[q].pc = "extract" /\ sd'[q].asset = k
          BY <2>2, <5>1
        <5> QED BY <1>2, <4>1, <5>1
      <4> HIDE DEF Good, Fine, Stays
      <4> QED BY <1>3, <2>2, <4>1, <4>3, <4>4
    <3>6. CASE ExtractFails(p)
      <4>1. sd'[p] = [s EXCEPT !.pc = "done", !.outcome = "error"]
        BY <3>6 DEF ExtractFails, SdiEnd, SdiQuietly, Sane, SdiTypeOK
      <4>2. sd'[p].outcome = "error"
        BY <2>1, <4>1 DEF SdiFrame
      <4> QED BY <4>2 DEF Excused
    <3> HIDE DEF Good, Fine, s
    <3> QED BY <1>5, <2>4, <3>2, <3>3, <3>4, <3>5, <3>6, Whereabouts DEF s
  <2> QED BY <2>3, <2>4
<1>6. ASSUME NEW p \in Proc, Begins(p) PROVE (\A q \in Proc : Good(q)) /\ (\A k \in Pack : Fine(k))
  <2>1. extracted' = extracted /\ Good(p) /\ sd[p].pc = "idle"
    BY <1>6 DEF Begins, diskVars
  <2>2. ASSUME NEW q \in Proc, q # p PROVE Stays(q)
    BY <1>6, <2>2, SaneFrames, GreetedKeeps DEF Begins
  <2>3. \A q \in Proc : sd[q].pc = "extract" => Stays(q)
    BY <2>1, <2>2
  <2> HIDE DEF Good, Fine, Stays
  <2> QED BY <1>3, <1>4, <2>1, <2>2, <2>3
<1>7. ASSUME NEW p \in Proc, Dies(p) PROVE FALSE
  BY <1>7 DEF Dies, Excused
<1>8. ASSUME Places PROVE (\A q \in Proc : Good(q)) /\ (\A k \in Pack : Fine(k))
  <2>1. extracted' = extracted
    BY <1>8 DEF Places
  <2>2. ASSUME NEW q \in Proc PROVE Stays(q)
    BY <1>8, SaneFrames, GreetedKeeps DEF Places
  <2> HIDE DEF Good, Fine, Stays
  <2> QED BY <1>3, <1>4, <2>1, <2>2
<1>9. ASSUME UNCHANGED <<diskVars, sd>> PROVE (\A q \in Proc : Good(q)) /\ (\A k \in Pack : Fine(k))
  BY <1>2, <1>9 DEF diskVars
<1> HIDE DEF Good, Fine
<1> QED BY <1>5, <1>6, <1>7, <1>8, <1>9, Moves

\* What is handed to the gate is a whole driver directory, unless an extraction
\* broke off or two installs extracted at a time.
THEOREM StagedWhole == SdiSpec => []StagedIsWhole
<1> DEFINE I == Sane /\ Acquainted /\ StagedIInv
<1>1. SdiStart => I
  <2>1. SdiStart => /\ \A p \in Proc : sd[p].outcome = "none"
                    /\ \A k \in Pack : extracted[k] = {}
    BY DEF SdiStart, SdiInit, IdleSdi
  <2> QED BY <2>1, StartIsSane DEF StagedIInv
<1>2. I /\ [SdiNext]_sdiVars => I'
  BY Moves, AcquaintedStays, StagedStep
<1>3. I => StagedIsWhole
  BY DEF StagedIInv, StagedIsWhole, Excused
<1> QED BY <1>1, <1>2, <1>3, PTL DEF SdiSpec

-----------------------------------------------------------------------------
(* The tier's registrations.                                               *)

\* Where a tier can be.
LEMMA TierAt ==
  ASSUME Sane, NEW p \in Proc, Busy(p), sd[p].call.op = "tier"
  PROVE  sd[p].pc \in {"load", "autoRegister", "pick", "extract"} \cup SavePc
  BY SaneFrames DEF Busy, Sound, SdiFrame, SdiPc, SavePc, Fetching

\* While p has met nobody, nobody shares a file with it.
LEMMA NobodyShares ==
  ASSUME Sane, Acquainted, NEW p \in Proc, Busy(p), Alone(p)
  PROVE  SharesMeta(p) = {} /\ SharesPart(p) = {}
<1>1. ASSUME NEW q \in Proc \ {p} PROVE ~Busy(q)
  BY DEF Acquainted, Alone
<1> QED BY <1>1 DEF SharesMeta, SharesPart, WritesMeta, Downloads, Busy

\* What is loaded lists no pack that the file does not.
LEMMA LoadsListed ==
  ASSUME NEW m \in Loads
  PROVE  Listed(m) \subseteq Listed(meta)
<1>1. m = Default \/ m = meta
  BY DEF Loads
<1>2. Listed(Default) = {}
  BY DEF Listed, Default
<1> QED BY <1>1, <1>2

\* Registering a pack lists it.
LEMMA WithPackListed ==
  ASSUME NEW m \in Metadata, NEW k \in Pack, SdiTypeOK
  PROVE  Listed(WithPack(m, k)) = Listed(m) \cup {k}
<1> DEFINE r == [size |-> FileSize(k), used |-> clock]
           n == [m EXCEPT !.packs[k] = r]
<1>1. r \in PackMeta
  <2>1. FileSize(k) \in Nat
    BY SdiAssumption DEF FileSize
  <2> QED BY <2>1 DEF SdiTypeOK, PackMeta
<1> HIDE DEF r
<1>2. r # None
  BY <1>1, NoneAssumption
<1>3. n.packs = [m.packs EXCEPT ![k] = r] /\ m.packs \in [Pack -> {None} \cup PackMeta]
  BY DEF Metadata
<1> HIDE DEF n
<1>4. \A l \in Pack : n.packs[l] = IF l = k THEN r ELSE m.packs[l]
  BY <1>3
<1>5. Listed(n) = Listed(m) \cup {k}
  BY <1>2, <1>4 DEF Listed
<1> QED BY <1>5 DEF WithPack, n, r

\* A step of the tier itself.
LEMMA TierRemembers ==
  ASSUME Sane, Acquainted, NEW p \in Proc, SdiStep(p), Effects(p), Alone(p),
         sd[p].call.op = "tier", sd[p].failed = {} => Remembers(p), sd'[p].failed = {}
  PROVE  Remembers(p)'
<1> DEFINE s == sd[p]
           t == sd'[p]
<1>1. Sound(s) /\ s \in SdiFrame /\ Busy(p) /\ sd \in [Proc -> SdiFrame]
  BY SaneFrames DEF Effects, Follows, Busy, Sane, SdiTypeOK
<1>2. /\ s.pc \in SavePc => s.after = "autoRegister" /\ s.asset \in Pack
      /\ s.meta \in Metadata /\ s.todo \in SUBSET Asset /\ s.failed \in SUBSET Asset
  BY <1>1 DEF Sound, SavePc, SdiFrame
<1>3. CASE LoadTier(p)
  <2>1. PICK m \in Loads :
          t = [s EXCEPT !.pc = "autoRegister", !.meta = m, !.todo = Unregistered(m)]
    BY <1>1, <1>3 DEF LoadTier, SdiQuietly
  <2>2. file' = file /\ meta' = meta
    BY <1>3 DEF LoadTier, SdiQuietly, diskVars
  <2>3. Unlisted(file, m) = Unregistered(m) /\ Unlisted(file, meta) \subseteq Unregistered(m)
    BY LoadsListed DEF Unregistered, Unlisted, OnDisk
  <2>4. t.pc = "autoRegister" /\ t.meta = m /\ t.todo = Unregistered(m)
    BY <1>1, <2>1 DEF SdiFrame
  <2> QED BY <2>2, <2>3, <2>4 DEF Remembers, SavePc
<1>4. CASE AutoRegister(p)
  <2>1. PICK k \in s.todo : t = Saving(p, [s EXCEPT !.asset = k, !.todo = @ \ {k}],
                                       WithPack(s.meta, k), "autoRegister")
    BY <1>1, <1>4 DEF AutoRegister
  <2>2. s.pc = "autoRegister" /\ file' = file
    BY <1>4 DEF AutoRegister, SdiAt, diskVars
  <2> DEFINE m == WithPack(s.meta, k)
  <2>3. k \in Pack /\ Listed(m) = Listed(s.meta) \cup {k}
    BY <1>1, <1>2, <2>2, WithPackListed DEF Sound, Sane
  <2> HIDE DEF m
  <2>4. /\ t.pc = "saveCreate" /\ t.meta = m /\ t.todo = s.todo \ {k} /\ t.failed = s.failed
        /\ t.call = s.call
    BY <1>1, <2>1 DEF SdiFrame, Saving, m
  <2>5. Unlisted(file, s.meta) \subseteq s.todo
    BY <2>2, <2>4 DEF Remembers
  <2>6. Unlisted(file', t.meta) \subseteq t.todo
    BY <2>2, <2>3, <2>4, <2>5 DEF Unlisted
  <2> HIDE DEF t
  <2>7. t.pc = "saveCreate"
    BY <2>4
  <2> QED BY <2>6, <2>7 DEF Remembers, SavePc, t
<1>5. CASE AutoRegisterFails(p)
  <2>1. PICK k \in s.todo : t = [s EXCEPT !.todo = @ \ {k}, !.failed = @ \cup {k}]
    BY <1>1, <1>5 DEF AutoRegisterFails, SdiQuietly
  <2>2. t.failed # {}
    BY <1>1, <2>1 DEF SdiFrame
  <2> QED BY <2>2
<1>6. CASE AutoRegistered(p)
  <2>1. t = [s EXCEPT !.pc = "pick", !.asset = None] /\ file' = file /\ meta' = meta
    BY <1>1, <1>6 DEF AutoRegistered, SdiQuietly, diskVars
  <2>2. s.pc = "autoRegister" /\ s.todo = {}
    BY <1>6 DEF AutoRegistered, SdiAt
  <2>3. t.pc = "pick" /\ t.meta = s.meta /\ t.failed = s.failed
    BY <1>1, <2>1 DEF SdiFrame
  <2>4. Unlisted(file, s.meta) = {} /\ Unlisted(file, meta) = {}
    BY <2>2, <2>3 DEF Remembers
  <2>5. Unlisted(file', t.meta) = {} /\ Unlisted(file', meta') = {}
    BY <2>1, <2>3, <2>4
  <2> QED BY <2>3, <2>5 DEF Remembers, SavePc
<1>7. CASE s.pc \in {"pick", "extract"}
  <2>1. t.pc \in {"done", "extract"}
    <3>1. PickCached(p) => \E k \in Pack :
            t \in {[s EXCEPT !.pc = "done", !.asset = k, !.outcome = "staged"],
                  [s EXCEPT !.pc = "extract", !.asset = k]}
      BY <1>1 DEF PickCached, SdiQuietly, Cached, HasPack, Listed
    <3>2. PickNothing(p) => t = [s EXCEPT !.pc = "done", !.outcome = "ok"]
      BY <1>1 DEF PickNothing, SdiEnd, SdiQuietly
    <3>3. ExtractEntry(p) => t = s /\ s.pc = "extract"
      BY DEF ExtractEntry, SdiAt
    <3>4. Extracted(p) => t = [s EXCEPT !.pc = "done", !.outcome = "staged"]
      BY <1>1 DEF Extracted, SdiEnd, SdiQuietly
    <3>5. ExtractFails(p) => t = [s EXCEPT !.pc = "done", !.outcome = "error"]
      BY <1>1 DEF ExtractFails, SdiEnd, SdiQuietly
    <3> HIDE DEF s, t
    <3>6. \/ \E k \in Pack : t \in {[s EXCEPT !.pc = "done", !.asset = k, !.outcome = "staged"],
                                   [s EXCEPT !.pc = "extract", !.asset = k]}
          \/ t = [s EXCEPT !.pc = "done", !.outcome = "ok"]
          \/ t = s /\ s.pc = "extract"
          \/ t = [s EXCEPT !.pc = "done", !.outcome = "staged"]
          \/ t = [s EXCEPT !.pc = "done", !.outcome = "error"]
      BY <1>7, <3>1, <3>2, <3>3, <3>4, <3>5, Whereabouts DEF s
    <3> QED BY <1>1, <3>6 DEF SdiFrame
  <2> QED BY <2>1 DEF Remembers, SavePc
<1>8. CASE SaveCreate(p)
  <2>1. t = [s EXCEPT !.pc = "saveWrite", !.handle = "part", !.shared = FALSE] /\ file' = file
    BY <1>1, <1>8, NobodyShares DEF SaveCreate
  <2>2. /\ t.pc = "saveWrite" /\ t.handle = "part" /\ ~t.shared /\ t.meta = s.meta
        /\ t.todo = s.todo /\ t.failed = s.failed
    BY <1>1, <2>1 DEF SdiFrame
  <2>3. Unlisted(file', t.meta) \subseteq t.todo
    <3>1. s.pc = "saveCreate"
      BY <1>8 DEF SaveCreate, SdiAt
    <3>2. Unlisted(file, s.meta) \subseteq s.todo
      BY <2>2, <3>1 DEF Remembers, SavePc
    <3> QED BY <2>1, <2>2, <3>2
  <2> QED BY <2>2, <2>3 DEF Remembers, SavePc
<1>9. CASE SaveWrite(p)
  <2>1. t = [s EXCEPT !.pc = "saveRename", !.handle = "none", !.shared = FALSE] /\ file' = file
    BY <1>1, <1>9 DEF SaveWrite
  <2>2. /\ t.pc = "saveRename" /\ t.meta = s.meta /\ t.todo = s.todo /\ t.failed = s.failed
        /\ s.pc = "saveWrite"
    BY <1>1, <1>9, <2>1 DEF SdiFrame, SaveWrite, SdiAt
  <2>3. s.handle = "part" /\ ~s.shared /\ Unlisted(file, s.meta) \subseteq s.todo
    BY <2>2 DEF Remembers, SavePc
  <2>4. metaTmp' = s.meta
    BY <1>9, <2>3 DEF SaveWrite
  <2>5. Unlisted(file', t.meta) \subseteq t.todo /\ metaTmp' = t.meta
    BY <2>1, <2>2, <2>3, <2>4
  <2> QED BY <2>2, <2>5 DEF Remembers, SavePc
<1>10. CASE SaveRename(p)
  <2>1. t = AfterSave(p, TRUE) /\ file' = file /\ meta' = metaTmp /\ metaTmp # NoFile
    BY <1>10 DEF SaveRename, Redirect
  <2>2. s.pc = "saveRename"
    BY <1>10 DEF SaveRename, SdiAt
  <2>3. t.pc = "autoRegister" /\ t.meta = s.meta /\ t.todo = s.todo /\ t.failed = s.failed
    BY <1>1, <1>2, <2>1, <2>2 DEF SdiFrame, AfterSave, SavePc
  <2>4. metaTmp = s.meta /\ Unlisted(file, s.meta) \subseteq s.todo
    BY <2>1, <2>2, <2>3 DEF Remembers, SavePc
  <2>5. Unlisted(file', t.meta) \subseteq t.todo /\ Unlisted(file', meta') \subseteq t.todo
    BY <2>1, <2>3, <2>4
  <2> QED BY <2>3, <2>5 DEF Remembers, SavePc
<1>11. CASE SaveRenameFails(p) \/ SaveWriteFails(p)
  <2>1. t = AfterSave(p, FALSE) /\ s.pc \in SavePc
    BY <1>1, <1>11 DEF SaveRenameFails, SaveWriteFails, Redirect, SavePc, SdiAt
  <2>2. t.failed = s.failed \cup ({s.asset} \ {None})
    BY <1>1, <2>1 DEF SdiFrame, AfterSave
  <2>3. s.asset # None
    BY <1>2, <2>1, SdiAssumption DEF Asset
  <2> QED BY <2>2, <2>3
<1>12. s.pc = "load" => LoadTier(p)
  <2>1. s.pc = "load" => LoadRefresh(p) \/ LoadPrefetch(p) \/ LoadClean(p) \/ LoadTier(p)
    BY Whereabouts
  <2> QED BY <2>1 DEF LoadRefresh, LoadPrefetch, LoadClean
<1> HIDE DEF s, t
<1> QED BY <1>1, <1>3, <1>4, <1>5, <1>6, <1>7, <1>8, <1>9, <1>10, <1>11, <1>12, TierAt, Whereabouts
        DEF s

\* Every step keeps the memory of a tier that runs alone.
LEMMA ForgetStep ==
  ASSUME Sane, Acquainted, ForgetIInv, [SdiNext]_sdiVars
  PROVE  ForgetIInv'
<1> SUFFICES ASSUME NEW p \in Proc, Busy(p)', Alone(p)', sd'[p].failed = {}
             PROVE  Remembers(p)'
  BY DEF ForgetIInv
<1>1. CASE SdiStep(p) /\ Effects(p) /\ Alone(p)
  <2>1. Busy(p) /\ sd'[p].call = sd[p].call
    BY <1>1 DEF Effects, Follows, Busy
  <2>2. sd[p].failed = {} => Remembers(p)
    BY <1>1, <2>1 DEF ForgetIInv
  <2>3. CASE sd[p].call.op = "tier"
    BY <1>1, <2>2, <2>3, TierRemembers
  <2>4. CASE sd[p].call.op # "tier"
    BY <2>1, <2>4 DEF Remembers
  <2> QED BY <2>3, <2>4
<1>2. CASE sd'[p].pc = "load"
  BY <1>2 DEF Remembers, SavePc
<1>3. CASE UNCHANGED diskVars /\ sd'[p] = sd[p] /\ Alone(p) /\ Busy(p)
  <2>1. Remembers(p) /\ file' = file /\ meta' = meta /\ metaTmp' = metaTmp
    BY <1>3 DEF ForgetIInv, diskVars
  <2> QED BY <1>3, <2>1 DEF Remembers
<1> QED BY <1>1, <1>2, <1>3, Loners

\* Whatever was raced, lost or killed before: a tier that runs alone and meets no
\* failure ends its registration with every pack on disk in the metadata.
THEOREM AllRemembered == SdiSpec => []NothingForgotten
<1> DEFINE I == Sane /\ Acquainted /\ ForgetIInv
<1>1. SdiStart => I
  <2>1. SdiStart => \A p \in Proc : ~Busy(p)
    BY DEF SdiStart, SdiInit, IdleSdi, Busy
  <2> QED BY <2>1, StartIsSane DEF ForgetIInv
<1>2. I /\ [SdiNext]_sdiVars => I'
  BY Moves, AcquaintedStays, ForgetStep
<1>3. I => NothingForgotten
  <2> SUFFICES ASSUME I, NEW p \in Proc, SdiAt(p, "pick"), Alone(p), sd[p].failed = {}
               PROVE  Unregistered(sd[p].meta) = {} /\ Unregistered(meta) = {}
    BY DEF NothingForgotten
  <2>1. sd[p].call.op = "tier" /\ Busy(p)
    BY SaneFrames DEF Sound, SdiAt, Busy
  <2>2. Remembers(p)
    BY <2>1 DEF ForgetIInv
  <2> QED BY <2>1, <2>2 DEF Remembers, SdiAt, Unregistered, Unlisted, OnDisk
<1> QED BY <1>1, <1>2, <1>3, PTL DEF SdiSpec

-----------------------------------------------------------------------------
(* What a refresh delivers.                                                *)

\* Where a refresh or a prefetch can be.
LEMMA FetcherAt ==
  ASSUME Sane, NEW p \in Proc, Busy(p), sd[p].call.op \in {"refresh", "prefetch"}
  PROVE  sd[p].pc \in {"load", "nested", "reload", "manifest", "packManifest", "next", "register"}
                        \cup Fetching \cup SavePc
  BY SaneFrames DEF Busy, Sound, SdiFrame, SdiPc, SavePc, Fetching

\* A step of a save.
LEMMA SavesMove ==
  ASSUME Sane, NEW p \in Proc, SdiStep(p), sd[p].pc \in SavePc
  PROVE  \/ sd'[p].pc \in {"saveWrite", "saveRename"}
         \/ sd'[p] \in {AfterSave(p, TRUE), AfterSave(p, FALSE)}
<1> DEFINE s == sd[p]
<1>1. s \in SdiFrame /\ sd \in [Proc -> SdiFrame]
  BY SaneFrames DEF Sane, SdiTypeOK
<1>2. ASSUME SaveCreate(p) PROVE sd'[p].pc = "saveWrite"
  <2> DEFINE b == SharesMeta(p) # {}
             u == [s EXCEPT !.pc = "saveWrite", !.handle = "part", !.shared = b]
  <2>1. sd' = [q \in Proc |-> IF q = p THEN u
                              ELSE IF q \in SharesMeta(p) THEN [sd[q] EXCEPT !.shared = TRUE]
                              ELSE sd[q]]
    BY <1>2 DEF SaveCreate, SharesMeta
  <2> HIDE DEF u
  <2>2. sd'[p] = u
    BY <2>1
  <2> HIDE DEF b, s
  <2>3. u.pc = "saveWrite"
    BY <1>1 DEF SdiFrame, u
  <2> QED BY <2>2, <2>3 DEF u
<1>3. ASSUME SaveWrite(p) PROVE sd'[p].pc = "saveRename"
  <2>1. sd'[p] = [s EXCEPT !.pc = "saveRename", !.handle = "none", !.shared = FALSE]
    BY <1>1, <1>3 DEF SaveWrite
  <2> QED BY <1>1, <2>1 DEF SdiFrame
<1>4. ASSUME SaveRename(p) PROVE sd'[p] = AfterSave(p, TRUE)
  BY <1>4 DEF SaveRename, Redirect
<1>5. ASSUME SaveRenameFails(p) PROVE sd'[p] = AfterSave(p, FALSE)
  BY <1>5 DEF SaveRenameFails, Redirect
<1>6. ASSUME SaveWriteFails(p) PROVE sd'[p] = AfterSave(p, FALSE)
  BY <1>1, <1>6 DEF SaveWriteFails
<1> QED BY <1>2, <1>3, <1>4, <1>5, <1>6, Whereabouts

\* Where a save ends, and with what in hand.
LEMMA SaveGoesOn ==
  ASSUME Sane, NEW p \in Proc, NEW ok \in BOOLEAN
  PROVE  /\ AfterSave(p, ok).pc = sd[p].after /\ AfterSave(p, ok).asset = sd[p].asset
         /\ AfterSave(p, ok).todo = sd[p].todo
<1> DEFINE s == sd[p]
           f == IF ok THEN s.failed ELSE s.failed \cup ({s.asset} \ {None})
           o == CASE s.after # "done" -> "none"
                  [] s.after = "done" /\ ~ok /\ s.call.op = "clean" -> "error"
                  [] OTHER -> "ok"
           u == [s EXCEPT !.pc = s.after, !.handle = "none", !.shared = FALSE, !.failed = f,
                          !.outcome = o]
<1>1. AfterSave(p, ok) = u
  BY DEF AfterSave
<1>2. s \in SdiFrame
  BY SaneFrames
<1> HIDE DEF s, f, o
<1>3. u.pc = s.after /\ u.asset = s.asset /\ u.todo = s.todo
  BY <1>2 DEF SdiFrame
<1> QED BY <1>1, <1>3 DEF s

\* Who gives an asset up has put it down.
LEMMA MissedIsFailed ==
  ASSUME Sane, NEW p \in Proc
  PROVE  Missed(p).failed # {}
<1>1. sd[p] \in SdiFrame
  BY SaneFrames
<1>2. Missed(p).failed = sd[p].failed \cup {sd[p].asset}
  BY <1>1 DEF Missed, SdiFrame
<1> QED BY <1>2

\* A step of a refresh or prefetch outside its downloads.
LEMMA FetcherGoesOn ==
  ASSUME Sane, NEW p \in Proc, SdiStep(p), Effects(p),
         sd[p].call.op \in {"refresh", "prefetch"}, sd[p].pc \notin Fetching,
         sd[p].failed = {} => Delivers(p), sd'[p].failed = {}
  PROVE  Delivers(p)'
<1> DEFINE s == sd[p]
           t == sd'[p]
<1>1. Sound(s) /\ s \in SdiFrame /\ Busy(p) /\ sd \in [Proc -> SdiFrame]
  BY SaneFrames DEF Effects, Follows, Busy, Sane, SdiTypeOK
<1>2. Sound(t) /\ t.pc \notin {"receive", "rename"}
  BY DEF Effects, Follows
<1>3. s.pc # "evict"
  BY <1>1 DEF Sound
<1>4. file' = file
  BY <1>3 DEF Effects
<1>5. ASSUME t.pc \notin Fetching \cup {"next"} PROVE Delivers(p)'
  BY <1>5 DEF Delivers, Fetching
<1>6. CASE s.pc \in {"load", "nested", "reload", "register"}
  <2>1. t.pc \in {"manifest", "nested", "packManifest", "saveCreate"}
          \/ t.failed # {}
    <3>1. LoadRefresh(p) => \E m : t = [s EXCEPT !.pc = "manifest", !.meta = m]
      BY <1>1 DEF LoadRefresh, SdiQuietly
    <3>2. LoadPrefetch(p) => \E m, st :
            t = [s EXCEPT !.pc = IF st THEN "nested" ELSE "packManifest", !.meta = m]
      BY <1>1 DEF LoadPrefetch, SdiQuietly
    <3>3. ~LoadClean(p) /\ ~LoadTier(p)
      BY DEF LoadClean, LoadTier
    <3>4. LoadNested(p) => \E m : t = [s EXCEPT !.pc = "manifest", !.meta = m]
      BY <1>1 DEF LoadNested, SdiQuietly
    <3>5. Reload(p) => \E m : t = [s EXCEPT !.pc = "packManifest", !.meta = m]
      BY <1>1 DEF Reload, SdiQuietly
    <3>6. Register(p) => \E m : t = [s EXCEPT !.pc = "saveCreate", !.meta = m, !.after = "next"]
      BY <1>1 DEF Register, Saving
    <3>7. RegisterFails(p) => t.failed # {}
      <4>1. RegisterFails(p) => t = Missed(p)
        BY <1>1 DEF RegisterFails, SdiQuietly
      <4> QED BY <4>1, MissedIsFailed
    <3> HIDE DEF s, t
    <3>8. \/ LoadRefresh(p) \/ LoadPrefetch(p) \/ LoadNested(p) \/ Reload(p)
          \/ Register(p) \/ RegisterFails(p)
      BY <1>6, <3>3, Whereabouts DEF s
    <3>9. \/ \E m : t = [s EXCEPT !.pc = "manifest", !.meta = m]
          \/ \E m, st : t = [s EXCEPT !.pc = IF st THEN "nested" ELSE "packManifest", !.meta = m]
          \/ \E m : t = [s EXCEPT !.pc = "packManifest", !.meta = m]
          \/ \E m : t = [s EXCEPT !.pc = "saveCreate", !.meta = m, !.after = "next"]
          \/ t.failed # {}
      BY <3>1, <3>2, <3>4, <3>5, <3>6, <3>7, <3>8
    <3> QED BY <1>1, <3>9 DEF SdiFrame
  <2> QED BY <1>5, <2>1 DEF Fetching
<1>7. CASE Manifest(p)
  <2>1. t = [s EXCEPT !.pc = "next", !.version = mirror, !.todo = Index, !.asset = None,
                      !.failed = {}]
    BY <1>1, <1>7 DEF Manifest, SdiQuietly
  <2>2. t.pc = "next" /\ t.todo = Index /\ t.asset = None
    BY <1>1, <2>1 DEF SdiFrame
  <2> QED BY <2>2 DEF Delivers, Fetching
<1>8. CASE PackManifest(p)
  <2>1. t = [s EXCEPT !.pc = "next", !.todo = Pack, !.asset = None, !.failed = {}]
    BY <1>1, <1>8 DEF PackManifest, SdiQuietly
  <2>2. t.pc = "next" /\ t.todo = Pack /\ t.asset = None
    BY <1>1, <2>1 DEF SdiFrame
  <2> QED BY <2>2, SdiAssumption DEF Delivers, Fetching, Asset
<1>9. CASE ManifestFails(p)
  <2>1. \E o : t = [s EXCEPT !.pc = RefreshAfter(p), !.outcome = o]
    BY <1>1, <1>9 DEF ManifestFails, SdiQuietly
  <2>2. t.pc \in {"reload", "done"}
    BY <1>1, <2>1 DEF SdiFrame, RefreshAfter
  <2> QED BY <1>5, <2>2 DEF Fetching
<1>10. CASE PackManifestFails(p)
  <2>1. t = [s EXCEPT !.pc = "done", !.outcome = "error"]
    BY <1>1, <1>10 DEF PackManifestFails, SdiEnd, SdiQuietly
  <2>2. t.pc = "done"
    BY <1>1, <2>1 DEF SdiFrame
  <2> QED BY <1>5, <2>2 DEF Fetching
<1>11. CASE NextIndex(p)
  <2>1. PICK i \in s.todo \cap Index : t = [s EXCEPT !.pc = "get", !.asset = i, !.todo = @ \ {i}]
    BY <1>1, <1>11 DEF NextIndex, SdiQuietly
  <2>2. s.pc = "next"
    BY <1>11 DEF NextIndex, SdiAt
  <2>3. /\ t.pc = "get" /\ t.asset = i /\ t.todo = s.todo \ {i} /\ t.version = s.version
        /\ t.failed = s.failed
    BY <1>1, <2>1 DEF SdiFrame
  <2>4. \A j \in Index \ s.todo : file[j] = s.version
    BY <2>1, <2>2, <2>3 DEF Delivers
  <2>5. \A j \in Index \ (t.todo \cup {t.asset}) : file'[j] = t.version
    BY <1>4, <2>3, <2>4
  <2> QED BY <2>3, <2>5 DEF Delivers, Fetching
<1>12. CASE NextPack(p)
  <2>1. PICK k \in s.todo \cap Pack :
          t \in {[s EXCEPT !.asset = k, !.todo = @ \ {k}],
                 [[s EXCEPT !.asset = k, !.todo = @ \ {k}] EXCEPT !.failed = @ \cup {k}],
                 [[s EXCEPT !.asset = k, !.todo = @ \ {k}] EXCEPT !.pc = "get"]}
    BY <1>1, <1>12 DEF NextPack, SdiQuietly
  <2>2. s.pc = "next"
    BY <1>12 DEF NextPack, SdiAt
  <2>3. t.asset \in Pack /\ t.pc \in {"next", "get"}
    BY ZenonT(60), <1>1, <2>1, <2>2 DEF SdiFrame
  <2>4. t.todo \subseteq Pack
    BY <1>2, <2>3 DEF Sound, Fetching
  <2> QED BY <2>3, <2>4, SdiAssumption DEF Delivers, Fetching
<1>13. CASE RecordRefresh(p)
  <2>1. \E m : t = [s EXCEPT !.asset = None, !.pc = "saveCreate", !.meta = m,
                             !.after = RefreshAfter(p)]
    BY <1>1, <1>13 DEF RecordRefresh, SdiQuietly, Saving
  <2>2. t.pc = "saveCreate"
    BY <1>1, <2>1 DEF SdiFrame
  <2> QED BY <1>5, <2>2 DEF Fetching
<1>14. CASE PrefetchEnd(p)
  <2>1. t = [s EXCEPT !.pc = "done", !.outcome = "ok"]
    BY <1>1, <1>14 DEF PrefetchEnd, SdiEnd, SdiQuietly
  <2>2. t.pc = "done"
    BY <1>1, <2>1 DEF SdiFrame
  <2> QED BY <1>5, <2>2 DEF Fetching
<1>15. CASE s.pc \in SavePc
  <2>1. t.pc \in {"saveWrite", "saveRename"} \/ t \in {AfterSave(p, TRUE), AfterSave(p, FALSE)}
    BY <1>15, SavesMove
  <2>2. t.pc \notin {"saveWrite", "saveRename"} =>
          t.pc = s.after /\ t.asset = s.asset /\ t.todo = s.todo
    BY <2>1, SaveGoesOn
  <2>3. t.pc \in {"saveWrite", "saveRename", "done", "reload", "autoRegister"}
          \/ (t.pc = "next" /\ t.asset \in Pack /\ t.todo \subseteq Pack)
    BY <1>1, <1>15, <2>2 DEF Sound
  <2> QED BY <1>5, <2>3, SdiAssumption DEF Delivers, Fetching
<1> HIDE DEF s, t
<1> QED BY <1>1, <1>6, <1>7, <1>8, <1>9, <1>10, <1>11, <1>12, <1>13, <1>14, <1>15,
           FetcherAt, Whereabouts DEF s

\* A download of a refresh or prefetch that runs alone.
LEMMA FetcherDownloads ==
  ASSUME Sane, Acquainted, NEW p \in Proc, SdiStep(p), Effects(p), Alone(p),
         sd[p].call.op \in {"refresh", "prefetch"}, sd[p].pc \in Fetching,
         sd[p].failed = {} => Delivers(p), sd'[p].failed = {}
  PROVE  Delivers(p)'
<1> DEFINE s == sd[p]
           t == sd'[p]
           a == s.asset
<1>1. Sound(s) /\ s \in SdiFrame /\ Busy(p) /\ sd \in [Proc -> SdiFrame] /\ a \in Asset
  BY SaneFrames DEF Effects, Follows, Busy, Sane, SdiTypeOK, Sound
<1>2. part \in [Asset -> Content] /\ file \in [Asset -> Content] /\ Pack \cap Index = {}
  BY SdiAssumption DEF Sane, SdiTypeOK
<1>3. s.failed = {} => /\ a \in Index => \A i \in Index \ (s.todo \cup {a}) : file[i] = s.version
                       /\ s.pc = "receive" => s.handle = "part" /\ ~s.shared
                       /\ s.pc = "rename" /\ a \in Index => part[a] \in {Absent, s.version}
  BY DEF Delivers
<1>4. t # Missed(p)
  BY MissedIsFailed
<1>5. CASE Get(p)
  <2>1. \E c : t = [s EXCEPT !.pc = "create", !.got = c]
    BY <1>5 DEF Get, Redirect
  <2>2. /\ t.pc = "create" /\ t.asset = a /\ t.todo = s.todo /\ t.version = s.version
        /\ t.failed = s.failed
    BY <1>1, <2>1 DEF SdiFrame
  <2>3. file' = file
    BY <1>5 DEF Get
  <2> QED BY <1>3, <2>2, <2>3 DEF Delivers
<1>6. CASE GetFails(p) \/ CreateFails(p) \/ ReceiveFails(p) \/ RenameFails(p)
  <2>1. t = Missed(p)
    BY <1>1, <1>6 DEF GetFails, CreateFails, ReceiveFails, RenameFails, SdiQuietly, Redirect
  <2> QED BY <1>4, <2>1
<1>7. CASE Create(p)
  <2>1. t = [s EXCEPT !.pc = "receive", !.handle = "part", !.shared = FALSE]
    BY <1>1, <1>7, NobodyShares DEF Create
  <2>2. /\ t.pc = "receive" /\ t.asset = a /\ t.todo = s.todo /\ t.version = s.version
        /\ t.failed = s.failed /\ t.handle = "part" /\ ~t.shared
    BY <1>1, <2>1 DEF SdiFrame
  <2>3. file' = file
    BY <1>7 DEF Create
  <2> QED BY <1>3, <2>2, <2>3 DEF Delivers
<1>8. CASE Receive(p)
  <2>1. t = [s EXCEPT !.pc = "rename", !.handle = "none", !.shared = FALSE]
    BY <1>1, <1>8 DEF Receive
  <2>2. /\ t.pc = "rename" /\ t.asset = a /\ t.todo = s.todo /\ t.version = s.version
        /\ t.failed = s.failed
    BY <1>1, <2>1 DEF SdiFrame
  <2>3. s.pc = "receive" /\ s.got = Declared(p, a)
    BY <1>8 DEF Receive, SdiAt
  <2>4. s.handle = "part" /\ ~s.shared
    BY <1>3, <2>2, <2>3
  <2>5. part' = [part EXCEPT ![a] = s.got] /\ file' = file
    BY <1>8, <2>4 DEF Receive
  <2>6. a \in Index => part'[a] = s.version
    BY <1>1, <1>2, <2>3, <2>5 DEF Declared
  <2>7. /\ t.asset \in Index => \A i \in Index \ (t.todo \cup {t.asset}) : file'[i] = t.version
        /\ t.asset \in Index => part'[t.asset] = t.version
    BY <1>3, <2>2, <2>5, <2>6
  <2> QED BY <2>2, <2>7 DEF Delivers
<1>9. CASE Rename(p)
  <2>1. t = [s EXCEPT !.pc = IF a \in Pack THEN "register" ELSE "next", !.got = Absent]
    BY <1>9 DEF Rename, Redirect
  <2>2. /\ t.pc = (IF a \in Pack THEN "register" ELSE "next") /\ t.asset = a /\ t.todo = s.todo
        /\ t.version = s.version /\ t.failed = s.failed
    BY <1>1, <2>1 DEF SdiFrame
  <2>3. s.pc = "rename" /\ part[a] # Absent /\ file' = [file EXCEPT ![a] = part[a]]
    BY <1>9 DEF Rename, SdiAt
  <2>4. CASE a \in Pack
    BY <2>2, <2>4 DEF Delivers, Fetching
  <2>5. CASE a \in Index
    <3>1. part[a] = s.version /\ \A i \in Index \ (s.todo \cup {a}) : file[i] = s.version
      BY <1>3, <2>2, <2>3, <2>5
    <3>2. \A i \in Index \ s.todo : file'[i] = s.version
      BY <1>1, <1>2, <2>3, <3>1 DEF Asset
    <3>3. t.pc = "next" /\ \A i \in Index \ t.todo : file'[i] = t.version
      BY <1>2, <2>2, <2>5, <3>2
    <3> QED BY <3>3 DEF Delivers, Fetching
  <2> QED BY <1>1, <2>4, <2>5 DEF Asset
<1> HIDE DEF s, t
<1> QED BY <1>5, <1>6, <1>7, <1>8, <1>9, Whereabouts

\* Every step keeps what a download that runs alone has brought.
LEMMA DeliverStep ==
  ASSUME Sane, Acquainted, DeliverIInv, [SdiNext]_sdiVars
  PROVE  DeliverIInv'
<1> SUFFICES ASSUME NEW p \in Proc, Busy(p)', Alone(p)', sd'[p].failed = {}
             PROVE  Delivers(p)'
  BY DEF DeliverIInv
<1>1. CASE SdiStep(p) /\ Effects(p) /\ Alone(p)
  <2>1. Busy(p) /\ sd'[p].call = sd[p].call
    BY <1>1 DEF Effects, Follows, Busy
  <2>2. sd[p].failed = {} => Delivers(p)
    BY <1>1, <2>1 DEF DeliverIInv
  <2>3. CASE sd[p].call.op \in {"refresh", "prefetch"}
    BY <1>1, <2>2, <2>3, FetcherGoesOn, FetcherDownloads
  <2>4. CASE sd[p].call.op \notin {"refresh", "prefetch"}
    BY <2>1, <2>4 DEF Delivers
  <2> QED BY <2>3, <2>4
<1>2. CASE sd'[p].pc = "load"
  BY <1>2 DEF Delivers, Fetching
<1>3. CASE UNCHANGED diskVars /\ sd'[p] = sd[p] /\ Alone(p) /\ Busy(p)
  <2>1. Delivers(p) /\ file' = file /\ part' = part
    BY <1>3 DEF DeliverIInv, diskVars
  <2> QED BY <1>3, <2>1 DEF Delivers
<1> QED BY <1>1, <1>2, <1>3, Loners

\* A refresh that missed no index leaves each at the version of its manifest.
THEOREM RefreshBrings == SdiSpec => RefreshDelivers
<1> DEFINE I == Sane /\ Acquainted /\ DeliverIInv
           Recorded(p) ==
             (SdiAt(p, "next") /\ sd'[p].pc = "saveCreate" /\ Alone(p) /\ sd[p].failed = {}
                /\ sd'[p].after # "next")
               => \A i \in Index : file[i] = sd[p].version
<1>1. SdiStart => I
  <2>1. SdiStart => \A p \in Proc : ~Busy(p)
    BY DEF SdiStart, SdiInit, IdleSdi, Busy
  <2> QED BY <2>1, StartIsSane DEF DeliverIInv
<1>2. I /\ [SdiNext]_sdiVars => I'
  BY Moves, AcquaintedStays, DeliverStep
<1>3. I /\ [SdiNext]_sdiVars => [\A p \in Proc : Recorded(p)]_sdiVars
  <2> SUFFICES ASSUME I, [SdiNext]_sdiVars, NEW p \in Proc,
                      SdiAt(p, "next"), sd'[p].pc = "saveCreate", Alone(p), sd[p].failed = {}
               PROVE  \A i \in Index : file[i] = sd[p].version
    OBVIOUS
  <2>1. sd[p].pc = "next" /\ Busy(p) /\ sd[p] \in SdiFrame
    BY SaneFrames DEF SdiAt, Busy
  <2>2. sd[p].call.op \in {"refresh", "prefetch"}
    BY <2>1, SaneFrames DEF Sound
  <2>3. Delivers(p)
    BY <2>1 DEF DeliverIInv
  <2>4. ASSUME NEW q \in Proc, SdiStep(q), Effects(q) PROVE q = p
    <3>1. q # p => sd'[p].pc = sd[p].pc
      BY <2>1, <2>4, TouchedKeeps DEF Effects
    <3> QED BY <2>1, <3>1
  <2>5. ASSUME NEW q \in Proc, Begins(q) \/ Dies(q) PROVE sd'[p].pc # "saveCreate"
    <3>1. Begins(q) => q # p /\ sd'[p].pc = sd[p].pc
      BY <2>1, GreetedKeeps DEF Begins
    <3>2. Dies(q) => sd'[p].pc \in {"killed", sd[p].pc}
      BY DEF Dies
    <3> QED BY <2>1, <2>5, <3>1, <3>2
  <2>6. Places => sd'[p].pc = sd[p].pc
    BY <2>1, GreetedKeeps DEF Places
  <2>7. SdiStep(p)
    BY <2>1, <2>4, <2>5, <2>6, Moves
  <2>8. CASE RecordRefresh(p)
    BY <2>1, <2>2, <2>3, <2>8 DEF RecordRefresh, Delivers
  <2>9. ~NextIndex(p)
    <3>1. NextIndex(p) => \E i : sd'[p] = [sd[p] EXCEPT !.pc = "get", !.asset = i, !.todo = @ \ {i}]
      BY DEF NextIndex, SdiQuietly, Sane, SdiTypeOK
    <3> QED BY <2>1, <3>1 DEF SdiFrame
  <2>10. ~NextPack(p)
    <3>1. NextPack(p) => \E k :
            sd'[p] \in {[sd[p] EXCEPT !.asset = k, !.todo = @ \ {k}],
                        [[sd[p] EXCEPT !.asset = k, !.todo = @ \ {k}] EXCEPT !.failed = @ \cup {k}],
                        [[sd[p] EXCEPT !.asset = k, !.todo = @ \ {k}] EXCEPT !.pc = "get"]}
      BY DEF NextPack, SdiQuietly, Sane, SdiTypeOK
    <3> QED BY <2>1, <3>1 DEF SdiFrame
  <2>11. ~PrefetchEnd(p)
    <3>1. PrefetchEnd(p) => sd'[p] = [sd[p] EXCEPT !.pc = "done", !.outcome = "ok"]
      BY DEF PrefetchEnd, SdiEnd, SdiQuietly, Sane, SdiTypeOK
    <3> QED BY <2>1, <3>1 DEF SdiFrame
  <2> QED BY <2>1, <2>7, <2>8, <2>9, <2>10, <2>11, Whereabouts
<1> QED BY <1>1, <1>2, <1>3, PTL DEF SdiSpec, RefreshDelivers

-----------------------------------------------------------------------------
(* What a clean takes away.                                                *)

\* The total of the empty metadata, so that only the metadata file is evicted from.
LEMMA NothingToEvict == Total(Default) = 0 /\ Default \in Metadata
<1>1. Default \in Metadata
  BY SdiAssumption DEF Default, Metadata
<1>2. Listed(Default) = {}
  BY DEF Listed, Default
<1> QED BY <1>1, <1>2, TotalTakes

\* What is evicted from metadata lists the rest.
LEMMA EvictedListed ==
  ASSUME NEW m \in Metadata, NEW k \in Listed(m), NEW r, r = [m EXCEPT !.packs[k] = None]
  PROVE  Listed(r) = Listed(m) \ {k} /\ \A l \in Listed(r) : r.packs[l] = m.packs[l]
<1>1. r.packs = [m.packs EXCEPT ![k] = None] /\ m.packs \in [Pack -> {None} \cup PackMeta]
  BY DEF Metadata
<1>2. \A l \in Pack : r.packs[l] = IF l = k THEN None ELSE m.packs[l]
  BY <1>1
<1> QED BY <1>2 DEF Listed

\* A clean begins with the whole of the metadata file.
LEMMA CleanBegins ==
  ASSUME Sane, NEW p \in Proc, LoadClean(p)
  PROVE  Evicts(p)'
<1> DEFINE s == sd[p]
           fits(m) == [s EXCEPT !.pc = "done", !.meta = m, !.outcome = "ok"]
           over(m) == [s EXCEPT !.pc = "evict", !.meta = m, !.running = Total(m)]
<1>1. s \in SdiFrame /\ sd \in [Proc -> SdiFrame] /\ s.call \in SdiCalls
  BY SaneFrames DEF Sane, SdiTypeOK, Sound, LoadClean, SdiAt
<1>2. PICK m \in Loads : sd' = [sd EXCEPT ![p] =
        IF Total(m) <= s.call.budget THEN fits(m) ELSE over(m)]
  BY DEF LoadClean, SdiQuietly
<1>3. UNCHANGED <<file, meta>>
  BY DEF LoadClean, SdiQuietly, diskVars
<1>4. s.call.budget \in Nat /\ m \in Metadata
  BY <1>1, SdiCallsAssumption, LoadedIsMetadata DEF SdiCall, Sane
<1>5. CASE Total(m) <= s.call.budget
  <2>1. sd'[p] = fits(m)
    BY <1>1, <1>2, <1>5
  <2> HIDE DEF s
  <2>2. sd'[p].pc = "done"
    BY <1>1, <2>1 DEF SdiFrame
  <2> QED BY <2>2 DEF Evicts
<1>6. CASE ~(Total(m) <= s.call.budget)
  <2>1. sd'[p] = over(m)
    BY <1>1, <1>2, <1>6
  <2>2. m = meta
    BY <1>4, <1>6, NothingToEvict DEF Loads
  <2> HIDE DEF s
  <2>3. sd'[p].pc = "evict" /\ sd'[p].meta = m
    BY <1>1, <2>1 DEF SdiFrame
  <2> QED BY <1>3, <1>4, <2>2, <2>3 DEF Evicts, Listed, SdiAt
<1> QED BY <1>5, <1>6

\* An eviction takes the oldest of what is left.
LEMMA EvictionGoesOn ==
  ASSUME Sane, NEW p \in Proc, Evict(p), Evicts(p)
  PROVE  Evicts(p)'
<1> DEFINE s == sd[p]
           rest(k) == [s.meta EXCEPT !.packs[k] = None]
           left(k) == s.running - s.meta.packs[k].size
           stop(k) == left(k) <= s.call.budget \/ Listed(rest(k)) = {}
           save(k) == [s EXCEPT !.running = left(k), !.pc = "saveCreate", !.meta = rest(k),
                                !.after = "done"]
           more(k) == [s EXCEPT !.running = left(k), !.meta = rest(k)]
<1>1. Sound(s) /\ s.pc = "evict" /\ sd \in [Proc -> SdiFrame] /\ s \in SdiFrame
  BY SaneFrames DEF Evict, SdiAt, Sane, SdiTypeOK
<1>2. PICK k \in Oldest(s.meta) :
        /\ file' = [file EXCEPT ![k] = Absent]
        /\ sd' = [sd EXCEPT ![p] = IF stop(k) THEN save(k) ELSE more(k)]
  BY DEF Evict, Saving
<1>3. meta' = meta
  BY DEF Evict
<1>4. k \in Pack /\ k \in Listed(s.meta) /\ s.meta \in Metadata
  BY <1>1, <1>2 DEF Oldest, Listed, Sound, SdiFrame
<1>5. s.call.op = "clean" /\ s.call.budget \in Nat
  BY <1>1, SdiCallsAssumption DEF Sound, SdiCall
<1> DEFINE m == rest(k)
           v == left(k)
           a == [s EXCEPT !.running = v, !.pc = "saveCreate", !.meta = m, !.after = "done"]
           c == [s EXCEPT !.running = v, !.meta = m]
<1>6. m \in Metadata
  BY <1>4 DEF Metadata
<1>7. /\ Total(m) \in Nat /\ s.meta.packs[k].size \in Nat /\ v = Total(m)
      /\ Total(m) + s.meta.packs[k].size > s.call.budget
  <2>1. Total(s.meta) = s.meta.packs[k].size + Total(m) /\ Total(m) \in Nat
    BY <1>4, <1>6, TotalTakes
  <2>2. s.meta.packs[k].size \in Nat
    BY <1>4 DEF Listed, Metadata, PackMeta
  <2>3. s.running = Total(s.meta) /\ s.running > s.call.budget
    BY <1>1 DEF Sound
  <2> HIDE DEF m, s
  <2> QED BY <1>5, <2>1, <2>2, <2>3
<1>8. Listed(m) = Listed(s.meta) \ {k} /\ \A l \in Listed(m) : m.packs[l] = s.meta.packs[l]
  BY <1>4, EvictedListed
<1>9. (sd'[p] = a /\ (v <= s.call.budget \/ Listed(m) = {})) \/ sd'[p] = c
  BY <1>1, <1>2
<1>10. /\ meta \in Metadata
       /\ \A l \in Listed(s.meta) : l \in Listed(meta) /\ s.meta.packs[l] = meta.packs[l]
       /\ \A l \in Listed(meta) \ Listed(s.meta) : file[l] = Absent
       /\ \A j \in Listed(meta) \ Listed(s.meta), l \in Listed(s.meta) :
            meta.packs[j].used <= s.meta.packs[l].used
  BY <1>1, <1>5 DEF Evicts
<1>11. \A l \in Listed(s.meta) : s.meta.packs[k].used <= s.meta.packs[l].used
  BY <1>2 DEF Oldest
<1>12. file \in [Asset -> Content]
  BY DEF Sane, SdiTypeOK
<1> HIDE DEF s, v, m, rest, left, stop, save, more
<1>13. /\ \A l \in Listed(m) : l \in Listed(meta) /\ m.packs[l] = meta.packs[l]
       /\ \A l \in Listed(meta) \ Listed(m) : file'[l] = Absent
       /\ \A j \in Listed(meta) \ Listed(m), l \in Listed(m) :
            meta.packs[j].used <= m.packs[l].used
  <2>1. \A l \in Pack : file'[l] = IF l = k THEN Absent ELSE file[l]
    BY <1>2, <1>12 DEF Asset
  <2>2. \A j \in Listed(meta) \ Listed(m) : j = k \/ j \in Listed(meta) \ Listed(s.meta)
    BY <1>8
  <2> QED BY <1>4, <1>8, <1>10, <1>11, <2>1, <2>2 DEF Listed
<1>14. CASE sd'[p] = a /\ (v <= s.call.budget \/ Listed(m) = {})
  <2>1. a.pc = "saveCreate" /\ a.meta = m /\ a.call = s.call
    BY <1>1 DEF SdiFrame
  <2>2. Total(m) <= s.call.budget
    BY <1>5, <1>6, <1>7, <1>14, TotalTakes
  <2>3. k \in Listed(meta) \ Listed(m) /\ meta.packs[k].size = s.meta.packs[k].size
    BY <1>4, <1>8, <1>10
  <2>4. \E j \in Listed(meta) \ Listed(m) : Total(m) + meta.packs[j].size > s.call.budget
    BY <1>7, <2>3
  <2> HIDE DEF a
  <2> QED BY <1>3, <1>10, <1>13, <1>14, <2>1, <2>2, <2>4 DEF Evicts, SdiAt, Listed
<1>15. CASE sd'[p] = c
  <2>1. c.pc = "evict" /\ c.meta = m /\ c.call = s.call
    BY <1>1 DEF SdiFrame
  <2> HIDE DEF c
  <2> QED BY <1>3, <1>10, <1>13, <1>15, <2>1 DEF Evicts, SdiAt, Listed
<1> QED BY <1>9, <1>14, <1>15

\* Every step of a clean that runs alone keeps the order of its evictions.
LEMMA CleanGoesOn ==
  ASSUME Sane, NEW p \in Proc, SdiStep(p), Effects(p), sd[p].call.op = "clean", Evicts(p)
  PROVE  Evicts(p)'
<1>1. Busy(p) /\ Sound(sd[p]) /\ Sound(sd'[p])
  BY SaneFrames DEF Effects, Follows, Busy
<1>2. sd[p].pc \in {"load", "evict"} \cup SavePc
  BY <1>1 DEF Busy, Sound, SdiFrame, SdiPc, SavePc, Fetching
<1>3. CASE sd[p].pc \in SavePc
  <2>1. \/ sd'[p].pc \in {"saveWrite", "saveRename"}
        \/ sd'[p] \in {AfterSave(p, TRUE), AfterSave(p, FALSE)}
    BY <1>3, SavesMove
  <2>2. sd'[p].pc \in {"saveWrite", "saveRename", sd[p].after}
    BY <2>1, SaveGoesOn
  <2>3. sd[p].after \in {"done", "reload", "next", "autoRegister"}
    BY <1>1, <1>3 DEF Sound
  <2> QED BY <2>2, <2>3 DEF Evicts
<1>4. CASE sd[p].pc = "load"
  <2>1. LoadClean(p)
    BY <1>4, Whereabouts DEF LoadRefresh, LoadPrefetch, LoadTier
  <2> QED BY <2>1, CleanBegins
<1>5. CASE EvictFails(p)
  <2>1. sd'[p] = [sd[p] EXCEPT !.pc = "done", !.outcome = "error"] /\ sd[p] \in SdiFrame
    BY <1>5, SaneFrames DEF EvictFails, SdiEnd, SdiQuietly, Sane, SdiTypeOK
  <2>2. sd'[p].pc = "done"
    BY <2>1 DEF SdiFrame
  <2> QED BY <2>2 DEF Evicts
<1>6. CASE Evict(p)
  BY <1>6, EvictionGoesOn
<1> QED BY <1>2, <1>3, <1>4, <1>5, <1>6, Whereabouts

\* Every step keeps the order in which a clean that runs alone evicts.
LEMMA EvictStep ==
  ASSUME Sane, Acquainted, EvictIInv, [SdiNext]_sdiVars
  PROVE  EvictIInv'
<1> SUFFICES ASSUME NEW p \in Proc, Busy(p)', Alone(p)'
             PROVE  Evicts(p)'
  BY DEF EvictIInv
<1>1. CASE SdiStep(p) /\ Effects(p) /\ Alone(p)
  <2>1. Busy(p) /\ sd'[p].call = sd[p].call
    BY <1>1 DEF Effects, Follows, Busy
  <2>2. Evicts(p)
    BY <1>1, <2>1 DEF EvictIInv
  <2>3. CASE sd[p].call.op = "clean"
    BY <1>1, <2>2, <2>3, CleanGoesOn
  <2>4. CASE sd[p].call.op # "clean"
    BY <2>1, <2>4 DEF Evicts
  <2> QED BY <2>3, <2>4
<1>2. CASE sd'[p].pc = "load"
  BY <1>2 DEF Evicts
<1>3. CASE UNCHANGED diskVars /\ sd'[p] = sd[p] /\ Alone(p) /\ Busy(p)
  <2>1. Evicts(p) /\ file' = file /\ meta' = meta
    BY <1>3 DEF EvictIInv, diskVars
  <2> QED BY <1>3, <2>1 DEF Evicts, SdiAt, Listed
<1> QED BY <1>1, <1>2, <1>3, Loners

\* A clean that ran alone is about to save no less than fits, and what it evicted is no
\* younger than what it kept, whatever the sizes and the limit.
THEOREM EvictsOldest == SdiSpec => []EvictsByRecord
<1> DEFINE I == Sane /\ Acquainted /\ EvictIInv
<1>1. SdiStart => I
  <2>1. SdiStart => \A p \in Proc : ~Busy(p)
    BY DEF SdiStart, SdiInit, IdleSdi, Busy
  <2> QED BY <2>1, StartIsSane DEF EvictIInv
<1>2. I /\ [SdiNext]_sdiVars => I'
  BY Moves, AcquaintedStays, EvictStep
<1>3. I => EvictsByRecord
  <2> SUFFICES ASSUME I, NEW p \in Proc, SdiAt(p, "saveCreate"), sd[p].call.op = "clean", Alone(p)
               PROVE  LET kept == sd[p].meta
                          gone == Listed(meta) \ Listed(kept)
                          total == Total(kept)
                      IN /\ \A k \in gone : file[k] = Absent
                         /\ \A k \in gone, l \in Listed(kept) :
                              meta.packs[k].used <= kept.packs[l].used
                         /\ total <= sd[p].call.budget
                         /\ \E k \in gone : total + meta.packs[k].size > sd[p].call.budget
    BY DEF EvictsByRecord
  <2>1. Evicts(p)
    BY DEF EvictIInv, Busy, SdiAt
  <2> QED BY <2>1 DEF Evicts, SdiAt
<1> QED BY <1>1, <1>2, <1>3, PTL DEF SdiSpec

=============================================================================
