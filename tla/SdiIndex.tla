------------------------------ MODULE SdiIndex ------------------------------
(***************************************************************************)
(* drivers/sdi/index.rs and drivers/sdi/resolver.rs: reading one SDW index, *)
(* looking hardware ids up in it, and the candidates that all the cached    *)
(* indexes together offer for a printer.                                    *)
(*                                                                         *)
(* An index x is what its header fields declare, and what is behind them:   *)
(*   prefix           magic, version and payload are sound                  *)
(*   size, count      the header of each section, in bytes and in records   *)
(*   strings          the declared size of the string table                 *)
(*   len              the length of the decompressed blob                   *)
(*   inf, mfr, desc, hwid   the records, each numbered from 0               *)
(*   text[o]          the string at offset o as its parts, or Unreadable    *)
(***************************************************************************)
EXTENDS Inf

CONSTANT Unreadable   \* what stands where no terminated string does

Inffile == 1
Manufacturer == 2
Desc == 3
HwidRecord == 4

EntrySize == <<132, 16, 24, 12>>
HeaderSize == 8

\* What is read from an index is unsigned: counts, links and offsets.
IsIndex(x) ==
    /\ x.strings \in Nat /\ \A s \in Inffile .. HwidRecord : x.count[s] \in Nat
    /\ \A i \in 0 .. x.count[Manufacturer] - 1 : x.mfr[i].inf \in Nat
    /\ \A i \in 0 .. x.count[Desc] - 1 : x.desc[i].mfr \in Nat /\ x.desc[i].name \in Nat
    /\ \A i \in 0 .. x.count[HwidRecord] - 1 : x.hwid[i].desc \in Nat /\ x.hwid[i].id \in Nat

-----------------------------------------------------------------------------
(* parse_index_inner.                                                      *)

\* Where section s of x ends: the sections follow one another.
End(x, s) == FoldLeft(LAMBDA at, t : at + HeaderSize + x.size[t], 0, [t \in 1 .. s |-> t])

\* read_section_header
SectionFits(x, s) ==
    x.size[s] = x.count[s] * EntrySize[s] /\ End(x, s) <= x.len

StringsFit(x) == End(x, HwidRecord) + HeaderSize + x.strings <= x.len

\* Variant: one past the last description is let in.
ReferencesNearlyHold(x) ==
    /\ \A i \in 0 .. x.count[Manufacturer] - 1 : x.mfr[i].inf < x.count[Inffile]
    /\ \A i \in 0 .. x.count[Desc] - 1 : x.desc[i].mfr < x.count[Manufacturer]
    /\ \A i \in 0 .. x.count[HwidRecord] - 1 : x.hwid[i].desc <= x.count[Desc]

\* validate_cross_references
ReferencesHold(x) ==
    /\ \A i \in 0 .. x.count[Manufacturer] - 1 : x.mfr[i].inf < x.count[Inffile]
    /\ \A i \in 0 .. x.count[Desc] - 1 : x.desc[i].mfr < x.count[Manufacturer]
    /\ \A i \in 0 .. x.count[HwidRecord] - 1 : x.hwid[i].desc < x.count[Desc]

\* Variant: the string offsets are checked at the door, too.
AcceptsByOffsets(x) ==
    /\ x.prefix
    /\ \A s \in Inffile .. HwidRecord : SectionFits(x, s)
    /\ StringsFit(x)
    /\ ReferencesHold(x)
    /\ \A i \in 0 .. x.count[HwidRecord] - 1 : x.hwid[i].id < x.strings

Accepts(x) ==
    /\ x.prefix
    /\ \A s \in Inffile .. HwidRecord : SectionFits(x, s)
    /\ StringsFit(x)
    /\ ReferencesHold(x)

-----------------------------------------------------------------------------
(* SdiIndex::find_matching.                                                *)

\* read_string_checked: offset 0 of an empty table is the empty string.
ReadString(x, o) ==
    IF o < x.strings THEN x.text[o] ELSE IF o = 0 THEN <<>> ELSE Unreadable

OrEmpty(t) == IF t = Unreadable THEN <<>> ELSE t

NoHit == [name |-> Unreadable]

\* From an id's record over the description and the manufacturer to the INF; a
\* link that leads nowhere makes no hit.
BuildHit(x, id, d) ==
    IF d >= x.count[Desc] THEN NoHit
    ELSE LET m == x.desc[d].mfr IN
         IF m >= x.count[Manufacturer] THEN NoHit
         ELSE LET i == x.mfr[m].inf IN
              IF i >= x.count[Inffile] THEN NoHit
              ELSE [hwid |-> id, name |-> OrEmpty(ReadString(x, x.desc[d].name)),
                    inf |-> OrEmpty(ReadString(x, x.inf[i].file))]

Answers(x, ids, r) ==
    LET id == ReadString(x, r.id)
    IN  id \notin {Unreadable, <<>>} /\ \E c \in Range(ids) : SameId(id, c)

FindHits(x, ids) ==
    LET records == [i \in 1 .. x.count[HwidRecord] |-> x.hwid[i - 1]]
        asked == Keep(records, {i \in DOMAIN records : Answers(x, ids, records[i])})
        hits == [k \in DOMAIN asked |-> BuildHit(x, ReadString(x, asked[k].id), asked[k].desc)]
    IN  Keep(hits, {k \in DOMAIN hits : hits[k] # NoHit})

-----------------------------------------------------------------------------
(* enumerate_candidates over the cached index files, each with whether its  *)
(* pack is on disk, and pick_sdi_candidate.                                 *)

CandidatesOf(f, ids) ==
    LET hits == FindHits(f.index, ids)
        named == Keep(hits, {k \in DOMAIN hits : hits[k].name # <<>>})
    IN  [k \in DOMAIN named |->
            [source |-> IF f.cached THEN "cached" ELSE "uncached",
             pack |-> f.pack, driver |-> named[k].name, inf |-> named[k].inf]]

\* Variant: an index that does not parse ends the enumeration.
EnumerateUntilBad(files, ids) ==
    LET bad == {k \in DOMAIN files : ~Accepts(files[k].index)}
        read == IF bad = {} THEN files ELSE SubSeq(files, 1, Min(bad) - 1)
    IN  FoldLeft(LAMBDA acc, f : acc \o CandidatesOf(f, ids), <<>>, read)

\* An index that does not parse is passed over.
Enumerate(files, ids) ==
    FoldLeft(LAMBDA acc, f : acc \o IF Accepts(f.index) THEN CandidatesOf(f, ids) ELSE <<>>,
             <<>>, files)

NoCandidate == [source |-> "none"]

FirstFrom(candidates, source) ==
    LET first == SelectInSeq(candidates, LAMBDA c : c.source = source)
    IN  IF first = 0 THEN NoCandidate ELSE candidates[first]

PickCandidate(candidates, allowUncached) ==
    LET cached == FirstFrom(candidates, "cached")
    IN  IF cached # NoCandidate \/ ~allowUncached THEN cached
        ELSE FirstFrom(candidates, "uncached")

-----------------------------------------------------------------------------
(* Properties.                                                             *)

\* An index whose sections fit and whose links hold is read, and no link in it
\* is broken: every record whose id was asked for yields a hit, and the hit names
\* the INF its manufacturer is of.  A string offset outside of the table takes
\* nothing but its own record away (index.rs:35-37 and 93-97 have it reject the
\* file, 530-555 check it when the string is read).
EveryRecordAnswers(x, ids, hits) ==
    LET asked == {r \in 0 .. x.count[HwidRecord] - 1 : Answers(x, ids, x.hwid[r])}
        fits == \A s \in Inffile .. HwidRecord : SectionFits(x, s)
    IN  x.prefix /\ fits /\ StringsFit(x) /\ ReferencesHold(x) =>
          /\ Len(hits) = Cardinality(asked)
          /\ \A r \in asked : \E h \in Range(hits) :
               /\ h.hwid = x.text[x.hwid[r].id]
               /\ h.inf = OrEmpty(ReadString(x, x.inf[x.mfr[x.desc[x.hwid[r].desc].mfr].inf].file))

\* An index that cannot be read hides nothing that the others offer: a cached
\* pack is picked if any has a driver, another only if that is allowed.
BadIndexHidesNothing(files, ids, allowUncached, pick) ==
    LET packs(cached) == {f.pack : f \in {g \in Range(files) :
                            /\ g.cached = cached /\ Accepts(g.index)
                            /\ CandidatesOf(g, ids) # <<>>}}
    IN  CASE packs(TRUE) # {} -> pick.source = "cached" /\ pick.pack \in packs(TRUE)
          [] packs(TRUE) = {} /\ packs(FALSE) # {} /\ allowUncached ->
               pick.source = "uncached" /\ pick.pack \in packs(FALSE)
          [] OTHER -> pick = NoCandidate

=============================================================================
