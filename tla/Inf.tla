-------------------------------- MODULE Inf --------------------------------
(***************************************************************************)
(* drivers/inf.rs: which hardware ids an INF declares, which hardware ids   *)
(* a printer's device id stands for, and whether the one covers the other.  *)
(*                                                                         *)
(* A line of an INF is a section header or an entry.  An entry is its left  *)
(* side and the comma-separated parts of its right side, both as they are   *)
(* after comments, quotes and blanks are stripped; a line without "=" has   *)
(* no parts.  Names that differ only in case have the same Fold.            *)
(***************************************************************************)
EXTENDS Lists

CONSTANTS
    Fold,        \* Fold[w]: the name w in lower case
    Decorated,   \* Decorated[b]: the section name "b.NTamd64"
    NormOf,      \* NormOf[v]: normalize(v), a sequence of parts, <<>> if nothing is left
    Vid          \* the segments of USB instance ids that start with VID_

Header(name) == [header |-> TRUE, name |-> name]
Entry(lhs, parts) == [header |-> FALSE, lhs |-> lhs, parts |-> parts]

\* A text is a list of lines, and the right side of an entry a list of parts.
IsText(text) ==
    IsList(text) /\ \A i \in DOMAIN text : text[i].header \/ IsList(text[i].parts)

-----------------------------------------------------------------------------
(* Sections.  The body of a section is every entry under a header of that   *)
(* very spelling; a lookup ignores case and takes the spelling met first.   *)

HeadersBefore(text, i) == {j \in 1 .. i - 1 : text[j].header}

SectionAt(text, i) == text[Max(HeadersBefore(text, i))].name

Entries(text) ==
    {i \in 1 .. Len(text) : ~text[i].header /\ HeadersBefore(text, i) # {}}

Named(text, name) ==
    {i \in Entries(text) : Fold[SectionAt(text, i)] = Fold[name]}

Body(text, name) ==
    LET found == Named(text, name)
        first == SectionAt(text, Min(found))
    IN  IF found = {} THEN {} ELSE {i \in found : SectionAt(text, i) = first}

-----------------------------------------------------------------------------
(* [Manufacturer] names the model sections: the section decorated for       *)
(* amd64 when the line lists that target, and the bare one.                 *)

ManufacturerLines(text) ==
    LET lines == Keep(text, Body(text, "Manufacturer"))
    IN  [k \in DOMAIN lines |-> lines[k].parts]

ForAmd64(targets) == \E t \in Range(targets) : Fold[t] = "ntamd64"

\* A model line declares one id per part after its install section.
ModelLine(line) ==
    IF line.lhs = "" THEN <<>>
    ELSE [k \in 1 .. Len(line.parts) - 1 |->
             [display |-> line.lhs, hwid |-> line.parts[k + 1]]]

ModelLines(text, name) ==
    LET lines == Keep(text, Body(text, name))
    IN  FlattenSeq([k \in DOMAIN lines |-> ModelLine(lines[k])])

ReadSection(text, name, acc) ==
    IF Named(text, name) = {} \/ name \in acc.seen THEN acc
    ELSE [seen |-> acc.seen \cup {name},
          hwids |-> acc.hwids \o ModelLines(text, name)]

\* Variant: the bare section only where the decorated one gave nothing.
ReadManufacturerFallback(text, acc, parts) ==
    IF parts = <<>> THEN acc
    ELSE LET decorated == IF ForAmd64(Tail(parts))
                          THEN ReadSection(text, Decorated[Head(parts)], acc)
                          ELSE acc
         IN  IF decorated # acc THEN decorated ELSE ReadSection(text, Head(parts), acc)

ReadManufacturer(text, acc, parts) ==
    IF parts = <<>> THEN acc
    ELSE LET decorated == IF ForAmd64(Tail(parts))
                          THEN ReadSection(text, Decorated[Head(parts)], acc)
                          ELSE acc
         IN  ReadSection(text, Head(parts), decorated)

ParseInf(text) ==
    FoldLeft(LAMBDA acc, parts : ReadManufacturer(text, acc, parts),
             [seen |-> {}, hwids |-> <<>>], ManufacturerLines(text)).hwids

-----------------------------------------------------------------------------
(* Matching.  A hardware id is the sequence of the parts it is spelled with. *)

\* A device id is a USB instance id, or the fields of an IEEE 1284 string in
\* order; of a repeated key with a value, the last one counts.
FieldOf(fields, key) ==
    LET set == {i \in 1 .. Len(fields) : fields[i].key = key /\ fields[i].value # ""}
    IN  IF set = {} THEN <<>> ELSE NormOf[fields[Max(set)].value]

SynthesizeIpp(fields) ==
    LET cid == FieldOf(fields, "CID")
        model == FieldOf(fields, "MDL")
        forCid == IF cid = <<>> THEN <<>> ELSE <<<<"1284_CID">> \o cid, cid>>
        combined == FieldOf(fields, "MFG") \o model
    IN  IF model = <<>> \/ combined \in Range(forCid) THEN forCid
        ELSE Append(forCid, combined)

IsVid(segment) == segment \in Vid

\* Variant: nothing without a VID_ segment.
SynthesizeUsbVid(segments) ==
    LET vid == SelectSeq(segments, IsVid)
    IN  IF vid = <<>> THEN <<>> ELSE <<<<"USB">> \o segments, <<"USB", Head(vid)>>>>

SynthesizeUsb(segments) ==
    LET full == <<"USB">> \o segments
        vid == SelectSeq(segments, IsVid)
    IN  IF vid = <<>> \/ segments = <<Head(vid)>> THEN <<full>>
        ELSE <<full, <<"USB", Head(vid)>>>>

Synthesize(device) ==
    IF device.usb THEN SynthesizeUsb(device.segments) ELSE SynthesizeIpp(device.fields)

NoEntry == [display |-> "", hwid |-> <<>>]

Folded(parts) == [k \in DOMAIN parts |-> Fold[parts[k]]]

SameId(a, b) == Folded(a) = Folded(b)

\* Variant: in the order of the file instead of that of the candidates.
FindFirstListed(declared, candidates) ==
    LET hit == SelectInSeq(declared, LAMBDA e : \E c \in Range(candidates) : SameId(e.hwid, c))
    IN  IF hit = 0 THEN NoEntry ELSE declared[hit]

FindMatching(declared, candidates) ==
    LET hits == {c \in 1 .. Len(candidates) :
                    \E e \in Range(declared) : SameId(e.hwid, candidates[c])}
    IN  IF hits = {} THEN NoEntry
        ELSE declared[SelectInSeq(declared, LAMBDA e : SameId(e.hwid, candidates[Min(hits)]))]

-----------------------------------------------------------------------------
(* What an INF declares, read without the parser: the ids on the model      *)
(* lines of every section that some line of [Manufacturer] leads to.        *)

LeadsTo(parts) ==
    IF parts = <<>> THEN {}
    ELSE {parts[1]} \cup (IF ForAmd64(Tail(parts)) THEN {Decorated[parts[1]]} ELSE {})

Sections(text) == UNION {LeadsTo(text[m].parts) : m \in Body(text, "Manufacturer")}

Declared(text) ==
    UNION {Range(ModelLine(text[i])) : i \in UNION {Body(text, n) : n \in Sections(text)}}

\* The driver of an INF is one that the INF declares for this machine, by the
\* most specific id of the device that it declares at all.  What is declared
\* includes the bare section also where the amd64 one has ids (inf.rs:25-26 and
\* 146 call it a fallback), and a USB device has its whole instance id also
\* where that holds no VID_ segment (inf.rs:384-386 have no id for it then).
MatchIsBest(text, device, entry) ==
    LET ids == Synthesize(device)
        covers(c) == {e \in Declared(text) : SameId(e.hwid, ids[c])}
        instance == <<"USB">> \o device.segments
    IN  /\ IF entry = NoEntry THEN \A c \in DOMAIN ids : covers(c) = {}
           ELSE \E c \in DOMAIN ids :
                  entry \in covers(c) /\ \A b \in 1 .. c - 1 : covers(b) = {}
        /\ device.usb /\ (\E e \in Declared(text) : SameId(e.hwid, instance))
             => SameId(entry.hwid, instance)

=============================================================================
