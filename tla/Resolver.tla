------------------------------ MODULE Resolver ------------------------------
(***************************************************************************)
(* drivers/resolver.rs: the driver that the Microsoft Update Catalog has    *)
(* for a device, and commands/drivers.rs pick_catalog_query, its preview.   *)
(*                                                                         *)
(* A row u of the catalog's answer is what becomes of it: u.urls ("some",   *)
(* "none" or "error"), u.fetched (whether the cab could be downloaded and   *)
(* expanded), and u.infs, the INFs found in it, Garbled where one cannot be *)
(* read.                                                                    *)
(***************************************************************************)
EXTENDS SdiIndex

CONSTANTS
    Garbled,        \* an INF that parse_inf cannot decode
    MaxCandidates   \* RESOLVER_MAX_CANDIDATES

ASSUME MaxCandidatesAssumption == MaxCandidates \in Nat \ {0}

\* A row holds a list of INFs, each a text or garbled.
IsRow(u) == IsList(u.infs) /\ \A text \in Range(u.infs) \ {Garbled} : IsText(text)

NoDriver == [update |-> 0, entry |-> NoEntry]

\* extract_field: of a repeated key with a value, the first one counts.
ExtractField(fields, key) ==
    LET set == {i \in 1 .. Len(fields) : fields[i].key = key /\ fields[i].value # ""}
    IN  IF set = {} THEN "" ELSE fields[Min(set)].value

\* The INFs of a row that match, by their position in it.
MatchingInfs(u, ids) ==
    {k \in 1 .. Len(u.infs) :
        /\ u.infs[k] # Garbled
        /\ FindMatching(ParseInf(u.infs[k]), ids) # NoEntry}

Fetched(u) == u.urls = "some" /\ u.fetched

\* Variant: a row that cannot be fetched is the end of the search.
Abandoned == [update |-> 0, entry |-> [display |-> "abandoned", hwid |-> <<>>]]

TryUpdateOrStop(updates, ids, found, n) ==
    LET u == updates[n]
        infs == MatchingInfs(u, ids)
    IN  CASE found # NoDriver -> found
          [] found = NoDriver /\ ~Fetched(u) -> Abandoned
          [] found = NoDriver /\ Fetched(u) /\ infs = {} -> found
          [] OTHER -> [update |-> n, entry |-> FindMatching(ParseInf(u.infs[Min(infs)]), ids)]

\* One turn of the loop: a row that fails is passed over, the first match ends it.
TryUpdate(updates, ids, found, n) ==
    LET u == updates[n]
        infs == MatchingInfs(u, ids)
    IN  IF found # NoDriver \/ ~Fetched(u) \/ infs = {} THEN found
        ELSE [update |-> n, entry |-> FindMatching(ParseInf(u.infs[Min(infs)]), ids)]

\* resolve_driver_for_device; a search that failed or found nothing is <<>>.
Resolve(device, updates) ==
    LET ids == Synthesize(device)
        top == SubSeq(updates, 1, IF Len(updates) < MaxCandidates THEN Len(updates)
                                  ELSE MaxCandidates)
    IN  IF device.usb \/ ExtractField(device.fields, "CID") = "" \/ ids = <<>> THEN NoDriver
        ELSE FoldLeft(LAMBDA found, n : TryUpdate(updates, ids, found, n), NoDriver,
                      [n \in DOMAIN top |-> n])

\* One bad row is not the end: the first of the newest rows that can be fetched
\* and has a matching INF is the one that is used, whatever became of the rows
\* before it.
ResolverGoesOn(device, updates, found) ==
    LET ids == Synthesize(device)
        good == {n \in DOMAIN updates \cap (1 .. MaxCandidates) :
                   /\ Fetched(updates[n])
                   /\ \E text \in Range(updates[n].infs) \ {Garbled} :
                        \E e \in Declared(text), c \in Range(ids) : SameId(e.hwid, c)}
    IN  IF device.usb \/ ExtractField(device.fields, "CID") = "" THEN found = NoDriver
        ELSE found.update = IF good = {} THEN 0 ELSE Min(good)

=============================================================================
