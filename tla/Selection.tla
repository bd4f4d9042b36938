----------------------------- MODULE Selection ------------------------------
(***************************************************************************)
(* The decisions that prinstall takes without touching the machine: which   *)
(* printers there are, which drivers a printer is offered, and which of     *)
(* them is taken.  Each is a function of what was found out before; a step  *)
(* asks one of them about one case and keeps the answer beside it.          *)
(***************************************************************************)
EXTENDS Resolver, Matcher, Discovery

CONSTANTS
    InfCase,       \* [text, device]
    RowsCase,      \* [device, updates]
    IndexCase,     \* [index, ids]
    PackCase,      \* [files, ids, allow]
    ModelCase,     \* [model, local, known, manifest]
    NameCase,      \* [hint, staged]
    CidrCase,      \* [ip, prefix], or Unknown
    ScanCase       \* [net, hosts, method, heard, local]

\* Every case is built of lists, addresses and indexes as the code gets them.
ASSUME InfAssumption == \A c \in InfCase : IsText(c.text)

ASSUME RowsAssumption == \A c \in RowsCase : IsList(c.updates) /\ \A u \in Range(c.updates) : IsRow(u)

ASSUME IndexAssumption == \A c \in IndexCase : IsIndex(c.index)

ASSUME PackAssumption == \A c \in PackCase :
    IsList(c.files) /\ \A f \in Range(c.files) : IsIndex(f.index) /\ f.cached \in BOOLEAN

ASSUME ModelAssumption == \A c \in ModelCase :
    /\ IsList(c.model) /\ IsList(c.local) /\ IsList(c.known) /\ IsList(c.manifest)
    /\ \A d \in Range(c.local) : IsList(d)
    /\ \A km \in Range(c.known) : IsList(km.driver)
    /\ \A m \in Range(c.manifest) : IsList(m.universals)

ASSUME NameAssumption == \A c \in NameCase : IsList(c.hint) /\ IsList(c.staged)

ASSUME CidrAssumption == \A c \in CidrCase \ {Unknown} : c.ip \in Address /\ c.prefix \in Nat

ASSUME ScanAssumption == \A c \in ScanCase :
    /\ c.hosts \subseteq Address /\ c.method \in {"all", "snmp", "port", "mdns"}
    /\ IsList(c.heard) /\ \A m \in Range(c.heard) : m.ip \in Address
    /\ IsList(c.local) /\ \A q \in Range(c.local) : q.methods = {"local"}

VARIABLE decision   \* what was asked, the case, and the answer

Nothing == [about |-> "nothing"]

Decide(about, case, answer) ==
    /\ decision = Nothing
    /\ decision' = [about |-> about, case |-> case, answer |-> answer]

MatchInf == \E c \in InfCase :
    Decide("inf", c, FindMatching(ParseInf(c.text), Synthesize(c.device)))

ResolveByCatalog == \E c \in RowsCase : Decide("rows", c, Resolve(c.device, c.updates))

SearchIndex == \E c \in IndexCase :
    Decide("index", c, IF Accepts(c.index) THEN FindHits(c.index, c.ids) ELSE <<>>)

PickPack == \E c \in PackCase :
    Decide("pack", c, PickCandidate(Enumerate(c.files, c.ids), c.allow))

MatchModel == \E c \in ModelCase :
    Decide("model", c, MatchDrivers(c.model, c.local, c.known, c.manifest))

MatchName == \E c \in NameCase : Decide("name", c, PickBestName(c.hint, c.staged))

ListHosts == \E c \in CidrCase : Decide("cidr", c, Hosts(c))

Scan == \E c \in ScanCase :
    Decide("scan", c, FullDiscovery(c.net, c.hosts, c.method, c.heard, c.local))

Forget == decision # Nothing /\ decision' = Nothing

Init == decision = Nothing

Next ==
    \/ MatchInf \/ ResolveByCatalog \/ SearchIndex \/ PickPack
    \/ MatchModel \/ MatchName \/ ListHosts \/ Scan
    \/ Forget

Spec == Init /\ [][Next]_decision

-----------------------------------------------------------------------------
(* Properties: what every answer promises, in the words of its module.      *)

Asked(about) == decision.about = about

\* The INF matcher (inf.rs): the driver of an INF is one that it declares for
\* this machine, by the most specific id of the device that it declares.
InfMatches ==
    Asked("inf") => MatchIsBest(decision.case.text, decision.case.device, decision.answer)

\* The catalog resolver (resolver.rs): the newest usable row is found, whatever
\* failed before it.
CatalogGoesOn ==
    Asked("rows") => ResolverGoesOn(decision.case.device, decision.case.updates, decision.answer)

\* The SDI index reader (index.rs): the checks at the door are enough for every
\* record that is asked for to lead to an INF.
IndexAnswers ==
    Asked("index") => EveryRecordAnswers(decision.case.index, decision.case.ids, decision.answer)

\* The SDI tier (sdi/resolver.rs, add.rs): no unreadable index hides what the
\* others offer, and no download is chosen where a cached pack will do.
PackIsPicked ==
    Asked("pack") => BadIndexHidesNothing(decision.case.files, decision.case.ids,
                                          decision.case.allow, decision.answer)

\* The matcher (matcher.rs): staged universal drivers are offered, once, and
\* behind every driver that fits by its own score.
ModelMatches ==
    Asked("model") => UniversalsAreOffered(decision.case.model, decision.case.local,
                          decision.case.known, decision.case.manifest, decision.answer)

\* The name given to Windows (name_match.rs): no staged name is closer.
NameMatches ==
    Asked("name") => NameIsClosest(decision.case.hint, decision.case.staged, decision.answer)

\* The addresses of a scan (subnet.rs).
ScanAsksTheNetwork == Asked("cidr") => HostsAreTheNetwork(decision.case, decision.answer)

\* The printer list (discovery): every answer appears in it once, whichever
\* probes it came from.
ScanLists ==
    Asked("scan") => EveryAnswerIsListed(decision.case.net, decision.case.hosts,
                         decision.case.method, decision.case.heard, decision.case.local,
                         decision.answer)

=============================================================================
