------------------------------ MODULE Matcher -------------------------------
(***************************************************************************)
(* drivers/matcher.rs, drivers/name_match.rs, drivers/manifest.rs and       *)
(* drivers/known_matches.rs: which driver names fit a model, in which       *)
(* order, and which of the names an INF declares stands for a hint.         *)
(*                                                                         *)
(* A name is the sequence of its words as they are spelled, one blank       *)
(* between them.  Rows are told apart by the spelling; every other          *)
(* comparison is of the names in lower case, and the text that one name     *)
(* may be of another is found from how words start, end and contain words.  *)
(* For pick_best_driver_name a name is the sequence of the tokens that      *)
(* normalize_for_match makes of it.                                         *)
(***************************************************************************)
EXTENDS Lists

CONSTANTS
    Lower,         \* Lower[w]: the word w in lower case; the others are of such words
    Noise,         \* normalize_model's noise words
    ModelNumber,   \* the words of letters and digits
    Extends,       \* the pairs of words of which the first starts with the second
    Versioned,     \* those of which "v" or "." follows
    EndsIn,        \* the pairs of which the first ends in the second
    Within,        \* the pairs of which the first contains the second
    Floor          \* MIN_FUZZY_SCORE and LOCAL_UNIVERSAL_FLOOR

\* EXACT_SCORE: higher than any fuzzy match can reach.
ExactScore == 1000

ASSUME FloorAssumption == Floor \in 0 .. ExactScore

ASSUME WordAssumption == Versioned \subseteq Extends /\ Extends \cup EndsIn \subseteq Within

Lowered(name) == [i \in DOMAIN name |-> Lower[name[i]]]

Starts(w, v) == w = v \/ <<w, v>> \in Extends
Ends(w, v) == w = v \/ <<w, v>> \in EndsIn
Holds(w, v) == w = v \/ <<w, v>> \in Within

-----------------------------------------------------------------------------
(* score_driver.                                                           *)

Words(name) ==
    LET lower == Lowered(name) IN Keep(lower, {i \in DOMAIN lower : lower[i] \notin Noise})

Hits(short, long) == Cardinality({i \in DOMAIN short : short[i] \in Range(long)})

SameNumber(v, w) == Starts(v, w) \/ Starts(w, v)

NumbersMatch(m, d) ==
    \E v \in Range(m) \cap ModelNumber, w \in Range(d) \cap ModelNumber : SameNumber(v, w)

Overlap(m, d) ==
    IF Len(m) <= Len(d) THEN (300 * Hits(m, d)) \div Len(m)
    ELSE (300 * Hits(d, m)) \div Len(d)

Score(model, driver) ==
    LET m == Words(model)
        d == Words(driver)
    IN  IF m = <<>> \/ d = <<>> THEN 0
        ELSE (IF NumbersMatch(m, d) THEN 500 ELSE 0) + Overlap(m, d)

-----------------------------------------------------------------------------
(* match_drivers.                                                          *)

Row(name, confidence, source, score) ==
    [name |-> name, confidence |-> confidence, source |-> source, score |-> score]

Has(rows, name) == \E i \in DOMAIN rows : rows[i].name = name

NamePrefix(short, long) == Len(short) <= Len(long) /\ SubSeq(long, 1, Len(short)) = short

\* str::starts_with: the last word may go on.
StartsWith(name, prefix) ==
    /\ Len(prefix) \in 1 .. Len(name)
    /\ NamePrefix(Front(prefix), name)
    /\ LET n == Len(prefix) IN Starts(name[n], prefix[n])

\* Manifest::find_manufacturer: the first one with a prefix the model starts with.
FindManufacturer(manifest, model) ==
    LET fits == {k \in DOMAIN manifest :
                   \E p \in manifest[k].prefixes : StartsWith(Lowered(model), Lowered(p))}
    IN  IF fits = {} THEN {} ELSE {manifest[Min(fits)]}

ExactRows(known, model) ==
    LET found == SelectInSeq(known, LAMBDA km : Lowered(km.model) = Lowered(model))
    IN  IF found = 0 THEN <<>>
        ELSE <<Row(known[found].driver, "exact", known[found].source, ExactScore)>>

\* A name that scores, unless it is listed already.
AddScored(matched, model, name, source) ==
    IF Has(matched, name) \/ Score(model, name) < Floor THEN matched
    ELSE Append(matched, Row(name, "fuzzy", source, Score(model, name)))

\* local_name_matches_universal: the name itself, or with a version after it.
IsAlias(local, universal) ==
    LET l == Lowered(local)
        u == Lowered(universal)
        n == Len(u)
    IN  \/ NamePrefix(u, l)
        \/ n \in 1 .. Len(l) /\ NamePrefix(Front(u), l) /\ <<l[n], u[n]>> \in Versioned

\* looks_like_universal_driver
LooksUniversal(name) ==
    LET l == Lowered(name)
    IN  \/ \E w \in Range(l) : w = "upd" \/ Holds(w, "universal")
        \/ \E i \in 2 .. Len(l) : Starts(l[i], "upd")
        \/ \E i \in 1 .. Len(l) - 2 :
              Ends(l[i], "global") /\ l[i + 1] = "print" /\ Starts(l[i + 2], "driver")

\* str::contains: the first word may begin and the last one end outside of the part.
Includes(name, part) ==
    LET n == Len(part)
    IN  IF n = 1 THEN \E w \in Range(name) : Holds(w, part[1])
        ELSE \E i \in 0 .. Len(name) - n :
               /\ Ends(name[i + 1], part[1]) /\ Starts(name[i + n], part[n])
               /\ \A k \in 2 .. n - 1 : name[i + k] = part[k]

\* is_local_universal_for_manufacturer
IsLocalUniversal(mfr, name) ==
    \/ \E u \in Range(mfr.universals) : IsAlias(name, u)
    \/ LooksUniversal(name) /\ \E p \in mfr.prefixes : Includes(Lowered(name), Lowered(p))

\* Variant: what is promoted gets the score of a model number.
PromoteHigh(matched, model, mfr, name) ==
    IF Has(matched, name) \/ ~IsLocalUniversal(mfr, name) THEN matched
    ELSE Append(matched, Row(name, "fuzzy", "local", Max({Score(model, name), 2 * Floor})))

Promote(matched, model, mfr, name) ==
    IF Has(matched, name) \/ ~IsLocalUniversal(mfr, name) THEN matched
    ELSE Append(matched, Row(name, "fuzzy", "local", Max({Score(model, name), Floor})))

Before(rows, i, j) ==
    LET rank(r) == IF r.confidence = "exact" THEN 2 * ExactScore ELSE r.score
    IN  rank(rows[i]) > rank(rows[j]) \/ (rank(rows[i]) = rank(rows[j]) /\ i < j)

Ranked(rows) ==
    LET order == Sorted(DOMAIN rows, [i \in DOMAIN rows |-> {j \in DOMAIN rows : Before(rows, j, i)}])
    IN  [k \in DOMAIN rows |-> rows[order[k]]]

\* A universal that is matched already, or staged under a version of its name,
\* is not offered again.
AddUniversal(matched, local, rows, name) ==
    IF Has(matched, name) \/ Has(rows, name) THEN rows
    ELSE LET alias == SelectInSeq(local, LAMBDA d : IsAlias(d, name))
         IN  CASE alias = 0 -> Append(rows, Row(name, "universal", "manufacturer", 0))
               [] alias # 0 /\ ~Has(matched, local[alias]) ->
                    Append(rows, Row(local[alias], "universal", "local", 0))
               [] OTHER -> rows

MatchDrivers(model, local, known, manifest) ==
    LET mfrs == FindManufacturer(manifest, model)
        mfr == CHOOSE m \in mfrs : TRUE
        fromLocal == FoldLeft(LAMBDA acc, d : AddScored(acc, model, d, "local"),
                              ExactRows(known, model), local)
        fromKnown == FoldLeft(LAMBDA acc, km : AddScored(acc, model, km.driver, km.source),
                              fromLocal, known)
        promoted == IF mfrs = {} THEN fromKnown
                    ELSE FoldLeft(LAMBDA acc, d : Promote(acc, model, mfr, d), fromKnown, local)
    IN  [matched |-> Ranked(promoted),
         universal |-> IF mfrs = {} THEN <<>>
                       ELSE FoldLeft(LAMBDA acc, u : AddUniversal(promoted, local, acc, u),
                                     <<>>, mfr.universals)]

-----------------------------------------------------------------------------
(* pick_best_driver_name.                                                  *)

Shared(hint, name) == Cardinality({i \in DOMAIN hint : hint[i] \in Range(name)})

\* Variant: the first name with any word in common is kept.
GoodEnoughName(hint, best, name) ==
    IF best = <<>> \/ (Shared(hint, best[1]) = 0 /\ Shared(hint, name) > 0) THEN <<name>> ELSE best

BetterName(hint, best, name) ==
    IF best = <<>> \/ Shared(hint, name) > Shared(hint, best[1]) THEN <<name>> ELSE best

\* <<>> if nothing was staged.
PickBestName(hint, staged) ==
    FoldLeft(LAMBDA best, name : BetterName(hint, best, name), <<>>, staged)

-----------------------------------------------------------------------------
(* Properties.                                                             *)

\* What a driver is offered for, without the tiers: a staged universal driver
\* of the manufacturer that scores too low to be a fuzzy match.
OnlyUniversal(model, local, manifest) ==
    {d \in Range(local) :
        /\ Score(model, d) < Floor
        /\ \E m \in FindManufacturer(manifest, model) : IsLocalUniversal(m, d)}

\* A staged universal driver is never invisible, never offered twice under one
\* spelling, and never ahead of a driver that fits the model by its own score.
UniversalsAreOffered(model, local, known, manifest, answer) ==
    LET rows == answer.matched \o answer.universal
        stopgap == {i \in DOMAIN answer.matched :
                      /\ answer.matched[i].confidence = "fuzzy"
                      /\ Score(model, answer.matched[i].name) < Floor}
    IN  /\ \A i, j \in DOMAIN rows : rows[i].name = rows[j].name => i = j
        /\ \A d \in OnlyUniversal(model, local, manifest) : Has(answer.matched, d)
        /\ \A i \in stopgap, j \in DOMAIN answer.matched \ stopgap : j < i

\* The name given to Add-PrinterDriver is a staged one, and no staged name
\* shares more words with the hint.
NameIsClosest(hint, staged, best) ==
    IF staged = <<>> THEN best = <<>>
    ELSE /\ Range(best) \subseteq Range(staged) /\ best # <<>>
         /\ \A n \in Range(staged) : Shared(hint, n) <= Shared(hint, best[1])

=============================================================================
