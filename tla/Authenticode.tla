---------------------------- MODULE Authenticode ----------------------------
(***************************************************************************)
(* The Authenticode gate of src/src/commands/sdi_verify.rs: every catalog  *)
(* of a pack is checked, and the statuses are reduced to one verdict.      *)
(***************************************************************************)
EXTENDS PrintSystem

CONSTANT Cats  \* the signature statuses among the .cat files of a package

SigStatus == {"Valid", "NotSigned", "HashMismatch", "NotTrusted", "UnknownError", "Other"}
Invalid == SigStatus \ {"Valid", "NotSigned"}

Verdict == {"Verified", "Unsigned", "Invalid", "NoCatalogs"}

ASSUME CatsAssumption == Cats \in [Package -> SUBSET SigStatus]

\* Variant: one valid catalog is enough.
ReduceAnyValid(statuses) ==
  CASE statuses = {} -> "NoCatalogs"
    [] "Valid" \in statuses -> "Verified"
    [] statuses # {} /\ "Valid" \notin statuses -> "Invalid"

\* from_cat_results: Invalid > Unsigned > Verified > NoCatalogs.
Reduce(statuses) ==
  CASE statuses = {} -> "NoCatalogs"
    [] statuses \cap Invalid # {} -> "Invalid"
    [] statuses \cap Invalid = {} /\ "NotSigned" \in statuses -> "Unsigned"
    [] OTHER -> "Verified"

IsSafeToInstall(verdict) == verdict = "Verified"

\* find_cat_files passes over every directory it cannot read.
FoundCats(cats) == IF CanFail("scan") THEN SUBSET cats ELSE {cats}

\* verify_cats gives a batch whose query failed the status UnknownError.
StatusesOf(found) ==
  {found} \cup (IF CanFail("query") /\ found # {} THEN {{"UnknownError"}} ELSE {})

\* The verdicts verify_pack_directory can come to on a directory of catalogs.
VerdictsOf(cats) == {Reduce(s) : s \in UNION {StatusesOf(f) : f \in FoundCats(cats)}}

Verdicts(k) == VerdictsOf(Cats[k])

=============================================================================
