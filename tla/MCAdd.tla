------------------------------- MODULE MCAdd -------------------------------
(***************************************************************************)
(* A small office for TLC: two addresses, the IPP class driver and three   *)
(* vendor drivers, each in a package of its own, whose catalogs are all    *)
(* signed, partly signed, or missing.                                      *)
(***************************************************************************)
EXTENDS Add, TLC

CONSTANTS q1, q1i, q2, ipp, d1, d2, d3, ipA, ipB, inbox, oem1, oem2, oem3, a, b

MCPackageOf == (ipp :> inbox) @@ (d1 :> oem1) @@ (d2 :> oem2) @@ (d3 :> oem3)
MCCats == (inbox :> {"Valid"}) @@ (oem1 :> {"Valid"})
            @@ (oem2 :> {"Valid", "NotSigned"}) @@ (oem3 :> {})
MCIpPort == [x \in Ip |-> IF x = a THEN ipA ELSE ipB]
MCIppName == [n \in Queue |-> q1i]

\* A manifest that knows two drivers, one of them under a name of its own.
MCManifest == (d1 :> oem2) @@ (d3 :> oem3)
MCOffer == [bundle |-> {d1, d2}, catalog |-> {d1, d3}, sdi |-> {d2, d3}]

\* A signed driver that was extracted before, from the same SDI pack, or into
\* the same download directory.
MCBeside == [bundle |-> {}, mfr |-> {oem1}, catalog |-> {}, sdi |-> {oem1}]
MCSharedRoot == [MCBeside EXCEPT !.mfr = {}]

\* Nothing on offer but what the matcher names: the cascade without the gate.
MCNoOffer == [t \in {"bundle", "catalog", "sdi"} |-> {}]
MCAlone == [t \in DOMAIN MCBeside |-> {}]

Plain(x, n) ==
  [lean |-> FALSE, ip |-> x, model |-> q1, name |-> n, force |-> FALSE,
   noVerify |-> FALSE, noCatalog |-> FALSE, noSdi |-> FALSE, sdiFetch |-> FALSE]

\* Every flag, set and not set.
MCAdds ==
  {Plain(a, q1), [Plain(a, q1) EXCEPT !.force = TRUE, !.sdiFetch = TRUE],
   [Plain(a, q1) EXCEPT !.noVerify = TRUE],
   [Plain(a, q1) EXCEPT !.noCatalog = TRUE, !.noSdi = TRUE]}

\* What decides on a queue: the address, its name, and --force.
MCPlainAdds ==
  {[c EXCEPT !.noCatalog = TRUE, !.noSdi = TRUE] :
     c \in {Plain(a, q1), Plain(b, q2), [Plain(a, q2) EXCEPT !.force = TRUE],
            [Plain(a, q1) EXCEPT !.lean = TRUE]}}

\* And the lean build.
MCAllAdds == MCAdds \cup {[Plain(a, q1) EXCEPT !.lean = TRUE]}

Removal(n) == [target |-> n, keepDriver |-> FALSE, keepPort |-> FALSE]
MCRemovals == {Removal(q1), Removal(b)}

Q(n, d, x) == [name |-> n, driver |-> d, port |-> x]

\* The class driver and perhaps d1; nothing installed, one printer on d1, or
\* one that an earlier add left on the class driver.
MCAddInit ==
  /\ \E ds \in {{ipp}, {ipp, d1}} :
       /\ registered = ds
       /\ packages = {MCPackageOf[d] : d \in ds}
       /\ \/ queues = {} /\ ports \in {{}, {ipA}}
          \/ ipp \in ds /\ queues = {Q(q1i, ipp, ipA)} /\ ports = {ipA}
          \/ d1 \in ds /\ queues = {Q(q1, d1, ipA)} /\ ports = {ipA}
  /\ AddInit

\* No administrator: what one invocation does, however it fails.
AloneAdd ==
  \/ \E p \in Proc : StartAdd(p) \/ AddStep(p) \/ KillAdd(p) \/ RemoveSide(p)
  \/ Tick /\ UNCHANGED ad

MCAloneAddSpec == MCAddInit /\ [][AloneAdd]_addVars /\ AddFairness

\* One command after the other.
SerialSpec == MCAddInit /\ [][SerialNext]_addVars /\ AddFairness

Symmetry == Permutations(Proc)

=============================================================================
