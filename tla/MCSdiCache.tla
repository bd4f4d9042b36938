----------------------------- MODULE MCSdiCache -----------------------------
(***************************************************************************)
(* A cache for TLC: two indexes with a pack each, of which the first is    *)
(* larger; a budget for both, for the larger, and for none of them.        *)
(***************************************************************************)
EXTENDS SdiCache, TLC

CONSTANTS i1, i2, k1, k2

MCPackOf == [i \in Index |-> IF i = i1 THEN k1 ELSE k2]
MCSizeOf == [k \in Pack |-> IF k = k1 THEN 2 ELSE 1]

Do(op, budget) == [op |-> op, budget |-> budget, offline |-> FALSE]

MCSdiCalls ==
  {Do("refresh", 2), Do("prefetch", 1), Do("prefetch", 3), Do("clean", 0), Do("clean", 2),
   Do("tier", 2), [Do("prefetch", 3) EXCEPT !.offline = TRUE]}

\* Nothing cached yet; or both packs, in either order of use, one of them
\* perhaps lost by a clean that was killed, one perhaps not registered.
Known(k, t) == [size |-> MCSizeOf[k], used |-> t]

MCSdiInit ==
  /\ clock = 2
  /\ \/ meta = NoFile /\ file = [a \in Asset |-> Absent]
     \/ \E old, new \in Pack : \E there \in {Pack, {new}} :
          /\ old # new
          /\ meta \in {[version |-> 1, refreshed |-> TRUE, packs |-> f] :
                        f \in {(old :> Known(old, 0)) @@ (new :> x) : x \in {None, Known(new, 1)}}}
          /\ file = [a \in Asset |-> IF a \in Index \cup there THEN 1 ELSE Absent]
  /\ SdiStart

Symmetry == Permutations(Proc)

MCRaceCalls == {Do("prefetch", 2), Do("clean", 0), Do("tier", 2)}
MCRaceInit ==
  /\ clock = 0 /\ meta = NoFile /\ file = [a \in Asset |-> Absent] /\ SdiStart
MCRaceSpec == MCRaceInit /\ [][SdiNext]_sdiVars

MCSdiSpec == MCSdiInit /\ [][SdiNext]_sdiVars /\ SdiFairness

=============================================================================
