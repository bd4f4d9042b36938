----------------------------- MODULE MCSideload -----------------------------
(***************************************************************************)
(* A small office for TLC: one USB printer; a signed pack that the next    *)
(* release overwrites with one that has no catalogs; an unsigned pack; a   *)
(* signed one in the bundle.                                               *)
(***************************************************************************)
EXTENDS Sideload, TLC

CONSTANTS n1, n2, d1, d2, d3, k1, k1x, k2, k3, up, sA, sB, u, f

MCPackageOf == (d1 :> k1) @@ (d2 :> k2) @@ (d3 :> k3)
MCCats == (k1 :> {"Valid"}) @@ (k1x :> {}) @@ (k2 :> {"NotSigned"}) @@ (k3 :> {"Valid"})
MCBase == (k1 :> 1) @@ (k1x :> 1) @@ (k2 :> 2) @@ (k3 :> 3)
MCDirOf == (d1 :> sA) @@ (d2 :> sB) @@ (d3 :> sB)
MCRelease == (d1 :> {k1, k1x}) @@ (d2 :> {k2})
MCMirror == (sA :> {}) @@ (sB :> {}) @@ (u :> {k1, k1x, k2, k3})
MCFits == [n \in Device |-> {d1, d3}]
MCUsbPort == [n \in Device |-> up]

Command(kind) ==
  [kind |-> kind, noVerify |-> FALSE, lean |-> FALSE, at |-> None, file |-> None,
   device |-> None, name |-> None]

MCSideCalls ==
  {[Command("folder") EXCEPT !.at = f], [Command("file") EXCEPT !.at = f, !.file = k2],
   [Command("url") EXCEPT !.at = u], [Command("url") EXCEPT !.at = u, !.lean = TRUE],
   Command("model"), [Command("usb") EXCEPT !.device = n1, !.name = n1]}

MCUsbCalls ==
  {Command("model"), [Command("usb") EXCEPT !.device = n1, !.name = n1],
   [Command("usb") EXCEPT !.device = n1, !.name = n2]}

\* The folder of a user holds a signed pack, and an unsigned one, or nothing; the
\* printer has a queue with an old driver, or none.
MCSideInit ==
  /\ files \in {[x \in Dir |-> IF x = f THEN UNION {FilesOf(k) : k \in ks} ELSE {}] :
                  ks \in {{}, {k2, k3}}}
  /\ packages = {k2}
  /\ registered = {d2}
  /\ queues \in {{}, {[name |-> n1, driver |-> d2, port |-> up]}}
  /\ ports = {up}
  /\ SideInit

MCSideSpec == MCSideInit /\ [][SideNext]_sideVars

Symmetry == Permutations(Proc)

=============================================================================
