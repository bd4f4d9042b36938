----------------------------- MODULE Add_proofs -----------------------------
(***************************************************************************)
(* Theorems about `prinstall add <ip>` next to `prinstall remove`, for any *)
(* number of invocations of both, any drivers and packs, any answers of    *)
(* the tiers, any lag and any failing commands.  The steps of a removal,   *)
(* alone or inside an `add --force`, are proved in Remove_proofs.          *)
(***************************************************************************)
EXTENDS Add, Remove_proofs

-----------------------------------------------------------------------------
(* The inductive invariant: what a frame knows, what its report says and   *)
(* what the gate has seen, wherever it stands.                             *)

EarlyPc == {"early", "forcing", "discover", "resolve"}
TierPc == {"bundle", "mfr", "catalog", "sdi"}
InstallPc == {"port", "addPort", "driver", "addDriver", "queue", "addQueue", "record"}
IppPc == {"ipp", "ippPort", "ippQueue", "ippRecord"}
WorkPc == TierPc \cup {"gate", "stage"} \cup InstallPc \cup IppPc

\* What a frame has before, in and after the cascade.
Has(f) ==
  /\ f.pc # "idle" => f.call \in Adds
  /\ f.pc \in {"idle"} \cup EarlyPc => f.hint = None /\ f.report = NoReport
  /\ f.pc \in WorkPc => f.hint \in Driver
  /\ f.pc \in {"gate", "stage"} => f.tier \in TierPc /\ f.pack \in f.dir
  /\ f.pc \in InstallPc => f.tier \in TierPc \cup {"local"}
  /\ f.pc \in {"gate", "stage"} \cup InstallPc => f.driver \in Driver

\* The tier that is being asked.
Asking(f) ==
  IF f.pc \in {"gate", "stage"} \cup InstallPc THEN f.tier
  ELSE IF f.pc \in IppPc THEN "ipp" ELSE f.pc

Left == {"Failed", "Skipped", "Disabled"}

\* The report of an invocation that is through.
Told(f) ==
  LET last == IF f.report["ipp"] = "none" THEN f.tier ELSE "ipp" IN
  /\ {t \in Tier : f.report[t] \in Success} = IF f.outcome = "ok" THEN {last} ELSE {}
  /\ last = "ipp" =>
       /\ "Failed" \in {f.report["local"], f.report["mfr"]}
       /\ f.report["catalog"] \in Left
       /\ ~f.call.lean => f.report["sdi"] \in Left
  /\ f.outcome = "error" => last = "ipp"

\* In the cascade no tier has succeeded yet, and those behind the one that is
\* being asked have their reasons.
Trail(f) ==
  /\ f.pc \in WorkPc =>
       /\ \A t \in Tier : f.report[t] \notin Success
       /\ f.report["ipp"] = "none"
       /\ Asking(f) \in {"catalog", "sdi", "ipp"}
            => "Failed" \in {f.report["local"], f.report["mfr"]}
       /\ Asking(f) \in {"sdi", "ipp"} => f.report["catalog"] \in Left
       /\ Asking(f) = "ipp" /\ ~f.call.lean => f.report["sdi"] \in Left
  /\ f.pc = "done" /\ f.hint # None => Told(f)

\* Nothing in the directory has an unsigned or invalid catalog.
Sound(f) == \A k \in f.dir : Cats[k] \subseteq {"Valid"}

\* Something in it vouches for the pack.
Backed(f) == f.pack \in f.dir /\ Sound(f) /\ SignedBeside(f)

\* Past the gate a directory is sound, or --no-verify was given; what is to be
\* reported as verified, or has been, is backed.
Vouched(f) ==
  ~CanFail("scan") /\ f.pc # "idle" /\ ~f.call.lean =>
    /\ f.pc \in {"stage"} \cup InstallPc /\ f.mark = "Verified" => Backed(f)
    /\ f.pc = "stage" => f.call.noVerify \/ (Sound(f) /\ (f.tier = "mfr" \/ SignedBeside(f)))
    /\ \A t \in Tier : f.report[t] = "Verified" => Backed(f)

GoodAdd(f) == f \in AddFrame /\ Has(f) /\ Trail(f) /\ Vouched(f)

AddIInv ==
  /\ IInv
  /\ ad \in [Proc -> AddFrame]
  /\ \A p \in Proc : GoodAdd(ad[p])

-----------------------------------------------------------------------------
(* How the steps change a frame.                                           *)

\* Before the cascade a command may end.
LEMMA GoodFail ==
  ASSUME NEW f, GoodAdd(f), f.pc \in EarlyPc
  PROVE  GoodAdd([f EXCEPT !.pc = "done", !.outcome = "error"])
<1> DEFINE upd == [f EXCEPT !.pc = "done", !.outcome = "error"]
<1>1. upd \in AddFrame
  BY DEF GoodAdd, AddFrame, AddPc
<1>2. /\ upd.pc = "done" /\ upd.call = f.call /\ upd.hint = f.hint
      /\ upd.report = f.report /\ upd.pack = f.pack /\ upd.dir = f.dir
  BY DEF GoodAdd, AddFrame
<1> HIDE DEF upd
<1>3. Has(upd)
  BY <1>2 DEF GoodAdd, Has, EarlyPc, WorkPc, TierPc, InstallPc, IppPc
<1>4. Trail(upd)
  BY <1>2 DEF GoodAdd, Has, Trail, EarlyPc, WorkPc, TierPc, InstallPc, IppPc
<1>5. Vouched(upd)
  BY <1>2 DEF GoodAdd, Vouched, Backed, Sound, SignedBeside, EarlyPc, InstallPc
<1> QED BY <1>1, <1>3, <1>4, <1>5 DEF GoodAdd, upd

\* The tier that is asked has a pack.
LEMMA GoodPropose ==
  ASSUME NEW f, GoodAdd(f), NEW t \in TierPc, f.pc = t, NEW d \in Driver, NEW k \in Package,
         NEW dir \in SUBSET Package, k \in dir
  PROVE  GoodAdd([f EXCEPT !.pc = "gate", !.tier = t, !.driver = d, !.pack = k, !.dir = dir])
<1> DEFINE upd == [f EXCEPT !.pc = "gate", !.tier = t, !.driver = d, !.pack = k, !.dir = dir]
<1>1. upd \in AddFrame
  BY ZenonT(60) DEF GoodAdd, AddFrame, AddPc, Tier, TierPc
<1>2. /\ upd.pc = "gate" /\ upd.call = f.call /\ upd.hint = f.hint /\ upd.tier = t
      /\ upd.driver = d /\ upd.report = f.report /\ upd.pack = k
      /\ upd.dir = dir
  BY DEF GoodAdd, AddFrame
<1> HIDE DEF upd
<1>3. Has(upd)
  BY <1>2 DEF GoodAdd, Has, EarlyPc, WorkPc, TierPc, InstallPc, IppPc
<1>4. Trail(upd)
  BY <1>2 DEF GoodAdd, Trail, Asking, EarlyPc, WorkPc, TierPc, InstallPc, IppPc
<1>5. Vouched(upd)
  BY <1>2 DEF GoodAdd, Trail, Vouched, WorkPc, TierPc, InstallPc, IppPc, Success
<1> QED BY <1>1, <1>3, <1>4, <1>5 DEF GoodAdd, upd

\* The tier that is asked is left for the next one.
LEMMA GoodLeave ==
  ASSUME NEW f, GoodAdd(f), f.pc \in WorkPc, NEW t \in TierPc \cup {"local"}, Asking(f) = t,
         NEW s \in Left, t \in {"local", "bundle", "mfr"} => s = "Failed"
  PROVE  GoodAdd([f EXCEPT !.pc = NextTier(t, f.call.lean), !.report[t] = s])
<1> DEFINE pc == NextTier(t, f.call.lean)
           upd == [f EXCEPT !.pc = pc, !.report[t] = s]
<1>1. /\ t = "bundle" => pc = "mfr"
      /\ t \in {"local", "mfr"} => pc = "catalog"
      /\ t = "catalog" => pc = IF f.call.lean THEN "ipp" ELSE "sdi"
      /\ t = "sdi" => pc = "ipp"
  BY DEF NextTier, TierPc
<1>2. pc \in {"mfr", "catalog", "sdi", "ipp"}
  BY <1>1 DEF TierPc
<1> HIDE DEF pc
<1>3. f \in AddFrame /\ Has(f) /\ Trail(f) /\ Vouched(f)
  BY DEF GoodAdd
<1>4. upd \in AddFrame
  BY ZenonT(60), <1>2, <1>3 DEF AddFrame, AddPc, Tier, TierPc, Status, Left
<1>5. /\ upd.pc = pc /\ upd.call = f.call /\ upd.hint = f.hint /\ upd.pack = f.pack /\ upd.dir = f.dir
      /\ \A x \in Tier : upd.report[x] = IF x = t THEN s ELSE f.report[x]
  BY <1>3 DEF AddFrame
<1> HIDE DEF upd
<1>6. Has(upd)
  BY <1>2, <1>3, <1>5 DEF Has, EarlyPc, WorkPc, TierPc, InstallPc, IppPc
<1>7. upd.pc \in WorkPc /\ Asking(upd) = upd.pc
  BY <1>2, <1>5 DEF Asking, WorkPc, TierPc, InstallPc, IppPc
<1>8. Trail(upd)
  BY <1>1, <1>2, <1>3, <1>5, <1>7 DEF Trail, Tier, TierPc, WorkPc, IppPc, InstallPc, Left, Success
<1>9. Vouched(upd)
  BY <1>2, <1>3, <1>5 DEF Vouched, Backed, Sound, SignedBeside, Trail, InstallPc, Success, Left
<1> QED BY <1>4, <1>6, <1>8, <1>9 DEF GoodAdd, upd, pc

\* The install is tried under the name of the matcher.
LEMMA GoodHint ==
  ASSUME NEW f, GoodAdd(f), f.pc = "mfr" \/ (f.pc = "stage" /\ f.tier = "mfr")
  PROVE  GoodAdd([f EXCEPT !.pc = "port", !.tier = "mfr", !.driver = f.hint, !.mark = "Matched"])
<1> DEFINE upd == [f EXCEPT !.pc = "port", !.tier = "mfr", !.driver = f.hint, !.mark = "Matched"]
<1>1. f \in AddFrame /\ Has(f) /\ Trail(f) /\ Vouched(f)
  BY DEF GoodAdd
<1>2. upd \in AddFrame
  BY ZenonT(60), <1>1 DEF AddFrame, AddPc, Tier, Success
<1>3. /\ upd.pc = "port" /\ upd.call = f.call /\ upd.hint = f.hint /\ upd.pack = f.pack /\ upd.dir = f.dir
      /\ upd.tier = "mfr" /\ upd.driver = f.hint /\ upd.mark = "Matched" /\ upd.report = f.report
  BY <1>1 DEF AddFrame
<1> HIDE DEF upd
<1>4. Has(upd)
  BY <1>1, <1>3 DEF Has, EarlyPc, WorkPc, TierPc, InstallPc, IppPc
<1>5. Trail(upd)
  BY <1>1, <1>3 DEF Trail, Asking, WorkPc, TierPc, InstallPc, IppPc
<1>6. Vouched(upd)
  BY <1>1, <1>3 DEF Vouched, Backed, Sound, SignedBeside, InstallPc
<1> QED BY <1>2, <1>4, <1>5, <1>6 DEF GoodAdd, upd

\* A pack passes the gate with a mark it deserves.
LEMMA GoodStage ==
  ASSUME NEW f, GoodAdd(f), f.pc = "gate", NEW m \in Success,
         ~CanFail("scan") /\ ~f.call.lean =>
           /\ m = "Verified" => Backed(f)
           /\ f.call.noVerify \/ (Sound(f) /\ (f.tier = "mfr" \/ SignedBeside(f)))
  PROVE  GoodAdd([f EXCEPT !.pc = "stage", !.mark = m])
<1> DEFINE upd == [f EXCEPT !.pc = "stage", !.mark = m]
<1>1. f \in AddFrame /\ Has(f) /\ Trail(f) /\ Vouched(f)
  BY DEF GoodAdd
<1>2. upd \in AddFrame
  BY <1>1 DEF AddFrame, AddPc
<1>3. /\ upd.pc = "stage" /\ upd.call = f.call /\ upd.hint = f.hint /\ upd.pack = f.pack /\ upd.dir = f.dir
      /\ upd.tier = f.tier /\ upd.driver = f.driver /\ upd.mark = m /\ upd.report = f.report
  BY <1>1 DEF AddFrame
<1> HIDE DEF upd
<1>4. Has(upd)
  BY <1>1, <1>3 DEF Has, EarlyPc, WorkPc, TierPc, InstallPc, IppPc
<1>5. Trail(upd)
  BY <1>1, <1>3 DEF Trail, Asking, WorkPc, TierPc, InstallPc, IppPc
<1>6. Vouched(upd)
  BY <1>1, <1>3 DEF Vouched, Backed, Sound, SignedBeside, InstallPc
<1> QED BY <1>2, <1>4, <1>5, <1>6 DEF GoodAdd, upd

\* The pack is in the store, under one name or the other.
LEMMA GoodStaged ==
  ASSUME NEW f, GoodAdd(f), f.pc = "stage", NEW d \in Driver
  PROVE  GoodAdd([f EXCEPT !.pc = "port", !.driver = d])
<1> DEFINE upd == [f EXCEPT !.pc = "port", !.driver = d]
<1>1. f \in AddFrame /\ Has(f) /\ Trail(f) /\ Vouched(f)
  BY DEF GoodAdd
<1>2. upd \in AddFrame
  BY <1>1 DEF AddFrame, AddPc
<1>3. /\ upd.pc = "port" /\ upd.call = f.call /\ upd.hint = f.hint /\ upd.pack = f.pack /\ upd.dir = f.dir
      /\ upd.tier = f.tier /\ upd.driver = d /\ upd.mark = f.mark /\ upd.report = f.report
  BY <1>1 DEF AddFrame
<1> HIDE DEF upd
<1>4. Has(upd)
  BY <1>1, <1>3 DEF Has, EarlyPc, WorkPc, TierPc, InstallPc, IppPc
<1>5. Trail(upd)
  BY <1>1, <1>3 DEF Trail, Asking, WorkPc, TierPc, InstallPc, IppPc
<1>6. Vouched(upd)
  BY <1>1, <1>3 DEF Vouched, Backed, Sound, SignedBeside, InstallPc
<1> QED BY <1>2, <1>4, <1>5, <1>6 DEF GoodAdd, upd

\* Before the cascade, in the installation and in the last tier a command may
\* go on to the next of its commands; from the bundle it may go to the
\* manufacturer; and it may be killed anywhere.
LEMMA GoodTo ==
  ASSUME NEW f, GoodAdd(f), NEW pc,
         \/ f.pc \in EarlyPc /\ pc \in EarlyPc
         \/ f.pc \in InstallPc /\ pc \in InstallPc
         \/ f.pc \in IppPc /\ pc \in IppPc
         \/ f.pc = "bundle" /\ pc = "mfr"
         \/ f.pc \notin {"idle", "done"} /\ pc = "killed"
  PROVE  GoodAdd([f EXCEPT !.pc = pc])
<1> DEFINE upd == [f EXCEPT !.pc = pc]
<1>1. f \in AddFrame /\ Has(f) /\ Trail(f) /\ Vouched(f)
  BY DEF GoodAdd
<1>2. upd \in AddFrame
  BY <1>1 DEF AddFrame, AddPc, EarlyPc, InstallPc, IppPc
<1>3. /\ upd.pc = pc /\ upd.call = f.call /\ upd.hint = f.hint /\ upd.pack = f.pack /\ upd.dir = f.dir
      /\ upd.tier = f.tier /\ upd.driver = f.driver /\ upd.mark = f.mark /\ upd.report = f.report
  BY <1>1 DEF AddFrame
<1> HIDE DEF upd
<1>4. Has(upd)
  BY <1>1, <1>3 DEF Has, EarlyPc, WorkPc, TierPc, InstallPc, IppPc
<1>5. Trail(upd)
  BY <1>1, <1>3 DEF Trail, Asking, EarlyPc, WorkPc, TierPc, InstallPc, IppPc
<1>6. Vouched(upd)
  BY <1>1, <1>3 DEF Vouched, Backed, Sound, SignedBeside, EarlyPc, InstallPc, IppPc
<1> QED BY <1>2, <1>4, <1>5, <1>6 DEF GoodAdd, upd

\* The printer answers, or does not, over SNMP and on port 631.
LEMMA GoodDiscover ==
  ASSUME NEW f, GoodAdd(f), f.pc = "discover", NEW b \in BOOLEAN, NEW c \in BOOLEAN
  PROVE  GoodAdd([f EXCEPT !.pc = "resolve", !.deviceId = b, !.ippOk = c])
<1> DEFINE upd == [f EXCEPT !.pc = "resolve", !.deviceId = b, !.ippOk = c]
<1>1. f \in AddFrame /\ Has(f) /\ Trail(f) /\ Vouched(f)
  BY DEF GoodAdd
<1>2. upd \in AddFrame
  BY <1>1 DEF AddFrame, AddPc
<1>3. /\ upd.pc = "resolve" /\ upd.call = f.call /\ upd.hint = f.hint /\ upd.pack = f.pack /\ upd.dir = f.dir
      /\ upd.report = f.report
  BY <1>1 DEF AddFrame
<1> HIDE DEF upd
<1>4. Has(upd)
  BY <1>1, <1>3 DEF Has, EarlyPc, WorkPc, TierPc, InstallPc, IppPc
<1>5. Trail(upd)
  BY <1>3 DEF Trail, WorkPc, TierPc, InstallPc, IppPc
<1>6. Vouched(upd)
  BY <1>1, <1>3 DEF Vouched, Backed, Sound, SignedBeside, InstallPc
<1> QED BY <1>2, <1>4, <1>5, <1>6 DEF GoodAdd, upd

\* Nothing is reported before the cascade.
LEMMA NothingReported ==
  /\ NoReport \in [Tier -> Status]
  /\ \A t \in Tier : NoReport[t] = "none"
  BY DEF NoReport, Status

\* The driver is known, and here or to be looked for.
LEMMA GoodResolve ==
  ASSUME NEW f, GoodAdd(f), f.pc = "resolve", NEW d \in Driver
  PROVE  /\ GoodAdd([f EXCEPT !.pc = "port", !.hint = d, !.tier = "local", !.driver = d,
                              !.mark = "Matched"])
         /\ GoodAdd([f EXCEPT !.pc = "bundle", !.hint = d])
<1> DEFINE here == [f EXCEPT !.pc = "port", !.hint = d, !.tier = "local", !.driver = d,
                             !.mark = "Matched"]
           away == [f EXCEPT !.pc = "bundle", !.hint = d]
<1>1. f \in AddFrame /\ Has(f) /\ Vouched(f) /\ f.report = NoReport /\ f.call \in Adds
  BY DEF GoodAdd, Has, EarlyPc
<1>2. here \in AddFrame /\ away \in AddFrame
  BY <1>1 DEF AddFrame, AddPc, Tier, Success
<1>3. /\ here.pc = "port" /\ here.call = f.call /\ here.hint = d /\ here.pack = f.pack /\ here.dir = f.dir
      /\ here.tier = "local" /\ here.driver = d /\ here.mark = "Matched" /\ here.report = NoReport
      /\ away.pc = "bundle" /\ away.call = f.call /\ away.hint = d /\ away.pack = f.pack /\ away.dir = f.dir
      /\ away.report = NoReport
  BY <1>1 DEF AddFrame
<1> HIDE DEF here, away
<1>4. Has(here) /\ Has(away)
  BY <1>1, <1>3 DEF Has, EarlyPc, WorkPc, TierPc, InstallPc, IppPc
<1>5. Trail(here) /\ Trail(away)
  BY <1>3, NothingReported DEF Trail, Asking, WorkPc, TierPc, InstallPc, IppPc, Tier, Success
<1>6. Vouched(here) /\ Vouched(away)
  BY <1>3, NothingReported DEF Vouched, Backed, Sound, SignedBeside, InstallPc
<1> QED BY <1>2, <1>4, <1>5, <1>6 DEF GoodAdd, here, away

\* The end: the tier that installed is the one that succeeded.
LEMMA GoodInstalled ==
  ASSUME NEW f, GoodAdd(f), f.pc = "record"
  PROVE  GoodAdd([f EXCEPT !.pc = "done", !.outcome = "ok", !.report[f.tier] = f.mark])
<1> DEFINE upd == [f EXCEPT !.pc = "done", !.outcome = "ok", !.report[f.tier] = f.mark]
<1>1. f \in AddFrame /\ Has(f) /\ Trail(f) /\ Vouched(f)
  BY DEF GoodAdd
<1>2. f.tier \in Tier \ {"ipp"} /\ f.mark \in Success
  BY <1>1 DEF Has, AddFrame, InstallPc, TierPc, Tier
<1>3. upd \in AddFrame
  BY <1>1, <1>2 DEF AddFrame, AddPc, Status
<1>4. /\ upd.pc = "done" /\ upd.call = f.call /\ upd.hint = f.hint /\ upd.pack = f.pack /\ upd.dir = f.dir
      /\ upd.tier = f.tier /\ upd.outcome = "ok"
      /\ \A x \in Tier : upd.report[x] = IF x = f.tier THEN f.mark ELSE f.report[x]
  BY <1>1 DEF AddFrame
<1> HIDE DEF upd
<1>5. Has(upd)
  BY <1>1, <1>4 DEF Has, EarlyPc, WorkPc, TierPc, InstallPc, IppPc
<1>6. upd.report["ipp"] = "none" /\ {t \in Tier : upd.report[t] \in Success} = {f.tier}
  BY <1>1, <1>2, <1>4 DEF Trail, WorkPc, InstallPc, Tier
<1>7. Trail(upd)
  BY <1>2, <1>4, <1>6 DEF Trail, Told, WorkPc, TierPc, InstallPc, IppPc
<1>8. Vouched(upd)
  BY <1>1, <1>2, <1>4 DEF Vouched, Backed, Sound, SignedBeside, InstallPc
<1> QED BY <1>3, <1>5, <1>7, <1>8 DEF GoodAdd, upd

\* The end in the last tier, one way or the other.
LEMMA GoodLast ==
  ASSUME NEW f, GoodAdd(f), f.pc \in IppPc, NEW o, NEW s,
         (o = "ok" /\ s = "Matched") \/ (o = "error" /\ s = "Failed")
  PROVE  GoodAdd([f EXCEPT !.pc = "done", !.outcome = o, !.report["ipp"] = s])
<1> DEFINE upd == [f EXCEPT !.pc = "done", !.outcome = o, !.report["ipp"] = s]
<1>1. f \in AddFrame /\ Has(f) /\ Trail(f) /\ Vouched(f)
  BY DEF GoodAdd
<1>2. (o = "ok" /\ s = "Matched") \/ (o = "error" /\ s = "Failed")
  OBVIOUS
<1>3. upd \in AddFrame
  BY ZenonT(60), <1>1, <1>2 DEF AddFrame, AddPc, Status, Tier, Success
<1>4. /\ upd.pc = "done" /\ upd.call = f.call /\ upd.hint = f.hint /\ upd.pack = f.pack /\ upd.dir = f.dir
      /\ upd.tier = f.tier /\ upd.outcome = o
      /\ \A x \in Tier : upd.report[x] = IF x = "ipp" THEN s ELSE f.report[x]
  BY <1>1 DEF AddFrame
<1> HIDE DEF upd
<1>5. Has(upd)
  BY <1>1, <1>4 DEF Has, EarlyPc, WorkPc, TierPc, InstallPc, IppPc
<1>6. /\ \A t \in Tier : f.report[t] \notin Success
      /\ "Failed" \in {f.report["local"], f.report["mfr"]}
      /\ f.report["catalog"] \in Left
      /\ ~f.call.lean => f.report["sdi"] \in Left
  BY <1>1 DEF Trail, Asking, WorkPc, InstallPc, IppPc
<1>7. {t \in Tier : upd.report[t] \in Success} = IF upd.outcome = "ok" THEN {"ipp"} ELSE {}
  BY <1>2, <1>4, <1>6 DEF Success, Tier
<1>8. upd.report["ipp"] # "none"
  BY <1>2, <1>4 DEF Tier
<1>9. Told(upd)
  BY <1>4, <1>6, <1>7, <1>8 DEF Told, Tier
<1>10. Trail(upd)
  BY <1>4, <1>9 DEF Trail, WorkPc, TierPc, InstallPc, IppPc
<1>11. Vouched(upd)
  BY <1>1, <1>2, <1>4, <1>6 DEF Vouched, Backed, Sound, SignedBeside, InstallPc, Success
<1> QED BY <1>3, <1>5, <1>10, <1>11 DEF GoodAdd, upd

-----------------------------------------------------------------------------
(* AddIInv is inductive.                                                   *)

\* A step that gives one invocation a good frame.
LEMMA AddFrameInv ==
  ASSUME AddIInv, IInv', NEW p \in Proc, NEW upd, GoodAdd(upd), ad' = [ad EXCEPT ![p] = upd]
  PROVE  AddIInv'
<1>1. ad' \in [Proc -> AddFrame]
  BY DEF AddIInv, GoodAdd
<1>2. \A r \in Proc : GoodAdd(ad'[r])
  BY DEF AddIInv
<1> QED BY <1>1, <1>2 DEF AddIInv

\* A step that leaves the frames of `remove` alone.
LEMMA AddGotoInv ==
  ASSUME AddIInv, NEW p \in Proc, NEW upd, GoodAdd(upd), AddGoto(p, upd),
         PrintTypeOK', history' \subseteq Entry
  PROVE  AddIInv'
<1>1. IInv'
  BY DEF AddIInv, AddGoto, IInv, TypeOK, Knows, Checks
<1> QED BY <1>1, AddFrameInv DEF AddGoto

\* A step that changes nothing else.
LEMMA AddQuietlyInv ==
  ASSUME AddIInv, NEW p \in Proc, NEW upd, GoodAdd(upd), Quietly(p, upd)
  PROVE  AddIInv'
<1>1. PrintTypeOK' /\ history' \subseteq Entry
  BY QuietType, QuietHistory DEF AddIInv, Quietly
<1> QED BY <1>1, AddGotoInv DEF Quietly

\* Every frame is a good one.
LEMMA AddGood ==
  ASSUME AddIInv, NEW p \in Proc
  PROVE  GoodAdd(ad[p]) /\ ad[p] \in AddFrame /\ Has(ad[p])
  BY DEF AddIInv, GoodAdd

\* The command line is read.
LEMMA StartAddInv ==
  ASSUME AddIInv, NEW p \in Proc, StartAdd(p)
  PROVE  AddIInv'
<1>1. PICK c \in Adds : Quietly(p, [IdleAdd EXCEPT !.pc = "early", !.call = c])
  BY DEF StartAdd
<1> DEFINE upd == [IdleAdd EXCEPT !.pc = "early", !.call = c]
<1>2. /\ upd.pc = "early" /\ upd.call = c /\ upd.hint = None /\ upd.report = NoReport
  BY DEF IdleAdd
<1>3. upd \in AddFrame
  BY NothingReported DEF IdleAdd, AddFrame, AddPc, Success
<1> HIDE DEF upd
<1>4. GoodAdd(upd)
  BY <1>2, <1>3, NothingReported DEF GoodAdd, Has, Trail, Vouched, EarlyPc, WorkPc, TierPc, InstallPc, IppPc
<1> QED BY <1>1, <1>4, AddQuietlyInv DEF upd

\* The early check, the forced removal, the discovery and the driver's name.
LEMMA EarlyInv ==
  ASSUME AddIInv, NEW p \in Proc,
         \/ EarlyFree(p) \/ EarlyTaken(p) \/ Forced(p) \/ ForceFailed(p)
         \/ Discover(p) \/ Unidentified(p) \/ Resolve(p) \/ Unresolved(p)
  PROVE  AddIInv'
<1> DEFINE f == ad[p]
<1>1. GoodAdd(f) /\ f.pc \in EarlyPc
  BY AddGood DEF EarlyFree, EarlyTaken, Forced, ForceFailed, Discover, Unidentified, Resolve,
     Unresolved, AddAt, EarlyPc
<1>2. ASSUME Fail(p) PROVE AddIInv'
  BY <1>1, <1>2, GoodFail, AddQuietlyInv DEF Fail
<1>3. CASE EarlyFree(p) \/ Forced(p)
  <2>1. GoodAdd([f EXCEPT !.pc = "discover"])
    BY <1>1, GoodTo DEF EarlyPc
  <2> QED BY <1>3, <2>1, AddQuietlyInv DEF EarlyFree, Forced
<1>4. CASE Discover(p)
  <2>1. PICK b, c \in BOOLEAN :
          Fail(p) \/ Quietly(p, [f EXCEPT !.pc = "resolve", !.deviceId = b, !.ippOk = c])
    BY <1>4 DEF Discover
  <2>2. GoodAdd([f EXCEPT !.pc = "resolve", !.deviceId = b, !.ippOk = c])
    BY <1>1, <1>4, GoodDiscover DEF Discover, AddAt
  <2> QED BY <1>2, <2>1, <2>2, AddQuietlyInv
<1>5. CASE Resolve(p)
  <2>1. PICK d \in Hint :
          \/ Quietly(p, [f EXCEPT !.pc = "port", !.hint = d, !.tier = "local", !.driver = d,
                                  !.mark = "Matched"])
          \/ Quietly(p, [f EXCEPT !.pc = "bundle", !.hint = d])
    BY <1>5 DEF Resolve
  <2>2. f.pc = "resolve" /\ d \in Driver
    BY <1>5, OfferAssumption DEF Resolve, AddAt
  <2> QED BY <1>1, <2>1, <2>2, GoodResolve, AddQuietlyInv
<1>6. CASE EarlyTaken(p) \/ ForceFailed(p) \/ Unidentified(p) \/ Unresolved(p)
  BY <1>2, <1>6 DEF EarlyTaken, ForceFailed, Unidentified, Unresolved
<1> QED BY <1>3, <1>4, <1>5, <1>6

\* The forced removal begins.
LEMMA EarlyForceInv ==
  ASSUME AddIInv, NEW p \in Proc, EarlyForce(p)
  PROVE  AddIInv'
<1>1. PICK q \in queues :
        BeginRemove(p, [target |-> q.name, keepDriver |-> FALSE, keepPort |-> TRUE])
  BY DEF EarlyForce
<1>2. q.name \in Queue
  BY DEF AddIInv, IInv, TypeOK, PrintTypeOK, QueueRec
<1>3. [target |-> q.name, keepDriver |-> FALSE, keepPort |-> TRUE]
        \in [target: Target, keepDriver: BOOLEAN, keepPort: BOOLEAN]
  BY <1>2 DEF Target
<1>4. IInv'
  BY <1>1, <1>3, BeginInv DEF EarlyForce, AddIInv
<1>5. GoodAdd([ad[p] EXCEPT !.pc = "forcing"])
  BY AddGood, GoodTo DEF EarlyForce, AddAt, EarlyPc
<1>6. ad' = [ad EXCEPT ![p] = [ad[p] EXCEPT !.pc = "forcing"]]
  BY DEF EarlyForce, AddIInv
<1> QED BY <1>4, <1>5, <1>6, AddFrameInv

\* The tiers' searches.
LEMMA TierInv ==
  ASSUME AddIInv, NEW p \in Proc,
         \/ BundleEmpty(p) \/ BundleMatch(p) \/ MfrNothing(p) \/ MfrDownload(p)
         \/ CatalogPasses(p) \/ CatalogMatch(p)
         \/ SdiDisabled(p) \/ SdiSkipped(p) \/ SdiNothing(p) \/ SdiMatch(p)
  PROVE  AddIInv'
<1> DEFINE f == ad[p]
<1>1. GoodAdd(f) /\ f \in AddFrame /\ Has(f)
  BY AddGood
<1>2. ASSUME NEW t \in {"bundle", "mfr", "catalog", "sdi"}, f.pc = t, NEW d \in Driver,
             NEW k \in Package, Propose(p, t, d, k)
      PROVE  AddIInv'
  <2>1. PICK rest \in SUBSET Beside[t] :
          Quietly(p, [f EXCEPT !.pc = "gate", !.tier = t, !.driver = d, !.pack = k,
                               !.dir = {k} \cup rest])
    BY <1>2 DEF Propose
  <2>2. {k} \cup rest \in SUBSET Package /\ k \in {k} \cup rest /\ t \in TierPc
    BY <1>2, BesideAssumption DEF TierPc
  <2>3. GoodAdd([f EXCEPT !.pc = "gate", !.tier = t, !.driver = d, !.pack = k,
                          !.dir = {k} \cup rest])
    BY <1>1, <1>2, <2>2, GoodPropose
  <2> QED BY <2>1, <2>3, AddQuietlyInv
<1>3. ASSUME NEW t \in {"catalog", "sdi"}, f.pc = t, NEW s \in Left, Leave(p, t, s)
      PROVE  AddIInv'
  <2>1. Asking(f) = t /\ f.pc \in WorkPc /\ t \in TierPc
    BY <1>3 DEF Asking, WorkPc, TierPc, InstallPc, IppPc
  <2>2. GoodAdd([f EXCEPT !.pc = NextTier(t, f.call.lean), !.report[t] = s])
    BY <1>1, <1>3, <2>1, GoodLeave
  <2> QED BY <1>3, <2>2, AddQuietlyInv DEF Leave
<1>4. \A d \in Driver : PackageOf[d] \in Package
  BY DriverAssumption
<1>5. CASE BundleEmpty(p)
  BY <1>1, <1>5, GoodTo, AddQuietlyInv DEF BundleEmpty, AddAt
<1>6. CASE BundleMatch(p) \/ CatalogMatch(p) \/ SdiMatch(p)
  <2>1. \A t \in {"bundle", "catalog", "sdi"} : Offer[t] \subseteq Driver
    BY OfferAssumption
  <2> QED BY <1>2, <1>4, <1>6, <2>1 DEF BundleMatch, CatalogMatch, SdiMatch, AddAt, TierPc
<1>7. CASE MfrNothing(p)
  BY <1>1, <1>7, GoodHint, AddQuietlyInv DEF MfrNothing, InstallHint, AddAt
<1>8. CASE MfrDownload(p)
  <2>1. f.hint \in Driver /\ Manifest[f.hint] \in Package
    BY <1>8, OfferAssumption DEF MfrDownload
  <2> QED BY <1>2, <1>8, <2>1 DEF MfrDownload, AddAt, TierPc
<1>9. CASE CatalogPasses(p)
  <2>1. PICK s \in Left : Leave(p, "catalog", s)
    BY <1>9 DEF CatalogPasses, Left
  <2> QED BY <1>3, <1>9, <2>1 DEF CatalogPasses, AddAt
<1>10. CASE SdiDisabled(p) \/ SdiSkipped(p) \/ SdiNothing(p)
  <2>1. PICK s \in Left : Leave(p, "sdi", s)
    BY <1>10 DEF SdiDisabled, SdiSkipped, SdiNothing, Left
  <2> QED BY <1>3, <1>10, <2>1 DEF SdiDisabled, SdiSkipped, SdiNothing, AddAt
<1> QED BY <1>5, <1>6, <1>7, <1>8, <1>9, <1>10

\* Where every catalog is found, a directory is verified only if all its catalogs
\* are signed and there is one, and has none only if no pack in it has any.
LEMMA VerdictTells ==
  ASSUME ~CanFail("scan"), NEW f, f.dir \subseteq Package
  PROVE  /\ "Verified" \in VerdictsOf(Signatures(f)) => Sound(f) /\ SignedBeside(f)
         /\ "NoCatalogs" \in VerdictsOf(Signatures(f)) => Sound(f)
<1> DEFINE S == Signatures(f)
<1>1. S \subseteq SigStatus /\ \A k \in f.dir : Cats[k] \subseteq S
  BY CatsAssumption DEF Signatures
<1>2. \A v \in VerdictsOf(S) : v = Reduce(S) \/ v = Reduce({"UnknownError"})
  BY DEF VerdictsOf, FoundCats, StatusesOf
<1>3. Reduce({"UnknownError"}) = "Invalid"
  BY DEF Reduce, Invalid, SigStatus
<1>4. Reduce(S) = "NoCatalogs" => Sound(f)
  <2>1. Reduce(S) = "NoCatalogs" => S = {}
    BY DEF Reduce
  <2> QED BY <1>1, <2>1 DEF Sound
<1>5. Reduce(S) = "Verified" => Sound(f) /\ SignedBeside(f)
  <2>1. SUFFICES ASSUME Reduce(S) = "Verified" PROVE Sound(f) /\ SignedBeside(f)
    OBVIOUS
  <2>2. S # {} /\ S \cap Invalid = {} /\ "NotSigned" \notin S
    BY <2>1 DEF Reduce
  <2>3. S \subseteq {"Valid"}
    BY <1>1, <2>2 DEF Invalid, SigStatus
  <2>4. PICK k \in f.dir : Cats[k] # {}
    BY <2>2 DEF Signatures
  <2>5. Signed(k)
    BY <1>1, <2>3, <2>4 DEF Signed
  <2> QED BY <1>1, <2>3, <2>5 DEF Sound, SignedBeside
<1> QED BY <1>2, <1>3, <1>4, <1>5

\* The gate lets a pack through with the mark it deserves, or turns it away.
LEMMA GateInv ==
  ASSUME AddIInv, NEW p \in Proc,
         \/ GateSkipped(p) \/ GateAbsent(p) \/ GatePasses(p) \/ GateNoCatalogs(p) \/ GateRejects(p)
  PROVE  AddIInv'
<1> DEFINE f == ad[p]
<1>1. GoodAdd(f) /\ Has(f) /\ f.pc = "gate"
  BY AddGood DEF GateSkipped, GateAbsent, GatePasses, GateNoCatalogs, GateRejects, Gated, AddAt
<1>2. f.pack \in f.dir /\ f.tier \in TierPc /\ f.dir \subseteq Package
  BY <1>1 DEF Has, GoodAdd, AddFrame
<1>3. ASSUME NEW m \in Success, ToStage(p, m),
             ~CanFail("scan") /\ ~f.call.lean =>
               /\ m = "Verified" => Backed(f)
               /\ f.call.noVerify \/ (Sound(f) /\ (f.tier = "mfr" \/ SignedBeside(f)))
      PROVE  AddIInv'
  BY <1>1, <1>3, GoodStage, AddQuietlyInv DEF ToStage
<1>4. CASE GateSkipped(p)
  BY <1>3, <1>4 DEF GateSkipped, Success
<1>5. CASE GateAbsent(p)
  BY <1>3, <1>5 DEF GateAbsent, Success
<1>6. CASE GatePasses(p)
  <2>1. ToStage(p, "Verified") \/ ToStage(p, "Matched")
    BY <1>6 DEF GatePasses
  <2>2. ~CanFail("scan") => Backed(f)
    BY <1>2, <1>6, VerdictTells DEF GatePasses, IsSafeToInstall, DirVerdicts, Backed
  <2> QED BY <1>3, <2>1, <2>2 DEF Success, Backed
<1>7. CASE GateNoCatalogs(p)
  BY <1>2, <1>3, <1>7, VerdictTells DEF GateNoCatalogs, DirVerdicts, Success
<1>8. CASE GateRejects(p)
  <2>1. Asking(f) = f.tier /\ f.pc \in WorkPc
    BY <1>1 DEF Asking, WorkPc
  <2>2. GoodAdd([f EXCEPT !.pc = NextTier(f.tier, f.call.lean), !.report[f.tier] = "Failed"])
    BY <1>1, <1>2, <2>1, GoodLeave DEF Left
  <2> QED BY <1>8, <2>2, AddQuietlyInv DEF GateRejects, Leave
<1> QED BY <1>4, <1>5, <1>6, <1>7, <1>8

\* pnputil stages the pack, or does not.
LEMMA StageInv ==
  ASSUME AddIInv, NEW p \in Proc, Stage(p) \/ StageFails(p)
  PROVE  AddIInv'
<1> DEFINE f == ad[p]
<1>1. GoodAdd(f) /\ Has(f) /\ f.pc = "stage"
  BY AddGood DEF Stage, StageFails, AddAt
<1>2. Infs(f) \subseteq Package /\ f.tier \in TierPc /\ f.driver \in Driver
  BY <1>1 DEF Has, GoodAdd, AddFrame, Infs
<1>3. CASE Stage(p)
  <2>1. PICK staged \in SUBSET Infs(f) :
          /\ packages' = packages \cup staged
          /\ \E d \in StagedNames(p, staged) : AddGoto(p, [f EXCEPT !.pc = "port", !.driver = d])
    BY <1>3 DEF Stage
  <2>2. PICK d \in Driver : AddGoto(p, [f EXCEPT !.pc = "port", !.driver = d])
    BY <1>2, <2>1 DEF StagedNames
  <2>3. PrintTypeOK' /\ history' \subseteq Entry
    BY <1>2, <1>3, <2>1 DEF Stage, AddIInv, IInv, TypeOK, PrintTypeOK
  <2> QED BY <1>1, <2>1, <2>2, <2>3, GoodStaged, AddGotoInv
<1>4. CASE StageFails(p) /\ f.tier = "mfr"
  BY <1>1, <1>4, GoodHint, AddQuietlyInv DEF StageFails, InstallHint
<1>5. CASE StageFails(p) /\ f.tier # "mfr"
  <2>1. Asking(f) = f.tier /\ f.pc \in WorkPc
    BY <1>1 DEF Asking, WorkPc
  <2>2. GoodAdd([f EXCEPT !.pc = NextTier(f.tier, f.call.lean), !.report[f.tier] = "Failed"])
    BY <1>1, <1>2, <2>1, GoodLeave DEF Left
  <2> QED BY <1>5, <2>2, AddQuietlyInv DEF StageFails, Leave
<1> QED BY <1>3, <1>4, <1>5

\* The port, the driver and the queue are looked for and made.
LEMMA InstallInv ==
  ASSUME AddIInv, NEW p \in Proc,
         \/ CheckPort(p) \/ AddPort(p) \/ CheckDriver(p) \/ AddDriver(p)
         \/ CheckQueue(p) \/ AddPrinter(p) \/ InstallFails(p) \/ RecordInstall(p)
  PROVE  AddIInv'
<1> DEFINE f == ad[p]
<1>1. GoodAdd(f) /\ Has(f) /\ f.pc \in InstallPc
  BY AddGood DEF CheckPort, AddPort, CheckDriver, AddDriver, CheckQueue, AddPrinter, InstallFails,
     RecordInstall, AddAt, InstallPc
<1>2. /\ f.driver \in Driver /\ f.tier \in TierPc \cup {"local"}
      /\ f.call.name \in Queue /\ f.call.model \in Queue /\ TargetPort(p) \in Port
  BY <1>1, AddsAssumption, IpAssumption, PortAssumption
     DEF Has, InstallPc, AddCall, TargetPort
<1>3. /\ PrintTypeOK /\ history \subseteq Entry
  BY DEF AddIInv, IInv, TypeOK
<1>4. ASSUME NEW pc \in InstallPc PROVE GoodAdd([f EXCEPT !.pc = pc])
  BY <1>1, <1>4, GoodTo
<1>5. CASE CheckPort(p) \/ CheckDriver(p) \/ CheckQueue(p)
  <2>1. PICK pc \in InstallPc : To(p, pc)
    BY <1>5 DEF CheckPort, CheckDriver, CheckQueue, InstallPc
  <2> QED BY <1>4, <2>1, AddQuietlyInv DEF To
<1>6. CASE AddPort(p) \/ AddDriver(p) \/ AddPrinter(p)
  <2>1. PICK pc \in InstallPc : AddGoto(p, [f EXCEPT !.pc = pc])
    BY <1>6 DEF AddPort, AddDriver, AddPrinter, InstallPc
  <2>2. PrintTypeOK'
    BY <1>2, <1>3, <1>6 DEF AddPort, AddDriver, AddPrinter, AddQueue, PrintTypeOK, QueueRec
  <2>3. history' \subseteq Entry
    BY <1>3, <1>6 DEF AddPort, AddDriver, AddPrinter
  <2> QED BY <1>4, <2>1, <2>2, <2>3, AddGotoInv
<1>7. CASE InstallFails(p)
  <2>1. Asking(f) = f.tier /\ f.pc \in WorkPc
    BY <1>1 DEF Asking, WorkPc
  <2>2. GoodAdd([f EXCEPT !.pc = NextTier(f.tier, f.call.lean), !.report[f.tier] = "Failed"])
    BY <1>1, <1>2, <2>1, GoodLeave DEF Left
  <2> QED BY <1>7, <2>2, AddQuietlyInv DEF InstallFails, Leave
<1>8. CASE RecordInstall(p)
  <2>1. GoodAdd([f EXCEPT !.pc = "done", !.outcome = "ok", !.report[f.tier] = f.mark])
    BY <1>1, <1>8, GoodInstalled DEF RecordInstall, AddAt
  <2>2. [model |-> f.call.model, driver |-> f.driver, source |-> "install"] \in Entry
    BY <1>2 DEF Entry
  <2>3. history' \subseteq Entry
    BY <1>3, <1>8, <2>2 DEF RecordInstall, RecordEntry
  <2>4. PrintTypeOK'
    BY <1>8, QuietType DEF RecordInstall, AddIInv
  <2> QED BY <1>8, <2>1, <2>3, <2>4, AddGotoInv DEF RecordInstall
<1> QED BY <1>5, <1>6, <1>7, <1>8

\* The last tier installs the class driver's queue, or fails.
LEMMA IppInv ==
  ASSUME AddIInv, NEW p \in Proc,
         \/ IppUnreachable(p) \/ IppThere(p) \/ IppNotThere(p) \/ IppPort(p)
         \/ IppAdd(p) \/ IppFails(p) \/ IppRecord(p)
  PROVE  AddIInv'
<1> DEFINE f == ad[p]
<1>1. GoodAdd(f) /\ Has(f) /\ f.pc \in IppPc
  BY AddGood DEF IppUnreachable, IppThere, IppNotThere, IppPort, IppAdd, IppFails, IppRecord,
     AddAt, IppPc
<1>2. /\ f.call.model \in Queue /\ TargetPort(p) \in Port /\ IppQueue(p) \in Queue
      /\ IppDriver \in Driver
  BY <1>1, AddsAssumption, IpAssumption, PortAssumption, IppAssumption, DriverAssumption
     DEF Has, IppPc, AddCall, TargetPort, IppQueue
<1>3. /\ PrintTypeOK /\ history \subseteq Entry
  BY DEF AddIInv, IInv, TypeOK
<1>4. ASSUME NEW pc \in IppPc PROVE GoodAdd([f EXCEPT !.pc = pc])
  BY <1>1, <1>4, GoodTo
<1>5. /\ GoodAdd([f EXCEPT !.pc = "done", !.outcome = "ok", !.report["ipp"] = "Matched"])
      /\ GoodAdd([f EXCEPT !.pc = "done", !.outcome = "error", !.report["ipp"] = "Failed"])
  BY <1>1, GoodLast
<1>6. CASE IppUnreachable(p) \/ IppFails(p) \/ IppThere(p)
  BY <1>5, <1>6, AddQuietlyInv DEF IppUnreachable, IppFails, IppThere, FailIpp
<1>7. CASE IppNotThere(p)
  BY <1>4, <1>7, AddQuietlyInv DEF IppNotThere, To, IppPc
<1>8. CASE IppPort(p) \/ IppAdd(p)
  <2>1. PICK pc \in IppPc : AddGoto(p, [f EXCEPT !.pc = pc])
    BY <1>8 DEF IppPort, IppAdd, IppPc
  <2>2. PrintTypeOK'
    BY <1>2, <1>3, <1>8 DEF IppPort, IppAdd, AddQueue, PrintTypeOK, QueueRec
  <2>3. history' \subseteq Entry
    BY <1>3, <1>8 DEF IppPort, IppAdd
  <2> QED BY <1>4, <2>1, <2>2, <2>3, AddGotoInv
<1>9. CASE IppRecord(p)
  <2>1. [model |-> f.call.model, driver |-> IppDriver, source |-> "install_ipp_fallback"] \in Entry
    BY <1>2 DEF Entry
  <2>2. history' \subseteq Entry
    BY <1>3, <1>9, <2>1 DEF IppRecord, RecordEntry
  <2>3. PrintTypeOK'
    BY <1>9, QuietType DEF IppRecord, AddIInv
  <2> QED BY <1>5, <1>9, <2>2, <2>3, AddGotoInv DEF IppRecord
<1> QED BY <1>6, <1>7, <1>8, <1>9

\* A kill takes the removal inside with it.
LEMMA KillAddInv ==
  ASSUME AddIInv, NEW p \in Proc, KillAdd(p)
  PROVE  AddIInv'
<1>1. GoodAdd([ad[p] EXCEPT !.pc = "killed"])
  BY AddGood, GoodTo DEF KillAdd
<1>2. IInv'
  <2>1. CASE rm[p].pc \in {"idle", "done"}
    <3>1. UNCHANGED <<rm, wait, printVars, history>> /\ IInv
      BY <2>1 DEF KillAdd, AddIInv
    <3>2. UNCHANGED removeVars
      BY <3>1 DEF removeVars, printVars
    <3> QED BY <3>1, <3>2, NextInv
  <2>2. CASE rm[p].pc \notin {"idle", "done"}
    <3>1. Goto(p, IF rm[p].pc \in {"idle", "done"} THEN rm[p] ELSE [rm[p] EXCEPT !.pc = "killed"])
      BY <2>2 DEF KillAdd
    <3>2. IInv /\ UNCHANGED <<printVars, history>>
      BY DEF KillAdd, AddIInv
    <3> QED BY <3>1, <3>2, KillInsideInv
  <2> QED BY <2>1, <2>2
<1>3. ad' = [ad EXCEPT ![p] = [ad[p] EXCEPT !.pc = "killed"]]
  BY DEF KillAdd, AddIInv
<1> QED BY <1>1, <1>2, <1>3, AddFrameInv

\* The steps of removals, of the administrator and of the clock are steps of
\* Remove.
LEMMA RemoveSteps ==
  /\ \A p \in Proc : RemoveSide(p) => Next /\ UNCHANGED ad
  /\ Around => Next /\ UNCHANGED ad
  BY DEF RemoveSide, Around, Next

\* Every step keeps the invariant.
LEMMA AddNextInv == AddIInv /\ [AddNext]_addVars => AddIInv'
<1> SUFFICES ASSUME AddIInv, [AddNext]_addVars PROVE AddIInv'
  OBVIOUS
<1>1. ASSUME NEW p \in Proc, StartAdd(p) \/ AddStep(p) \/ KillAdd(p) PROVE AddIInv'
  BY <1>1, StartAddInv, EarlyInv, EarlyForceInv, TierInv, GateInv, StageInv, InstallInv, IppInv,
     KillAddInv DEF AddStep
<1>2. ASSUME Next \/ UNCHANGED removeVars, UNCHANGED ad PROVE AddIInv'
  BY <1>2, NextInv DEF AddIInv
<1>3. CASE Around \/ \E p \in Proc : RemoveSide(p)
  BY <1>2, <1>3, RemoveSteps
<1>4. CASE UNCHANGED addVars
  BY <1>2, <1>4 DEF addVars
<1> QED BY <1>1, <1>3, <1>4 DEF AddNext

\* The invariant holds when prinstall starts.
LEMMA AddInitInv == AddInit => AddIInv
<1> SUFFICES ASSUME AddInit PROVE AddIInv
  OBVIOUS
<1>1. /\ IdleAdd.pc = "idle" /\ IdleAdd.hint = None /\ IdleAdd.report = NoReport
      /\ IdleAdd \in AddFrame
  BY NothingReported DEF IdleAdd, AddFrame, AddPc, Success
<1>2. GoodAdd(IdleAdd)
  BY <1>1 DEF GoodAdd, Has, Trail, Vouched, EarlyPc, WorkPc, TierPc, InstallPc, IppPc
<1> QED BY <1>1, <1>2, InitInv DEF AddInit, AddIInv

\* In every reachable state, of any number of adds and removals, the report of
\* an add is where its cascade is, and what is past the gate has been vouched for.
THEOREM AddInvariance == AddSpec => []AddIInv
  BY AddInitInv, AddNextInv, PTL DEF AddSpec

\* Every variable stays within its type, for any number of invocations.
THEOREM AddTypeCorrect == AddSpec => []AddTypeOK
<1>1. AddIInv => AddTypeOK
  BY DEF AddIInv, IInv, AddTypeOK
<1> QED BY <1>1, AddInvariance, PTL

-----------------------------------------------------------------------------
(* What the invariant says of the report.                                  *)

\* Of any number of adds, whatever the tiers answer and whichever commands
\* fail: one that has ended reports exactly one success, or none, and a reason
\* for every tier before the IPP class driver.
THEOREM ReportComplete == AddSpec => []ReportTellsAll
<1>1. AddIInv => ReportTellsAll
  <2> SUFFICES ASSUME AddIInv, NEW p \in Proc, Finished(p)
               PROVE  Told(ad[p]) /\ \A t \in Behind(p) :
                        ad[p].report["ipp"] # "none" \/ ad[p].tier = "ipp" => ad[p].report[t] \in Left
    BY DEF ReportTellsAll, Told, Left
  <2>1. Told(ad[p])
    BY DEF AddIInv, GoodAdd, Trail, Finished
  <2> QED BY <2>1 DEF Told, Behind
<1> QED BY <1>1, AddInvariance, PTL

\* Where prinstall can walk its own packs, whatever the queries of the gate
\* answer and whatever lies in the directories it looks into: what any add reports
\* as verified has no unsigned or invalid catalog, and a signed one beside it.
THEOREM VerifiedVouched ==
  ASSUME ~CanFail("scan")
  PROVE  AddSpec => []VerifiedIsVouched
<1>1. AddIInv => VerifiedIsVouched
  <2> SUFFICES ASSUME AddIInv, NEW p \in Proc, NEW t \in Tier,
                      ad[p].report[t] = "Verified", ~ad[p].call.lean
               PROVE  Cats[ad[p].pack] \subseteq {"Valid"} /\ SignedBeside(ad[p])
    BY DEF VerifiedIsVouched
  <2>1. ad[p].pc # "idle"
    BY NothingReported DEF AddIInv, GoodAdd, Has
  <2>2. Backed(ad[p])
    BY <2>1 DEF AddIInv, GoodAdd, Vouched
  <2> QED BY <2>2 DEF Backed, Sound
<1> QED BY <1>1, AddInvariance, PTL

-----------------------------------------------------------------------------
(* What the steps do to the machine.                                       *)

\* The steps of an add that leave the machine alone.
LEMMA QuietSteps ==
  ASSUME NEW p \in Proc,
         \/ StartAdd(p) \/ KillAdd(p)
         \/ AddStep(p) /\ ~(\/ Stage(p) \/ AddPort(p) \/ AddDriver(p) \/ AddPrinter(p)
                            \/ IppPort(p) \/ IppAdd(p))
  PROVE  UNCHANGED printVars
<1>1. CASE StartAdd(p) \/ KillAdd(p) \/ EarlyForce(p) \/ RecordInstall(p) \/ IppRecord(p)
  BY <1>1 DEF StartAdd, KillAdd, EarlyForce, RecordInstall, IppRecord, Quietly
<1>2. CASE \/ EarlyFree(p) \/ EarlyTaken(p) \/ Forced(p) \/ ForceFailed(p) \/ Discover(p)
           \/ Unidentified(p) \/ Resolve(p) \/ Unresolved(p)
  BY <1>2 DEF EarlyFree, EarlyTaken, Forced, ForceFailed, Discover, Unidentified, Resolve,
     Unresolved, Fail, Quietly
<1>3. CASE \/ BundleEmpty(p) \/ BundleMatch(p) \/ MfrNothing(p) \/ MfrDownload(p)
           \/ CatalogPasses(p) \/ CatalogMatch(p)
           \/ SdiDisabled(p) \/ SdiSkipped(p) \/ SdiNothing(p) \/ SdiMatch(p)
  BY <1>3 DEF BundleEmpty, BundleMatch, MfrNothing, MfrDownload, CatalogPasses, CatalogMatch,
     SdiDisabled, SdiSkipped, SdiNothing, SdiMatch, Propose, InstallHint, Leave, Quietly
<1>4. CASE \/ GateSkipped(p) \/ GateAbsent(p) \/ GatePasses(p) \/ GateNoCatalogs(p)
           \/ GateRejects(p) \/ StageFails(p)
  BY <1>4 DEF GateSkipped, GateAbsent, GatePasses, GateNoCatalogs, GateRejects, StageFails,
     ToStage, InstallHint, Leave, Quietly
<1>5. CASE \/ CheckPort(p) \/ CheckDriver(p) \/ CheckQueue(p) \/ InstallFails(p)
           \/ IppUnreachable(p) \/ IppThere(p) \/ IppNotThere(p) \/ IppFails(p)
  BY <1>5 DEF CheckPort, CheckDriver, CheckQueue, InstallFails, IppUnreachable, IppThere,
     IppNotThere, IppFails, FailIpp, To, Leave, Quietly
<1> QED BY <1>1, <1>2, <1>3, <1>4, <1>5 DEF AddStep

\* A new queue prints with a registered driver on a port that is there.
LEMMA AddedQueueComes ==
  ASSUME NEW n \in Queue, NEW d, NEW x, AddQueue(n, d, x)
  PROVE  Promise!OneQueueMore
<1> DEFINE q == [name |-> n, driver |-> d, port |-> x]
<1>1. q \in [name: Queue, driver: registered, port: ports] /\ q.name = n
  BY DEF AddQueue
<1>2. \A r \in queues : r.name # q.name
  BY <1>1 DEF AddQueue, Exists
<1>3. queues' = queues \cup {q} /\ UNCHANGED <<registered, packages, ports>>
  BY DEF AddQueue
<1> HIDE DEF q
<1> QED BY <1>1, <1>2, <1>3 DEF Promise!OneQueueMore

\* Every step of an add is a step of the promise, or none that it sees.
LEMMA AddKeeps == AddIInv /\ [AddNext]_addVars => [Promise!Next]_(Promise!vars)
<1> SUFFICES ASSUME AddIInv, [AddNext]_addVars PROVE [Promise!Next]_(Promise!vars)
  OBVIOUS
<1>1. IInv
  BY DEF AddIInv
<1>2. ASSUME NEW p \in Proc, Stage(p) \/ AddPort(p) \/ AddDriver(p) \/ IppPort(p)
      PROVE  Promise!Next
  <2>1. Promise!MoreSupply
    BY <1>2 DEF Stage, AddPort, AddDriver, IppPort, Promise!MoreSupply
  <2> QED BY <2>1 DEF Promise!Next
<1>3. ASSUME NEW p \in Proc, AddPrinter(p) \/ IppAdd(p) PROVE Promise!Next
  <2>1. ad[p].call.name \in Queue /\ IppQueue(p) \in Queue
    BY <1>3, AddGood, AddsAssumption, IppAssumption
       DEF AddPrinter, IppAdd, AddAt, Has, AddCall, IppQueue
  <2>2. Promise!OneQueueMore
    BY <1>3, <2>1, AddedQueueComes DEF AddPrinter, IppAdd
  <2> QED BY <2>2 DEF Promise!Next
<1>4. CASE Around \/ \E p \in Proc : RemoveSide(p)
  BY <1>1, <1>4, RemoveSteps, StepKeepsPromise
<1>5. CASE UNCHANGED addVars
  BY <1>5 DEF addVars, removeVars, Promise!vars
<1>6. UNCHANGED printVars => [Promise!Next]_(Promise!vars)
  BY DEF printVars, Promise!vars
<1>7. ASSUME NEW p \in Proc, StartAdd(p) \/ AddStep(p) \/ KillAdd(p)
      PROVE  [Promise!Next]_(Promise!vars)
  BY <1>2, <1>3, <1>6, <1>7, QuietSteps
<1> QED BY <1>4, <1>5, <1>7 DEF AddNext

\* `add`, with the removal inside an add --force and next to others, takes away
\* no system driver and nothing that is in use, and brings its queues in one at
\* a time, each on a driver and a port that are there.
THEOREM AddKeepsPromise == AddSpec => KeepsPromise
<1>1. AddInit => Promise!Init
  BY DEF AddInit, Init, PrintInit, QueueRec, Promise!Init
<1> QED BY <1>1, AddInvariance, AddKeeps, PTL DEF AddSpec, KeepsPromise, Promise!Spec

\* A removal, the administrator and the clock bring no package in.
LEMMA NoNewPackage ==
  ASSUME IInv, [Next]_removeVars
  PROVE  packages' \subseteq packages
<1>1. ASSUME NEW p \in Proc, Start(p) \/ Kill(p) PROVE UNCHANGED packages
  BY <1>1 DEF Start, Kill, printVars
<1>2. ASSUME NEW p \in Proc, RemoveStep(p) PROVE packages' \subseteq packages
  <2>1. CASE RemovePrinter(p) \/ DropDriver(p) \/ DropPort(p)
    BY <2>1 DEF RemovePrinter, RemoveQueue, DropDriver, DeletePackage, UnregisterDriver,
       DropPort, DeletePort
  <2>2. CASE ResolveAbsent(p) \/ ResolveFound(p) \/ FetchInfo(p) \/ FetchInfoFails(p)
    BY <2>2 DEF ResolveAbsent, ResolveFound, FetchInfo, FetchInfoFails, printVars
  <2>3. CASE RemovePrinterFails(p) \/ KeepDriver(p) \/ DriverOrphaned(p) \/ DropDriverFails(p)
    BY <2>3 DEF RemovePrinterFails, KeepDriver, DriverOrphaned, DropDriverFails, printVars
  <2>4. CASE KeepPort(p) \/ PortOrphaned(p) \/ DropPortFails(p) \/ Record(p)
    BY <2>4 DEF KeepPort, PortOrphaned, DropPortFails, Record, printVars
  <2> QED BY <1>2, <2>1, <2>2, <2>3, <2>4 DEF RemoveStep
<1>3. CASE AdminAdds \/ Tick
  BY <1>3 DEF AdminAdds, AddQueue, Tick
<1>4. CASE UNCHANGED removeVars
  BY <1>4 DEF removeVars
<1> QED BY <1>1, <1>2, <1>3, <1>4 DEF Next

\* Where prinstall can walk its own packs, whatever else fails and whatever lies
\* in the directories: unless it was told not to look, or has no gate, no add
\* stages a pack with an unsigned or invalid catalog, nor, but for a
\* manufacturer's, one that no signed pack lies beside.
THEOREM OnlyVouchedStaged ==
  ASSUME ~CanFail("scan")
  PROVE  AddSpec => OnlyVouchedIsStaged
<1> DEFINE Excused(k, f) ==
             /\ k \in Infs(f)
             /\ \/ f.call.noVerify \/ f.call.lean
                \/ Cats[k] \subseteq {"Valid"} /\ (f.tier = "mfr" \/ SignedBeside(f))
           Staging == \A k \in packages' \ packages : \E p \in Proc : Excused(k, ad[p])
<1>1. AddIInv /\ [AddNext]_addVars => Staging
  <2> SUFFICES ASSUME AddIInv, [AddNext]_addVars PROVE Staging
    OBVIOUS
  <2>1. ASSUME NEW p \in Proc, Stage(p) PROVE Staging
    <3> DEFINE f == ad[p]
    <3>1. f.pc = "stage" /\ packages' \ packages \subseteq Infs(f)
      BY <2>1 DEF Stage, AddAt
    <3>2. Infs(f) \subseteq f.dir
      BY <3>1, AddGood DEF Has, Infs
    <3>3. f.call.noVerify \/ f.call.lean \/ (Sound(f) /\ (f.tier = "mfr" \/ SignedBeside(f)))
      BY <3>1 DEF AddIInv, GoodAdd, Vouched
    <3>4. \A k \in Infs(f) : Excused(k, f)
      BY <3>2, <3>3 DEF Sound
    <3> HIDE DEF Excused
    <3> QED BY <3>1, <3>4
  <2>2. packages' \subseteq packages => Staging
    OBVIOUS
  <2>3. ASSUME NEW p \in Proc, AddPort(p) \/ AddDriver(p) \/ AddPrinter(p) \/ IppPort(p) \/ IppAdd(p)
        PROVE  packages' \subseteq packages
    BY <2>3 DEF AddPort, AddDriver, AddPrinter, IppPort, IppAdd, AddQueue
  <2>4. ASSUME NEW p \in Proc, StartAdd(p) \/ AddStep(p) \/ KillAdd(p) PROVE Staging
    BY <2>1, <2>2, <2>3, <2>4, QuietSteps DEF printVars
  <2>5. CASE Around \/ \E p \in Proc : RemoveSide(p)
    BY <2>2, <2>5, RemoveSteps, NoNewPackage DEF AddIInv
  <2>6. CASE UNCHANGED addVars
    BY <2>2, <2>6 DEF addVars, removeVars
  <2> QED BY <2>4, <2>5, <2>6 DEF AddNext
<1>2. AddSpec => [][Staging]_addVars
  BY <1>1, AddInvariance, PTL DEF AddSpec
<1> QED BY <1>2 DEF OnlyVouchedIsStaged

=============================================================================
