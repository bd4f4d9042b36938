---------------------------- MODULE MCSelection -----------------------------
(***************************************************************************)
(* Small cases for TLC: INFs of two sections, catalogs of up to three rows,  *)
(* indexes of up to two records a section with every kind of broken link,   *)
(* driver stores of up to three names, addresses of four bits.              *)
(***************************************************************************)
EXTENDS Selection, TLC

UpTo(S, n) == UNION {[1 .. k -> S] : k \in 0 .. n}

-----------------------------------------------------------------------------
(* INF files and devices.                                                  *)

MCWord ==
    {"Manufacturer", "B", "b", "B.NTamd64", "B.NTx86", "NTamd64", "ntamd64", "NTx86",
     "1284_CID", "C", "c", "D", "M", "X", "USB", "VID_1", "vid_1", "PID_2", "Class_7", "a driver"}

MCFold == [w \in MCWord |->
    CASE w = "b" -> "B" [] w = "NTamd64" -> "ntamd64" [] w = "c" -> "C"
      [] w = "vid_1" -> "VID_1" [] OTHER -> w]

MCDecorated == [b \in {"B", "b"} |-> "B.NTamd64"]

MCNormOf == [v \in {"cid", "cid2", "mfg", "mdl", "dashes"} |->
    CASE v = "cid" -> <<"C">> [] v = "cid2" -> <<"D">> [] v = "mfg" -> <<"M">>
      [] v = "mdl" -> <<"X">> [] OTHER -> <<>>]

F(key, value) == [key |-> key, value |-> value]
Ipp(fields) == [usb |-> FALSE, fields |-> fields, segments |-> <<>>]
Usb(segments) == [usb |-> TRUE, fields |-> <<>>, segments |-> segments]

MCDevice ==
    {Ipp(<<F("CID", "cid"), F("MFG", "mfg"), F("MDL", "mdl")>>),
     Ipp(<<F("CID", ""), F("CID", "cid"), F("CID", "cid2")>>),
     Ipp(<<F("CID", "cid"), F("MDL", "cid")>>),
     Ipp(<<F("MFG", "mfg"), F("MDL", "mdl")>>),
     Ipp(<<F("CID", "dashes")>>), Ipp(<<>>),
     Usb(<<"VID_1", "PID_2">>), Usb(<<"VID_1">>), Usb(<<"Class_7">>)}

MCId == {<<"1284_CID", "c">>, <<"C">>, <<"D">>, <<"M", "X">>,
         <<"USB", "vid_1", "PID_2">>, <<"USB", "VID_1">>, <<"USB", "Class_7">>}

Model(name, ids) == Entry(name, <<"install">> \o ids)

Makers == {<<Entry("m", <<"B">>)>>, <<Entry("m", <<"B", "NTamd64">>)>>,
           <<Entry("m", <<"b", "ntamd64", "NTx86">>)>>, <<Entry("m", <<"B", "NTx86">>)>>,
           <<Entry("m", <<>>), Entry("m", <<"B">>), Entry("n", <<"B", "NTamd64">>)>>}

MCText ==
    {<<Header("Manufacturer")>> \o maker \o
     <<Header(s), Model("one", <<i>>), Model("", <<i>>),
       Header(t), Model("two", <<j, <<"C">>>>)>> :
        maker \in Makers, s, t \in {"B", "b", "B.NTamd64", "B.NTx86"}, i \in MCId,
        j \in {<<"D">>, <<"M", "X">>, <<"USB", "VID_1">>}}

MCInfCase == [text : MCText, device : MCDevice]

-----------------------------------------------------------------------------
(* Catalog rows.                                                           *)

Inf(ids) == <<Header("Manufacturer"), Entry("m", <<"B", "NTamd64">>),
              Header("B.NTamd64"), Model("driver", ids)>>

Fits == Inf(<<<<"1284_CID", "C">>>>)
Other == Inf(<<<<"D">>>>)

R(urls, fetched, infs) == [urls |-> urls, fetched |-> fetched, infs |-> infs]

MCRow == {R("none", TRUE, <<>>), R("error", TRUE, <<>>), R("some", FALSE, <<Fits>>),
          R("some", TRUE, <<>>), R("some", TRUE, <<Other>>),
          R("some", TRUE, <<Garbled, Other, Fits>>), R("some", TRUE, <<Fits>>)}

MCRowsCase == [device : {d \in MCDevice : Len(d.fields) \in {0, 1, 3}}, updates : UpTo(MCRow, 3)]

-----------------------------------------------------------------------------
(* SDI indexes: one INF, up to two records in every other section.  Text 0  *)
(* is empty, 1 the id asked for, 2 not terminated, 3 a name, 4 and up       *)
(* outside of the table.                                                    *)

Texts == <<<<>>, <<"C">>, Unreadable, <<"a driver">>>>

Index(mfr, desc, hwid) ==
    LET n == <<1, Len(mfr), Len(desc), Len(hwid)>>
        size == [s \in 1 .. 4 |-> n[s] * EntrySize[s]]
    IN  [prefix |-> TRUE, count |-> n, size |-> size,
         strings |-> 4, text |-> [o \in 0 .. 3 |-> Texts[o + 1]],
         len |-> FoldLeft(+, 0, size) + 5 * HeaderSize + 4,
         inf |-> [i \in 0 .. 0 |-> [file |-> 3]],
         mfr |-> [i \in 0 .. Len(mfr) - 1 |-> [inf |-> mfr[i + 1]]],
         desc |-> [i \in 0 .. Len(desc) - 1 |-> [mfr |-> desc[i + 1][1], name |-> desc[i + 1][2]]],
         hwid |-> [i \in 0 .. Len(hwid) - 1 |-> [desc |-> hwid[i + 1][1], id |-> hwid[i + 1][2]]]]

MCIndex ==
    {Index(m, d, h) : m \in {<<0>>, <<1>>, <<0, 0>>},
                      d \in UpTo({0, 1, 2} \X {3}, 2) \ {<<>>},
                      h \in UpTo({0, 1, 2} \X {1, 2, 5}, 2)}

Sound == Index(<<0>>, <<<<0, 3>>>>, <<<<0, 1>>>>)
Nameless == Index(<<0>>, <<<<0, 2>>>>, <<<<0, 1>>>>)
Silent == Index(<<0>>, <<<<0, 3>>>>, <<<<0, 3>>>>)
Cut == [Sound EXCEPT !.len = @ - 1]

MCIndexCase ==
    [index : MCIndex \cup {Cut, [Sound EXCEPT !.prefix = FALSE], [Sound EXCEPT !.size[3] = 25]},
     ids : {<<<<"c">>>>}]

MCFile == [index : {Sound, Nameless, Silent, Cut}, cached : BOOLEAN, pack : {"p"}]

MCPackCase == [files : UpTo(MCFile, 3), ids : {<<<<"D">>, <<"C">>>>}, allow : BOOLEAN]

-----------------------------------------------------------------------------
(* Models and driver names.                                                *)

MCNoise == {"mfp", "series"}
MCModelNumber == {"m428fdw", "m428f", "c250i", "pcl6", "pcl6v7"}
MCVersioned == {<<"pcl6v7", "pcl6">>}
MCExtends == MCVersioned \cup {<<"m428fdw", "m428f">>, <<"drivers", "driver">>, <<"upd2", "upd">>,
                              <<"hp-global", "hp">>}
MCEndsIn == {<<"hp-global", "global">>}
MCWithin == MCExtends \cup MCEndsIn \cup {<<"myuniversal", "universal">>}

Pcl == <<"HP", "universal", "print", "driver", "pcl6">>
Long == <<"HP", "color", "laserjet", "flow", "m428fdw">>

MCManifest ==
    <<[prefixes |-> {<<"HP">>, <<"hewlett", "packard">>}, universals |-> <<Pcl, <<"HP", "Universal">>>>],
      [prefixes |-> {<<"konica", "minolta">>}, universals |-> <<>>]>>

MCLocal == {Pcl, [Pcl EXCEPT ![2] = "Universal"], Append(Pcl, "v7"), [Pcl EXCEPT ![5] = "pcl6v7"],
            <<"HP", "laserjet", "m428f">>, <<"hp", "upd2">>, <<"hp-global", "print", "drivers">>,
            <<"konica", "minolta", "myuniversal", "pcl">>, <<"office", "jet">>}

MCKnown ==
    {<<>>, <<[model |-> Long, driver |-> Pcl, source |-> "manufacturer"],
             [model |-> <<"x">>, driver |-> <<"HP", "laserjet", "m428f">>, source |-> "local"]>>}

MCModel == {Long, [Long EXCEPT ![1] = "hp"], <<"hp", "laserjet">>,
            <<"konica", "minolta", "bizhub", "c250i">>, <<>>}

MCModelCase ==
    [model : MCModel, local : UpTo(MCLocal, 3),
     known : MCKnown, manifest : {MCManifest}]

\* Every word of a name.
MCLower ==
    LET names == MCLocal \cup MCModel \cup {km.model : km \in UNION {Range(k) : k \in MCKnown}}
                   \cup UNION {m.prefixes \cup Range(m.universals) : m \in Range(MCManifest)}
    IN  [w \in UNION {Range(n) : n \in names} |->
            CASE w = "HP" -> "hp" [] w = "Universal" -> "universal" [] OTHER -> w]

MCName == {<<"hp", "universal", "printing", "pcl", "6">>, <<"hp", "universal", "printing", "ps">>,
           <<"hp", "fax">>, <<"remote">>}

MCNameCase == [hint : MCName \cup {<<>>}, staged : UpTo(MCName, 3)]

-----------------------------------------------------------------------------
(* The network.                                                            *)

MCCidrCase == [ip : Address, prefix : 0 .. Bits + 1] \cup {Unknown}

Silence == [text |-> Unknown, lost |-> 0]
Reply(text, lost) == [text |-> text, lost |-> lost]
Answer(model, device) == [model |-> model, device |-> device]

MCAt == [ports : {{}, {9100}, {9100, 631}},
         ipp : {<<>>, <<Answer(Unknown, "id"), Answer("m", Unknown)>>, <<Answer("m", "id")>>},
         descr : {Silence, Reply("s", 2), Reply("s", 3)}, sys : {Silence, Reply("t", 0)}]

MCPlain == [ports : {{}, {631}}, ipp : {<<Answer("m", "id")>>}, descr : {Silence}, sys : {Silence}]

Heard(ip, service, model) ==
    [ip |-> ip, service |-> service, model |-> model, host |-> "h", port |-> 80]

MCHeard == {<<>>, <<Heard(1, "printer", Unknown), Heard(1, "ipp", "n")>>,
            <<Heard(3, "other", Unknown), Heard(1, "pdl", "n")>>,
            <<Heard(3, "ipp", "n"), Heard(2, "ipps", Unknown), Heard(3, "printer", "o")>>}

Queue(ip, name) ==
    [ip |-> ip, model |-> "driver", name |-> name, ports |-> {}, methods |-> {"local"}]

MCScanCase ==
    [net : {1 :> x @@ 2 :> y : x \in MCAt, y \in MCPlain}, hosts : {{1, 2}},
     method : {"all", "snmp", "port", "mdns"}, heard : MCHeard,
     local : {<<>>, <<Queue(1, "q"), Queue(1, "r"), Queue(Unknown, "usb"), Queue(3, "t")>>}]

=============================================================================
