-------------------------------- MODULE MCTools --------------------------------
(***************************************************************************)
(* Four small programs of the repository in one run: a user starts one of  *)
(* them, and the others do nothing.                                        *)
(***************************************************************************)
EXTENDS TopInstances, Telnet, TextConverter, ArchiveFinder

VARIABLE tool       \* the program that was started
vars == <<tool, topVars, telnetVars, converterVars, archiveVars>>

TopIdle == buckets = <<>> /\ node = 1 /\ top = <<>> /\ filled = "idle"
TelnetIdle ==
    /\ info = <<>> /\ found = NoAddr /\ banner = <<>> /\ answer = <<>>
    /\ wire = <<>> /\ printed = <<>> /\ step = "failed"
ConverterIdle ==
    encoding = "cp1251" /\ text = <<>> /\ read = 0 /\ output = PrintUTF8Code(kUTF8BOM)
ArchiveIdle ==
    /\ input = [front |-> <<>>, zip |-> FALSE, names |-> <<>>, comment |-> <<>>]
    /\ place = 0 /\ listed = <<>> /\ phase = "idle"

Init ==
    \/ tool = "top" /\ TopInit /\ TelnetIdle /\ ConverterIdle /\ ArchiveIdle
    \/ tool = "telnet" /\ TopIdle /\ TelnetInit /\ ConverterIdle /\ ArchiveIdle
    \/ tool = "converter" /\ TopIdle /\ TelnetIdle /\ ConverterInit /\ ArchiveIdle
    \/ tool = "archive" /\ TopIdle /\ TelnetIdle /\ ConverterIdle /\ ArchiveInit
TopStep ==
    tool = "top" /\ TopNext /\ UNCHANGED <<tool, telnetVars, converterVars, archiveVars>>
TelnetStep ==
    tool = "telnet" /\ TelnetNext /\ UNCHANGED <<tool, topVars, converterVars, archiveVars>>
ConverterStep ==
    tool = "converter" /\ Convert /\ UNCHANGED <<tool, topVars, telnetVars, archiveVars>>
ArchiveStep ==
    tool = "archive" /\ ArchiveNext /\ UNCHANGED <<tool, topVars, telnetVars, converterVars>>
Next == TopStep \/ TelnetStep \/ ConverterStep \/ ArchiveStep
Spec == Init /\ [][Next]_vars /\ TelnetFairness

(* Every byte, in the order of the table and next to others.               *)
MCTexts == {[n \in 1 .. 32 |-> 32 * k + n - 1] : k \in 0 .. 7} \union {<<192, 0, 255>>, <<>>}

MCAddressLists ==
    {<<"stream", "dgram">>, <<"dgram", "stream">>, <<"dgram">>, <<>>,
     <<"dgram", "raw", "stream">>}
MCBanners == {<<"a", "nl", "a", "nl", "dot">>, <<"a", "dot", "a", "nl", "dot">>, <<"nl", "dot">>}
MCAnswers == {<<"a", "nl", "a", "nl", "dot">>, <<"nl", "dot", "a", "nl", "dot">>}

MCComments == {[k \in 1 .. n |-> "none"] : n \in 0 .. UINT16_MAX}
                  \union {<<"end", "none", "none">>, <<"none", "header">>}
MCFronts == {<<>>, <<"none", "none">>, <<"none", "header", "none", "none">>}
MCInputs ==
    [front : MCFronts, zip : {TRUE}, names : {<<>>, <<1>>, <<2, 0, 1>>}, comment : MCComments]
        \union [front : MCFronts \union {<<"none", "end", "none">>}, zip : {FALSE},
                names : {<<>>}, comment : {<<>>}]
=============================================================================
