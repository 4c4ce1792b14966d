----------------------------- MODULE MCClibInstall -----------------------------
(***************************************************************************)
(* A server with two packages that depend on each other ("ring" and        *)
(* "back", the latter with more sources than threads of a window), an      *)
(* executable, and two packages that cannot be had.                        *)
(***************************************************************************)
EXTENDS ClibInstall

MCManifest ==
    [ring |-> [file |-> "clib.json", dependencies |-> <<"back">>],
     back |-> [file |-> "package.json", files |-> <<"b.c", "b.h">>,
               dependencies |-> <<"ring">>],
     tool |-> [file |-> "clib.json", src |-> <<"t.c">>, install |-> "make install",
               configure |-> "./configure", flags |-> "-O2", dependencies |-> <<"leaf">>,
               development |-> <<"leaf">>],
     leaf |-> [file |-> "clib.json", src |-> <<"l.c">>, makefile |-> "Makefile"],
     gone |-> [file |-> "none"],
     torn |-> [file |-> "clib.json", dependencies |-> <<"leaf", "?">>]]

Line(tool, args) ==
    [tool |-> tool, args |-> args, dev |-> FALSE, force |-> FALSE, skipCache |-> FALSE,
     global |-> FALSE, save |-> "none", cflags |-> TRUE]
MCCommands ==
    {[Line("install", <<>>) EXCEPT !.dev = TRUE],
     Line("install", <<"ring">>),
     [Line("install", <<"tool">>) EXCEPT !.dev = TRUE, !.save = "save"],
     [Line("install", <<"leaf", "gone">>) EXCEPT !.skipCache = TRUE, !.save = "savedev"],
     [Line("install", <<".", "torn">>) EXCEPT !.force = TRUE, !.global = TRUE],
     [Line("update", <<"list.json", "tool">>) EXCEPT !.cflags = FALSE],
     Line("update", <<"ring">>),
     Line("upgrade", <<"tool">>)}
MCLocalDeps == 1 :> [deps |-> <<"leaf">>, dev |-> <<"tool">>]
                @@ 3 :> [deps |-> <<"leaf">>, dev |-> <<>>]
MCRegular == "list.json" :> 3
=============================================================================
