------------------------------ MODULE MCClibBuild ------------------------------
(***************************************************************************)
(* A project whose two dependencies share a third one, which depends on    *)
(* the first again; one package is only on the server, and one has a       *)
(* package.json only.  Arguments are names, ".", the directory deps/left,  *)
(* and the file deps/base/clib.json, whose base name is found in the       *)
(* current directory.                                                      *)
(***************************************************************************)
EXTENDS ClibBuild

Entry(files, deps, dev) ==
    [files |-> files, here |-> {}, served |-> TRUE, makefile |-> TRUE, configure |-> TRUE,
     flags |-> FALSE, deps |-> deps, dev |-> dev]
MCPackage ==
    [cwd |-> [Entry({}, <<"left", "right", "base">>, <<"leaf", "right">>) EXCEPT !.here = {"clib.json"}],
     left |-> [Entry({"package.json"}, <<"base">>, <<>>) EXCEPT !.flags = TRUE],
     right |-> [Entry({"clib.json"}, <<"base">>, <<>>) EXCEPT !.makefile = FALSE],
     base |-> [Entry({"clib.json", "package.json"}, <<"left", "leaf">>, <<>>) EXCEPT !.configure = FALSE],
     leaf |-> Entry({"clib.json"}, <<>>, <<>>),
     far |-> Entry({}, <<"leaf">>, <<>>)]
Line(tool, args, options) == [tool |-> tool, args |-> args, options |-> options]
MCCommands ==
    {Line("build", <<>>, {"dev"}), Line("build", <<"far", "right">>, {}),
     Line("build", <<"deps/left">>, {}), Line("build", <<"deps/base/clib.json", "other.json">>, {}),
     Line("configure", <<".">>, {}), Line("configure", <<"left", "far">>, {"flags"})}
MCRelative == "deps/left" :> "left"
MCRegular == "deps/base/clib.json" :> [p |-> "cwd", k |-> 1] @@ "other.json" :> [p |-> "far", k |-> 1]
=============================================================================
