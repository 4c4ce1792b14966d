------------------------------- MODULE MCHTTP -------------------------------
(* Instances of HTTPExchange for TLC.                                      *)
EXTENDS HTTPExchange, TLC

MCKind == ("/file" :> "regular") @@ ("/none" :> "missing") @@ ("/private" :> "private")
MCSize == ("/file" :> 1) @@ ("/none" :> 0) @@ ("/private" :> 1)
MCTwoKinds == ("/file" :> "regular") @@ ("/other" :> "regular")
MCTwoSizes == ("/file" :> 2) @@ ("/other" :> 1)
MCLargeSize == [MCSize EXCEPT !["/file"] = 2]

Get(name) == <<"GET", name, "HTTP/1.0">>

(* Two files of different sizes.                                           *)
MCFiles == ("a" :> Get("/file")) @@ ("b" :> Get("/other"))

(* A file that exists, and one that does not or may not be read.           *)
MCPair == ("a" :> Get("/file")) @@ ("b" :> Get("/none"))
MCPrivate == ("a" :> Get("/file")) @@ ("b" :> Get("/private"))
=============================================================================
