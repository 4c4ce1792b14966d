------------------------------- MODULE ClibBuild -------------------------------
(***************************************************************************)
(* clib-build and clib-configure: the same walk over the dependencies of a *)
(* package, which runs make or the configure command in each directory.    *)
(*                                                                         *)
(* Every dependency is handled by a thread of its own, which is a task     *)
(* here: its identifier is the path of positions from the call in main.    *)
(* A task starts its children in windows of Concurrency threads and joins  *)
(* each window.  The table of paths that were handled, built in the one    *)
(* program and configured in the other, is shared under a mutex.           *)
(***************************************************************************)
EXTENDS Integers, Sequences, FiniteSets, SequencesExt

CONSTANTS
    Package,       \* the packages: their manifest, and where it can be read
    Commands,      \* the command lines a user may give
    Cwd,           \* the package of the current directory
    Dot,           \* the argument "."
    Relative,      \* Relative[a]: the package whose directory a names
    Regular,       \* Regular[a]: the manifest with a's base name, a regular file
    Concurrency,   \* opts.concurrency
    MaxMissing     \* bound: manifests of dependencies that cannot be had

(* The other options are handed to make or are about where files are.      *)
BuildOptions == {"dev"}
ConfigureOptions == {"dev", "flags"}

ASSUME CBuildAssumption ==
    /\ Concurrency \in Nat \ {0} /\ MaxMissing \in Nat
    /\ \A c \in Commands :
          \/ c.tool = "build" /\ c.options \subseteq BuildOptions
          \/ c.tool = "configure" /\ c.options \subseteq ConfigureOptions
ASSUME CBuildPackages ==     \* a package that does not exist has no files
    /\ IsFiniteSet(DOMAIN Package) /\ Cwd \in DOMAIN Package
    /\ \A p \in DOMAIN Package :
          /\ {Package[p].deps, Package[p].dev} \subseteq Seq(DOMAIN Package)
          /\ {Package[p].files, Package[p].here} \subseteq SUBSET {"clib.json", "package.json"}
(* The files of a package are those in its directory below opts.dir, and   *)
(* "here" are those in the current directory.  A manifest of the current   *)
(* directory that has neither name is a package of its own, with k = 1.    *)
ASSUME CBuildArguments ==
    /\ Dot \notin DOMAIN Relative \union DOMAIN Regular /\ DOMAIN Relative \intersect DOMAIN Regular = {}
    /\ Relative \in [DOMAIN Relative -> DOMAIN Package]
    /\ Regular \in [DOMAIN Regular -> [p : DOMAIN Package, k : 1 .. 2]]
    /\ \A c \in Commands :
          c.args \in Seq(DOMAIN Package \union {Dot} \union DOMAIN Relative \union DOMAIN Regular)

VARIABLES
    cmd,       \* the command line
    todo,      \* arguments left for main
    calls,     \* calls of build_package or configure_package by main
    again,     \* the last one was the second call for its argument
    tasks,     \* the threads in these calls that were not joined
    handled,   \* built or configured: the paths with a mark
    exit,      \* "running", or how the program ended
    missing    \* dependencies whose manifest could not be had (history)

vars == <<cmd, todo, calls, again, tasks, handled, exit, missing>>
Packages == DOMAIN Package
ManifestNames == <<"clib.json", "package.json">>

(* Where a manifest is looked for: below opts.dir ("dir"), in the current  *)
(* directory by its absolute name ("cwd"), in "." ("here", or "file" when  *)
(* it is one given file), in a directory by its relative name, or nowhere  *)
(* when main tries with the slug.  One file has a path of each name.       *)
Task(p, where, k, pc) ==
    [p |-> p, where |-> where, k |-> k, pc |-> pc, list |-> "deps", next |-> 1,
     kids |-> {}, rc |-> 0]
Place(u) == IF u.where = "file" THEN "here" ELSE u.where
Path(u) == <<Place(u), u.p, ManifestNames[u.k]>>

Parsed(tool) ==
    /\ cmd \in {c \in Commands : c.tool = tool} /\ todo = cmd.args /\ calls = 0 /\ again = FALSE
    /\ tasks = <<>> /\ handled = {} /\ exit = "running" /\ missing = {}
BuildInit == Parsed("build")
ConfigureInit == Parsed("configure")
Init == BuildInit \/ ConfigureInit

-----------------------------------------------------------------------------
At(t, pc) == exit = "running" /\ tasks[t].pc = pc
Set(t, u) == tasks' = [tasks EXCEPT ![t] = u]
Goto(t, pc) == Set(t, [tasks[t] EXCEPT !.pc = pc])
(* build_package: the second manifest name is tried when the first one     *)
(* fails; threads that were started for the first are left alone.  Of a    *)
(* regular file its own name is the only one.                              *)
Fails(t) ==
    IF tasks[t].k < Len(ManifestNames) /\ tasks[t].where # "file"
    THEN Set(t, [tasks[t] EXCEPT !.k = @ + 1, !.pc = "check", !.kids = {},
                                 !.list = "deps", !.next = 1])
    ELSE Set(t, [tasks[t] EXCEPT !.pc = "done", !.rc = 1, !.kids = {}])
Succeeds(t) == Set(t, [tasks[t] EXCEPT !.pc = "done", !.rc = 0])
Kept == UNCHANGED <<cmd, todo, calls, again>>

(* The new thread reads wrap->dir, which is on the stack of its parent and *)
(* may be anything once the parent has given the package up.               *)
Attended(t) == Len(t) = 1 \/ \E u \in DOMAIN tasks : t \in tasks[u].kids
Crash == exit' = "crashed" /\ UNCHANGED tasks
Begin(t) ==
    /\ At(t, "begin")
    /\ \/ Goto(t, "check") /\ UNCHANGED exit
       \/ ~Attended(t) /\ Crash
    /\ Kept /\ UNCHANGED <<handled, missing>>

(* A path with a mark is left alone; between this look at the table and    *)
(* the mark the mutex is free.                                             *)
Check(t) ==
    /\ At(t, "check")
    /\ IF Path(tasks[t]) \in handled THEN Succeeds(t) ELSE Goto(t, "read")
    /\ Kept /\ UNCHANGED <<handled, exit, missing>>

(* The manifest is read from the directory or, when the file is not there, *)
(* asked for with the directory as a slug, which no server knows.          *)
FilesAt(p, where) ==
    IF where \in {"cwd", "here", "file"} THEN Package[p].here ELSE Package[p].files
Readable(u) ==
    IF u.where = "slug" THEN Package[u.p].served
    ELSE ManifestNames[u.k] \in FilesAt(u.p, u.where)
Read(t) ==
    /\ At(t, "read")
    /\ IF Readable(tasks[t]) THEN Goto(t, "run") ELSE Fails(t)
    /\ Kept /\ UNCHANGED <<handled, exit, missing>>

(* The command runs outside the mutex; its result is overwritten by that   *)
(* of pthread_mutex_lock, so a command that fails counts as one that ran.  *)
Marked(t) == handled' = handled \union {Path(tasks[t])}
RunOrMark(t, runs) ==
    /\ At(t, "run")
    /\ \/ runs /\ Goto(t, "running") /\ UNCHANGED handled
       \/ ~runs /\ Marked(t) /\ Goto(t, "loop")
    /\ Kept /\ UNCHANGED <<exit, missing>>
BuildRun(t) == RunOrMark(t, Package[tasks[t].p].makefile)
ConfigureRun(t) ==      \* with --flags they are printed under the mutex
    RunOrMark(t, Package[tasks[t].p].configure
                    /\ ~("flags" \in cmd.options /\ Package[tasks[t].p].flags))
MutMark(t) ==
    /\ At(t, "running") /\ Goto(t, "loop")
    /\ Kept /\ UNCHANGED <<handled, exit, missing>>
Mark(t) ==
    /\ At(t, "running") /\ Marked(t) /\ Goto(t, "loop")
    /\ Kept /\ UNCHANGED <<exit, missing>>

-----------------------------------------------------------------------------
(* The loops over dependencies and development: a manifest, a thread, and  *)
(* a join of the window when it is full and at the end.                    *)
List(u) == IF u.list = "deps" THEN Package[u.p].deps ELSE Package[u.p].dev
AtNext(t) == At(t, "loop") /\ tasks[t].next <= Len(List(tasks[t]))
Full(u) == Cardinality(u.kids) >= Concurrency
Spawn(t) ==
    /\ AtNext(t) /\ ~Full(tasks[t])
    /\ LET u == tasks[t]
           id == t \o <<u.k, Len(Package[u.p].deps) * (IF u.list = "deps" THEN 0 ELSE 1) + u.next>>
           v == [u EXCEPT !.next = @ + 1, !.kids = @ \union {id}]
       IN tasks' = [i \in DOMAIN tasks \union {id} |->
                       CASE i = id -> Task(List(u)[u.next], "dir", 1, "begin")
                         [] i = t -> [v EXCEPT !.pc = IF Full(v) THEN "join" ELSE "loop"]
                         [] OTHER -> tasks[i]]
    /\ Kept /\ UNCHANGED <<handled, exit, missing>>
NoManifest(t) ==
    /\ AtNext(t) /\ Cardinality(missing) < MaxMissing
    /\ missing' = missing \union {List(tasks[t])[tasks[t].next]}
(* clib-build gives up the package, and the threads it has started; the    *)
(* loop over development, and both loops of clib-configure, use the null   *)
(* pointer.                                                                *)
BuildLoses(t) ==
    /\ NoManifest(t)
    /\ IF tasks[t].list = "deps" THEN Fails(t) /\ UNCHANGED exit ELSE Crash
    /\ Kept /\ UNCHANGED handled
ConfigureLoses(t) == NoManifest(t) /\ Crash /\ Kept /\ UNCHANGED handled

MutJoined(t) ==
    /\ \A i \in tasks[t].kids : tasks[i].pc = "done"
    /\ Cardinality(tasks[t].kids) = Concurrency
Joined(t) == \A i \in tasks[t].kids : tasks[i].pc = "done"
Without(S, t, u) ==
    [i \in DOMAIN tasks \ S |-> IF i = t THEN u ELSE tasks[i]]
Join(t) ==
    /\ At(t, "join") /\ Joined(t)
    /\ tasks' = Without(tasks[t].kids, t, [tasks[t] EXCEPT !.kids = {}, !.pc = "loop"])
    /\ Kept /\ UNCHANGED <<handled, exit, missing>>
MutListEnds(t) ==
    /\ At(t, "loop") /\ tasks[t].next > Len(List(tasks[t]))
    /\ LET u == [tasks[t] EXCEPT !.kids = {}]
           v == IF "dev" \in cmd.options /\ u.list = "deps" THEN [u EXCEPT !.list = "dev", !.next = 1]
                ELSE [u EXCEPT !.pc = "done", !.rc = 0]
       IN Set(t, v)
    /\ Kept /\ UNCHANGED <<handled, exit, missing>>
ListEnds(t) ==
    /\ At(t, "loop") /\ tasks[t].next > Len(List(tasks[t])) /\ Joined(t)
    /\ LET u == [tasks[t] EXCEPT !.kids = {}]
           v == IF "dev" \in cmd.options /\ u.list = "deps" THEN [u EXCEPT !.list = "dev", !.next = 1]
                ELSE [u EXCEPT !.pc = "done", !.rc = 0]
       IN tasks' = Without(tasks[t].kids, t, v)
    /\ Kept /\ UNCHANGED <<handled, exit, missing>>

BuildReads(t) == Begin(t) \/ Check(t) \/ Read(t)
BuildWaits(t) == Spawn(t) \/ Join(t)
BuildPackage(t) ==
    /\ cmd.tool = "build"
    /\ BuildReads(t) \/ BuildRun(t) \/ Mark(t)
         \/ BuildWaits(t) \/ BuildLoses(t) \/ ListEnds(t)
ConfigureReads(t) == Begin(t) \/ Check(t) \/ Read(t)
ConfigureMarks(t) == Mark(t)
ConfigureWaits(t) == Spawn(t) \/ Join(t)
ConfigureEnds(t) == ListEnds(t)
ConfigurePackage(t) ==
    /\ cmd.tool = "configure"
    /\ ConfigureReads(t) \/ ConfigureRun(t) \/ ConfigureMarks(t)
         \/ ConfigureWaits(t) \/ ConfigureLoses(t) \/ ConfigureEnds(t)

-----------------------------------------------------------------------------
(* main: the current directory, or every argument (options come after      *)
(* them).  Of a regular file only the base name is kept, whose directory   *)
(* is "."; of the others a directory is tried and then, when that fails,   *)
(* the argument itself.  The result of the last call is the result of the  *)
(* program.                                                                *)
Begins(a) ==
    CASE a = Dot -> [p |-> Cwd, where |-> "cwd", k |-> 1]
      [] a \in DOMAIN Relative -> [p |-> Relative[a], where |-> "relative", k |-> 1]
      [] a \in DOMAIN Regular -> [p |-> Regular[a].p, where |-> "file", k |-> Regular[a].k]
      [] OTHER -> [p |-> a, where |-> "dir", k |-> 1]
Retried(where) ==
    CASE where = "cwd" -> "here" [] where = "relative" -> "relative" [] OTHER -> "slug"
Call(p, where, k) ==
    /\ calls' = calls + 1
    /\ tasks' = [i \in (DOMAIN tasks \ {<<calls>>}) \union {<<calls + 1>>} |->
                    IF i = <<calls + 1>> THEN Task(p, where, k, "check") ELSE tasks[i]]
    /\ UNCHANGED exit
CallFor(a) == Call(Begins(a).p, Begins(a).where, Begins(a).k)
MainStarts ==
    /\ exit = "running" /\ calls = 0
    /\ CallFor(IF todo = <<>> THEN Dot ELSE Head(todo)) /\ again' = FALSE
    /\ UNCHANGED <<cmd, todo, handled, missing>>
Returned == exit = "running" /\ <<calls>> \in DOMAIN tasks /\ tasks[<<calls>>].pc = "done"
Outcome == tasks[<<calls>>]
Retries == Outcome.rc # 0 /\ ~again /\ Outcome.where # "file"
MainRetries ==
    /\ Returned /\ todo # <<>> /\ Retries
    /\ Call(Outcome.p, Retried(Outcome.where), 1) /\ again' = TRUE
    /\ UNCHANGED <<cmd, todo, handled, missing>>
MainGoesOn ==
    /\ Returned /\ Len(todo) > 1 /\ ~Retries
    /\ todo' = Tail(todo) /\ CallFor(Head(todo')) /\ again' = FALSE
    /\ UNCHANGED <<cmd, handled, missing>>
MainEnds ==
    /\ Returned /\ Len(todo) <= 1
    /\ todo = <<>> \/ ~Retries
    /\ exit' = IF Outcome.rc = 0 THEN "zero" ELSE "nonzero"
    /\ UNCHANGED <<cmd, todo, calls, again, tasks, handled, missing>>
BuildMain == cmd.tool = "build" /\ (MainStarts \/ MainRetries \/ MainGoesOn \/ MainEnds)
ConfigureMain ==
    cmd.tool = "configure" /\ (MainStarts \/ MainRetries \/ MainGoesOn \/ MainEnds)

Next ==
    \/ BuildMain \/ ConfigureMain
    \/ \E t \in DOMAIN tasks : BuildPackage(t) \/ ConfigurePackage(t)
Spec == Init /\ [][Next]_vars
(* Threads are scheduled, commands end and requests are answered; a task   *)
(* that can go on does so, since each has a bounded number of steps.       *)
FairSpec == Spec /\ WF_vars(Next)

-----------------------------------------------------------------------------
(* What the command line names, and what that needs.                       *)
Roots == {Begins(a) : a \in IF cmd.args = <<>> THEN {Dot} ELSE Range(cmd.args)}
DependsOn(p) ==
    Range(Package[p].deps) \union (IF "dev" \in cmd.options THEN Range(Package[p].dev) ELSE {})
Needed ==
    LET within[n \in Nat] ==
            IF n = 0 THEN UNION {DependsOn(r.p) : r \in Roots}
            ELSE within[n - 1] \union UNION {DependsOn(p) : p \in within[n - 1]}
    IN within[Cardinality(Packages)]
Found(r) ==
    IF r.where = "file" THEN ManifestNames[r.k] \in Package[r.p].here ELSE FilesAt(r.p, r.where) # {}

(* The program exits with zero only when the command of every package that *)
(* is needed, through any number of dependencies, has run to its end, and  *)
(* that of every argument in its place: if all of them are there and their *)
(* manifests can be had, no window is left unjoined, and no thread relies  *)
(* on another one's run before it is over.  (Of an argument that is a file *)
(* in another directory the place is the current directory: see README.)   *)
HandledAt(r) == \E name \in Range(ManifestNames) : <<Place(r), r.p, name>> \in handled
AllAreHandled ==
    exit = "zero" /\ missing = {} /\ (\A r \in Roots : Found(r)) /\ (\A p \in Needed : Package[p].files # {})
        => /\ \A r \in Roots : HandledAt(r)
           /\ \A p \in Needed : \E name \in Range(ManifestNames) : <<"dir", p, name>> \in handled

(* While the command of a package runs, none runs for the sake of its own  *)
(* dependencies: a package in a cycle is not built again below itself,     *)
(* because its mark is set before its dependencies are walked.  (A package *)
(* is its path here: one directory may be built by two names.)             *)
NotBelowItself ==
    \A t, u \in DOMAIN tasks :
        IsStrictPrefix(t, u) /\ tasks[u].pc \in {"run", "running"}
            => Path(tasks[t]) # Path(tasks[u])

(* A thread has a parent that will join it, and on whose stack its wrap    *)
(* still is, unless clib-build gave up a package for a missing manifest.   *)
NoOrphans ==
    exit = "running" /\ missing = {} =>
        \A t \in DOMAIN tasks :
            Len(t) = 1 \/ \E u \in DOMAIN tasks : t \in tasks[u].kids /\ tasks[u].pc \in {"loop", "join"}

(* The program ends, packages that depend on each other included.          *)
BuildEnds == <>(exit # "running")
=============================================================================
