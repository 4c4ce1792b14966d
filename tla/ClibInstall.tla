------------------------------ MODULE ClibInstall ------------------------------
(***************************************************************************)
(* The package installer of clib: the library common/clib-package.c with   *)
(* its cache common/clib-cache.c, driven by the commands clib-install,     *)
(* clib-update and clib-upgrade.                                           *)
(*                                                                         *)
(* One main thread walks the dependencies recursively (the call stack      *)
(* "stack", whose head is the running function); every file of a package   *)
(* is fetched by a thread of its own, in windows of Concurrency threads.   *)
(* The disk, the caches and the project's own manifests outlive a command; *)
(* several commands run one after the other, each possibly killed.         *)
(***************************************************************************)
EXTENDS Integers, Sequences, FiniteSets, SequencesExt

CONSTANTS
    Manifest,      \* the manifests of the server, by the name of their package
    Commands,      \* the command lines a user may give, and whether CFLAGS is set
    LocalDeps,     \* LocalDeps[k]: the dependencies of the k-th local manifest
    Here,          \* the argument "." of clib-install and clib-update
    Regular,       \* Regular[a]: the manifest in the regular file that a names
    NoVersion,     \* in a list of dependencies: an entry that is no string
    Concurrency,   \* opts.concurrency
    MaxCommands,   \* bound: commands in one behaviour
    MaxStack,      \* bound: calls that fit on the stack
    MaxFaults      \* bound: kinds of failure that occur in one behaviour

ASSUME CInstallAssumption == Concurrency \in Nat /\ MaxFaults \in Nat
(* The options of a command line.                                          *)
ASSUME CInstallCommands ==
    Commands # {} /\ \A c \in Commands :
        /\ c.tool \in {"install", "update", "upgrade"}
        /\ {c.dev, c.force, c.skipCache, c.global, c.cflags} \subseteq BOOLEAN
        /\ c.args \in Seq(DOMAIN Manifest \union {Here} \union DOMAIN Regular)
        /\ c.tool = "upgrade" => c.args \in Seq(DOMAIN Manifest)
(* Manifests 1 and 2 are clib.json and package.json of the project, the    *)
(* others are files given as arguments; those that can be read are in      *)
(* LocalDeps, and every name they list has its entry in Manifest.  An      *)
(* argument is a package, "." or a regular file.                           *)
ASSUME CInstallLocal ==
    /\ DOMAIN LocalDeps \subseteq Nat /\ \A k \in DOMAIN LocalDeps :
        LocalDeps[k] \in [deps : Seq(DOMAIN Manifest), dev : Seq(DOMAIN Manifest)]
    /\ \A a \in DOMAIN Regular : Regular[a] \in Nat /\ a \notin DOMAIN Manifest \union {Here}
    /\ Here \notin DOMAIN Manifest

VARIABLES
    disk,      \* disk[dir][p][f]: what the file f of p is worth in the directory
    cache,     \* cache[p]: the cached copy of the package's directory
    jsons,     \* packages whose manifest is in the cache
    old,       \* cache entries past their expiration time
    local,     \* dependencies of the local manifests that exist
    cmd,       \* the command that runs or ran last
    stack,     \* call stack of the main thread
    ret,       \* value returned by the last call
    visited,   \* visited_packages
    objs,      \* the clib_package_t objects that fetched files
    threads,   \* the fetching threads that were not joined
    exit,      \* "running", or how the last command ended
    missing,   \* packages the command got no manifest of (history)
    failed,    \* packages the command could not install in whole (history)
    faults,    \* kinds of failure so far (history)
    commands   \* commands so far

files == <<disk, cache, jsons, old, local>>
history == <<missing, failed, faults, commands>>
process == <<cmd, visited, objs, threads>>
vars == <<files, process, stack, ret, exit, history>>

(* clib_package_new: a manifest is a record with the members of the JSON   *)
(* object it has, "file" being the name it is served under ("none" for a   *)
(* package that does not exist).  Packages have distinct names.            *)
Member(m, name, default) == IF name \in DOMAIN m THEN m[name] ELSE default
Dependencies(m, name) == Member(m, name, <<>>)
Parses(m) == NoVersion \notin Range(Dependencies(m, "dependencies"))
                                \union Range(Dependencies(m, "development"))
Parse(m) ==
    [file |-> m.file, parses |-> Parses(m),
     src |-> Member(m, "src", Member(m, "files", <<>>)),
     makefile |-> "makefile" \in DOMAIN m,
     configure |-> "configure" \in DOMAIN m,
     install |-> "install" \in DOMAIN m,
     flags |-> {"flags", "cflags"} \intersect DOMAIN m # {},
     deps |-> Dependencies(m, "dependencies"), dev |-> Dependencies(m, "development")]
Pkg == [p \in DOMAIN Manifest |-> Parse(Manifest[p])]

Packages == DOMAIN Manifest
ASSUME CInstallManifests ==
    IsFiniteSet(Packages) /\ NoVersion \notin Packages /\ \A p \in Packages :
        /\ Pkg[p].src \in Seq(STRING)
        /\ {Pkg[p].deps, Pkg[p].dev} \subseteq Seq(Packages \union {NoVersion})
Dirs == {"deps", "tmp"}      \* opts.dir, and the directory of unpacked tarballs
ManifestNames == <<"clib.json", "package.json">>
Project == 1 .. Len(ManifestNames)      \* the manifests of the project itself
Retries == 3
FilesOf(p) == Range(ManifestNames) \union Range(Pkg[p].src)
                \union (IF Pkg[p].makefile THEN {"Makefile"} ELSE {})
NoCopy == <<>>
NoRet == [rc |-> "none", obj |-> 0]

-----------------------------------------------------------------------------
(* The options of the three programs, as they hand them to                 *)
(* clib_package_set_opts.                                                  *)
InstallOptions(c) == [skipCache |-> c.skipCache, force |-> c.force, global |-> c.global]
UpdateOptions == [skipCache |-> TRUE, force |-> TRUE, global |-> FALSE]
UpgradeOptions(c) == [skipCache |-> TRUE, force |-> c.force, global |-> TRUE]
Opts == CASE cmd.tool = "install" -> InstallOptions(cmd)
          [] cmd.tool = "update" -> UpdateOptions
          [] cmd.tool = "upgrade" -> UpgradeOptions(cmd)

(* Functions of the main thread: one kind of frame each.                   *)
LocalFrame(tries) == [fn |-> "local", pc |-> "read", tries |-> tries]
ArgsFrame(todo) == [fn |-> "args", pc |-> "next", todo |-> todo, obj |-> 0]
NewFrame(p) == [fn |-> "new", pc |-> "lookup", p |-> p, k |-> 1, tries |-> Retries]
ListFrame(todo, dir) ==
    [fn |-> "list", pc |-> "next", todo |-> todo, dir |-> dir, mine |-> {}]
PackageFrame(p, dir, file) ==
    [fn |-> "package", pc |-> "enter", p |-> p, dir |-> dir, file |-> file,
     obj |-> 0, next |-> 1, window |-> <<>>, left |-> {}, now |-> <<>>]
ExecFrame(p, dir) == [fn |-> "exec", pc |-> "tarball", p |-> p, dir |-> dir]

Top == Head(stack)
In(fn, pc) == exit = "running" /\ Top.fn = fn /\ Top.pc = pc
Stay(f) == stack' = <<f>> \o Tail(stack) /\ ret' = NoRet /\ UNCHANGED exit
Goto(pc) == Stay([Top EXCEPT !.pc = pc])
Call(f, back) ==      \* call f; the caller goes on as the frame back
    stack' = <<f, back>> \o Tail(stack) /\ ret' = NoRet /\ UNCHANGED exit
CallThen(f, pc) == Call(f, [Top EXCEPT !.pc = pc])
Return(rc, obj) ==
    stack' = Tail(stack) /\ ret' = [rc |-> rc, obj |-> obj] /\ UNCHANGED exit
Finish(how) == exit' = how /\ stack' = <<>> /\ ret' = NoRet

(* Bound: every kind of failure occurs once, but a request for a manifest  *)
(* can stay without an answer again and again.                             *)
Fail(kind) ==
    /\ IF kind \in faults THEN kind = "manifest" ELSE Cardinality(faults) < MaxFaults
    /\ faults' = faults \union {kind}

-----------------------------------------------------------------------------
Nothing == [p \in Packages |-> [f \in FilesOf(p) |-> "absent"]]
Init ==
    /\ disk = [d \in Dirs |-> Nothing]
    /\ cache = [p \in Packages |-> NoCopy]
    /\ jsons = {} /\ old = {} /\ local = LocalDeps
    /\ cmd = (CHOOSE c \in Commands : TRUE) /\ exit = "zero" /\ stack = <<>> /\ ret = NoRet
    /\ visited = {} /\ objs = <<>> /\ threads = {}
    /\ missing = {} /\ failed = {} /\ faults = {} /\ commands = 0

(* main of the three programs: without arguments clib-install and          *)
(* clib-update install what the local manifests list; clib-upgrade has one *)
(* argument, clibs/clib.                                                   *)
Start(c, f) ==
    /\ exit # "running" /\ commands < MaxCommands
    /\ commands' = commands + 1 /\ cmd' = c /\ exit' = "running"
    /\ stack' = <<f>> /\ ret' = NoRet /\ visited' = {} /\ objs' = <<>>
    /\ threads' = {} /\ missing' = {} /\ failed' = {}
    /\ UNCHANGED <<files, faults>>
StartInstall(c) ==
    c.tool = "install"
    /\ Start(c, IF c.args = <<>> THEN LocalFrame(<<1, 2>>) ELSE ArgsFrame(c.args))
StartUpdate(c) ==
    c.tool = "update"
    /\ Start(c, IF c.args = <<>> THEN LocalFrame(<<1, 2>>) ELSE ArgsFrame(c.args))
StartUpgrade(c) == c.tool = "upgrade" /\ Start(c, ArgsFrame(c.args))

(* Between two commands either the cached entries pass their time or the   *)
(* user deletes the directory of the dependencies (bound: not both).       *)
Between == exit \notin {"running", "idle"} /\ commands < MaxCommands /\ exit' = "idle"
TimePasses ==
    /\ Between
    /\ old' = {<<"json", p>> : p \in jsons}
                \union {<<"package", p>> : p \in {q \in Packages : cache[q] # NoCopy}}
    /\ old' # old
    /\ UNCHANGED <<disk, cache, jsons, local, process, stack, ret, history>>
Clean ==
    /\ Between
    /\ disk["deps"] # Nothing /\ disk' = [disk EXCEPT !["deps"] = Nothing]
    /\ UNCHANGED <<cache, jsons, old, local, process, stack, ret, history>>

(* The user interrupts the command.                                        *)
Kill == exit = "running" /\ Fail("kill") /\ Finish("killed")
        /\ UNCHANGED <<files, process, missing, failed, commands>>

-----------------------------------------------------------------------------
(* install_local_packages: clib.json, and package.json when that fails; of *)
(* a regular file only its own manifest is tried.                          *)
LocalOver(rc) ==
    IF Len(stack) > 1 THEN Return(rc, 0)
    ELSE Finish(IF rc = "ok" THEN "zero" ELSE "nonzero")
LocalFails ==
    IF Tail(Top.tries) # <<>>
    THEN Stay([Top EXCEPT !.pc = "read", !.tries = Tail(@)]) ELSE LocalOver("one")
Tried == Head(Top.tries)
LocalReads ==
    /\ In("local", "read")
    /\ IF Tried \in DOMAIN local
       THEN CallThen(ListFrame(local[Tried].deps, "deps"), "deps")
       ELSE LocalFails
    /\ UNCHANGED <<files, process, history>>
LocalInstalled ==
    /\ In("local", "deps")
    /\ IF ret.rc = "fail" THEN LocalFails
       ELSE IF cmd.dev THEN CallThen(ListFrame(local[Tried].dev, "deps"), "dev")
       ELSE LocalOver("ok")
    /\ UNCHANGED <<files, process, history>>
LocalDev ==
    /\ In("local", "dev")
    /\ IF ret.rc = "fail" THEN LocalFails ELSE LocalOver("ok")
    /\ UNCHANGED <<files, process, history>>
InstallLocal == cmd.tool = "install" /\ (LocalReads \/ LocalInstalled \/ LocalDev)
UpdateLocal == cmd.tool = "update" /\ (LocalReads \/ LocalInstalled \/ LocalDev)

(* clib_package_free keeps a package whose reference count is not zero.    *)
Free(S) ==
    objs' = [o \in DOMAIN objs |-> IF o \in S /\ objs[o].refs = 0
                                  THEN [objs[o] EXCEPT !.state = "freed"] ELSE objs[o]]

(* install_packages and install_package of the three programs.  Only the   *)
(* result -1 ("fail") stops clib-install and clib-update; clib-upgrade     *)
(* exits with the result, of which the system keeps the low eight bits: a  *)
(* failed command's wait status ("status") becomes zero.                   *)
NextArgument ==
    /\ In("args", "next")
    /\ \/ Top.todo = <<>> /\ Finish("zero")
       \/ /\ Top.todo # <<>>
          /\ LET a == Head(Top.todo)
             IN CASE a = Here -> CallThen(LocalFrame(<<1, 2>>), "here")
                  [] a \in DOMAIN Regular -> CallThen(LocalFrame(<<Regular[a]>>), "here")
                  [] OTHER -> CallThen(NewFrame(a), "made")
    /\ UNCHANGED <<files, process, history>>
InstallNext == cmd.tool = "install" /\ NextArgument
UpdateNext == cmd.tool = "update" /\ NextArgument
UpgradeNext == cmd.tool = "upgrade" /\ NextArgument
ArgsHere ==             \* neither "." nor a regular file ever returns -1
    /\ In("args", "here")
    /\ Stay([Top EXCEPT !.pc = "next", !.todo = Tail(@)])
    /\ UNCHANGED <<files, process, history>>
Made(dir) ==
    /\ In("args", "made")
    /\ IF ret.rc = "null" THEN Finish("nonzero")
       ELSE CallThen(PackageFrame(Head(Top.todo), dir, ret.rc), "installed")
    /\ UNCHANGED <<files, process, history>>
InstallMade == cmd.tool = "install" /\ Made("deps")
UpdateMade == cmd.tool = "update" /\ Made("deps")
UpgradeMade == cmd.tool = "upgrade" /\ Made("tmp")
PackageOver(rc, obj) ==
    /\ Free({obj})
    /\ \/ rc = "fail" /\ Finish("nonzero")
       \/ rc # "fail" /\ cmd.tool # "upgrade"
          /\ Stay([Top EXCEPT !.pc = "next", !.todo = Tail(@)])
       \/ rc # "fail" /\ cmd.tool = "upgrade"
          /\ Finish(IF rc \in {"ok", "status"} THEN "zero" ELSE "nonzero")
UpgradeOver ==
    /\ In("args", "installed") /\ cmd.tool = "upgrade"
    /\ PackageOver(ret.rc, ret.obj)
    /\ UNCHANGED <<files, cmd, visited, threads, history>>

(* write_dependency: the first local manifest that can be read.            *)
WriteDependency(p, section) ==
    LET k == Min(DOMAIN local \intersect Project)
    IN IF DOMAIN local \intersect Project = {} \/ p \in Range(local[k][section]) THEN UNCHANGED local
       ELSE local' = [local EXCEPT ![k][section] = Append(@, p)]
Save(p) == WriteDependency(p, "deps")
SaveDev(p) == WriteDependency(p, "dev")
Development ==
    /\ In("args", "installed") /\ cmd.tool # "upgrade" /\ ret.rc = "ok" /\ cmd.dev
    /\ Call(ListFrame(Pkg[Head(Top.todo)].dev, "deps"),
            [Top EXCEPT !.pc = "dev", !.obj = ret.obj])
    /\ UNCHANGED <<files, process, history>>
ArgumentOver == IF In("args", "installed") THEN ret.rc # "ok" \/ ~cmd.dev ELSE In("args", "dev")
Object == IF Top.pc = "dev" THEN Top.obj ELSE ret.obj
InstallOver ==
    /\ cmd.tool = "install" /\ ArgumentOver /\ PackageOver(ret.rc, Object)
    /\ CASE ret.rc = "ok" /\ cmd.save = "save" -> Save(Head(Top.todo))
         [] ret.rc = "ok" /\ cmd.save = "savedev" -> SaveDev(Head(Top.todo))
         [] OTHER -> UNCHANGED local
    /\ UNCHANGED <<disk, cache, jsons, old, cmd, visited, threads, history>>
UpdateOver ==
    /\ cmd.tool = "update" /\ ArgumentOver /\ PackageOver(ret.rc, Object)
    /\ UNCHANGED <<files, cmd, visited, threads, history>>

-----------------------------------------------------------------------------
(* clib_package_new_from_slug: both manifest names in turn; each is taken  *)
(* from the cache of manifests or asked for Retries times.                 *)
Served == Pkg[Top.p].file = ManifestNames[Top.k]
NewFails ==
    \/ /\ Top.k < Len(ManifestNames)
       /\ Stay([Top EXCEPT !.pc = "lookup", !.k = @ + 1, !.tries = Retries])
       /\ UNCHANGED missing
    \/ /\ Top.k = Len(ManifestNames)
       /\ Return("null", 0) /\ missing' = missing \union {Top.p}
NewMade == jsons' = jsons \union {Top.p} /\ old' = old \ {<<"json", Top.p>>}
           /\ Return(ManifestNames[Top.k], 0)
HasJson(p) == p \in jsons /\ <<"json", p>> \notin old
NewLookup ==
    /\ In("new", "lookup")
    /\ \/ ~HasJson(Top.p) /\ Goto("get") /\ UNCHANGED <<jsons, old>>
       \/ /\ HasJson(Top.p) /\ Opts.skipCache
          /\ jsons' = jsons \ {Top.p} /\ Goto("get") /\ UNCHANGED old
       \/ HasJson(Top.p) /\ ~Opts.skipCache /\ NewMade
    /\ UNCHANGED <<disk, cache, local, process, history>>
NewGet ==
    /\ In("new", "get") /\ Top.tries > 0
    /\ \/ Served /\ Pkg[Top.p].parses /\ NewMade /\ UNCHANGED <<faults, missing>>
       \/ Served /\ ~Pkg[Top.p].parses /\ NewFails /\ UNCHANGED <<jsons, old, faults>>
       \/ /\ Stay([Top EXCEPT !.tries = @ - 1])
          /\ IF Served THEN Fail("manifest") ELSE UNCHANGED faults
          /\ UNCHANGED <<jsons, old, missing>>
    /\ UNCHANGED <<disk, cache, local, process, failed, commands>>
(* After the last try the response, freed already, is freed once more: the *)
(* program may abort there.                                                *)
NewGiveUp ==
    /\ In("new", "get") /\ Top.tries = 0
    /\ NewFails \/ (Finish("aborted") /\ UNCHANGED missing)
    /\ UNCHANGED <<files, process, failed, faults, commands>>

(* install_packages of the library.                                        *)
ListOver(rc) == Free(Top.mine) /\ Return(rc, 0)
ListNext ==
    /\ In("list", "next")
    /\ \/ Top.todo = <<>> /\ ListOver("ok")
       \/ Top.todo # <<>> /\ CallThen(NewFrame(Head(Top.todo)), "made") /\ UNCHANGED objs
    /\ UNCHANGED <<files, cmd, visited, threads, history>>
MutListMade ==
    /\ In("list", "made")
    /\ IF ret.rc = "null" THEN Stay([Top EXCEPT !.pc = "next", !.todo = Tail(@)])
       ELSE CallThen(PackageFrame(Head(Top.todo), Top.dir, ret.rc), "installed")
    /\ UNCHANGED <<files, process, history>>
ListMade ==
    /\ In("list", "made")
    /\ IF ret.rc = "null" THEN ListOver("fail")
       ELSE CallThen(PackageFrame(Head(Top.todo), Top.dir, ret.rc), "installed")
            /\ UNCHANGED objs
    /\ UNCHANGED <<files, cmd, visited, threads, history>>
ListInstalled ==
    /\ In("list", "installed")
    /\ IF ret.rc = "fail" THEN ListOver("fail")
       ELSE Stay([Top EXCEPT !.pc = "next", !.todo = Tail(@), !.mine = @ \union {ret.obj}])
            /\ UNCHANGED objs
    /\ UNCHANGED <<files, cmd, visited, threads, history>>

-----------------------------------------------------------------------------
(* clib_package_install.                                                   *)
PackageReturn(rc) ==
    /\ objs' = [objs EXCEPT ![Top.obj].state = "returned"]
    /\ Return(rc, Top.obj)

(* Up to the mark in visited_packages.                                     *)
PackageVisited ==
    /\ In("package", "enter") /\ ~Opts.force /\ Top.p \in visited
    /\ Return("ok", 0)
    /\ UNCHANGED <<files, process, history>>
Enters == In("package", "enter") /\ (Opts.force \/ Top.p \notin visited)
Fits == Len(stack) < MaxStack
PackageRefused ==           \* mkdirp fails, or the manifest cannot be opened
    /\ Enters /\ Fits
    /\ ~Opts.global /\ Fail("disk") /\ Return("fail", 0)
    /\ UNCHANGED <<files, process, missing, failed, commands>>
MutMark ==
    /\ UNCHANGED visited
    /\ objs' = Append(objs, [p |-> Top.p, dir |-> Top.dir, refs |-> 0, state |-> "used"])
    /\ Stay([Top EXCEPT !.pc = "makefile", !.obj = Len(objs) + 1])
Mark ==
    /\ visited' = visited \union {Top.p}
    /\ objs' = Append(objs, [p |-> Top.p, dir |-> Top.dir, refs |-> 0, state |-> "used"])
    /\ Stay([Top EXCEPT !.pc = "makefile", !.obj = Len(objs) + 1])
PackageManifest(v) == disk' = [disk EXCEPT ![Top.dir][Top.p][Top.file] = v]
PackageEnter ==
    /\ Enters /\ Fits
    /\ IF Opts.global \/ Pkg[Top.p].src = <<>> THEN Mark /\ UNCHANGED disk
       ELSE PackageManifest("broken") /\ Goto("manifest") /\ UNCHANGED <<visited, objs>>
    /\ UNCHANGED <<cache, jsons, old, local, cmd, threads, history>>
PackageWritten ==           \* fs_write reports no short write
    /\ In("package", "manifest") /\ Mark
    /\ \/ PackageManifest("whole") /\ UNCHANGED faults
       \/ Fail("disk") /\ UNCHANGED disk
    /\ UNCHANGED <<cache, jsons, old, local, cmd, threads, missing, failed, commands>>
(* With force nothing ends a walk around a cycle but the end of the stack. *)
Overflow ==
    /\ Enters /\ ~Fits /\ Finish("overflow")
    /\ UNCHANGED <<files, process, history>>

(* fetch_package_file: the count goes up before the thread is created, and *)
(* stays up when that fails.  The n-th source has the slot n.              *)
Spawn(slot, f) ==
    /\ objs' = [objs EXCEPT ![Top.obj].refs = @ + 1]
    /\ threads' = threads \union
            {[obj |-> Top.obj, slot |-> slot, file |-> f, pc |-> "begin", seen |-> 0]}
SpawnFails(rc) ==
    /\ Fail("spawn")
    /\ objs' = [objs EXCEPT ![Top.obj].refs = @ + 1, ![Top.obj].state = "returned"]
    /\ Return(rc, Top.obj)
    /\ UNCHANGED <<files, cmd, visited, threads, missing, failed, commands>>
Join(slot) ==
    \E t \in threads : /\ t.obj = Top.obj /\ t.slot = slot /\ t.pc = "done"
                      /\ threads' = threads \ {t}

MakefileSlot == 0
HasMakefile == Pkg[Top.p].makefile /\ ~Opts.global
PackageMakefile ==
    /\ In("package", "makefile")
    /\ IF HasMakefile THEN Spawn(MakefileSlot, "Makefile") /\ Goto("makefile fetch")
       ELSE Goto("cache") /\ UNCHANGED <<objs, threads>>
    /\ UNCHANGED <<files, cmd, visited, history>>
PackageNoMakefile ==        \* the error number: not -1, so no failure to the callers
    In("package", "makefile") /\ HasMakefile /\ SpawnFails("errno")
PackageMakefileJoined ==    \* the result of the thread is always null
    /\ In("package", "makefile fetch")
    /\ Join(MakefileSlot) /\ Goto("cache")
    /\ UNCHANGED <<files, cmd, visited, objs, history>>

(* clib_cache_has_package, _delete_package and _load_package.              *)
HasPackage(p) == cache[p] # NoCopy /\ <<"package", p>> \notin old
Present(dir) == {f \in DOMAIN dir : dir[f] # "absent"}
PackageCache ==
    /\ In("package", "cache")
    /\ \/ /\ Opts.global \/ Pkg[Top.p].src = <<>>
          /\ Goto("configure") /\ UNCHANGED cache
       \/ /\ ~Opts.global /\ Pkg[Top.p].src # <<>>
          /\ \/ ~HasPackage(Top.p) /\ Goto("fetch") /\ UNCHANGED cache
             \/ /\ HasPackage(Top.p) /\ Opts.skipCache
                /\ cache' = [cache EXCEPT ![Top.p] = NoCopy]
                /\ Goto("fetch")
             \/ /\ HasPackage(Top.p) /\ ~Opts.skipCache
                /\ Stay([Top EXCEPT !.pc = "load", !.left = Present(cache[Top.p])])
                /\ UNCHANGED cache
    /\ UNCHANGED <<disk, jsons, old, local, process, history>>

(* copy_dir, from the cache ("load") or to it ("copy"), in the order in    *)
(* which the directory lists its files.  copy_file reads one, and fs_write *)
(* empties its target, if it can be opened, and writes it: copy_file does  *)
(* not look at what fs_write returns, nor fs_write at what was written.    *)
Copying == In("package", "load") \/ In("package", "copy")
From == IF Top.pc = "load" THEN cache[Top.p] ELSE disk[Top.dir][Top.p]
SetCopy(f, v) ==
    \/ /\ Top.pc = "load" /\ UNCHANGED cache
       /\ disk' = [disk EXCEPT ![Top.dir][Top.p][f] = v]
    \/ /\ Top.pc = "copy" /\ UNCHANGED disk
       /\ cache' = [cache EXCEPT ![Top.p][f] = v]
CopyOpen ==
    /\ Copying /\ Top.now = <<>>
    /\ \E f \in Top.left :
          \/ /\ SetCopy(f, "broken") /\ UNCHANGED faults
             /\ Stay([Top EXCEPT !.left = @ \ {f}, !.now = <<f, From[f]>>])
          \/ /\ Fail("disk") /\ UNCHANGED <<disk, cache>>
             /\ Stay([Top EXCEPT !.left = @ \ {f}])
    /\ UNCHANGED <<jsons, old, local, process, missing, failed, commands>>
MutCopyWrite ==
    /\ Copying /\ Top.now # <<>>
    /\ UNCHANGED <<disk, cache, faults>>
    /\ Stay([Top EXCEPT !.now = <<>>])
    /\ UNCHANGED <<jsons, old, local, process, missing, failed, commands>>
CopyWrite ==
    /\ Copying /\ Top.now # <<>>
    /\ \/ SetCopy(Top.now[1], Top.now[2]) /\ UNCHANGED faults
       \/ Fail("disk") /\ UNCHANGED <<disk, cache>>
    /\ Stay([Top EXCEPT !.now = <<>>])
    /\ UNCHANGED <<jsons, old, local, process, missing, failed, commands>>
(* A file that cannot be read ends the copy; what is loaded is then        *)
(* fetched, what is saved stays as it is.                                  *)
CopyFails ==
    /\ Copying /\ Top.now = <<>> /\ Top.left # {} /\ Fail("disk")
    /\ Stay([Top EXCEPT !.left = {}, !.pc = IF @ = "load" THEN "fetch" ELSE "configure"])
    /\ UNCHANGED <<files, process, missing, failed, commands>>
CopyOver ==
    /\ Copying /\ Top.now = <<>> /\ Top.left = {}
    /\ Goto("configure")
    /\ UNCHANGED <<files, process, history>>

(* One thread per source.  The first Concurrency threads of a window go to *)
(* the slots that are joined; the thread after them fills the window       *)
(* without being in it and is never joined.                                *)
PackageFetch ==
    /\ In("package", "fetch")
    /\ IF Top.next > Len(Pkg[Top.p].src) THEN Goto("final") /\ UNCHANGED <<objs, threads>>
       ELSE LET f == Pkg[Top.p].src[Top.next]
                room == Len(Top.window) < Concurrency
            IN /\ Spawn(Top.next, f)
               /\ Stay([Top EXCEPT !.next = @ + 1,
                                   !.pc = IF room THEN "fetch" ELSE "window",
                                   !.window = IF room THEN Append(@, Top.next) ELSE @])
    /\ UNCHANGED <<files, cmd, visited, history>>
PackageNotFetched ==        \* threads that run already are left alone
    In("package", "fetch") /\ Top.next <= Len(Pkg[Top.p].src) /\ SpawnFails("fail")
JoinFetch(pc, then) ==
    /\ In("package", pc)
    /\ IF Top.window = <<>> THEN Goto(then) /\ UNCHANGED threads
       ELSE Join(Last(Top.window)) /\ Stay([Top EXCEPT !.window = Front(@)])
    /\ UNCHANGED <<files, cmd, visited, objs, history>>
PackageWindow == JoinFetch("window", "fetch")
MutPackageFinal ==
    In("package", "final") /\ Goto("save") /\ UNCHANGED <<files, process, history>>
PackageFinal == JoinFetch("final", "save")

(* clib_cache_save_package: the old copy is removed, then the directory is *)
(* copied; the result of copying is ignored.                               *)
PackageSave ==
    /\ In("package", "save")
    /\ cache' = [cache EXCEPT ![Top.p] = [f \in FilesOf(Top.p) |-> "absent"]]
    /\ old' = old \ {<<"package", Top.p>>}
    /\ Stay([Top EXCEPT !.pc = "copy", !.left = Present(disk[Top.dir][Top.p])])
    /\ UNCHANGED <<disk, jsons, local, process, history>>

PackageConfigure ==
    /\ In("package", "configure")
    /\ IF Pkg[Top.p].install THEN CallThen(ExecFrame(Top.p, Top.dir), "executed")
       ELSE CallThen(ListFrame(Pkg[Top.p].deps, Top.dir), "deps")
    /\ UNCHANGED <<files, process, history>>
PackageNotConfigured ==
    /\ In("package", "configure") /\ Pkg[Top.p].configure
    /\ Fail("command") /\ PackageReturn("status") /\ failed' = failed \union {Top.p}
    /\ UNCHANGED <<files, cmd, visited, threads, missing, commands>>
PackageExecuted ==
    /\ In("package", "executed")
    /\ IF ret.rc = "ok"
       THEN CallThen(ListFrame(Pkg[Top.p].deps, Top.dir), "deps") /\ UNCHANGED objs
       ELSE PackageReturn(ret.rc)
    /\ UNCHANGED <<files, cmd, visited, threads, history>>
PackageDeps ==
    /\ In("package", "deps") /\ PackageReturn(ret.rc)
    /\ UNCHANGED <<files, cmd, visited, threads, history>>

-----------------------------------------------------------------------------
(* clib_package_install_executable: the tarball is unpacked under the      *)
(* temporary directory and the dependencies are installed there.           *)
ExecTarball ==
    /\ In("exec", "tarball")
    /\ IF Pkg[Top.p].deps = <<>> THEN Goto("run")
       ELSE CallThen(ListFrame(Pkg[Top.p].deps, "tmp"), "deps")
    /\ UNCHANGED <<files, process, history>>
ExecFails ==
    /\ \/ In("exec", "tarball") /\ Fail("fetch") /\ Return("fail", 0)
       \/ /\ In("exec", "tarball") \/ In("exec", "run")
          /\ Fail("command") /\ Return("status", 0)
    /\ failed' = failed \union {Top.p}
    /\ UNCHANGED <<files, process, missing, commands>>
ExecDeps ==
    /\ In("exec", "deps")
    /\ IF ret.rc = "fail" THEN Return("fail", 0) ELSE Goto("run")
    /\ UNCHANGED <<files, process, history>>
ExecRun ==      \* setenv("CFLAGS", NULL) ends the program
    /\ In("exec", "run")
    /\ IF Pkg[Top.p].flags /\ ~cmd.cflags THEN Finish("aborted") ELSE Return("ok", 0)
    /\ UNCHANGED <<files, process, history>>

-----------------------------------------------------------------------------
(* fetch_package_file_work in its thread: a file that is there is kept     *)
(* unless the command forces; http_get_file_shared, called without the     *)
(* lock, truncates it first and leaves what it got.  The count of          *)
(* references is then decremented without the lock: the thread reads it    *)
(* (Leave) and writes it (ThreadDrop).                                     *)
Step(t, u) == t \in threads /\ threads' = (threads \ {t}) \union {u}
Leave(t) == Step(t, [t EXCEPT !.pc = "drop", !.seen = objs[t.obj].refs])
File(t) == disk[objs[t.obj].dir][objs[t.obj].p][t.file]
SetFile(t, v) == disk' = [disk EXCEPT ![objs[t.obj].dir][objs[t.obj].p][t.file] = v]
NotFetched(t) == failed' = failed \union {objs[t.obj].p}
MutThreadBegin(t) ==
    /\ t.pc = "begin" /\ Step(t, [t EXCEPT !.pc = "open"])
    /\ UNCHANGED <<files, objs, history>>
ThreadBegin(t) ==
    /\ t.pc = "begin"
    /\ IF Opts.force \/ File(t) = "absent" THEN Step(t, [t EXCEPT !.pc = "open"]) ELSE Leave(t)
    /\ UNCHANGED <<files, objs, history>>
ThreadOpen(t) ==
    /\ t.pc = "open"
    /\ \/ Step(t, [t EXCEPT !.pc = "get"]) /\ SetFile(t, "broken") /\ UNCHANGED <<failed, faults>>
       \/ Leave(t) /\ Fail("disk") /\ NotFetched(t) /\ UNCHANGED disk
    /\ UNCHANGED <<cache, jsons, old, local, objs, missing, commands>>
ThreadGet(t) ==
    /\ t.pc = "get" /\ Leave(t)
    /\ \/ SetFile(t, "whole") /\ UNCHANGED <<failed, faults>>
       \/ Fail("fetch") /\ NotFetched(t) /\ UNCHANGED disk
    /\ UNCHANGED <<cache, jsons, old, local, objs, missing, commands>>
(* The main thread may be about to overwrite the count, having read it     *)
(* before this write.                                                      *)
Overtaken(t) == /\ In("package", "fetch") /\ Top.obj = t.obj
                /\ Top.next <= Len(Pkg[Top.p].src)
ThreadDrop(t) ==
    /\ t.pc = "drop" /\ Step(t, [t EXCEPT !.pc = "done", !.seen = 0])
    /\ \/ objs' = [objs EXCEPT ![t.obj].refs = t.seen - 1]
       \/ Overtaken(t) /\ UNCHANGED objs
    /\ UNCHANGED <<files, history>>
Threads ==
    /\ exit = "running"
    /\ \E t \in threads :
          ThreadBegin(t) \/ ThreadOpen(t) \/ ThreadGet(t) \/ ThreadDrop(t)
    /\ UNCHANGED <<cmd, visited, stack, ret, exit>>

Programs ==
    \/ InstallLocal \/ UpdateLocal
    \/ InstallNext \/ UpdateNext \/ UpgradeNext \/ ArgsHere
    \/ InstallMade \/ UpdateMade \/ UpgradeMade
    \/ Development \/ InstallOver \/ UpdateOver \/ UpgradeOver
Library ==
    \/ NewLookup \/ NewGet \/ NewGiveUp
    \/ ListNext \/ ListMade \/ ListInstalled
    \/ PackageVisited \/ PackageRefused \/ PackageEnter \/ PackageWritten \/ Overflow
    \/ PackageMakefile \/ PackageNoMakefile \/ PackageMakefileJoined
    \/ PackageCache \/ PackageSave
    \/ CopyOpen \/ CopyWrite \/ CopyFails \/ CopyOver
    \/ PackageFetch \/ PackageNotFetched \/ PackageWindow \/ PackageFinal
    \/ PackageConfigure \/ PackageNotConfigured \/ PackageExecuted \/ PackageDeps
    \/ ExecTarball \/ ExecFails \/ ExecDeps \/ ExecRun
Main == Programs \/ Library
User == (\E c \in Commands : StartInstall(c) \/ StartUpdate(c) \/ StartUpgrade(c))
            \/ TimePasses \/ Clean \/ Kill
Next == User \/ Main \/ Threads

Spec == Init /\ [][Next]_vars
(* The threads of the program are scheduled, and every transfer ends.      *)
FairSpec == Spec /\ WF_vars(Main) /\ WF_vars(Threads)

-----------------------------------------------------------------------------
(* What the command was to install: the packages among its arguments, and  *)
(* the dependencies of the first manifest that can be read of each other   *)
(* argument, with all that these need.                                     *)
Arguments == IF cmd.args = <<>> THEN {Here} ELSE Range(cmd.args)
Named == Arguments \intersect Packages
Lists == Arguments \ Packages
Manifests(a) == (IF a = Here THEN Project ELSE {Regular[a]}) \intersect DOMAIN local
Listed(a, section) ==
    IF Manifests(a) = {} THEN {} ELSE Range(local[Min(Manifests(a))][section])
AnyListed(section) == UNION {Listed(a, section) : a \in Lists}
Developed == AnyListed("dev") \union UNION {Range(Pkg[p].dev) : p \in Named}
Roots == Named \union AnyListed("deps") \union (IF cmd.dev THEN Developed ELSE {})
Below(S) ==
    LET within[n \in Nat] ==
            IF n = 0 THEN S \intersect Packages
            ELSE within[n - 1] \union
                    (Packages \intersect UNION {Range(Pkg[p].deps) : p \in within[n - 1]})
    IN within[Cardinality(Packages)]
Needed == Below(Roots)
Joined(p) == Len(Pkg[p].src) <= Concurrency    \* all its threads are joined
Sources(p) == Range(Pkg[p].src) \union (IF Pkg[p].makefile THEN {"Makefile"} ELSE {})
Whole(dir, p) ==
    /\ \A f \in Sources(p) : dir[f] = "whole"
    /\ \E i \in 1..2 : ManifestNames[i] \in DOMAIN dir /\ dir[ManifestNames[i]] = "whole"

(* clib-install and clib-update exit with zero, nothing having gone wrong  *)
(* so far, only when every package needed, directly or through others, has *)
(* its manifest and its sources on the disk, in whole: whatever came from  *)
(* the cache, was visited before or was installed below an executable.     *)
(* (A package with more sources than threads is left out: see the README.) *)
CleanInstallIsWhole ==
    exit = "zero" /\ commands > 0 /\ faults = {} /\ missing = {} /\ ~Opts.global
        => \A p \in Needed : \/ Pkg[p].src = <<>> \/ ~Joined(p)
                             \/ \E d \in Dirs : Whole(disk[d][p], p)

(* As long as nothing went wrong the cache holds packages in whole: a      *)
(* package is copied to it after all its threads have ended, not before.   *)
CachedIsWhole ==
    faults = {} =>
        \A p \in Packages : \/ cache[p] = NoCopy \/ ~Joined(p)
                           \/ (In("package", "copy") /\ Top.p = p)
                           \/ Whole(cache[p], p)

(* A command that got no manifest of a package it needs, in either name,   *)
(* from the cache or from the server, does not exit with zero: the failure *)
(* comes through every level of dependencies.  It is hidden in three ways. *)
(* The arguments "." and a regular file end in                             *)
(* install_local_packages_with_package_name, which returns 1 and never -1; *)
(* and of a project with both manifests the second is tried when the       *)
(* dependencies of the first could not be installed.                       *)
MissingIsReported ==
    exit = "zero" /\ missing # {} =>
        \/ Here \in Range(cmd.args)
        \/ Range(cmd.args) \intersect DOMAIN Regular # {}
        \/ cmd.args = <<>> /\ Project \subseteq DOMAIN local

(* A thread runs only while the package it fetches for is being installed: *)
(* clib_package_install frees pkg_dir, which the thread uses, on its way   *)
(* out.  Exceptions are what the code does not join: the thread that fills *)
(* a window, and those that run when a further one cannot be created.      *)
NoUseAfterFree ==
    exit = "running" =>
        \A t \in threads : \/ t.pc = "done" \/ objs[t.obj].state = "used"
                          \/ ~Joined(objs[t.obj].p) \/ "spawn" \in faults

(* Without force a source that is there in whole is never spoilt, not even *)
(* for the moment of a new transfer, except by a copy from the cache,      *)
(* which empties every file it writes.  (The manifest is written anew each *)
(* time.)  The thread looks for the file under the lock and opens it       *)
(* without: nobody else may have fetched it in between, so a package that  *)
(* lists two sources of one name is left out.                              *)
Distinct(p) == \A i, j \in DOMAIN Pkg[p].src : Pkg[p].src[i] = Pkg[p].src[j] => i = j
OnlyLoadsOverwrite ==
    [][exit = "running" /\ ~Opts.force =>
         \A d \in Dirs, p \in Packages : \A f \in Sources(p) \ Range(ManifestNames) :
            disk[d][p][f] = "whole" /\ Distinct(p) =>
                \/ disk'[d][p][f] = "whole"
                \/ In("package", "load") /\ Top.p = p /\ Top.dir = d]_vars

(* Without force no package is installed below itself: the mark in         *)
(* visited_packages is set before the dependencies are walked, whatever    *)
(* was loaded, fetched or failed on the way.                               *)
Installs(f) == f.fn = "package" /\ f.pc \notin {"enter", "manifest"}
NotWithinItself ==
    ~Opts.force =>
        \A i, j \in DOMAIN stack :
            Installs(stack[i]) /\ Installs(stack[j]) /\ stack[i].p = stack[j].p => i = j

(* Every command ends by itself, packages that depend on each other        *)
(* included, unless it forces: the mark is then not looked at, and a cycle *)
(* is walked until the stack is full.                                      *)
Cyclic == \E p \in Needed : p \in Below(Range(Pkg[p].deps))
CommandsEnd ==
    exit = "running" /\ ~(Opts.force /\ Cyclic) ~> exit \notin {"running", "overflow"}

(* test/gh-35-exit-codes.sh: failed installations should exit with a       *)
(* non-zero exit code.                                                     *)
FailedInstallationExitsNonZero == exit = "zero" => failed = {}
=============================================================================
