-------------------------- MODULE ClibInstallProofs --------------------------
(***************************************************************************)
(* Proofs about ClibInstall, for any packages, command lines, numbers of   *)
(* threads, commands and failures.                                         *)
(***************************************************************************)
EXTENDS ClibInstall, DataLemmas

(* The frames of the call stack, by their functions.                       *)
Tries == {<<1, 2>>, <<2>>} \cup {<<Regular[a]>> : a \in DOMAIN Regular}
LocalFrames == [fn : {"local"}, pc : {"read", "deps", "dev"}, tries : Tries]
ArgsFrames ==
    [fn : {"args"}, pc : {"next", "here", "made", "installed", "dev"},
     todo : Seq(Packages \cup {Here} \cup DOMAIN Regular), obj : Nat]
NewFrames == [fn : {"new"}, pc : {"lookup", "get"}, p : Packages, k : 1 .. 2, tries : Int]
ListFrames ==
    [fn : {"list"}, pc : {"next", "made", "installed"}, todo : Seq(Packages), dir : Dirs, mine : SUBSET Nat]
Fetching == {"makefile", "makefile fetch", "cache", "load", "fetch", "window", "final", "save", "copy"}
PackagePlaces == Fetching \cup {"enter", "manifest", "configure", "executed", "deps"}
Worths == {"absent", "broken", "whole"}
AnyFile == UNION {FilesOf(p) : p \in Packages}
PackageFrames ==
    [fn : {"package"}, pc : PackagePlaces, p : Packages, dir : Dirs, file : Range(ManifestNames),
     obj : Nat, next : Nat \ {0}, window : Seq(Nat),
     left : SUBSET AnyFile, now : {<<>>} \cup (AnyFile \X Worths)]
ExecFrames == [fn : {"exec"}, pc : {"tarball", "deps", "run"}, p : Packages, dir : Dirs]
Frames == LocalFrames \cup ArgsFrames \cup NewFrames \cup ListFrames \cup PackageFrames \cup ExecFrames

Failures == {"fail", "null"}
Results == {"none", "ok", "one", "errno", "status"} \cup Failures \cup Range(ManifestNames)
Endings == {"running", "zero", "nonzero", "aborted", "killed", "overflow", "idle"}

(* The files: each is absent, spoilt or whole.                             *)
Directory(p) == [FilesOf(p) -> Worths]
DiskOK(d) ==
    DOMAIN d = Dirs /\ \A dir \in Dirs :
        DOMAIN d[dir] = Packages /\ \A p \in Packages : d[dir][p] \in Directory(p)
CacheOK(c) == DOMAIN c = Packages /\ \A p \in Packages : c[p] = NoCopy \/ c[p] \in Directory(p)
CopyOK == exit = "running" /\ stack # <<>> /\ Top.fn = "package" /\ Top.pc \in {"load", "copy"} => cache[Top.p] # NoCopy
FilesTypeOK == DiskOK(disk) /\ CacheOK(cache) /\ CopyOK

InstallTypeOK ==
    /\ FilesTypeOK
    /\ cmd \in Commands /\ exit \in Endings
    /\ stack \in Seq(Frames) /\ ret \in [rc : Results, obj : Nat]
    /\ jsons \subseteq {p \in Packages : Pkg[p].parses}
    /\ DOMAIN local = DOMAIN LocalDeps
    /\ \A k \in DOMAIN local : local[k] \in [deps : Seq(Packages), dev : Seq(Packages)]

(* What a function has made sure of where it is.                           *)
FrameOK(f) ==
    /\ f.fn = "local" =>
        /\ f.pc # "read" => Head(f.tries) \in DOMAIN local
        /\ cmd.args = <<>> => f.tries \in {<<1, 2>>, <<2>>}
    /\ f.fn = "args" =>
        /\ Range(f.todo) \subseteq Range(cmd.args)
        /\ f.pc # "next" => f.todo # <<>>
        /\ f.pc = "here" => Head(f.todo) \notin Packages
        /\ f.pc \in {"made", "installed", "dev"} => Head(f.todo) \in Packages
        /\ f.pc \in {"installed", "dev"} => Pkg[Head(f.todo)].parses
    /\ f.fn = "list" /\ f.pc # "next" => f.todo # <<>>
    /\ f.fn = "package" =>
        /\ Pkg[f.p].parses
        /\ Len(f.window) < f.next /\ \A k \in DOMAIN f.window : f.window[k] \in 1 .. f.next - 1
        /\ f.left \subseteq FilesOf(f.p) /\ (f.now # <<>> => f.now[1] \in FilesOf(f.p))
        /\ f.pc \notin {"load", "copy"} => f.left = {} /\ f.now = <<>>
    /\ f.fn = "exec" => Pkg[f.p].parses

(* f runs because g has called it.                                         *)
CalledBy(f, g) ==
    \/ f.fn = "local" /\ g.fn = "args" /\ g.pc = "here"
    \/ f.fn = "new" /\ g.fn \in {"args", "list"} /\ g.pc = "made" /\ f.p = Head(g.todo)
    \/ f.fn = "list" /\ \/ g.fn = "local" /\ g.pc \in {"deps", "dev"}
                        \/ g.fn = "args" /\ g.pc = "dev"
                        \/ g.fn = "package" /\ g.pc = "deps"
                        \/ g.fn = "exec" /\ g.pc = "deps"
    \/ f.fn = "package" /\ g.fn \in {"args", "list"} /\ g.pc = "installed" /\ f.p = Head(g.todo) /\ Pkg[f.p].parses
    \/ f.fn = "exec" /\ g.fn = "package" /\ g.pc = "executed"

(* What a function may have returned to its caller f.                      *)
Answered(f) ==
    f.pc = "made" => /\ ret.rc \in {"null"} \cup Range(ManifestNames)
                     /\ ret.rc # "null" => Pkg[Head(f.todo)].parses

CallInv ==
    exit = "running" =>
        /\ stack # <<>> /\ stack[Len(stack)].fn \in {"local", "args"}
        /\ stack[Len(stack)].fn = "local" => cmd.args = <<>>
        /\ \A i \in DOMAIN stack : FrameOK(stack[i])
        /\ \A i \in 1 .. Len(stack) - 1 : CalledBy(stack[i], stack[i + 1])
        /\ Answered(Head(stack))

(* The objects.  A package that is being installed has an object of its    *)
(* own; nobody else refers to it until clib_package_install returns.       *)
Objects == [p : Packages, dir : Dirs, refs : Int, state : {"used", "returned", "freed"}]
FileNames == {"Makefile"} \cup UNION {Range(Pkg[p].src) : p \in Packages}
Fetchers == [obj : Nat, slot : Nat, file : FileNames, pc : {"begin", "open", "get", "drop", "done"}, seen : Int]
ObjectTypeOK ==
    /\ objs \in Seq(Objects) /\ threads \subseteq Fetchers
    /\ \A t \in threads : t.obj \in DOMAIN objs
LeftAlone(o) == o = 0 \/ (o \in DOMAIN objs /\ objs[o].state # "used")
ObjectInv ==
    exit = "running" =>
        /\ \A i \in DOMAIN stack : Installs(stack[i]) =>
              /\ stack[i].obj \in DOMAIN objs /\ objs[stack[i].obj].state = "used"
              /\ objs[stack[i].obj].p = stack[i].p /\ objs[stack[i].obj].dir = stack[i].dir
        /\ \A i, j \in DOMAIN stack :
              Installs(stack[i]) /\ Installs(stack[j]) /\ stack[i].obj = stack[j].obj => i = j
        /\ \A i \in DOMAIN stack : stack[i].fn = "list" => \A o \in stack[i].mine : LeftAlone(o)
        /\ \A i \in DOMAIN stack : stack[i].fn = "args" => LeftAlone(stack[i].obj)
        /\ LeftAlone(ret.obj)

(* The threads of a package with room for all of them: they belong to the  *)
(* function that runs, which is going to join them.                        *)
Awaited(slot, f) ==
    \/ f.pc = "makefile fetch" /\ slot = MakefileSlot
    \/ f.pc \in {"fetch", "window", "final"} /\ slot \in Range(f.window)
Attached(t) == Joined(objs[t.obj].p)
WindowInv ==
    exit = "running" /\ "spawn" \notin faults =>
        /\ \A t \in threads : Attached(t) =>
              Installs(Head(stack)) /\ t.obj = Head(stack).obj /\ Awaited(t.slot, Head(stack))
        /\ \A t, u \in threads : Attached(t) /\ t.obj = u.obj /\ t.slot = u.slot => t = u

(* A failure that is on its way to the exit code.                          *)
OnItsWay(f) ==
    \/ f.pc = "made" /\ ret.rc = "null"
    \/ /\ ret.rc = "fail"
       /\ \/ f.fn = "local" /\ f.pc \in {"deps", "dev"}
          \/ f.fn \in {"args", "list"} /\ f.pc = "installed"
          \/ f.fn = "args" /\ f.pc = "dev"
          \/ f.fn = "package" /\ f.pc \in {"executed", "deps"}
          \/ f.fn = "exec" /\ f.pc = "deps"
    \/ f.fn = "local" /\ f.pc = "read" /\ f.tries = <<2>> /\ 1 \in DOMAIN local
Hidden ==
    \/ Range(cmd.args) \cap ({Here} \cup DOMAIN Regular) # {}
    \/ cmd.args = <<>> /\ Project \subseteq DOMAIN local
Reported == exit # "zero" /\ (exit = "running" => OnItsWay(Head(stack)))
MissingInv == missing # {} /\ ~Hidden => Reported

(* As long as nothing went wrong a file is spoilt only while it is written *)
(* (by a thread, from the cache or, a manifest, by the package itself),    *)
(* and what clib_package_install has got past is there, or a thread it is  *)
(* going to join brings it.                                                *)
Writes(t, dir, p, f) == t.pc = "get" /\ t.file = f /\ objs[t.obj].dir = dir /\ objs[t.obj].p = p
BeingWritten(g, dir, p, f) ==
    /\ g.fn = "package" /\ g.dir = dir /\ g.p = p
    /\ \/ g.pc = "manifest" /\ g.file = f
       \/ g.pc = "load" /\ g.now # <<>> /\ g.now[1] = f
Comes(f, g) ==
    \/ disk[g.dir][g.p][f] = "whole"
    \/ \E t \in threads : t.obj = g.obj /\ t.file = f /\ t.pc \in {"begin", "open", "get"}
Downloading == {"fetch", "window", "final", "save", "copy"}
(* The files that copy_dir is done with.                                   *)
Done(g) == {f \in FilesOf(g.p) : f \notin g.left /\ (g.now # <<>> => g.now[1] # f)}
GetsAll(g) ==
    LET src == Pkg[g.p].src
    IN /\ g.pc \in {"enter", "manifest", "makefile", "makefile fetch", "cache"} => g.next = 1
       /\ g.pc \in Downloading => ~Opts.global /\ src # <<>>
       /\ g.pc \in {"final", "save", "copy"} => g.next > Len(src)
       /\ g.pc \in Fetching \ {"load"} /\ ~Opts.global /\ src # <<>> =>
             \E i \in 1 .. 2 : Comes(ManifestNames[i], g)
       /\ g.pc \in Fetching \ {"makefile", "load"} /\ ~Opts.global /\ Pkg[g.p].makefile =>
             Comes("Makefile", g)
       /\ g.pc \in Downloading => \A n \in 1 .. Len(src) : n < g.next => Comes(src[n], g)
       /\ g.now # <<>> => g.now[2] = "whole"
       /\ g.pc = "load" => \A f \in g.left : cache[g.p][f] = "whole"
       /\ g.pc = "copy" => \A f \in g.left : disk[g.dir][g.p][f] = "whole"
       /\ g.pc = "load" => \A f \in Done(g) : cache[g.p][f] = "whole" => disk[g.dir][g.p][f] = "whole"
       /\ g.pc = "copy" => \A f \in Done(g) : disk[g.dir][g.p][f] = "whole" => cache[g.p][f] = "whole"
Spoilt == \A dir \in Dirs, p \in Packages : \A f \in FilesOf(p) :
    Joined(p) /\ disk[dir][p][f] = "broken" =>
        /\ exit = "running"
        /\ (\E t \in threads : Writes(t, dir, p, f)) \/ BeingWritten(Head(stack), dir, p, f)
Copied == \A p \in Packages : Joined(p) /\ cache[p] # NoCopy =>
    /\ \A f \in FilesOf(p) : cache[p][f] = "broken" =>
          In("package", "copy") /\ Top.p = p /\ Top.now # <<>> /\ Top.now[1] = f
    /\ (In("package", "copy") /\ Top.p = p) \/ Whole(cache[p], p)
Getting == exit = "running" /\ Head(stack).fn = "package" /\ Joined(Head(stack).p) => GetsAll(Head(stack))
CopyInv == faults = {} => Spoilt /\ Copied /\ Getting

-----------------------------------------------------------------------------
(* The call stack.                                                         *)

(* The frame on top replaced, a frame pushed on a replaced one, and the    *)
(* frame on top removed.                                                   *)
LEMMA StackOperations ==
    ASSUME NEW S, NEW st \in Seq(S), st # <<>>
    PROVE  /\ Len(st) \in Nat \ {0} /\ Head(st) = st[1] /\ Head(st) \in S
           /\ \A f \in S : LET s == <<f>> \o Tail(st) IN
                 /\ s \in Seq(S) /\ Len(s) = Len(st) /\ s[1] = f
                 /\ \A i \in 2 .. Len(st) : s[i] = st[i]
           /\ \A f, b \in S : LET s == <<f, b>> \o Tail(st) IN
                 /\ s \in Seq(S) /\ Len(s) = Len(st) + 1 /\ s[1] = f /\ s[2] = b
                 /\ \A i \in 3 .. Len(st) + 1 : s[i] = st[i - 1]
           /\ Tail(st) \in Seq(S) /\ Len(Tail(st)) = Len(st) - 1
           /\ \A i \in 1 .. Len(st) - 1 : Tail(st)[i] = st[i + 1]
<1>1. Len(st) \in Nat \ {0} /\ Head(st) = st[1] /\ Head(st) \in S
  OBVIOUS
<1>2. PICK r \in Seq(S) : r = Tail(st) /\ Len(r) = Len(st) - 1 /\ \A i \in 1 .. Len(st) - 1 : r[i] = st[i + 1]
  <2>1. Tail(st) \in Seq(S) /\ Len(Tail(st)) = Len(st) - 1
    OBVIOUS
  <2>2. \A i \in 1 .. Len(st) - 1 : Tail(st)[i] = st[i + 1]
    OBVIOUS
  <2>3. QED
    BY <2>1, <2>2
<1>a. ASSUME NEW a \in Seq(S)
      PROVE  /\ a \o r \in Seq(S) /\ Len(a \o r) = Len(a) + Len(r)
             /\ \A i \in 1 .. Len(a) : (a \o r)[i] = a[i]
             /\ \A i \in 1 .. Len(r) : (a \o r)[Len(a) + i] = r[i]
  <2>1. a \o r \in Seq(S) /\ Len(a \o r) = Len(a) + Len(r)
    OBVIOUS
  <2>2. \A i \in 1 .. Len(a) : (a \o r)[i] = a[i]
    OBVIOUS
  <2>3. \A i \in 1 .. Len(r) : (a \o r)[Len(a) + i] = r[i]
    OBVIOUS
  <2>4. QED
    BY <2>1, <2>2, <2>3
<1>3. ASSUME NEW f \in S
      PROVE  LET s == <<f>> \o r IN
                 /\ s \in Seq(S) /\ Len(s) = Len(st) /\ s[1] = f
                 /\ \A i \in 2 .. Len(st) : s[i] = st[i]
  <2>1. <<f>> \in Seq(S) /\ Len(<<f>>) = 1 /\ <<f>>[1] = f
    OBVIOUS
  <2>a. PICK a \in Seq(S) : a = <<f>> /\ Len(a) = 1 /\ a[1] = f
    BY <2>1
  <2>b. PICK s \in Seq(S) : s = a \o r
    BY <1>a
  <2>2. Len(s) = 1 + Len(r) /\ s[1] = f /\ \A i \in 1 .. Len(r) : s[1 + i] = r[i]
    BY <1>a, <2>a, <2>b
  <2>3. Len(s) = Len(st)
    BY <1>1, <1>2, <2>2
  <2>4. ASSUME NEW i \in 2 .. Len(st)
        PROVE  s[i] = st[i]
    <3>1. i - 1 \in 1 .. Len(r) /\ i = 1 + (i - 1) /\ i = (i - 1) + 1
      BY <1>1, <1>2
    <3>2. QED
      BY <1>2, <2>2, <3>1
  <2>5. QED
    BY <2>a, <2>b, <2>2, <2>3, <2>4
<1>4. ASSUME NEW f \in S, NEW b \in S
      PROVE  LET s == <<f, b>> \o r IN
                 /\ s \in Seq(S) /\ Len(s) = Len(st) + 1 /\ s[1] = f /\ s[2] = b
                 /\ \A i \in 3 .. Len(st) + 1 : s[i] = st[i - 1]
  <2>1. <<f, b>> \in Seq(S) /\ Len(<<f, b>>) = 2 /\ <<f, b>>[1] = f /\ <<f, b>>[2] = b
    OBVIOUS
  <2>a. PICK a \in Seq(S) : a = <<f, b>> /\ Len(a) = 2 /\ a[1] = f /\ a[2] = b
    BY <2>1
  <2>b. PICK s \in Seq(S) : s = a \o r
    BY <1>a
  <2>2. Len(s) = 2 + Len(r) /\ s[1] = f /\ s[2] = b /\ \A i \in 1 .. Len(r) : s[2 + i] = r[i]
    BY <1>a, <2>a, <2>b
  <2>3. Len(s) = Len(st) + 1
    BY <1>1, <1>2, <2>2
  <2>4. ASSUME NEW i \in 3 .. Len(st) + 1
        PROVE  s[i] = st[i - 1]
    <3>1. i - 2 \in 1 .. Len(r) /\ i = 2 + (i - 2) /\ i - 1 = (i - 2) + 1
      BY <1>1, <1>2
    <3>2. QED
      BY <1>2, <2>2, <3>1
  <2>5. QED
    BY <2>a, <2>b, <2>2, <2>3, <2>4
<1>5. QED
  BY <1>1, <1>2, <1>3, <1>4

(* The stack after each of the three.                                      *)
LEMMA StackOfStay ==
    ASSUME stack \in Seq(Frames), stack # <<>>, NEW f \in Frames, Stay(f)
    PROVE  \E s \in Seq(Frames) : /\ s = stack' /\ Len(s) = Len(stack) /\ s[1] = f /\ s # <<>> /\ Head(s) = s[1]
                                  /\ \A i \in 2 .. Len(stack) : s[i] = stack[i]
<1>0. Len(stack) \in Nat \ {0}
  OBVIOUS
<1>1. /\ <<f>> \o Tail(stack) \in Seq(Frames) /\ Len(<<f>> \o Tail(stack)) = Len(stack)
      /\ (<<f>> \o Tail(stack))[1] = f /\ \A i \in 2 .. Len(stack) : (<<f>> \o Tail(stack))[i] = stack[i]
  BY StackOperations
<1>2. PICK s \in Seq(Frames) : s = <<f>> \o Tail(stack)
  BY <1>1
<1>3. s # <<>> /\ Head(s) = s[1]
  BY <1>0, <1>1, <1>2
<1>4. QED
  BY <1>1, <1>2, <1>3 DEF Stay

(* The stack after a call.                                                  *)
LEMMA StackOfCall ==
    ASSUME stack \in Seq(Frames), stack # <<>>, NEW f \in Frames, NEW b \in Frames, Call(f, b)
    PROVE  \E s \in Seq(Frames) : /\ s = stack' /\ Len(s) = Len(stack) + 1 /\ s[1] = f /\ s[2] = b /\ s # <<>>
                                  /\ Head(s) = s[1] /\ \A i \in 3 .. Len(stack) + 1 : s[i] = stack[i - 1]
<1>0. Len(stack) \in Nat \ {0}
  OBVIOUS
<1>1. /\ <<f, b>> \o Tail(stack) \in Seq(Frames) /\ Len(<<f, b>> \o Tail(stack)) = Len(stack) + 1
      /\ (<<f, b>> \o Tail(stack))[1] = f /\ (<<f, b>> \o Tail(stack))[2] = b
      /\ \A i \in 3 .. Len(stack) + 1 : (<<f, b>> \o Tail(stack))[i] = stack[i - 1]
  BY StackOperations
<1>2. PICK s \in Seq(Frames) : s = <<f, b>> \o Tail(stack)
  BY <1>1
<1>3. s # <<>> /\ Head(s) = s[1]
  BY <1>0, <1>1, <1>2
<1>4. QED
  BY <1>1, <1>2, <1>3 DEF Call

(* The stack after a return.                                                *)
LEMMA StackOfReturn ==
    ASSUME stack \in Seq(Frames), stack # <<>>, NEW rc, NEW o, Return(rc, o)
    PROVE  \E s \in Seq(Frames) : /\ s = stack' /\ Len(s) = Len(stack) - 1
                                  /\ \A i \in 1 .. Len(stack) - 1 : s[i] = stack[i + 1]
<1>1. /\ Tail(stack) \in Seq(Frames) /\ Len(Tail(stack)) = Len(stack) - 1
      /\ \A i \in 1 .. Len(stack) - 1 : Tail(stack)[i] = stack[i + 1]
  BY StackOperations
<1>2. QED
  BY <1>1 DEF Return

(* The rest of a list.                                                     *)
LEMMA RangeOfTail ==
    ASSUME NEW S, NEW s \in Seq(S), s # <<>>
    PROVE  Range(Tail(s)) \subseteq Range(s)
<1>1. /\ Tail(s) \in Seq(S) /\ Len(Tail(s)) = Len(s) - 1 /\ Len(s) \in Nat \ {0}
      /\ \A i \in 1 .. Len(s) - 1 : Tail(s)[i] = s[i + 1]
  BY StackOperations
<1>2. DOMAIN Tail(s) = 1 .. Len(s) - 1 /\ DOMAIN s = 1 .. Len(s)
  BY <1>1
<1>3. \A i \in 1 .. Len(s) - 1 : i + 1 \in 1 .. Len(s)
  BY <1>1
<1>4. QED
  BY <1>1, <1>2, <1>3 DEF Range

(* The first of a list.                                                    *)
LEMMA HeadIsListed ==
    ASSUME NEW S, NEW s \in Seq(S), s # <<>>
    PROVE  Head(s) \in Range(s)
<1>1. Head(s) = s[1] /\ 1 \in DOMAIN s
  OBVIOUS
<1>2. QED
  BY <1>1 DEF Range

(* A window without its last slot.                                         *)
LEMMA FrontAndLast ==
    ASSUME NEW S, NEW s \in Seq(S), s # <<>>
    PROVE  /\ Front(s) \in Seq(S) /\ Len(Front(s)) = Len(s) - 1 /\ Len(s) \in Nat \ {0}
           /\ \A i \in 1 .. Len(s) - 1 : Front(s)[i] = s[i]
           /\ Last(s) = s[Len(s)]
<1>1. Len(s) \in Nat \ {0}
  OBVIOUS
<1>2. PICK n \in Nat : n = Len(s) - 1
  BY <1>1
<1>3. SubSeq(s, 1, n) \in Seq(S) /\ Len(SubSeq(s, 1, n)) = n /\ \A i \in 1 .. n : SubSeq(s, 1, n)[i] = s[i]
  <2>1. \A i \in 1 .. n : s[i] \in S
    BY <1>1, <1>2
  <2>2. QED
    BY <1>1, <1>2, <2>1
<1>4. QED
  BY <1>1, <1>2, <1>3 DEF Front, Last

(* The function that runs, by the name in its frame.                       *)
LEMMA FrameKinds ==
    ASSUME NEW f \in Frames
    PROVE  /\ f.fn = "local" => f \in LocalFrames
           /\ f.fn = "args" => f \in ArgsFrames
           /\ f.fn = "new" => f \in NewFrames
           /\ f.fn = "list" => f \in ListFrames
           /\ f.fn = "package" => f \in PackageFrames
           /\ f.fn = "exec" => f \in ExecFrames
BY DEF Frames, LocalFrames, ArgsFrames, NewFrames, ListFrames, PackageFrames, ExecFrames


-----------------------------------------------------------------------------
(* What a step of the main thread does to the stack: the function on top   *)
(* goes on, calls another one, returns, or ends the program.               *)
SameCall(f, g) ==       \* f goes on as g
    /\ g.fn = f.fn
    /\ f.fn = "new" => g.p = f.p
    /\ f.fn = "list" => g.mine \subseteq f.mine \cup {ret.obj}
    /\ f.fn = "args" => g.obj \in {f.obj, ret.obj}
    /\ f.fn = "package" => /\ g.p = f.p /\ g.dir = f.dir /\ g.pc # "enter"
                           /\ Installs(g) => g.obj = IF Installs(f) THEN f.obj ELSE Len(objs) + 1
                           /\ Installs(f) => Installs(g)
Fresh(f) ==
    /\ f.fn # "args" /\ f.pc # "made"
    /\ f.fn = "list" => f.mine = {}
    /\ f.fn = "package" => f.pc = "enter" /\ f.next = 1
Stays == \E f \in Frames : Stay(f) /\ FrameOK(f) /\ f.pc # "made" /\ SameCall(Top, f)
Calls == \E f, b \in Frames :
            /\ Call(f, b) /\ FrameOK(f) /\ FrameOK(b) /\ Fresh(f)
            /\ SameCall(Top, b) /\ CalledBy(f, b)
Returns == \E rc \in Results, o \in Nat :
            /\ Return(rc, o) /\ Top.fn # "args" /\ (Top.fn = "local" => Len(stack) > 1)
            /\ Top.fn = "new" => rc = "null" \/ (rc \in Range(ManifestNames) /\ Pkg[Top.p].parses)
            /\ o = 0 \/ (Installs(Top) /\ o = Top.obj)
Ends == \E how \in Endings \ {"running"} : Finish(how)
MainMove == /\ exit = "running" /\ UNCHANGED cmd
            /\ DOMAIN local' = DOMAIN local
            /\ \A k \in DOMAIN local' : local'[k] \in [deps : Seq(Packages), dev : Seq(Packages)]
            /\ Stays \/ Calls \/ Returns \/ Ends

(* Such a step keeps the stack and its types.                              *)
LEMMA MovesKeepTheStack ==
    ASSUME InstallTypeOK, CallInv, MainMove
    PROVE  /\ exit' \in Endings /\ stack' \in Seq(Frames) /\ ret' \in [rc : Results, obj : Nat]
           /\ CallInv'
<1> DEFINE n == Len(stack)
<1>1. /\ exit = "running" /\ stack # <<>> /\ stack \in Seq(Frames) /\ n \in Nat \ {0}
      /\ DOMAIN stack = 1 .. n /\ Top = stack[1] /\ Top \in Frames
      /\ \A i \in 1 .. n : FrameOK(stack[i])
      /\ \A i \in 1 .. n - 1 : CalledBy(stack[i], stack[i + 1])
      /\ stack[n].fn \in {"local", "args"} /\ (stack[n].fn = "local" => cmd.args = <<>>)
  BY StackOperations DEF MainMove, CallInv, InstallTypeOK, Top
<1>2. /\ \A f : FrameOK(f)' <=> FrameOK(f)
      /\ cmd' = cmd
  BY DEF MainMove, FrameOK
<1>3. NoRet \in [rc : Results, obj : Nat] /\ NoRet.rc = "none"
  BY DEF NoRet, Results
<1>4. CASE Stays
  <2>1. PICK f \in Frames : Stay(f) /\ FrameOK(f) /\ f.pc # "made" /\ SameCall(Top, f)
    BY <1>4 DEF Stays
  <2>2. PICK s \in Seq(Frames) : /\ s = stack' /\ Len(s) = n /\ s[1] = f /\ s # <<>> /\ Head(s) = s[1]
                                 /\ \A i \in 2 .. n : s[i] = stack[i]
    BY <1>1, <2>1, StackOfStay
  <2>3. exit' = "running" /\ ret' = NoRet
    BY <1>1, <2>1 DEF Stay
  <2>4. \A i \in 1 .. n : FrameOK(s[i])
    BY <1>1, <2>1, <2>2
  <2>5. \A i \in 1 .. n - 1 : CalledBy(s[i], s[i + 1])
    <3> SUFFICES ASSUME NEW i \in 1 .. n - 1 PROVE CalledBy(s[i], s[i + 1])
      OBVIOUS
    <3>1. i + 1 \in 2 .. n /\ s[i + 1] = stack[i + 1] /\ (i # 1 => s[i] = stack[i])
      BY <1>1, <2>2
    <3>2. CalledBy(stack[i], stack[i + 1])
      BY <1>1
    <3>3. i = 1 => CalledBy(f, stack[i + 1])
      BY <1>1, <2>1, <3>2 DEF CalledBy, SameCall
    <3>4. QED
      BY <2>2, <3>1, <3>2, <3>3
  <2>6. s[n].fn = stack[n].fn
    BY <1>1, <2>1, <2>2 DEF SameCall
  <2>7. CallInv'
    BY <1>1, <1>2, <1>3, <2>1, <2>2, <2>3, <2>4, <2>5, <2>6 DEF CallInv, Answered, CalledBy
  <2>8. QED
    BY <1>3, <2>2, <2>3, <2>7 DEF Endings
<1>5. CASE Calls
  <2>1. PICK f \in Frames, b \in Frames :
            /\ Call(f, b) /\ FrameOK(f) /\ FrameOK(b) /\ f.pc # "made"
            /\ SameCall(Top, b) /\ CalledBy(f, b)
    BY <1>5 DEF Calls, Fresh
  <2>2. PICK s \in Seq(Frames) : /\ s = stack' /\ Len(s) = n + 1 /\ s[1] = f /\ s[2] = b /\ s # <<>>
                                 /\ Head(s) = s[1] /\ \A i \in 3 .. n + 1 : s[i] = stack[i - 1]
    BY <1>1, <2>1, StackOfCall
  <2>3. exit' = "running" /\ ret' = NoRet
    BY <1>1, <2>1 DEF Call
  <2>4. \A i \in 1 .. n + 1 : FrameOK(s[i])
    <3> SUFFICES ASSUME NEW i \in 1 .. n + 1 PROVE FrameOK(s[i])
      OBVIOUS
    <3>1. i = 1 \/ i = 2 \/ (i \in 3 .. n + 1 /\ i - 1 \in 1 .. n)
      BY <1>1
    <3>2. QED
      BY <1>1, <2>1, <2>2, <3>1
  <2>5. \A i \in 1 .. n : CalledBy(s[i], s[i + 1])
    <3> SUFFICES ASSUME NEW i \in 1 .. n PROVE CalledBy(s[i], s[i + 1])
      OBVIOUS
    <3>1. CASE i = 1
      BY <2>1, <2>2, <3>1
    <3>2. CASE i = 2
      <4>1. 3 \in 3 .. n + 1 /\ s[3] = stack[2] /\ CalledBy(stack[1], stack[2])
        BY <1>1, <2>2, <3>2
      <4>2. CalledBy(b, stack[2])
        BY <1>1, <2>1, <4>1 DEF CalledBy, SameCall
      <4>3. QED
        BY <2>2, <3>2, <4>1, <4>2
    <3>3. CASE i \notin {1, 2}
      <4>1. i \in 3 .. n + 1 /\ i + 1 \in 3 .. n + 1 /\ i - 1 \in 1 .. n - 1 /\ (i + 1) - 1 = (i - 1) + 1
        BY <1>1, <3>3
      <4>2. s[i] = stack[i - 1] /\ s[i + 1] = stack[(i - 1) + 1]
        BY <2>2, <4>1
      <4>3. QED
        BY <1>1, <4>1, <4>2
    <3>4. QED
      BY <3>1, <3>2, <3>3
  <2>6. s[n + 1].fn = stack[n].fn
    <3>1. n = 1 \/ n + 1 \in 3 .. n + 1
      BY <1>1
    <3>2. (n + 1) - 1 = n
      BY <1>1
    <3>3. QED
      BY <1>1, <2>1, <2>2, <3>1, <3>2 DEF SameCall
  <2>7. CallInv'
    BY <1>1, <1>2, <1>3, <2>1, <2>2, <2>3, <2>4, <2>5, <2>6 DEF CallInv, Answered, CalledBy
  <2>8. QED
    BY <1>3, <2>2, <2>3, <2>7 DEF Endings
<1>6. CASE Returns
  <2>1. PICK rc \in Results, o \in Nat :
            /\ Return(rc, o) /\ Top.fn # "args" /\ (Top.fn = "local" => Len(stack) > 1)
            /\ Top.fn = "new" => rc = "null" \/ (rc \in Range(ManifestNames) /\ Pkg[Top.p].parses)
    BY <1>6 DEF Returns
  <2>2. n > 1
    BY <1>1, <2>1
  <2>3. PICK s \in Seq(Frames) : /\ s = stack' /\ Len(s) = n - 1 /\ \A i \in 1 .. n - 1 : s[i] = stack[i + 1]
    BY <1>1, <2>1, StackOfReturn
  <2>4. s # <<>> /\ Head(s) = s[1] /\ s[1] = stack[2]
    BY <1>1, <2>2, <2>3
  <2>5. exit' = "running" /\ ret' = [rc |-> rc, obj |-> o] /\ ret' \in [rc : Results, obj : Nat]
    BY <1>1, <2>1 DEF Return
  <2>6. \A i \in 1 .. n - 1 : FrameOK(s[i])
    BY <1>1, <2>3
  <2>7. \A i \in 1 .. (n - 1) - 1 : CalledBy(s[i], s[i + 1])
    <3> SUFFICES ASSUME NEW i \in 1 .. (n - 1) - 1 PROVE CalledBy(s[i], s[i + 1])
      OBVIOUS
    <3>1. i \in 1 .. n - 1 /\ i + 1 \in 1 .. n - 1
      BY <1>1
    <3>2. s[i] = stack[i + 1] /\ s[i + 1] = stack[(i + 1) + 1]
      BY <2>3, <3>1
    <3>3. QED
      BY <1>1, <3>1, <3>2
  <2>8. s[n - 1].fn = stack[n].fn
    <3>1. n - 1 \in 1 .. n - 1 /\ (n - 1) + 1 = n
      BY <1>1, <2>2
    <3>2. QED
      BY <2>3, <3>1
  <2>9. Answered(s[1])'
    <3>1. CalledBy(Top, stack[2])
      BY <1>1, <2>2
    <3>2. stack[2].pc = "made" => Top.fn = "new" /\ Top.p = Head(stack[2].todo)
      BY <3>1 DEF CalledBy
    <3>3. ~("null" \in Range(ManifestNames))
      <4>1. Range(ManifestNames) = {"clib.json", "package.json"}
        BY DEF Range, ManifestNames
      <4>2. QED
        BY <4>1
    <3>4. QED
      BY <2>1, <2>3, <2>4, <2>5, <3>2, <3>3 DEF Answered
  <2>10. CallInv'
    <3>1. stack' # <<>> /\ stack'[Len(stack')].fn \in {"local", "args"}
          /\ (stack'[Len(stack')].fn = "local" => cmd'.args = <<>>)
      BY ONLY <1>1, <1>2, <2>3, <2>4, <2>8
    <3>2. (\A i \in DOMAIN stack : FrameOK(stack[i]))'
      BY <1>2, <2>3, <2>6
    <3>3. \A i \in 1 .. Len(stack') - 1 : CalledBy(stack'[i], stack'[i + 1])
      BY <2>3, <2>7
    <3>4. Answered(Head(stack))'
      BY <2>3, <2>4, <2>9
    <3>5. QED
      BY <3>1, <3>2, <3>3, <3>4 DEF CallInv, CalledBy
  <2>11. QED
    BY <2>3, <2>5, <2>10 DEF Endings
<1>7. CASE Ends
  <2>1. PICK how \in Endings \ {"running"} : Finish(how)
    BY <1>7 DEF Ends
  <2>2. exit' = how /\ stack' = <<>> /\ ret' = NoRet
    BY <2>1 DEF Finish
  <2>3. QED
    BY <1>3, <2>2 DEF CallInv
<1>8. QED
  BY <1>4, <1>5, <1>6, <1>7 DEF MainMove


-----------------------------------------------------------------------------
(* Every step of the main thread is such a step.                           *)

(* Of the function that runs.                                              *)
LEMMA RunningFrame ==
    ASSUME InstallTypeOK, CallInv, exit = "running"
    PROVE  /\ stack # <<>> /\ Len(stack) \in Nat \ {0} /\ Top \in Frames /\ Top = stack[1] /\ FrameOK(Top)
           /\ Answered(Top) /\ (Top.fn \notin {"local", "args"} => Len(stack) > 1)
           /\ ret.rc \in Results /\ ret.obj \in Nat
           /\ DOMAIN local \subseteq Nat /\ (Len(stack) > 1 => CalledBy(Top, stack[2]))
           /\ \A k \in DOMAIN local : local[k].deps \in Seq(Packages) /\ local[k].dev \in Seq(Packages)
<1>1. /\ stack # <<>> /\ stack \in Seq(Frames) /\ Len(stack) \in Nat \ {0}
      /\ DOMAIN stack = 1 .. Len(stack) /\ Top = stack[1] /\ Top \in Frames
  BY StackOperations DEF CallInv, InstallTypeOK, Top
<1>2. FrameOK(Top) /\ Answered(Top) /\ (Top.fn \notin {"local", "args"} => Len(stack) > 1)
  BY <1>1 DEF CallInv, Top
<1>3. Len(stack) > 1 => CalledBy(Top, stack[2])
  <2>1. Len(stack) > 1 => 1 \in 1 .. Len(stack) - 1 /\ 1 + 1 = 2
    BY <1>1
  <2>2. QED
    BY <1>1, <2>1 DEF CallInv
<1>4. /\ ret.rc \in Results /\ ret.obj \in Nat /\ DOMAIN local \subseteq Nat
      /\ \A k \in DOMAIN local : local[k].deps \in Seq(Packages) /\ local[k].dev \in Seq(Packages)
  BY CInstallLocal DEF InstallTypeOK
<1>5. QED
  BY <1>1, <1>2, <1>3, <1>4

(* The manifests of a package that parses list packages.                   *)
LEMMA ListedPackages ==
    ASSUME NEW p \in Packages, Pkg[p].parses
    PROVE  Pkg[p].deps \in Seq(Packages) /\ Pkg[p].dev \in Seq(Packages)
<1>1. NoVersion \notin Range(Pkg[p].deps) \cup Range(Pkg[p].dev)
  BY DEF Pkg, Packages, Parse, Parses
<1>2. ASSUME NEW s \in Seq(Packages \cup {NoVersion}), NoVersion \notin Range(s)
      PROVE  s \in Seq(Packages)
  <2>1. \A i \in 1 .. Len(s) : s[i] \in Packages
    BY <1>2 DEF Range
  <2>2. PICK n \in Nat : n = Len(s) /\ s \in [1 .. n -> Packages]
    BY <2>1
  <2>3. QED
    BY <2>2
<1>3. QED
  BY <1>1, <1>2, CInstallManifests

(* The manifests that are tried after one.                                 *)
LEMMA NextTries ==
    ASSUME NEW s \in Tries
    PROVE  /\ (s = <<1, 2>> /\ Tail(s) = <<2>>) \/ (s # <<1, 2>> /\ Tail(s) = <<>>)
           /\ s = <<1, 2>> => Head(s) = 1
           /\ s = <<2>> => Head(s) = 2
<1>1. s = <<1, 2>> \/ s = <<2>> \/ \E a \in DOMAIN Regular : s = <<Regular[a]>>
  BY DEF Tries
<1>2. ASSUME NEW x
      PROVE  <<x>> # <<1, 2>> /\ Tail(<<x>>) = <<>>
  <2>1. Len(<<x>>) = 1 /\ Len(<<1, 2>>) = 2 /\ Tail(<<x>>) = <<>>
    OBVIOUS
  <2>2. QED
    BY <2>1
<1>3. Tail(<<1, 2>>) = <<2>> /\ Head(<<1, 2>>) = 1 /\ Head(<<2>>) = 2
  OBVIOUS
<1>4. CASE s = <<1, 2>>
  <2>1. PICK a, b : a = <<1, 2>> /\ b = <<2>>
    OBVIOUS
  <2>2. a # b
    BY ONLY <1>2, <2>1
  <2>3. s = a /\ Tail(a) = b /\ Head(a) = 1
    BY <1>3, <1>4, <2>1
  <2>4. QED
    BY <2>1, <2>2, <2>3, Zenon
<1>5. CASE s # <<1, 2>>
  <2>1. Tail(s) = <<>>
    BY <1>1, <1>2, <1>5
  <2>2. QED
    BY <1>3, <1>5, <2>1
<1>6. QED
  BY <1>4, <1>5

(* A frame for every call.                                                 *)
LEMMA NewFramesFit ==
    /\ \A tries \in Tries : LocalFrame(tries) \in LocalFrames
    /\ \A todo \in Seq(Packages \cup {Here} \cup DOMAIN Regular) : ArgsFrame(todo) \in ArgsFrames
    /\ \A p \in Packages : NewFrame(p) \in NewFrames
    /\ \A todo \in Seq(Packages), dir \in Dirs : ListFrame(todo, dir) \in ListFrames
    /\ \A p \in Packages, dir \in Dirs, file \in Range(ManifestNames) : PackageFrame(p, dir, file) \in PackageFrames
    /\ \A p \in Packages, dir \in Dirs : ExecFrame(p, dir) \in ExecFrames
<1>1. <<>> \in Seq(Nat)
  OBVIOUS
<1>2. QED
  BY <1>1 DEF LocalFrame, ArgsFrame, NewFrame, ListFrame, PackageFrame, ExecFrame, LocalFrames, ArgsFrames, NewFrames,
     ListFrames, PackageFrames, ExecFrames, PackagePlaces, Retries

(* The local manifests.                                                    *)
LEMMA LocalMoves ==
    ASSUME InstallTypeOK, CallInv, LocalReads \/ LocalInstalled \/ LocalDev
    PROVE  MainMove
<1>0. exit = "running" /\ Top.fn = "local"
  BY DEF LocalReads, LocalInstalled, LocalDev, In
<1>1. Top \in LocalFrames /\ FrameOK(Top)
  BY <1>0, RunningFrame, FrameKinds
<1>2. UNCHANGED <<cmd, local>>
  BY DEF LocalReads, LocalInstalled, LocalDev, files, process
<1>3. ASSUME LocalFails
      PROVE  Stays \/ Returns \/ Ends
  <2>0. Top.tries \in Tries
    BY <1>1 DEF LocalFrames
  <2>1. CASE Tail(Top.tries) # <<>>
    <3>1. Stay([Top EXCEPT !.pc = "read", !.tries = Tail(@)]) /\ Tail(Top.tries) = <<2>>
      BY <1>3, <2>0, <2>1, NextTries DEF LocalFails
    <3>2. [Top EXCEPT !.pc = "read", !.tries = <<2>>] \in LocalFrames
      <4>1. <<2>> \in Tries
        BY DEF Tries
      <4>2. QED
        BY ONLY <1>1, <4>1 DEF LocalFrames
    <3>3. PICK f \in LocalFrames : f = [Top EXCEPT !.pc = "read", !.tries = Tail(@)]
      BY <3>1, <3>2
    <3>4. f.fn = "local" /\ f.pc = "read" /\ f \in Frames /\ f.tries = <<2>>
      BY <1>1, <3>1, <3>3 DEF LocalFrames, Frames
    <3>5. QED
      BY <1>0, <3>1, <3>3, <3>4 DEF Stays, FrameOK, SameCall
  <2>2. CASE Tail(Top.tries) = <<>>
    BY <1>0, <1>3, <2>2, RunningFrame DEF LocalFails, LocalOver, Returns, Ends, Results, Endings
  <2>3. QED
    BY <2>1, <2>2
<1>4. ASSUME LocalOver("ok")
      PROVE  Returns \/ Ends
  BY <1>0, <1>4, RunningFrame DEF LocalOver, Returns, Ends, Results, Endings
<1>5. ASSUME NEW todo \in Seq(Packages), NEW pc \in {"deps", "dev"}, Tried \in DOMAIN local,
             CallThen(ListFrame(todo, "deps"), pc)
      PROVE  Calls
  <2>1. PICK f \in ListFrames : f = ListFrame(todo, "deps") /\ f.fn = "list" /\ f.pc = "next" /\ f.mine = {}
    BY NewFramesFit DEF Dirs, ListFrame
  <2>2. [Top EXCEPT !.pc = pc] \in LocalFrames
    BY <1>1, <1>5 DEF LocalFrames
  <2>3. PICK b \in LocalFrames : b = [Top EXCEPT !.pc = pc] /\ b.fn = "local" /\ b.pc = pc /\ b.tries = Top.tries
    BY <1>1, <2>2 DEF LocalFrames
  <2>4. Call(f, b) /\ f \in Frames /\ b \in Frames
    BY <1>5, <2>1, <2>3 DEF CallThen, Frames
  <2>5. QED
    BY <1>0, <1>1, <1>5, <2>1, <2>3, <2>4 DEF Calls, Fresh, FrameOK, SameCall, CalledBy, Tried
<1>6. Stays \/ Calls \/ Returns \/ Ends
  <2>1. CASE LocalReads
    <3>1. Tried \in DOMAIN local => local[Tried].deps \in Seq(Packages)
      BY <1>0, RunningFrame
    <3>2. QED
      BY <1>3, <1>5, <2>1, <3>1 DEF LocalReads
  <2>2. CASE LocalInstalled
    <3>1. Tried \in DOMAIN local
      BY <1>0, <1>1, <2>2 DEF LocalInstalled, In, FrameOK, Tried
    <3>2. local[Tried].dev \in Seq(Packages)
      BY <1>0, <3>1, RunningFrame
    <3>3. QED
      BY <1>3, <1>4, <1>5, <2>2, <3>1, <3>2 DEF LocalInstalled
  <2>3. CASE LocalDev
    BY <1>3, <1>4, <2>3 DEF LocalDev
  <2>4. QED
    BY <2>1, <2>2, <2>3
<1>7. QED
  BY <1>0, <1>2, <1>6 DEF MainMove, InstallTypeOK

(* The arguments of the command line.                                      *)
LEMMA ArgsMoves ==
    ASSUME InstallTypeOK, CallInv,
           \/ NextArgument \/ ArgsHere \/ (\E dir \in Dirs : Made(dir)) \/ Development
           \/ InstallOver \/ UpdateOver \/ UpgradeOver
    PROVE  /\ Top.fn = "args" /\ exit = "running" /\ UNCHANGED <<cmd, jsons>>
           /\ Stays \/ Calls \/ Ends
<1>0. exit = "running" /\ Top.fn = "args"
  BY DEF NextArgument, ArgsHere, Made, Development, InstallOver, UpdateOver, UpgradeOver, ArgumentOver, In
<1>1. Top \in ArgsFrames /\ FrameOK(Top)
  BY <1>0, RunningFrame, FrameKinds
<1>2. UNCHANGED <<cmd, jsons>>
  BY DEF NextArgument, ArgsHere, Made, Development, InstallOver, UpdateOver, UpgradeOver, files, process
<1> SUFFICES Stays \/ Calls \/ Ends
  BY <1>0, <1>2
<1>3. /\ Top.todo \in Seq(Packages \cup {Here} \cup DOMAIN Regular) /\ Range(Top.todo) \subseteq Range(cmd.args)
      /\ Top.pc # "next" => Top.todo # <<>>
      /\ Top.pc = "here" => Head(Top.todo) \notin Packages
      /\ Top.pc \in {"made", "installed", "dev"} => Head(Top.todo) \in Packages
      /\ Top.pc \in {"installed", "dev"} => Pkg[Head(Top.todo)].parses
  BY <1>0, <1>1 DEF ArgsFrames, FrameOK
<1>4. Top.todo # <<>> => /\ Head(Top.todo) \in Packages \cup {Here} \cup DOMAIN Regular
                         /\ Tail(Top.todo) \in Seq(Packages \cup {Here} \cup DOMAIN Regular) /\ Range(Tail(Top.todo)) \subseteq Range(cmd.args)
  <2> SUFFICES ASSUME Top.todo # <<>>
               PROVE  /\ Head(Top.todo) \in Packages \cup {Here} \cup DOMAIN Regular
                      /\ Tail(Top.todo) \in Seq(Packages \cup {Here} \cup DOMAIN Regular) /\ Range(Tail(Top.todo)) \subseteq Range(Top.todo)
    BY <1>3
  <2>1. Head(Top.todo) \in Packages \cup {Here} \cup DOMAIN Regular /\ Tail(Top.todo) \in Seq(Packages \cup {Here} \cup DOMAIN Regular)
    BY <1>3
  <2>2. Range(Tail(Top.todo)) \subseteq Range(Top.todo)
    BY <1>3, RangeOfTail
  <2>3. QED
    BY <2>1, <2>2
<1>5. ASSUME Stay([Top EXCEPT !.pc = "next", !.todo = Tail(@)]), Top.todo # <<>>
      PROVE  Stays
  <2>1. [Top EXCEPT !.pc = "next", !.todo = Tail(@)] \in ArgsFrames
    BY <1>1, <1>4, <1>5 DEF ArgsFrames
  <2>2. PICK f \in ArgsFrames : /\ f = [Top EXCEPT !.pc = "next", !.todo = Tail(@)]
                                /\ f.fn = "args" /\ f.pc = "next" /\ f.todo = Tail(Top.todo) /\ f.obj = Top.obj
    BY <1>1, <2>1 DEF ArgsFrames
  <2>3. FrameOK(f) /\ SameCall(Top, f) /\ f \in Frames
    BY <1>0, <1>4, <1>5, <2>2 DEF FrameOK, SameCall, Frames
  <2>4. QED
    BY <1>5, <2>2, <2>3 DEF Stays
<1>6. ASSUME NEW f \in Frames, FrameOK(f), Fresh(f),
             NEW b \in ArgsFrames, b.todo = Top.todo, b.obj \in {Top.obj, ret.obj}, b.todo # <<>>, Call(f, b),
             \/ b.pc = "here" /\ f.fn = "local" /\ Head(b.todo) \notin Packages
             \/ b.pc = "made" /\ f.fn = "new" /\ f.p = Head(b.todo) /\ Head(b.todo) \in Packages
             \/ /\ \/ b.pc = "installed" /\ f.fn = "package" /\ f.p = Head(b.todo)
                   \/ b.pc = "dev" /\ f.fn = "list"
                /\ Head(b.todo) \in Packages /\ Pkg[Head(b.todo)].parses
      PROVE  Calls
  <2>1. b.fn = "args"
    BY DEF ArgsFrames
  <2>3. FrameOK(b)
    BY <1>3, <1>6, <2>1 DEF FrameOK
  <2>4. SameCall(Top, b) /\ b \in Frames
    BY <1>0, <1>6, <2>1 DEF SameCall, Frames
  <2>5. CalledBy(f, b)
    BY <1>6, <2>1 DEF CalledBy
  <2>6. QED
    BY <1>6, <2>3, <2>4, <2>5 DEF Calls
<1>7. ASSUME NEW f, NEW pc \in {"here", "made", "installed", "dev"}, CallThen(f, pc)
      PROVE  \E b \in ArgsFrames : b.todo = Top.todo /\ b.obj \in {Top.obj, ret.obj} /\ b.pc = pc /\ Call(f, b)
  <2>1. [Top EXCEPT !.pc = pc] \in ArgsFrames
    BY <1>1 DEF ArgsFrames
  <2>2. PICK b \in ArgsFrames : b = [Top EXCEPT !.pc = pc] /\ b.pc = pc /\ b.todo = Top.todo /\ b.obj = Top.obj
    BY <1>1, <2>1 DEF ArgsFrames
  <2>3. QED
    BY <1>7, <2>2 DEF CallThen
<1>8. CASE NextArgument
  <2>1. CASE Top.todo = <<>>
    <3>1. Finish("zero")
      BY <1>8, <2>1 DEF NextArgument
    <3>2. QED
      BY <3>1 DEF Ends, Endings
  <2>2. CASE Top.todo # <<>> /\ Head(Top.todo) \notin Packages
    <3>1. PICK tries \in Tries : CallThen(LocalFrame(tries), "here")
      <4>1. CASE Head(Top.todo) = Here
        BY <1>8, <2>2, <4>1 DEF NextArgument, Tries
      <4>2. CASE Head(Top.todo) # Here
        <5>1. Head(Top.todo) \in DOMAIN Regular
          BY <1>4, <2>2, <4>2
        <5>2. CallThen(LocalFrame(<<Regular[Head(Top.todo)]>>), "here")
          BY <1>8, <2>2, <4>2, <5>1 DEF NextArgument
        <5>3. QED
          BY <5>1, <5>2 DEF Tries
      <4>3. QED
        BY <4>1, <4>2
    <3>2. PICK f \in Frames : f = LocalFrame(tries) /\ f.fn = "local" /\ f.pc = "read"
      <4>1. LocalFrame(tries) \in Frames
        BY NewFramesFit DEF Frames
      <4>2. QED
        BY <4>1 DEF LocalFrame
    <3>3. FrameOK(f) /\ Fresh(f)
      <4>1. cmd.args # <<>>
        <5>1. Head(Top.todo) \in Range(Top.todo)
          BY <1>3, <2>2, HeadIsListed
        <5>2. Range(<<>>) = {}
          BY DEF Range
        <5>3. QED
          BY <1>3, <5>1, <5>2
      <4>2. QED
        BY <3>2, <4>1 DEF FrameOK, Fresh
    <3>4. PICK b \in ArgsFrames : b.todo = Top.todo /\ b.obj \in {Top.obj, ret.obj} /\ b.pc = "here" /\ Call(f, b)
      BY <1>7, <3>1, <3>2
    <3>5. QED
      BY <1>6, <2>2, <3>2, <3>3, <3>4
  <2>3. CASE Top.todo # <<>> /\ Head(Top.todo) \in Packages
    <3>0. Head(Top.todo) \in Packages /\ Head(Top.todo) # Here /\ Head(Top.todo) \notin DOMAIN Regular
      BY <2>3, CInstallLocal DEF Packages
    <3>1. CallThen(NewFrame(Head(Top.todo)), "made")
      BY <1>8, <2>3, <3>0 DEF NextArgument
    <3>2. PICK f \in Frames : f = NewFrame(Head(Top.todo)) /\ f.fn = "new" /\ f.pc = "lookup" /\ f.p = Head(Top.todo)
      <4>1. NewFrame(Head(Top.todo)) \in Frames
        BY <3>0, NewFramesFit DEF Frames
      <4>2. QED
        BY <4>1 DEF NewFrame
    <3>3. FrameOK(f) /\ Fresh(f)
      BY <3>2 DEF FrameOK, Fresh
    <3>4. CallThen(f, "made")
      BY <3>1, <3>2
    <3>5. PICK b \in ArgsFrames : b.todo = Top.todo /\ b.obj \in {Top.obj, ret.obj} /\ b.pc = "made" /\ Call(f, b)
      BY <1>7, <3>4
    <3>6. QED
      BY <1>6, <2>3, <3>0, <3>2, <3>3, <3>5
  <2>4. QED
    BY <2>1, <2>2, <2>3
<1>9. CASE ArgsHere
  BY <1>3, <1>5, <1>9 DEF ArgsHere, In
<1>10. ASSUME NEW dir \in Dirs, Made(dir)
       PROVE  Calls \/ Ends
  <2>0. Top.pc = "made"
    BY <1>10 DEF Made, In
  <2>1. CASE ret.rc = "null"
    BY <1>10, <2>1 DEF Made, Ends, Endings
  <2>2. CASE ret.rc # "null"
    <3>0. Head(Top.todo) \in Packages /\ ret.rc \in Range(ManifestNames) /\ Pkg[Head(Top.todo)].parses /\ Top.todo # <<>>
      BY <1>0, <1>3, <2>0, <2>2, RunningFrame DEF Answered
    <3>1. CallThen(PackageFrame(Head(Top.todo), dir, ret.rc), "installed")
      BY <1>10, <2>2 DEF Made
    <3>2. PICK f \in Frames : /\ f = PackageFrame(Head(Top.todo), dir, ret.rc)
                              /\ f.fn = "package" /\ f.pc = "enter" /\ f.p = Head(Top.todo)
                              /\ f.window = <<>> /\ f.next = 1 /\ f.left = {} /\ f.now = <<>>
      <4>1. PackageFrame(Head(Top.todo), dir, ret.rc) \in Frames
        BY <3>0, NewFramesFit DEF Frames
      <4>2. QED
        BY <4>1 DEF PackageFrame
    <3>a. Len(<<>>) < 1 /\ \A k \in DOMAIN <<>> : FALSE
      OBVIOUS
    <3>3. FrameOK(f) /\ Fresh(f)
      BY <3>0, <3>2, <3>a DEF FrameOK, Fresh
    <3>4. CallThen(f, "installed")
      BY <3>1, <3>2
    <3>5. PICK b \in ArgsFrames : b.todo = Top.todo /\ b.obj \in {Top.obj, ret.obj} /\ b.pc = "installed" /\ Call(f, b)
      BY <1>7, <3>4
    <3>6. QED
      BY <1>6, <3>0, <3>2, <3>3, <3>5
  <2>3. QED
    BY <2>1, <2>2
<1>11. CASE Development
  <2>1. /\ Top.pc = "installed" /\ Top.todo # <<>> /\ Head(Top.todo) \in Packages /\ Pkg[Head(Top.todo)].parses
        /\ Pkg[Head(Top.todo)].dev \in Seq(Packages) /\ ret.obj \in Nat
    BY <1>0, <1>3, <1>11, ListedPackages, RunningFrame DEF Development, In
  <2>2. PICK f \in Frames : f = ListFrame(Pkg[Head(Top.todo)].dev, "deps") /\ f.fn = "list" /\ f.pc = "next" /\ f.mine = {}
    <3>1. ListFrame(Pkg[Head(Top.todo)].dev, "deps") \in Frames
      BY <2>1, NewFramesFit DEF Frames, Dirs
    <3>2. QED
      BY <3>1 DEF ListFrame
  <2>3. FrameOK(f) /\ Fresh(f)
    BY <2>2 DEF FrameOK, Fresh
  <2>4. PICK b \in ArgsFrames : b.todo = Top.todo /\ b.obj \in {Top.obj, ret.obj} /\ b.pc = "dev" /\ Call(f, b)
    <3>1. [Top EXCEPT !.pc = "dev", !.obj = ret.obj] \in ArgsFrames
      BY <1>1, <2>1 DEF ArgsFrames
    <3>2. PICK b \in ArgsFrames : /\ b = [Top EXCEPT !.pc = "dev", !.obj = ret.obj]
                                  /\ b.pc = "dev" /\ b.todo = Top.todo /\ b.obj = ret.obj
      BY <1>1, <3>1 DEF ArgsFrames
    <3>3. QED
      BY <1>11, <2>2, <3>2 DEF Development
  <2>5. QED
    BY <1>6, <2>1, <2>2, <2>3, <2>4
<1>12. ASSUME NEW rc, NEW o, PackageOver(rc, o), Top.todo # <<>>
       PROVE  Stays \/ Ends
  BY <1>5, <1>12 DEF PackageOver, Ends, Endings
<1>13. CASE InstallOver \/ UpdateOver \/ UpgradeOver
  <2>1. Top.todo # <<>>
    BY <1>3, <1>13 DEF InstallOver, UpdateOver, UpgradeOver, ArgumentOver, In
  <2>2. QED
    BY <1>12, <1>13, <2>1 DEF InstallOver, UpdateOver, UpgradeOver
<1>14. QED
  BY <1>8, <1>9, <1>10, <1>11, <1>13

(* A saved dependency is a package in the list it is added to.             *)
LEMMA SavedDependency ==
    ASSUME InstallTypeOK, NEW p \in Packages, NEW section \in {"deps", "dev"}, WriteDependency(p, section)
    PROVE  /\ DOMAIN local' = DOMAIN local
           /\ \A k \in DOMAIN local' : local'[k] \in [deps : Seq(Packages), dev : Seq(Packages)]
<1>1. /\ DOMAIN local = DOMAIN LocalDeps /\ DOMAIN LocalDeps \subseteq Nat
      /\ \A k \in DOMAIN local : local[k] \in [deps : Seq(Packages), dev : Seq(Packages)]
  BY CInstallLocal DEF InstallTypeOK
<1>2. CASE UNCHANGED local
  BY <1>1, <1>2
<1>3. CASE DOMAIN local \cap Project # {} /\ local' # local
  <2>1. PICK k \in DOMAIN local : k = Min(DOMAIN local \cap Project)
    <3>1. DOMAIN local \cap Project \subseteq Nat
      BY <1>1
    <3>2. \E x \in DOMAIN local \cap Project : \A y \in DOMAIN local \cap Project : x <= y
      BY <1>3, <3>1, LeastNumber
    <3>3. QED
      BY <3>2 DEF Min
  <2>2. local' = [local EXCEPT ![k][section] = Append(@, p)]
    BY <1>3, <2>1 DEF WriteDependency
  <2>3. Append(local[k][section], p) \in Seq(Packages)
    BY <1>1
  <2>4. PICK u \in [deps : Seq(Packages), dev : Seq(Packages)] : u = [local[k] EXCEPT ![section] = Append(@, p)]
    BY <1>1, <2>3
  <2>5. local' = [local EXCEPT ![k] = u]
    BY <2>2, <2>4
  <2>6. QED
    BY <1>1, <2>4, <2>5
<1>4. QED
  BY <1>2, <1>3 DEF WriteDependency

(* The manifests of the server.                                            *)
LEMMA NewMoves ==
    ASSUME InstallTypeOK, CallInv, NewLookup \/ NewGet \/ NewGiveUp
    PROVE  /\ Top.fn = "new" /\ exit = "running" /\ UNCHANGED <<cmd, local>>
           /\ jsons' \subseteq {p \in Packages : Pkg[p].parses}
           /\ Stays \/ Returns \/ Ends
<1>0. exit = "running" /\ Top.fn = "new"
  BY DEF NewLookup, NewGet, NewGiveUp, In
<1>1. Top \in NewFrames /\ FrameOK(Top) /\ Top.p \in Packages /\ Top.k \in 1 .. 2
  BY <1>0, RunningFrame, FrameKinds DEF NewFrames
<1>2. UNCHANGED <<cmd, local>>
  BY DEF NewLookup, NewGet, NewGiveUp, files, process
<1>3. Len(ManifestNames) = 2 /\ ManifestNames[1] \in Range(ManifestNames) /\ ManifestNames[2] \in Range(ManifestNames)
  BY DEF ManifestNames, Range
<1>4. jsons \subseteq {p \in Packages : Pkg[p].parses}
  BY DEF InstallTypeOK
<1>5. ASSUME NEW f \in NewFrames, Stay(f), f.p = Top.p
      PROVE  Stays
  BY <1>0, <1>5 DEF Stays, FrameOK, SameCall, NewFrames, Frames
<1>6. ASSUME NewFails
      PROVE  Stays \/ Returns
  <2>1. CASE Top.k < Len(ManifestNames)
    <3>1. Stay([Top EXCEPT !.pc = "lookup", !.k = @ + 1, !.tries = Retries]) /\ Top.k + 1 \in 1 .. 2
      <4>1. Stay([Top EXCEPT !.pc = "lookup", !.k = @ + 1, !.tries = Retries])
        BY <1>1, <1>3, <1>6, <2>1 DEF NewFails
      <4>2. Top.k + 1 \in 1 .. 2
        BY <1>1, <1>3, <2>1
      <4>3. QED
        BY <4>1, <4>2
    <3>2. [Top EXCEPT !.pc = "lookup", !.k = @ + 1, !.tries = Retries] \in NewFrames
      <4>1. Top.k + 1 \in 1 .. 2
        BY <1>1, <1>3, <2>1
      <4>2. Retries \in Int
        BY DEF Retries
      <4>3. QED
        BY ONLY <1>1, <4>1, <4>2 DEF NewFrames
    <3>3. PICK f \in NewFrames : f = [Top EXCEPT !.pc = "lookup", !.k = @ + 1, !.tries = Retries] /\ f.p = Top.p
      BY <1>1, <3>2 DEF NewFrames
    <3>4. QED
      BY <1>5, <3>1, <3>3
  <2>2. CASE ~(Top.k < Len(ManifestNames))
    <3>1. Return("null", 0)
      BY <1>6, <2>2 DEF NewFails
    <3>2. QED
      BY <1>0, <3>1 DEF Returns, Results, Failures
  <2>3. QED
    BY <2>1, <2>2
<1>7. ASSUME NewMade, Pkg[Top.p].parses
      PROVE  jsons' \subseteq {p \in Packages : Pkg[p].parses} /\ Returns
  <2>1. ManifestNames[Top.k] \in Range(ManifestNames)
    BY <1>1, <1>3
  <2>2. QED
    BY <1>0, <1>1, <1>4, <1>7, <2>1 DEF NewMade, Returns, Results
<1>8. CASE NewLookup
  <2>1. CASE Goto("get") /\ jsons' \subseteq jsons
    <3>1. [Top EXCEPT !.pc = "get"] \in NewFrames
      BY <1>1 DEF NewFrames
    <3>2. PICK f \in NewFrames : f = [Top EXCEPT !.pc = "get"] /\ f.p = Top.p
      BY <1>1, <3>1 DEF NewFrames
    <3>3. Stays
      BY <1>5, <2>1, <3>2 DEF Goto
    <3>4. QED
      BY <1>0, <1>2, <1>4, <2>1, <3>3
  <2>2. CASE HasJson(Top.p) /\ NewMade
    BY <1>0, <1>2, <1>4, <1>7, <2>2 DEF HasJson
  <2>3. QED
    BY <1>8, <2>1, <2>2 DEF NewLookup
<1>9. CASE NewGet
  <2>1. CASE Pkg[Top.p].parses /\ NewMade
    BY <1>0, <1>2, <1>7, <2>1
  <2>2. CASE NewFails /\ UNCHANGED jsons
    BY <1>0, <1>2, <1>4, <1>6, <2>2
  <2>3. CASE Stay([Top EXCEPT !.tries = @ - 1]) /\ UNCHANGED jsons
    <3>1. [Top EXCEPT !.tries = @ - 1] \in NewFrames
      <4>1. Top.tries - 1 \in Int
        BY <1>1 DEF NewFrames
      <4>2. QED
        BY <1>1, <4>1 DEF NewFrames
    <3>2. PICK f \in NewFrames : f = [Top EXCEPT !.tries = @ - 1] /\ f.p = Top.p
      BY <1>1, <3>1 DEF NewFrames
    <3>3. Stays
      BY <1>5, <2>3, <3>2
    <3>4. QED
      BY <1>0, <1>2, <1>4, <2>3, <3>3
  <2>4. QED
    BY <1>9, <2>1, <2>2, <2>3 DEF NewGet
<1>10. CASE NewGiveUp
  <2>1. UNCHANGED jsons
    BY <1>10 DEF NewGiveUp, files
  <2>2. CASE NewFails
    BY <1>0, <1>2, <1>4, <1>6, <2>1, <2>2
  <2>3. CASE Finish("aborted")
    <3>1. Ends
      BY <2>3 DEF Ends, Endings
    <3>2. QED
      BY <1>0, <1>2, <1>4, <2>1, <3>1
  <2>4. QED
    BY <1>10, <2>2, <2>3 DEF NewGiveUp
<1>11. QED
  BY <1>8, <1>9, <1>10

(* install_packages of the library.                                        *)
LEMMA ListMoves ==
    ASSUME InstallTypeOK, CallInv, ListNext \/ ListMade \/ ListInstalled
    PROVE  /\ Top.fn = "list" /\ exit = "running" /\ UNCHANGED <<cmd, local, jsons>>
           /\ Stays \/ Calls \/ Returns
<1>0. exit = "running" /\ Top.fn = "list"
  BY DEF ListNext, ListMade, ListInstalled, In
<1>1. Top \in ListFrames /\ FrameOK(Top)
  BY <1>0, RunningFrame, FrameKinds
<1>2. UNCHANGED <<cmd, local, jsons>>
  BY DEF ListNext, ListMade, ListInstalled, files
<1> SUFFICES Stays \/ Calls \/ Returns
  BY <1>0, <1>2
<1>3. /\ Top.todo \in Seq(Packages) /\ Top.dir \in Dirs /\ (Top.pc # "next" => Top.todo # <<>>)
      /\ Top.todo # <<>> => Head(Top.todo) \in Packages /\ Tail(Top.todo) \in Seq(Packages)
  BY <1>0, <1>1 DEF ListFrames, FrameOK
<1>4. ASSUME NEW rc \in {"ok", "fail"}, ListOver(rc)
      PROVE  Returns
  BY <1>0, <1>4 DEF ListOver, Returns, Results, Failures
<1>5. ASSUME NEW f \in Frames, FrameOK(f), Fresh(f), NEW pc \in {"made", "installed"},
             CallThen(f, pc), Top.todo # <<>>,
             \/ pc = "made" /\ f.fn = "new" /\ f.p = Head(Top.todo)
             \/ pc = "installed" /\ f.fn = "package" /\ f.p = Head(Top.todo) /\ Pkg[f.p].parses
      PROVE  Calls
  <2>1. [Top EXCEPT !.pc = pc] \in ListFrames
    BY <1>1 DEF ListFrames
  <2>2. PICK b \in ListFrames : b = [Top EXCEPT !.pc = pc] /\ b.fn = "list" /\ b.pc = pc /\ b.todo = Top.todo /\ b.mine = Top.mine
    BY <1>1, <2>1 DEF ListFrames
  <2>3. FrameOK(b) /\ SameCall(Top, b) /\ b \in Frames
    BY <1>0, <1>5, <2>2 DEF FrameOK, SameCall, Frames
  <2>4. CalledBy(f, b)
    BY <1>5, <2>2 DEF CalledBy
  <2>5. Call(f, b)
    BY <1>5, <2>2 DEF CallThen
  <2>6. QED
    BY <1>5, <2>3, <2>4, <2>5 DEF Calls
<1>6. CASE ListNext
  <2>1. CASE Top.todo = <<>>
    BY <1>4, <1>6, <2>1 DEF ListNext
  <2>2. CASE Top.todo # <<>>
    <3>1. CallThen(NewFrame(Head(Top.todo)), "made")
      BY <1>6, <2>2 DEF ListNext
    <3>2. PICK f \in Frames : f = NewFrame(Head(Top.todo)) /\ f.fn = "new" /\ f.pc = "lookup" /\ f.p = Head(Top.todo)
      <4>1. NewFrame(Head(Top.todo)) \in Frames
        BY <1>3, <2>2, NewFramesFit DEF Frames
      <4>2. QED
        BY <4>1 DEF NewFrame
    <3>3. FrameOK(f) /\ Fresh(f)
      BY <3>2 DEF FrameOK, Fresh
    <3>4. CallThen(f, "made")
      BY <3>1, <3>2
    <3>5. QED
      BY <1>5, <2>2, <3>2, <3>3, <3>4
  <2>3. QED
    BY <2>1, <2>2
<1>7. CASE ListMade
  <2>0. Top.pc = "made"
    BY <1>7 DEF ListMade, In
  <2>1. CASE ret.rc = "null"
    BY <1>4, <1>7, <2>1 DEF ListMade
  <2>2. CASE ret.rc # "null"
    <3>0. /\ ret.rc \in Range(ManifestNames) /\ Pkg[Head(Top.todo)].parses
          /\ Top.todo # <<>> /\ Head(Top.todo) \in Packages
      BY <1>0, <1>3, <2>0, <2>2, RunningFrame DEF Answered
    <3>1. CallThen(PackageFrame(Head(Top.todo), Top.dir, ret.rc), "installed")
      BY <1>7, <2>2 DEF ListMade
    <3>2. PICK f \in Frames : /\ f = PackageFrame(Head(Top.todo), Top.dir, ret.rc)
                              /\ f.fn = "package" /\ f.pc = "enter" /\ f.p = Head(Top.todo)
                              /\ f.window = <<>> /\ f.next = 1 /\ f.left = {} /\ f.now = <<>>
      <4>1. PackageFrame(Head(Top.todo), Top.dir, ret.rc) \in Frames
        BY <1>3, <3>0, NewFramesFit DEF Frames
      <4>2. QED
        BY <4>1 DEF PackageFrame
    <3>a. Len(<<>>) < 1 /\ \A k \in DOMAIN <<>> : FALSE
      OBVIOUS
    <3>3. FrameOK(f) /\ Fresh(f)
      BY <3>0, <3>2, <3>a DEF FrameOK, Fresh
    <3>4. CallThen(f, "installed")
      BY <3>1, <3>2
    <3>5. QED
      BY <1>5, <3>0, <3>2, <3>3, <3>4
  <2>3. QED
    BY <2>1, <2>2
<1>8. CASE ListInstalled
  <2>0. Top.pc = "installed"
    BY <1>8 DEF ListInstalled, In
  <2>1. CASE ret.rc = "fail"
    BY <1>4, <1>8, <2>1 DEF ListInstalled
  <2>2. CASE ret.rc # "fail"
    <3>1. Top.todo # <<>> /\ ret.obj \in Nat
      BY <1>0, <1>3, <2>0, RunningFrame
    <3>2. [Top EXCEPT !.pc = "next", !.todo = Tail(@), !.mine = @ \union {ret.obj}] \in ListFrames
      BY <1>1, <1>3, <3>1 DEF ListFrames
    <3>3. PICK f \in ListFrames : /\ f = [Top EXCEPT !.pc = "next", !.todo = Tail(@), !.mine = @ \union {ret.obj}]
                                  /\ f.fn = "list" /\ f.pc = "next" /\ f.mine = Top.mine \cup {ret.obj}
      BY <1>1, <3>2 DEF ListFrames
    <3>4. Stay(f)
      BY <1>8, <2>2, <3>3 DEF ListInstalled
    <3>5. FrameOK(f) /\ SameCall(Top, f) /\ f \in Frames
      BY <1>0, <3>3 DEF FrameOK, SameCall, Frames
    <3>6. QED
      BY <3>3, <3>4, <3>5 DEF Stays
  <2>3. QED
    BY <2>1, <2>2
<1>9. QED
  BY <1>6, <1>7, <1>8

(* clib_package_install.                                                   *)
Copies == CopyOpen \/ CopyWrite \/ CopyFails \/ CopyOver
PackageSteps ==
    \/ PackageVisited \/ PackageRefused \/ PackageEnter \/ PackageWritten
    \/ PackageMakefile \/ PackageNoMakefile \/ PackageMakefileJoined
    \/ PackageCache \/ PackageSave \/ Copies
    \/ PackageFetch \/ PackageNotFetched \/ PackageWindow \/ PackageFinal
    \/ PackageConfigure \/ PackageNotConfigured \/ PackageExecuted \/ PackageDeps
(* They are steps of clib_package_install, and leave the options alone.    *)
LEMMA PackageStepsRun ==
    ASSUME PackageSteps
    PROVE  Top.fn = "package" /\ exit = "running" /\ UNCHANGED <<cmd, local, jsons>>
<1>1. Top.fn = "package" /\ exit = "running"
  BY DEF PackageSteps, PackageVisited, PackageRefused, PackageEnter, PackageWritten, Enters, PackageMakefile,
         PackageNoMakefile, PackageMakefileJoined, PackageCache, PackageSave, Copies, CopyOpen, CopyWrite, CopyFails,
         CopyOver, Copying, PackageFetch, PackageNotFetched, PackageWindow, PackageFinal, JoinFetch,
         PackageConfigure, PackageNotConfigured, PackageExecuted, PackageDeps, In
<1>2. UNCHANGED <<cmd, local, jsons>>
  BY DEF PackageSteps, PackageVisited, PackageRefused, PackageEnter, PackageWritten, PackageMakefile,
         PackageNoMakefile, PackageMakefileJoined, PackageCache, PackageSave, Copies, CopyOpen, CopyWrite, CopyFails,
         CopyOver, PackageFetch, PackageNotFetched, PackageWindow, PackageFinal, JoinFetch, SpawnFails,
         PackageConfigure, PackageNotConfigured, PackageExecuted, PackageDeps, files, process
<1>3. QED
  BY <1>1, <1>2

(* The names of files.                                                     *)
LEMMA FilesAreNames ==
    ASSUME NEW p \in Packages
    PROVE  FilesOf(p) \subseteq AnyFile
BY DEF AnyFile

(* What copy_dir reads is the file of a directory.                         *)
LEMMA LeftToCopy ==
    ASSUME FilesTypeOK, stack # <<>>, Top.p \in Packages, Top.dir \in Dirs, Copying, NEW f \in FilesOf(Top.p)
    PROVE  From[f] \in Worths
<1>1. DiskOK(disk) /\ CacheOK(cache) /\ cache[Top.p] # NoCopy
  BY DEF FilesTypeOK, CopyOK, Copying, In
<1>2. disk[Top.dir][Top.p] \in [FilesOf(Top.p) -> Worths] /\ cache[Top.p] \in [FilesOf(Top.p) -> Worths]
  BY <1>1 DEF DiskOK, CacheOK, Directory
<1>3. QED
  BY <1>2 DEF From

(* clib_package_install goes on, calls or returns.                         *)
LEMMA PackageMoves ==
    ASSUME InstallTypeOK, CallInv, ObjectTypeOK, PackageSteps
    PROVE  Stays \/ Calls \/ Returns
<1>0. exit = "running" /\ Top.fn = "package"
  BY PackageStepsRun
<1>1. /\ Top \in PackageFrames /\ FrameOK(Top) /\ Top.p \in Packages /\ Pkg[Top.p].parses /\ Top.dir \in Dirs
      /\ Top.obj \in Nat /\ Top.next \in Nat \ {0} /\ Top.window \in Seq(Nat) /\ ret.rc \in Results
      /\ Top.left \in SUBSET AnyFile /\ Top.now \in {<<>>} \cup (AnyFile \X Worths)
  <2>1. Top \in PackageFrames /\ FrameOK(Top) /\ ret.rc \in Results
    BY <1>0, RunningFrame, FrameKinds
  <2>2. QED
    BY <1>0, <2>1 DEF PackageFrames, FrameOK
<1>b. /\ Len(Top.window) < Top.next /\ \A k \in DOMAIN Top.window : Top.window[k] \in 1 .. Top.next - 1
      /\ Top.left \subseteq FilesOf(Top.p) /\ (Top.now # <<>> => Top.now[1] \in FilesOf(Top.p))
      /\ Top.pc \notin {"load", "copy"} => Top.left = {} /\ Top.now = <<>>
  BY <1>0, <1>1 DEF FrameOK
<1>2. ASSUME NEW f \in PackageFrames, Stay(f), f.p = Top.p, f.dir = Top.dir, f.pc # "enter",
             Installs(f) => f.obj = IF Installs(Top) THEN Top.obj ELSE Len(objs) + 1, Installs(Top) => Installs(f),
             Len(f.window) < f.next, \A k \in DOMAIN f.window : f.window[k] \in 1 .. f.next - 1,
             f.left \subseteq FilesOf(f.p), f.now # <<>> => f.now[1] \in FilesOf(f.p),
             f.pc \notin {"load", "copy"} => f.left = {} /\ f.now = <<>>
      PROVE  Stays
  <2>1. f.fn = "package" /\ f.pc # "made"
    BY <1>2 DEF PackageFrames, PackagePlaces, Fetching
  <2>2. FrameOK(f) /\ SameCall(Top, f) /\ f \in Frames
    BY <1>0, <1>1, <1>2, <2>1 DEF FrameOK, SameCall, Frames
  <2>3. QED
    BY <1>2, <2>1, <2>2 DEF Stays
<1>3. ASSUME NEW pc \in PackagePlaces \ {"enter", "manifest", "load", "copy"}, Installs(Top), Goto(pc),
             Top.left = {}, Top.now = <<>>
      PROVE  Stays
  <2>1. [Top EXCEPT !.pc = pc] \in PackageFrames
    BY <1>1 DEF PackageFrames
  <2>2. PICK f \in PackageFrames : /\ f = [Top EXCEPT !.pc = pc] /\ f.p = Top.p /\ f.fn = "package"
                                   /\ f.window = Top.window /\ f.next = Top.next
                                   /\ f.left = Top.left /\ f.now = Top.now
                                   /\ f.dir = Top.dir /\ f.pc = pc /\ f.obj = Top.obj
    BY <1>1, <2>1 DEF PackageFrames
  <2>3. QED
    BY <1>b, <1>2, <1>3, <2>2 DEF Goto, Installs
<1>c. \A pc : In("package", pc) /\ pc \notin {"enter", "manifest"} => Installs(Top)
  BY DEF In, Installs
<1>4. ASSUME NEW f \in Frames, FrameOK(f), Fresh(f), NEW pc \in {"executed", "deps"}, CallThen(f, pc), Installs(Top), Top.pc \notin {"load", "copy"},
             (pc = "executed" /\ f.fn = "exec") \/ (pc = "deps" /\ f.fn = "list")
      PROVE  Calls
  <2>1. [Top EXCEPT !.pc = pc] \in PackageFrames
    BY <1>1 DEF PackageFrames, PackagePlaces
  <2>2. PICK b \in PackageFrames : /\ b = [Top EXCEPT !.pc = pc] /\ b.fn = "package" /\ b.pc = pc /\ b.p = Top.p
                                   /\ b.window = Top.window /\ b.next = Top.next
                                   /\ b.left = Top.left /\ b.now = Top.now
                                   /\ b.dir = Top.dir /\ b.obj = Top.obj
    BY <1>1, <2>1 DEF PackageFrames
  <2>3. FrameOK(b) /\ SameCall(Top, b) /\ b \in Frames
    BY <1>0, <1>1, <1>b, <1>4, <2>2 DEF FrameOK, SameCall, Frames, Installs
  <2>4. CalledBy(f, b)
    BY <1>4, <2>2 DEF CalledBy
  <2>5. Call(f, b)
    BY <1>4, <2>2 DEF CallThen
  <2>6. QED
    BY <1>4, <2>3, <2>4, <2>5 DEF Calls
<1>5. ASSUME NEW rc \in Results, NEW o \in Nat, Return(rc, o), o = 0 \/ (Installs(Top) /\ o = Top.obj)
      PROVE  Returns
  BY <1>0, <1>5 DEF Returns
<1>6. ASSUME CallThen(ListFrame(Pkg[Top.p].deps, Top.dir), "deps"), Installs(Top), Top.pc \notin {"load", "copy"}
      PROVE  Calls
  <2>1. Pkg[Top.p].deps \in Seq(Packages)
    BY <1>1, ListedPackages
  <2>2. PICK f \in Frames : f = ListFrame(Pkg[Top.p].deps, Top.dir) /\ f.fn = "list" /\ f.pc = "next" /\ f.mine = {}
    <3>1. ListFrame(Pkg[Top.p].deps, Top.dir) \in Frames
      BY <1>1, <2>1, NewFramesFit DEF Frames
    <3>2. QED
      BY <3>1 DEF ListFrame
  <2>3. FrameOK(f) /\ Fresh(f)
    BY <2>2 DEF FrameOK, Fresh
  <2>4. CallThen(f, "deps")
    BY <1>6, <2>2
  <2>5. QED
    BY <1>4, <1>6, <2>2, <2>3, <2>4
<1>7. CASE PackageVisited \/ PackageRefused \/ PackageNoMakefile \/ PackageNotFetched \/ PackageNotConfigured \/ PackageDeps
  <2>1. \E rc \in Results, o \in Nat : Return(rc, o) /\ (o = 0 \/ (Installs(Top) /\ o = Top.obj))
    <3>0. PackageVisited \/ PackageRefused \/ Installs(Top)
      BY <1>7 DEF PackageNoMakefile, PackageNotFetched, PackageNotConfigured, PackageDeps, In, Installs
    <3>1. {"ok", "fail", "errno", "status"} \subseteq Results
      BY DEF Results, Failures
    <3>2. QED
      BY <1>1, <1>7, <3>0, <3>1 DEF PackageVisited, PackageRefused, PackageNoMakefile, PackageNotFetched, PackageNotConfigured,
         PackageDeps, SpawnFails, PackageReturn
  <2>2. QED
    BY <1>5, <2>1
<1>d. ASSUME Mark, Top.pc \in {"enter", "manifest"}
      PROVE  Stays
  <2>1. Stay([Top EXCEPT !.pc = "makefile", !.obj = Len(objs) + 1]) /\ Len(objs) + 1 \in Nat
    BY <1>d DEF Mark, ObjectTypeOK
  <2>2. [Top EXCEPT !.pc = "makefile", !.obj = Len(objs) + 1] \in PackageFrames
    <3>1. Len(objs) + 1 \in Nat /\ "makefile" \in PackagePlaces
      BY <2>1 DEF PackagePlaces, Fetching
    <3>2. QED
      BY ONLY <1>1, <3>1 DEF PackageFrames
  <2>3. PICK f \in PackageFrames : /\ f = [Top EXCEPT !.pc = "makefile", !.obj = Len(objs) + 1] /\ f.p = Top.p
                                   /\ f.window = Top.window /\ f.next = Top.next
                                   /\ f.left = Top.left /\ f.now = Top.now
                                   /\ f.dir = Top.dir /\ f.pc = "makefile" /\ f.obj = Len(objs) + 1
    BY <1>1, <2>2 DEF PackageFrames
  <2>4. ~Installs(Top)
    BY <1>d DEF Installs
  <2>5. QED
    BY <1>b, <1>2, <1>d, <2>1, <2>3, <2>4
<1>8. CASE PackageEnter \/ PackageWritten
  <2>1. CASE Mark
    BY <1>8, <1>d, <2>1 DEF PackageEnter, PackageWritten, Enters, In
  <2>2. CASE PackageEnter /\ Goto("manifest")
    <3>1. [Top EXCEPT !.pc = "manifest"] \in PackageFrames
      BY <1>1 DEF PackageFrames, PackagePlaces
    <3>2. PICK f \in PackageFrames : /\ f = [Top EXCEPT !.pc = "manifest"] /\ f.p = Top.p
                                     /\ f.window = Top.window /\ f.next = Top.next
                                     /\ f.left = Top.left /\ f.now = Top.now
                                     /\ f.dir = Top.dir /\ f.pc = "manifest" /\ f.obj = Top.obj
      BY <1>1, <3>1 DEF PackageFrames
    <3>3. Top.pc = "enter" /\ ~Installs(Top) /\ ~Installs(f)
      BY <2>2, <3>2 DEF PackageEnter, Enters, In, Installs
    <3>4. QED
      BY <1>b, <1>2, <2>2, <3>2, <3>3 DEF Goto
  <2>3. QED
    BY <1>8, <2>1, <2>2 DEF PackageEnter, PackageWritten
<1>e. ASSUME NEW pc \in {"load", "fetch", "configure", "copy"}, NEW left \in SUBSET FilesOf(Top.p),
             NEW now \in {<<>>} \cup (AnyFile \X Worths), now # <<>> => now[1] \in FilesOf(Top.p),
             pc \notin {"load", "copy"} => left = {} /\ now = <<>>,
             Stay([Top EXCEPT !.pc = pc, !.left = left, !.now = now]), Installs(Top)
      PROVE  Stays
  <2>1. left \in SUBSET AnyFile /\ pc \in PackagePlaces
    BY <1>1, FilesAreNames DEF PackagePlaces, Fetching
  <2>2. [Top EXCEPT !.pc = pc, !.left = left, !.now = now] \in PackageFrames
    BY ONLY <1>1, <1>e, <2>1 DEF PackageFrames
  <2>3. PICK f \in PackageFrames : /\ f = [Top EXCEPT !.pc = pc, !.left = left, !.now = now] /\ f.p = Top.p /\ f.fn = "package"
                                   /\ f.window = Top.window /\ f.next = Top.next
                                   /\ f.left = left /\ f.now = now
                                   /\ f.dir = Top.dir /\ f.pc = pc /\ f.obj = Top.obj
    BY <1>1, <2>2 DEF PackageFrames
  <2>4. QED
    BY <1>b, <1>2, <1>e, <2>3 DEF Installs
<1>f. Top = [Top EXCEPT !.pc = Top.pc, !.left = Top.left, !.now = Top.now]
  BY <1>1 DEF PackageFrames
<1>9. CASE PackageMakefile \/ PackageMakefileJoined
  <2>0. Installs(Top) /\ Top.left = {} /\ Top.now = <<>>
    BY <1>9, <1>b DEF PackageMakefile, PackageMakefileJoined, In, Installs
  <2>1. \E pc \in {"makefile fetch", "cache"} : Goto(pc)
    BY <1>9 DEF PackageMakefile, PackageMakefileJoined
  <2>2. QED
    BY <1>3, <2>0, <2>1 DEF PackagePlaces, Fetching
<1>g. DiskOK(disk) /\ CacheOK(cache) /\ AnyFile \in {AnyFile}
  BY DEF InstallTypeOK, FilesTypeOK
<1>h. CASE PackageCache
  <2>0. Installs(Top) /\ Top.left = {} /\ Top.now = <<>>
    BY <1>h, <1>b DEF PackageCache, In, Installs
  <2>1. CASE \E pc \in {"fetch", "configure"} : Goto(pc)
    BY <1>3, <2>0, <2>1 DEF PackagePlaces, Fetching
  <2>2. CASE HasPackage(Top.p) /\ Stay([Top EXCEPT !.pc = "load", !.left = Present(cache[Top.p])])
    <3>1. Present(cache[Top.p]) \subseteq FilesOf(Top.p)
      BY <1>1, <1>g, <2>2 DEF HasPackage, CacheOK, Directory, Present
    <3>2. [Top EXCEPT !.pc = "load", !.left = Present(cache[Top.p])]
            = [Top EXCEPT !.pc = "load", !.left = Present(cache[Top.p]), !.now = <<>>]
      BY <1>1, <2>0 DEF PackageFrames
    <3>3. QED
      BY <1>e, <2>0, <2>2, <3>1, <3>2
  <2>3. QED
    BY <1>h, <2>1, <2>2 DEF PackageCache
<1>i. CASE PackageSave
  <2>0. Installs(Top) /\ Top.left = {} /\ Top.now = <<>>
    BY <1>i, <1>b DEF PackageSave, In, Installs
  <2>1. Present(disk[Top.dir][Top.p]) \subseteq FilesOf(Top.p)
    BY <1>1, <1>g DEF DiskOK, Directory, Present
  <2>2. [Top EXCEPT !.pc = "copy", !.left = Present(disk[Top.dir][Top.p])]
            = [Top EXCEPT !.pc = "copy", !.left = Present(disk[Top.dir][Top.p]), !.now = <<>>]
    BY <1>1, <2>0 DEF PackageFrames
  <2>3. QED
    BY <1>e, <1>i, <2>0, <2>1, <2>2 DEF PackageSave
<1>j. CASE Copies
  <2>0. Installs(Top) /\ Top.pc \in {"load", "copy"}
    BY <1>j DEF Copies, CopyOpen, CopyWrite, CopyFails, CopyOver, Copying, In, Installs
  <2>1. CASE CopyOpen
    <3>1. PICK f \in Top.left : \/ Stay([Top EXCEPT !.left = @ \ {f}, !.now = <<f, From[f]>>]) /\ SetCopy(f, "broken")
                               \/ Stay([Top EXCEPT !.left = @ \ {f}])
      BY <2>1 DEF CopyOpen
    <3>2. f \in FilesOf(Top.p) /\ f \in AnyFile /\ Top.left \ {f} \in SUBSET FilesOf(Top.p) /\ Top.now = <<>>
      BY <1>b, <1>1, <2>1 DEF CopyOpen
    <3>3. CASE Stay([Top EXCEPT !.left = @ \ {f}])
      <4>1. [Top EXCEPT !.left = @ \ {f}] = [Top EXCEPT !.pc = Top.pc, !.left = Top.left \ {f}, !.now = <<>>]
        BY <1>1, <3>2 DEF PackageFrames
      <4>2. QED
        BY <1>e, <2>0, <3>2, <3>3, <4>1
    <3>4. CASE Stay([Top EXCEPT !.left = @ \ {f}, !.now = <<f, From[f]>>]) /\ From[f] \in Worths
      <4>1. [Top EXCEPT !.left = @ \ {f}, !.now = <<f, From[f]>>]
              = [Top EXCEPT !.pc = Top.pc, !.left = Top.left \ {f}, !.now = <<f, From[f]>>]
        BY <1>1 DEF PackageFrames
      <4>2. <<f, From[f]>> \in AnyFile \X Worths /\ <<f, From[f]>>[1] = f
        BY <3>2, <3>4
      <4>3. QED
        BY <1>e, <2>0, <3>2, <3>4, <4>1, <4>2
    <3>5. From[f] \in Worths
      BY <1>0, <1>1, <2>1, <3>2, LeftToCopy, RunningFrame DEF CopyOpen, InstallTypeOK
    <3>6. QED
      BY <3>1, <3>3, <3>4, <3>5
  <2>2. CASE CopyWrite
    <3>1. Stay([Top EXCEPT !.now = <<>>])
      BY <2>2 DEF CopyWrite
    <3>2. [Top EXCEPT !.now = <<>>] = [Top EXCEPT !.pc = Top.pc, !.left = Top.left, !.now = <<>>]
      BY <1>1 DEF PackageFrames
    <3>3. QED
      BY <1>b, <1>e, <2>0, <3>1, <3>2
  <2>3. CASE CopyFails
    <3>1. PICK pc \in {"fetch", "configure"} : Stay([Top EXCEPT !.left = {}, !.pc = pc]) /\ Top.now = <<>>
      BY <2>3 DEF CopyFails
    <3>2. [Top EXCEPT !.left = {}, !.pc = pc] = [Top EXCEPT !.pc = pc, !.left = {}, !.now = <<>>]
      BY <1>1, <3>1 DEF PackageFrames
    <3>3. QED
      BY <1>e, <2>0, <3>1, <3>2
  <2>4. CASE CopyOver
    BY <1>3, <2>0, <2>4 DEF CopyOver, PackagePlaces, Fetching
  <2>5. QED
    BY <1>j, <2>1, <2>2, <2>3, <2>4 DEF Copies
<1>10. CASE PackageFetch
  <2>0. Installs(Top) /\ Top.left = {} /\ Top.now = <<>>
    BY <1>10, <1>b DEF PackageFetch, In, Installs
  <2>1. CASE Goto("final")
    BY <1>3, <2>0, <2>1 DEF PackagePlaces, Fetching
  <2>2. CASE ~Goto("final")
    <3>1. PICK room \in BOOLEAN :
             Stay([Top EXCEPT !.next = @ + 1, !.pc = IF room THEN "fetch" ELSE "window",
                              !.window = IF room THEN Append(@, Top.next) ELSE @])
      BY <1>10, <2>2 DEF PackageFetch
    <3>2. PICK next \in Nat \ {0}, pc \in PackagePlaces, window \in Seq(Nat) :
             next = Top.next + 1 /\ pc = (IF room THEN "fetch" ELSE "window")
             /\ window = IF room THEN Append(Top.window, Top.next) ELSE Top.window
      <4>1. Top.next + 1 \in Nat \ {0} /\ Append(Top.window, Top.next) \in Seq(Nat)
        BY <1>1
      <4>2. "fetch" \in PackagePlaces /\ "window" \in PackagePlaces
        BY DEF PackagePlaces, Fetching
      <4>3. QED
        BY <1>1, <4>1, <4>2
    <3>3. Stay([Top EXCEPT !.next = next, !.pc = pc, !.window = window])
      BY <3>1, <3>2
    <3>4. [Top EXCEPT !.next = next, !.pc = pc, !.window = window] \in PackageFrames
      BY ONLY <1>1 DEF PackageFrames
    <3>5. PICK f \in PackageFrames : /\ f = [Top EXCEPT !.next = next, !.pc = pc, !.window = window] /\ f.p = Top.p
                                     /\ f.window = window /\ f.next = next
                                     /\ f.left = Top.left /\ f.now = Top.now /\ f.fn = "package"
                                     /\ f.dir = Top.dir /\ f.pc = pc /\ f.obj = Top.obj
      BY <1>1, <3>4 DEF PackageFrames
    <3>6. Len(window) < next /\ \A k \in DOMAIN window : window[k] \in 1 .. next - 1
      <4>1. Top.window \in Seq(Nat) /\ Top.next \in Nat \ {0}
        BY <1>1
      <4>2. CASE room
        <5>1. /\ window = Append(Top.window, Top.next) /\ Len(window) = Len(Top.window) + 1
              /\ DOMAIN window = 1 .. Len(Top.window) + 1 /\ window[Len(Top.window) + 1] = Top.next
              /\ \A k \in 1 .. Len(Top.window) : window[k] = Top.window[k]
          BY <3>2, <4>1, <4>2
        <5>2. next = Top.next + 1 /\ DOMAIN Top.window = 1 .. Len(Top.window) /\ Len(Top.window) \in Nat
          BY <3>2, <4>1
        <5>3. ASSUME NEW k \in 1 .. Len(Top.window) + 1
              PROVE  window[k] \in 1 .. next - 1
          <6>1. k = Len(Top.window) + 1 \/ k \in 1 .. Len(Top.window)
            BY <5>2
          <6>2. \A i \in 1 .. Top.next - 1 : i \in 1 .. next - 1
            BY <4>1, <5>2
          <6>3. Top.next \in 1 .. next - 1
            BY <4>1, <5>2
          <6>4. CASE k = Len(Top.window) + 1
            BY <5>1, <6>3, <6>4
          <6>5. CASE k \in 1 .. Len(Top.window)
            <7>1. k \in DOMAIN Top.window /\ window[k] = Top.window[k]
              BY <5>1, <5>2, <6>5
            <7>2. QED
              BY <1>b, <6>2, <7>1
          <6>6. QED
            BY <6>1, <6>4, <6>5
        <5>4. QED
          BY <1>b, <4>1, <5>1, <5>2, <5>3
      <4>3. CASE ~room
        BY <1>b, <3>2, <4>1, <4>3
      <4>4. QED
        BY <4>2, <4>3
    <3>7. pc \notin {"enter", "manifest", "load", "copy"} /\ Installs(f)
      BY <3>2, <3>5 DEF Installs
    <3>8. f.left \subseteq FilesOf(f.p) /\ f.now = <<>> /\ f.left = {}
      BY <2>0, <3>5
    <3>9. QED
      BY <1>2, <2>0, <3>3, <3>5, <3>6, <3>7, <3>8
  <2>3. QED
    BY <2>1, <2>2
<1>11. ASSUME NEW pc \in {"window", "final"}, NEW then \in {"fetch", "save"}, JoinFetch(pc, then)
       PROVE  Stays
  <2>0. Installs(Top) /\ Top.left = {} /\ Top.now = <<>> /\ then \in PackagePlaces \ {"enter", "manifest", "load", "copy"}
    BY <1>11, <1>b DEF JoinFetch, In, Installs, PackagePlaces, Fetching
  <2>1. CASE Top.window = <<>>
    <3>1. Goto(then)
      BY <1>11, <2>1 DEF JoinFetch
    <3>2. QED
      BY <1>3, <2>0, <3>1
  <2>2. CASE Top.window # <<>>
    <3>1. Stay([Top EXCEPT !.window = Front(@)])
      BY <1>11, <2>2 DEF JoinFetch
    <3>2. PICK w \in Seq(Nat) : w = Front(Top.window)
      BY <1>1, <2>2, FrontAndLast
    <3>3. [Top EXCEPT !.window = w] \in PackageFrames
      BY ONLY <1>1 DEF PackageFrames
    <3>4. PICK f \in PackageFrames : /\ f = [Top EXCEPT !.window = w] /\ f.p = Top.p /\ f.window = w /\ f.next = Top.next
                                     /\ f.left = Top.left /\ f.now = Top.now /\ f.fn = "package"
                                     /\ f.dir = Top.dir /\ f.pc = Top.pc /\ f.obj = Top.obj
      BY <1>1, <3>3 DEF PackageFrames
    <3>5. Len(w) < Top.next /\ \A k \in DOMAIN w : w[k] \in 1 .. Top.next - 1
      <4>1. /\ Len(w) = Len(Top.window) - 1 /\ Len(Top.window) \in Nat \ {0}
            /\ \A k \in 1 .. Len(Top.window) - 1 : w[k] = Top.window[k]
        BY <1>1, <2>2, <3>2, FrontAndLast
      <4>2. DOMAIN w = 1 .. Len(Top.window) - 1 /\ DOMAIN Top.window = 1 .. Len(Top.window)
        BY <1>1, <3>2, <4>1
      <4>3. Len(w) < Top.next
        BY <1>1, <1>b, <4>1
      <4>4. ASSUME NEW k \in DOMAIN w
            PROVE  w[k] \in 1 .. Top.next - 1
        <5>1. k \in DOMAIN Top.window /\ w[k] = Top.window[k]
          BY <4>1, <4>2
        <5>2. QED
          BY <1>b, <5>1
      <4>5. QED
        BY <4>3, <4>4
    <3>6. Installs(f) /\ f.left \subseteq FilesOf(f.p) /\ f.now = <<>> /\ f.left = {} /\ f.pc # "enter"
      BY <2>0, <3>4 DEF Installs
    <3>7. QED
      BY <1>2, <2>0, <3>1, <3>2, <3>4, <3>5, <3>6
  <2>3. QED
    BY <2>1, <2>2
<1>12. CASE PackageWindow \/ PackageFinal
  BY <1>11, <1>12 DEF PackageWindow, PackageFinal
<1>13. CASE PackageConfigure
  <2>0. Installs(Top) /\ Top.pc \notin {"load", "copy"}
    BY <1>13 DEF PackageConfigure, In, Installs
  <2>1. CASE CallThen(ExecFrame(Top.p, Top.dir), "executed")
    <3>1. PICK f \in Frames : f = ExecFrame(Top.p, Top.dir) /\ f.fn = "exec" /\ f.pc = "tarball" /\ f.p = Top.p
      <4>1. ExecFrame(Top.p, Top.dir) \in Frames
        BY <1>1, NewFramesFit DEF Frames
      <4>2. QED
        BY <4>1 DEF ExecFrame
    <3>2. FrameOK(f) /\ Fresh(f) /\ CallThen(f, "executed")
      BY <1>1, <2>1, <3>1 DEF FrameOK, Fresh
    <3>3. QED
      BY <1>4, <2>0, <3>1, <3>2
  <2>2. QED
    BY <1>6, <1>13, <2>0, <2>1 DEF PackageConfigure
<1>14. CASE PackageExecuted
  <2>0. Installs(Top) /\ Top.pc \notin {"load", "copy"}
    BY <1>14 DEF PackageExecuted, In, Installs
  <2>1. CASE ret.rc = "ok"
    BY <1>6, <1>14, <2>0, <2>1 DEF PackageExecuted
  <2>2. CASE ret.rc # "ok"
    <3>1. Return(ret.rc, Top.obj)
      BY <1>14, <2>2 DEF PackageExecuted, PackageReturn
    <3>2. QED
      BY <1>1, <1>5, <2>0, <3>1
  <2>3. QED
    BY <2>1, <2>2
<1>15. QED
  BY <1>7, <1>8, <1>9, <1>h, <1>i, <1>j, <1>10, <1>12, <1>13, <1>14 DEF PackageSteps

(* clib_package_install_executable.                                        *)
LEMMA ExecMoves ==
    ASSUME InstallTypeOK, CallInv, ExecTarball \/ ExecFails \/ ExecDeps \/ ExecRun
    PROVE  /\ Top.fn = "exec" /\ exit = "running" /\ UNCHANGED <<cmd, local, jsons>>
           /\ Stays \/ Calls \/ Returns \/ Ends
<1>0. exit = "running" /\ Top.fn = "exec"
  BY DEF ExecTarball, ExecFails, ExecDeps, ExecRun, In
<1>1. UNCHANGED <<cmd, local, jsons>>
  BY DEF ExecTarball, ExecFails, ExecDeps, ExecRun, files, process
<1> SUFFICES Stays \/ Calls \/ Returns \/ Ends
  BY <1>0, <1>1
<1>2. /\ Top \in ExecFrames /\ FrameOK(Top) /\ Top.p \in Packages /\ Pkg[Top.p].parses
  <2>1. Top \in ExecFrames /\ FrameOK(Top)
    BY <1>0, RunningFrame, FrameKinds
  <2>2. QED
    BY <1>0, <2>1 DEF ExecFrames, FrameOK
<1>3. ASSUME NEW pc \in {"deps", "run"}
      PROVE  \E b \in ExecFrames : b = [Top EXCEPT !.pc = pc] /\ b.fn = "exec" /\ b.pc = pc /\ b.p = Top.p
  <2>1. [Top EXCEPT !.pc = pc] \in ExecFrames
    BY <1>2 DEF ExecFrames
  <2>2. QED
    BY <1>2, <2>1 DEF ExecFrames
<1>4. ASSUME Goto("run")
      PROVE  Stays
  <2>1. PICK f \in ExecFrames : f = [Top EXCEPT !.pc = "run"] /\ f.fn = "exec" /\ f.pc = "run" /\ f.p = Top.p
    BY <1>3
  <2>2. FrameOK(f) /\ SameCall(Top, f) /\ f \in Frames
    BY <1>0, <1>2, <2>1 DEF FrameOK, SameCall, Frames
  <2>3. QED
    BY <1>4, <2>1, <2>2 DEF Goto, Stays
<1>5. ASSUME NEW rc \in {"ok", "fail", "status"}, Return(rc, 0)
      PROVE  Returns
  BY <1>0, <1>5 DEF Returns, Results, Failures
<1>6. CASE ExecTarball
  <2>1. CASE Goto("run")
    BY <1>4, <2>1
  <2>2. CASE CallThen(ListFrame(Pkg[Top.p].deps, "tmp"), "deps")
    <3>1. Pkg[Top.p].deps \in Seq(Packages)
      BY <1>2, ListedPackages
    <3>2. PICK f \in Frames : f = ListFrame(Pkg[Top.p].deps, "tmp") /\ f.fn = "list" /\ f.pc = "next" /\ f.mine = {}
      <4>1. ListFrame(Pkg[Top.p].deps, "tmp") \in Frames
        BY <3>1, NewFramesFit DEF Frames, Dirs
      <4>2. QED
        BY <4>1 DEF ListFrame
    <3>3. PICK b \in ExecFrames : b = [Top EXCEPT !.pc = "deps"] /\ b.fn = "exec" /\ b.pc = "deps" /\ b.p = Top.p
      BY <1>3
    <3>4. FrameOK(f) /\ Fresh(f) /\ FrameOK(b) /\ SameCall(Top, b) /\ b \in Frames
      BY <1>0, <1>2, <3>2, <3>3 DEF FrameOK, Fresh, SameCall, Frames
    <3>5. CalledBy(f, b) /\ Call(f, b)
      BY <2>2, <3>2, <3>3 DEF CalledBy, CallThen
    <3>6. QED
      BY <3>2, <3>4, <3>5 DEF Calls
  <2>3. QED
    BY <1>6, <2>1, <2>2 DEF ExecTarball
<1>7. CASE ExecFails
  BY <1>5, <1>7 DEF ExecFails
<1>8. CASE ExecDeps
  BY <1>4, <1>5, <1>8 DEF ExecDeps
<1>9. CASE ExecRun
  <2>1. CASE Finish("aborted")
    BY <2>1 DEF Ends, Endings
  <2>2. QED
    BY <1>5, <1>9, <2>1 DEF ExecRun
<1>10. QED
  BY <1>6, <1>7, <1>8, <1>9

(* The steps of the main thread, by the function that takes them.          *)
LEMMA StepsOfThePrograms ==
    Programs => \/ LocalReads \/ LocalInstalled \/ LocalDev
                \/ NextArgument \/ ArgsHere \/ (\E dir \in Dirs : Made(dir)) \/ Development
                \/ InstallOver \/ UpdateOver \/ UpgradeOver
<1>1. "deps" \in Dirs /\ "tmp" \in Dirs
  BY DEF Dirs
<1>2. QED
  BY <1>1 DEF Programs, InstallLocal, UpdateLocal, InstallNext, UpdateNext, UpgradeNext, InstallMade, UpdateMade, UpgradeMade

(* The same of the library.                                                 *)
LEMMA StepsOfTheLibrary ==
    Library => \/ NewLookup \/ NewGet \/ NewGiveUp
               \/ ListNext \/ ListMade \/ ListInstalled
               \/ PackageSteps \/ Overflow
               \/ ExecTarball \/ ExecFails \/ ExecDeps \/ ExecRun
BY DEF Library, PackageSteps, Copies

(* The end of the stack.                                                   *)
LEMMA OverflowEnds ==
    ASSUME Overflow
    PROVE  Ends /\ exit = "running" /\ Top.fn = "package" /\ UNCHANGED <<files, process, history>>
BY DEF Overflow, Enters, In, Ends, Endings

(* Every step of the main thread moves the stack in one of these ways.      *)
LEMMA MainMoves ==
    ASSUME InstallTypeOK, CallInv, ObjectTypeOK, Main
    PROVE  MainMove /\ jsons' \subseteq {p \in Packages : Pkg[p].parses}
<1>0. /\ DOMAIN local = DOMAIN LocalDeps /\ jsons \subseteq {p \in Packages : Pkg[p].parses}
      /\ \A k \in DOMAIN local : local[k] \in [deps : Seq(Packages), dev : Seq(Packages)]
  BY DEF InstallTypeOK
<1>1. ASSUME exit = "running", UNCHANGED cmd, UNCHANGED local, Stays \/ Calls \/ Returns \/ Ends
      PROVE  MainMove
  BY <1>0, <1>1 DEF MainMove
<1>2. CASE LocalReads \/ LocalInstalled \/ LocalDev
  <2>1. UNCHANGED jsons
    BY <1>2 DEF LocalReads, LocalInstalled, LocalDev, files
  <2>2. QED
    BY <1>0, <1>2, <2>1, LocalMoves
<1>3. CASE \/ NextArgument \/ ArgsHere \/ (\E dir \in Dirs : Made(dir)) \/ Development
           \/ InstallOver \/ UpdateOver \/ UpgradeOver
  <2>1. Top.fn = "args" /\ exit = "running" /\ UNCHANGED <<cmd, jsons>> /\ (Stays \/ Calls \/ Ends)
    BY <1>3, ArgsMoves
  <2>2. CASE UNCHANGED local
    BY <1>0, <1>1, <2>1, <2>2
  <2>3. CASE InstallOver
    <3>1. Head(Top.todo) \in Packages
      <4>1. Top.pc \in {"installed", "dev"}
        BY <2>3 DEF InstallOver, ArgumentOver, In
      <4>2. QED
        BY <2>1, <4>1, RunningFrame DEF FrameOK
    <3>2. CASE WriteDependency(Head(Top.todo), "deps")
      BY <1>0, <2>1, <3>1, <3>2, SavedDependency DEF MainMove
    <3>3. CASE WriteDependency(Head(Top.todo), "dev")
      BY <1>0, <2>1, <3>1, <3>3, SavedDependency DEF MainMove
    <3>4. WriteDependency(Head(Top.todo), "deps") \/ WriteDependency(Head(Top.todo), "dev") \/ UNCHANGED local
      BY <2>3 DEF InstallOver, Save, SaveDev
    <3>5. QED
      BY <1>0, <2>1, <2>2, <3>2, <3>3, <3>4
  <2>4. UNCHANGED local \/ InstallOver
    BY <1>3 DEF NextArgument, ArgsHere, Made, Development, UpdateOver, UpgradeOver, files
  <2>5. QED
    BY <1>0, <2>2, <2>3, <2>4
<1>4. CASE NewLookup \/ NewGet \/ NewGiveUp
  BY <1>1, <1>4, NewMoves
<1>5. CASE ListNext \/ ListMade \/ ListInstalled
  BY <1>0, <1>1, <1>5, ListMoves
<1>6. CASE PackageSteps
  BY <1>0, <1>1, <1>6, PackageMoves, PackageStepsRun
<1>7. CASE ExecTarball \/ ExecFails \/ ExecDeps \/ ExecRun
  BY <1>0, <1>1, <1>7, ExecMoves
<1>8. CASE Overflow
  BY <1>0, <1>1, <1>8, OverflowEnds DEF files, process
<1>9. QED
  BY <1>2, <1>3, <1>4, <1>5, <1>6, <1>7, <1>8, StepsOfThePrograms, StepsOfTheLibrary DEF Main

-----------------------------------------------------------------------------
(* The objects, across a step of the main thread: which of them o is no    *)
(* longer used (0: none).                                                  *)
ObjsMove(o) ==
    /\ DOMAIN objs \subseteq DOMAIN objs'
    /\ \A x \in DOMAIN objs :
          /\ objs'[x].p = objs[x].p /\ objs'[x].dir = objs[x].dir
          /\ objs'[x].state = "used" <=> objs[x].state = "used" /\ x # o
NewObject(o, p, dir) == o \in DOMAIN objs' /\ objs'[o].state = "used" /\ objs'[o].p = p /\ objs'[o].dir = dir
ObjectsFollow ==
    \/ /\ Stays /\ ObjsMove(0)
       /\ Top.fn = "package" /\ ~Installs(Top) /\ Installs(Head(stack')) => NewObject(Len(objs) + 1, Top.p, Top.dir)
    \/ Calls /\ UNCHANGED objs /\ (Top.fn = "package" => Installs(Top))
    \/ Returns /\ ObjsMove(ret'.obj)
    \/ Ends

(* What a frame refers to apart from the object of its own package.        *)
Refers(f) ==
    /\ f.fn = "list" => \A o \in f.mine : LeftAlone(o)
    /\ f.fn = "args" => LeftAlone(f.obj)
AsBefore(f) == Installs(f) => Installs(Top) /\ f.obj = Top.obj /\ f.p = Top.p /\ f.dir = Top.dir

(* What such a step leaves of an object.                                   *)
LEMMA LeftAloneStays ==
    ASSUME ObjectTypeOK, NEW x, ObjsMove(x), NEW o, LeftAlone(o)
    PROVE  LeftAlone(o)'
BY DEF ObjsMove, LeftAlone

(* Such a step keeps the ownership of the objects.                          *)
LEMMA ObjMovesKeep ==
    ASSUME InstallTypeOK, CallInv, ObjectTypeOK, ObjectInv, exit = "running",
           ObjectsFollow
    PROVE  ObjectInv'
<1> DEFINE n == Len(stack)
<1>1. /\ stack # <<>> /\ stack \in Seq(Frames) /\ n \in Nat \ {0}
      /\ DOMAIN stack = 1 .. n /\ Top = stack[1] /\ Top \in Frames
  BY StackOperations DEF CallInv, InstallTypeOK, Top
<1>2. 0 \notin DOMAIN objs
  BY DEF ObjectTypeOK
<1>3. ASSUME NEW i \in 1 .. n, Installs(stack[i])
      PROVE  /\ stack[i].obj \in DOMAIN objs /\ objs[stack[i].obj].state = "used"
             /\ objs[stack[i].obj].p = stack[i].p /\ objs[stack[i].obj].dir = stack[i].dir
  BY <1>1, <1>3 DEF ObjectInv
<1>4. ASSUME NEW i \in 1 .. n, NEW j \in 1 .. n,
             Installs(stack[i]), Installs(stack[j]), stack[i].obj = stack[j].obj
      PROVE  i = j
  BY <1>1, <1>4 DEF ObjectInv
<1>5. LeftAlone(ret.obj) /\ \A i \in 1 .. n : Refers(stack[i])
  BY <1>1 DEF ObjectInv, Refers
<1>6. LeftAlone(0)' /\ NoRet.obj = 0
  BY DEF LeftAlone, NoRet
<1> DEFINE Owns(f) == /\ f.obj \in DOMAIN objs' /\ objs'[f.obj].state = "used"
                      /\ objs'[f.obj].p = f.p /\ objs'[f.obj].dir = f.dir
<1>7. ASSUME NEW o, ObjsMove(o), NEW i \in 1 .. n, Installs(stack[i]), stack[i].obj # o
      PROVE  Owns(stack[i])
  BY <1>3, <1>7 DEF ObjsMove
<1>8. ASSUME NEW o, ObjsMove(o), NEW f, Refers(f)
      PROVE  Refers(f)'
  BY <1>8, LeftAloneStays DEF Refers
<1>a. Refers(Top) /\ LeftAlone(ret.obj)
  BY <1>1, <1>5
<1>9. ASSUME Stays, ObjsMove(0),
             Top.fn = "package" /\ ~Installs(Top) /\ Installs(Head(stack')) => NewObject(Len(objs) + 1, Top.p, Top.dir)
      PROVE  ObjectInv'
  <2>0. PICK f \in Frames : Stay(f) /\ SameCall(Top, f)
    BY <1>9 DEF Stays
  <2>1. /\ Stay(f) /\ ObjsMove(0) /\ Refers(f)
        /\ AsBefore(f) \/ (f.obj \notin DOMAIN objs /\ NewObject(f.obj, f.p, f.dir))
    <3>1. Refers(f)
      BY <1>a, <2>0 DEF Refers, SameCall
    <3>2. Len(objs) + 1 \notin DOMAIN objs
      BY DEF ObjectTypeOK
    <3>3. AsBefore(f) \/ (f.obj \notin DOMAIN objs /\ NewObject(f.obj, f.p, f.dir))
      <4>1. f = Head(stack')
        BY <1>1, <2>0, StackOfStay
      <4>2. Installs(f) => f.fn = "package" /\ Top.fn = "package"
        BY <2>0 DEF Installs, SameCall
      <4>3. QED
        BY <1>9, <2>0, <3>2, <4>1, <4>2 DEF AsBefore, SameCall
    <3>4. QED
      BY <1>9, <2>0, <3>1, <3>3
  <2>2. PICK s \in Seq(Frames) : s = stack' /\ Len(s) = n /\ s[1] = f /\ \A i \in 2 .. n : s[i] = stack[i]
    BY <1>1, <2>1, StackOfStay
  <2>3. ASSUME NEW i \in 1 .. n, Installs(s[i])
        PROVE  /\ Owns(s[i])
               /\ (Installs(stack[i]) /\ s[i].obj = stack[i].obj) \/ (i = 1 /\ s[i].obj \notin DOMAIN objs)
    <3>1. CASE i = 1
      <4>1. CASE AsBefore(f)
        <5>1. Installs(stack[1]) /\ f.obj = stack[1].obj /\ f.p = stack[1].p /\ f.dir = stack[1].dir
          BY <1>1, <2>2, <2>3, <3>1, <4>1 DEF AsBefore
        <5>2. stack[1].obj # 0
          BY <1>1, <1>2, <1>3, <5>1
        <5>3. Owns(stack[1])
          BY <1>1, <1>7, <2>1, <5>1, <5>2
        <5>4. QED
          BY <2>2, <3>1, <5>1, <5>3
      <4>2. CASE f.obj \notin DOMAIN objs /\ NewObject(f.obj, f.p, f.dir)
        BY <2>2, <3>1, <4>2 DEF NewObject
      <4>3. QED
        BY <2>1, <4>1, <4>2
    <3>2. CASE i # 1
      <4>1. s[i] = stack[i]
        BY <1>1, <2>2, <3>2
      <4>2. stack[i].obj # 0
        BY <1>2, <1>3, <2>3, <4>1
      <4>3. QED
        BY <1>7, <2>1, <2>3, <4>1, <4>2
    <3>3. QED
      BY <3>1, <3>2
  <2>4. ASSUME NEW i \in 1 .. n, NEW j \in 1 .. n, Installs(s[i]), Installs(s[j]), s[i].obj = s[j].obj
        PROVE  i = j
    <3>1. /\ (Installs(stack[i]) /\ s[i].obj = stack[i].obj) \/ (i = 1 /\ s[i].obj \notin DOMAIN objs)
          /\ (Installs(stack[j]) /\ s[j].obj = stack[j].obj) \/ (j = 1 /\ s[j].obj \notin DOMAIN objs)
      BY <2>3, <2>4
    <3>2. QED
      BY <1>3, <1>4, <2>4, <3>1
  <2>5. ASSUME NEW i \in 1 .. n
        PROVE  Refers(s[i])'
    <3>1. Refers(s[i])
      BY <1>1, <1>5, <2>1, <2>2
    <3>2. QED
      BY <1>8, <2>1, <2>2, <3>1 DEF Refers, LeftAlone
  <2>6. ret'.obj = 0 /\ DOMAIN s = 1 .. n
    BY <1>6, <2>1, <2>2 DEF Stay
  <2>7. QED
    BY <1>6, <2>2, <2>3, <2>4, <2>5, <2>6 DEF ObjectInv, Refers, Installs
<1>10. ASSUME Calls, UNCHANGED objs, Top.fn = "package" => Installs(Top)
       PROVE  ObjectInv'
  <2>0. PICK f \in Frames, b \in Frames : Call(f, b) /\ Fresh(f) /\ SameCall(Top, b)
    BY <1>10 DEF Calls
  <2>1. /\ Call(f, b) /\ UNCHANGED objs /\ ~Installs(f) /\ Refers(f)
        /\ AsBefore(b) /\ Refers(b)
    <3>1. ~Installs(f) /\ Refers(f)
      BY <2>0 DEF Installs, Refers, Fresh
    <3>2. Refers(b)
      BY <1>a, <2>0 DEF Refers, SameCall
    <3>3. AsBefore(b)
      BY <1>10, <2>0 DEF AsBefore, Installs, SameCall
    <3>4. QED
      BY <1>10, <2>0, <3>1, <3>2, <3>3
  <2>2. PICK s \in Seq(Frames) : /\ s = stack' /\ Len(s) = n + 1 /\ s[1] = f /\ s[2] = b
                                 /\ \A i \in 3 .. n + 1 : s[i] = stack[i - 1]
    BY <1>1, <2>1, StackOfCall
  <2>3. ASSUME NEW i \in 1 .. n + 1, Installs(s[i])
        PROVE  /\ Owns(s[i]) /\ i - 1 \in 1 .. n
               /\ Installs(stack[i - 1]) /\ s[i].obj = stack[i - 1].obj
    <3>1. i = 2 \/ i \in 3 .. n + 1
      BY <1>1, <2>1, <2>2, <2>3
    <3>2. i - 1 \in 1 .. n /\ (i = 2 => i - 1 = 1)
      BY <1>1, <3>1
    <3>3. /\ Installs(stack[i - 1]) /\ s[i].obj = stack[i - 1].obj
          /\ s[i].p = stack[i - 1].p /\ s[i].dir = stack[i - 1].dir
      BY <1>1, <2>1, <2>2, <2>3, <3>1, <3>2 DEF AsBefore
    <3>4. QED
      BY <1>3, <2>1, <3>2, <3>3
  <2>4. ASSUME NEW i \in 1 .. n + 1, NEW j \in 1 .. n + 1, Installs(s[i]), Installs(s[j]), s[i].obj = s[j].obj
        PROVE  i = j
    <3>1. /\ i - 1 \in 1 .. n /\ Installs(stack[i - 1]) /\ s[i].obj = stack[i - 1].obj
          /\ j - 1 \in 1 .. n /\ Installs(stack[j - 1]) /\ s[j].obj = stack[j - 1].obj
      BY <2>3, <2>4
    <3>2. i - 1 = j - 1
      BY <1>4, <2>4, <3>1
    <3>3. QED
      BY <3>2
  <2>5. ASSUME NEW i \in 1 .. n + 1
        PROVE  Refers(s[i])'
    <3>1. i = 1 \/ i = 2 \/ (i \in 3 .. n + 1 /\ i - 1 \in 1 .. n)
      BY <1>1
    <3>2. Refers(s[i])
      BY <1>5, <2>1, <2>2, <3>1
    <3>3. QED
      BY <2>1, <2>2, <3>2 DEF Refers, LeftAlone
  <2>6. ret'.obj = 0 /\ DOMAIN s = 1 .. n + 1
    BY <1>1, <1>6, <2>1, <2>2 DEF Call
  <2>7. QED
    BY <1>6, <2>2, <2>3, <2>4, <2>5, <2>6 DEF ObjectInv, Refers, Installs
<1>11. ASSUME Returns, ObjsMove(ret'.obj)
       PROVE  ObjectInv'
  <2>1. PICK rc \in Results, o \in Nat :
               /\ Return(rc, o) /\ ObjsMove(o)
               /\ o = 0 \/ (Installs(Top) /\ o = Top.obj)
    <3>1. PICK rc \in Results, o \in Nat : Return(rc, o) /\ (o = 0 \/ (Installs(Top) /\ o = Top.obj))
      BY <1>11 DEF Returns
    <3>2. ret'.obj = o
      BY <3>1 DEF Return
    <3>3. QED
      BY <1>11, <3>1, <3>2
  <2>2. PICK s \in Seq(Frames) : s = stack' /\ Len(s) = n - 1 /\ \A i \in 1 .. n - 1 : s[i] = stack[i + 1]
    BY <1>1, <2>1, StackOfReturn
  <2>3. ASSUME NEW i \in 1 .. n - 1, Installs(s[i])
        PROVE  /\ Owns(s[i]) /\ i + 1 \in 1 .. n
               /\ Installs(stack[i + 1]) /\ s[i].obj = stack[i + 1].obj
    <3>1. i + 1 \in 1 .. n /\ i + 1 # 1 /\ 1 \in 1 .. n
      BY <1>1
    <3>2. s[i] = stack[i + 1]
      BY <2>2
    <3>3. stack[i + 1].obj # o
      BY <1>1, <1>2, <1>3, <1>4, <2>1, <2>3, <3>1, <3>2
    <3>4. QED
      BY <1>7, <2>1, <2>3, <3>1, <3>2, <3>3
  <2>4. ASSUME NEW i \in 1 .. n - 1, NEW j \in 1 .. n - 1, Installs(s[i]), Installs(s[j]), s[i].obj = s[j].obj
        PROVE  i = j
    <3>1. /\ i + 1 \in 1 .. n /\ Installs(stack[i + 1]) /\ s[i].obj = stack[i + 1].obj
          /\ j + 1 \in 1 .. n /\ Installs(stack[j + 1]) /\ s[j].obj = stack[j + 1].obj
      BY <2>3, <2>4
    <3>2. i + 1 = j + 1
      BY <1>4, <2>4, <3>1
    <3>3. QED
      BY <3>2
  <2>5. ASSUME NEW i \in 1 .. n - 1
        PROVE  Refers(s[i])'
    <3>1. i + 1 \in 1 .. n /\ s[i] = stack[i + 1]
      BY <1>1, <2>2
    <3>2. Refers(s[i])
      BY <1>5, <3>1
    <3>3. QED
      BY <1>8, <2>1, <2>2, <3>2 DEF Refers, LeftAlone
  <2>6. LeftAlone(ret.obj)'
    <3>1. ret'.obj = o
      BY <2>1 DEF Return
    <3>2. CASE o = 0
      BY <3>1, <3>2 DEF LeftAlone
    <3>3. CASE Installs(Top) /\ o = Top.obj
      <4>1. o \in DOMAIN objs
        BY <1>1, <1>3, <3>3
      <4>2. QED
        BY <2>1, <3>1, <4>1 DEF ObjsMove, LeftAlone
    <3>4. QED
      BY <2>1, <3>2, <3>3
  <2>7. DOMAIN s = 1 .. n - 1
    BY <1>1, <2>2
  <2>8. QED
    BY <2>2, <2>3, <2>4, <2>5, <2>6, <2>7 DEF ObjectInv, Refers, Installs
<1>12. CASE Ends
  BY <1>12 DEF Ends, Finish, ObjectInv
<1>13. QED
  BY <1>9, <1>10, <1>11, <1>12 DEF ObjectsFollow

(* A step that goes on is no call, and one that returns is neither.        *)
LEMMA KindsOfMoves ==
    ASSUME InstallTypeOK, stack # <<>>, Stays \/ Calls \/ Returns
    PROVE  /\ \A x : Stay(x) => Stays
           /\ \A g, b : Call(g, b) => Calls
           /\ \A rc, o : Return(rc, o) => Returns
<1>1. stack \in Seq(Frames) /\ Len(stack) \in Nat \ {0}
  BY DEF InstallTypeOK
<1>2. Stays => Len(stack') = Len(stack)
  BY <1>1, StackOfStay DEF Stays
<1>3. Calls => Len(stack') = Len(stack) + 1
  BY <1>1, StackOfCall DEF Calls
<1>4. Returns => Len(stack') = Len(stack) - 1
  BY <1>1, StackOfReturn DEF Returns
<1>5. ASSUME NEW x, Stay(x)
      PROVE  Len(stack') = Len(stack)
  <2>1. stack \in Seq(Frames \cup {x}) /\ x \in Frames \cup {x}
    BY <1>1
  <2>2. Len(<<x>> \o Tail(stack)) = Len(stack)
    BY <2>1, StackOperations
  <2>3. QED
    BY <1>5, <2>2 DEF Stay
<1>6. ASSUME NEW rc, NEW o, Return(rc, o)
      PROVE  Len(stack') = Len(stack) - 1
  BY <1>1, <1>6, StackOfReturn
<1>7. ASSUME NEW g, NEW b, Call(g, b)
      PROVE  Len(stack') = Len(stack) + 1
  <2>1. stack \in Seq(Frames \cup {g, b}) /\ g \in Frames \cup {g, b} /\ b \in Frames \cup {g, b}
    BY <1>1
  <2>2. Len(<<g, b>> \o Tail(stack)) = Len(stack) + 1
    BY <2>1, StackOperations
  <2>3. QED
    BY <1>7, <2>2 DEF Call
<1>8. QED
  BY <1>1, <1>2, <1>3, <1>4, <1>5, <1>6, <1>7

(* The objects when some are freed, and when one changes.                  *)
LEMMA FreeObjects ==
    ASSUME ObjectTypeOK, NEW S, Free(S), \A o \in S : LeftAlone(o)
    PROVE  objs' \in Seq(Objects) /\ DOMAIN objs' = DOMAIN objs /\ ObjsMove(0)
<1>1. PICK n \in Nat : DOMAIN objs = 1 .. n /\ \A o \in 1 .. n : objs[o] \in Objects
  BY DEF ObjectTypeOK
<1>2. \A o \in 1 .. n : [objs[o] EXCEPT !.state = "freed"] \in Objects
  BY <1>1 DEF Objects
<1>3. objs' \in [1 .. n -> Objects]
  BY <1>1, <1>2 DEF Free
<1>4. ASSUME NEW o \in 1 .. n
      PROVE  /\ objs'[o].p = objs[o].p /\ objs'[o].dir = objs[o].dir
             /\ objs'[o].state = "used" <=> objs[o].state = "used"
  <2>1. CASE o \in S /\ objs[o].refs = 0
    <3>1. objs'[o] = [objs[o] EXCEPT !.state = "freed"] /\ objs[o].state # "used"
      BY <1>1, <2>1 DEF Free, LeftAlone
    <3>2. QED
      BY <1>1, <3>1 DEF Objects
  <2>2. CASE ~(o \in S /\ objs[o].refs = 0)
    BY <1>1, <2>2 DEF Free
  <2>3. QED
    BY <2>1, <2>2
<1>5. 0 \notin 1 .. n /\ DOMAIN objs' = 1 .. n
  BY <1>1, <1>3
<1>6. QED
  BY <1>1, <1>3, <1>4, <1>5 DEF ObjsMove

(* One object changes, its package and its directory do not.                *)
LEMMA ChangeObject ==
    ASSUME ObjectTypeOK, NEW o \in DOMAIN objs, NEW r \in Objects, r.p = objs[o].p, r.dir = objs[o].dir,
           objs[o].state = "used", objs' = [objs EXCEPT ![o] = r]
    PROVE  /\ objs' \in Seq(Objects) /\ DOMAIN objs' = DOMAIN objs
           /\ r.state = "used" => ObjsMove(0)
           /\ r.state # "used" => ObjsMove(o)
<1>1. PICK n \in Nat : DOMAIN objs = 1 .. n /\ objs \in [1 .. n -> Objects]
  BY DEF ObjectTypeOK
<1>2. objs' \in [1 .. n -> Objects] /\ objs'[o] = r /\ \A x \in 1 .. n : x # o => objs'[x] = objs[x]
  BY <1>1
<1>3. 0 \notin 1 .. n
  BY <1>1
<1>4. QED
  BY <1>1, <1>2, <1>3 DEF ObjsMove

(* No object changes.                                                       *)
LEMMA SameObjects ==
    ASSUME ObjectTypeOK, UNCHANGED objs
    PROVE  objs' \in Seq(Objects) /\ DOMAIN objs' = DOMAIN objs /\ ObjsMove(0)
BY DEF ObjectTypeOK, ObjsMove

(* Functions that install no package themselves.                           *)
LEMMA QuietMoves ==
    ASSUME ObjectTypeOK, UNCHANGED threads, Top.fn # "package",
           \/ UNCHANGED objs /\ (Stays \/ Calls \/ Returns \/ Ends)
           \/ \E S : Free(S) /\ (\A o \in S : LeftAlone(o)) /\ (Stays \/ Returns \/ Ends)
    PROVE  ObjectsFollow /\ ObjectTypeOK'
<1>1. objs' \in Seq(Objects) /\ DOMAIN objs' = DOMAIN objs /\ ObjsMove(0)
  BY SameObjects, FreeObjects
<1>2. Returns => ret'.obj = 0
  BY DEF Returns, Return, Installs
<1>3. ObjectsFollow
  BY <1>1, <1>2 DEF ObjectsFollow
<1>4. QED
  BY <1>1, <1>3 DEF ObjectTypeOK

(* The objects, across a step of install_packages of the programs.          *)
LEMMA ArgsObjects ==
    ASSUME InstallTypeOK, CallInv, ObjectTypeOK, ObjectInv,
           \/ NextArgument \/ ArgsHere \/ (\E dir \in Dirs : Made(dir)) \/ Development
           \/ InstallOver \/ UpdateOver \/ UpgradeOver
    PROVE  ObjectsFollow /\ ObjectTypeOK'
<1>1. Top.fn = "args" /\ exit = "running" /\ (Stays \/ Calls \/ Ends)
  BY ArgsMoves
<1>2. LeftAlone(Top.obj) /\ LeftAlone(ret.obj)
  <2>1. 1 \in DOMAIN stack /\ Top = stack[1]
    BY <1>1, RunningFrame DEF InstallTypeOK
  <2>2. QED
    BY <1>1, <2>1 DEF ObjectInv
<1>3. UNCHANGED threads
  BY DEF NextArgument, ArgsHere, Made, Development, InstallOver, UpdateOver, UpgradeOver, process
<1>4. CASE NextArgument \/ ArgsHere \/ (\E dir \in Dirs : Made(dir)) \/ Development
  <2>1. UNCHANGED objs
    BY <1>4 DEF NextArgument, ArgsHere, Made, Development, process
  <2>2. QED
    BY <1>1, <1>3, <2>1, QuietMoves
<1>5. CASE InstallOver \/ UpdateOver \/ UpgradeOver
  <2>1. PICK o : LeftAlone(o) /\ PackageOver(ret.rc, o)
    BY <1>2, <1>5 DEF InstallOver, UpdateOver, UpgradeOver, Object
  <2>2. Free({o}) /\ (Stays \/ Ends)
    <3>1. ret' = NoRet /\ NoRet.rc = "none"
      BY <2>1 DEF PackageOver, Stay, Finish, NoRet
    <3>2. Ends \/ \E x : Stay(x)
      BY <2>1 DEF PackageOver, Ends, Endings
    <3>3. stack # <<>>
      BY <1>1, RunningFrame
    <3>4. QED
      BY <1>1, <2>1, <3>2, <3>3, KindsOfMoves DEF PackageOver
  <2>3. QED
    BY <1>1, <1>3, <2>1, <2>2, QuietMoves
<1>6. QED
  BY <1>4, <1>5

(* The objects, across a step of install_packages of the library.           *)
LEMMA ListObjects ==
    ASSUME InstallTypeOK, CallInv, ObjectTypeOK, ObjectInv, ListNext \/ ListMade \/ ListInstalled
    PROVE  ObjectsFollow /\ ObjectTypeOK'
<1>1. Top.fn = "list" /\ exit = "running" /\ (Stays \/ Calls \/ Returns)
  BY ListMoves
<1>2. \A o \in Top.mine : LeftAlone(o)
  <2>1. 1 \in DOMAIN stack /\ Top = stack[1]
    BY <1>1, RunningFrame DEF InstallTypeOK
  <2>2. QED
    BY <1>1, <2>1 DEF ObjectInv
<1>3. UNCHANGED threads
  BY DEF ListNext, ListMade, ListInstalled
<1>4. CASE \E rc : ListOver(rc)
  <2>1. Returns
    <3>1. stack # <<>>
      BY <1>1, RunningFrame
    <3>2. QED
      BY <1>1, <1>4, <3>1, KindsOfMoves DEF ListOver
  <2>2. QED
    BY <1>1, <1>2, <1>3, <1>4, <2>1, QuietMoves DEF ListOver
<1>5. CASE UNCHANGED objs
  BY <1>1, <1>3, <1>5, QuietMoves
<1>6. QED
  BY <1>4, <1>5 DEF ListNext, ListMade, ListInstalled

(* The objects, across a step of clib_package_install.                      *)
LEMMA PackageObjects ==
    ASSUME InstallTypeOK, CallInv, ObjectTypeOK, ObjectInv, PackageSteps
    PROVE  ObjectsFollow /\ ObjectTypeOK'
<1>1. /\ Top.fn = "package" /\ exit = "running" /\ (Stays \/ Calls \/ Returns) /\ stack # <<>>
      /\ Top \in PackageFrames
  BY PackageMoves, PackageStepsRun, RunningFrame, FrameKinds
<1>2. Installs(Top) =>
         /\ Top.obj \in DOMAIN objs /\ objs[Top.obj] \in Objects /\ objs[Top.obj].state = "used" /\ Top.fn = "package"
  <2>1. 1 \in DOMAIN stack /\ Top = stack[1]
    BY <1>1, RunningFrame DEF InstallTypeOK
  <2>2. Installs(Top) => Top.fn = "package" /\ Top.obj \in DOMAIN objs /\ objs[Top.obj].state = "used"
    BY <1>1, <2>1 DEF ObjectInv, Installs
  <2>3. QED
    BY <2>2 DEF ObjectTypeOK
<1>3. threads \subseteq Fetchers /\ \A t \in threads : t.obj \in DOMAIN objs
  BY DEF ObjectTypeOK
<1>4. ASSUME UNCHANGED objs, threads' \subseteq threads, Installs(Top), (\E f : Stay(f)) \/ \E f, b : Call(f, b)
      PROVE  ObjectsFollow /\ ObjectTypeOK'
  <2>1. objs' \in Seq(Objects) /\ DOMAIN objs' = DOMAIN objs /\ ObjsMove(0)
    BY <1>4, SameObjects
  <2>2. ret'.obj = 0
    <3>1. ret' = NoRet
      BY <1>4 DEF Stay, Call
    <3>2. QED
      BY <3>1 DEF NoRet
  <2>3. ObjectsFollow
    BY <1>1, <1>4, <2>1, <2>2 DEF ObjectsFollow
  <2>4. QED
    BY <1>3, <1>4, <2>1, <2>3 DEF ObjectTypeOK
<1>5. CASE PackageVisited \/ PackageRefused
  <2>1. \E rc : Return(rc, 0)
    BY <1>5 DEF PackageVisited, PackageRefused
  <2>2. Returns /\ ret'.obj = 0
    BY <1>1, <2>1, KindsOfMoves DEF Return
  <2>3. UNCHANGED <<objs, threads>>
    BY <1>5 DEF PackageVisited, PackageRefused, process
  <2>4. objs' \in Seq(Objects) /\ DOMAIN objs' = DOMAIN objs /\ ObjsMove(0)
    BY <2>3, SameObjects
  <2>5. QED
    BY <1>3, <2>2, <2>3, <2>4 DEF ObjectsFollow, ObjectTypeOK
<1>a. ASSUME Mark, UNCHANGED threads
      PROVE  ObjectsFollow /\ ObjectTypeOK'
  <2>1. PICK r \in Objects : r = [p |-> Top.p, dir |-> Top.dir, refs |-> 0, state |-> "used"]
    <3>1. Top.p \in Packages /\ Top.dir \in Dirs
      BY <1>1 DEF PackageFrames
    <3>2. [p |-> Top.p, dir |-> Top.dir, refs |-> 0, state |-> "used"] \in Objects
      BY <3>1 DEF Objects
    <3>3. QED
      BY <3>2
  <2>2. /\ objs' = Append(objs, r) /\ UNCHANGED threads
        /\ Stay([Top EXCEPT !.pc = "makefile", !.obj = Len(objs) + 1])
    BY <1>a, <2>1 DEF Mark
  <2>3. Stays
    BY <1>1, <2>2, KindsOfMoves
  <2>4. objs \in Seq(Objects) /\ Len(objs) \in Nat /\ DOMAIN objs = 1 .. Len(objs)
    BY DEF ObjectTypeOK
  <2>5. /\ objs' \in Seq(Objects) /\ DOMAIN objs' = 1 .. Len(objs) + 1 /\ objs'[Len(objs) + 1] = r
        /\ \A o \in 1 .. Len(objs) : objs'[o] = objs[o]
    BY <2>2, <2>4
  <2>6. ObjsMove(0)
    BY <2>4, <2>5 DEF ObjsMove
  <2>7. NewObject(Len(objs) + 1, Top.p, Top.dir)
    BY <2>1, <2>4, <2>5 DEF NewObject
  <2>8. ObjectTypeOK'
    BY <1>3, <2>2, <2>4, <2>5 DEF ObjectTypeOK
  <2>9. QED
    BY <2>3, <2>6, <2>7, <2>8 DEF ObjectsFollow
<1>b. ASSUME UNCHANGED <<objs, threads>>, ~Installs(Top), Stay([Top EXCEPT !.pc = "manifest"])
      PROVE  ObjectsFollow /\ ObjectTypeOK'
  <2>1. Stays
    BY <1>1, <1>b, KindsOfMoves
  <2>2. objs' \in Seq(Objects) /\ DOMAIN objs' = DOMAIN objs /\ ObjsMove(0)
    BY <1>b, SameObjects
  <2>3. ~Installs(Head(stack'))
    <3>1. PICK f \in Frames : f = [Top EXCEPT !.pc = "manifest"] /\ f.pc = "manifest"
      <4>1. [Top EXCEPT !.pc = "manifest"] \in PackageFrames
        BY <1>1 DEF PackageFrames, PackagePlaces
      <4>2. PICK f \in PackageFrames : f = [Top EXCEPT !.pc = "manifest"] /\ f.pc = "manifest"
        BY <1>1, <4>1 DEF PackageFrames
      <4>3. QED
        BY <4>2 DEF Frames
    <3>2. Head(stack') = f
      BY <1>1, <1>b, <3>1, StackOfStay DEF InstallTypeOK
    <3>3. QED
      BY <3>1, <3>2 DEF Installs
  <2>4. QED
    BY <1>3, <1>b, <2>1, <2>2, <2>3 DEF ObjectsFollow, ObjectTypeOK
<1>6. CASE PackageEnter \/ PackageWritten
  <2>1. UNCHANGED threads /\ (PackageEnter => ~Installs(Top))
    BY <1>6 DEF PackageEnter, PackageWritten, Enters, In, Installs
  <2>2. QED
    BY <1>6, <1>a, <1>b, <2>1 DEF PackageEnter, PackageWritten, Goto
<1>7. ASSUME Installs(Top), NEW slot \in Nat, NEW f \in FileNames, Spawn(slot, f), \E x : Stay(x)
      PROVE  ObjectsFollow /\ ObjectTypeOK'
  <2>1. PICK r \in Objects : r = [objs[Top.obj] EXCEPT !.refs = @ + 1] /\ r.state = "used"
                             /\ r.p = objs[Top.obj].p /\ r.dir = objs[Top.obj].dir
    <3>1. objs[Top.obj].refs + 1 \in Int
      BY <1>2, <1>7 DEF Objects
    <3>2. [objs[Top.obj] EXCEPT !.refs = @ + 1] \in Objects
      BY <1>2, <1>7, <3>1 DEF Objects
    <3>3. QED
      BY <1>2, <1>7, <3>2 DEF Objects
  <2>2. objs' = [objs EXCEPT ![Top.obj] = r]
    BY <1>7, <2>1 DEF Spawn
  <2>3. objs' \in Seq(Objects) /\ DOMAIN objs' = DOMAIN objs /\ ObjsMove(0)
    BY <1>2, <1>7, <2>1, <2>2, ChangeObject
  <2>4. PICK t \in Fetchers : t = [obj |-> Top.obj, slot |-> slot, file |-> f, pc |-> "begin", seen |-> 0] /\ t.obj = Top.obj
    <3>1. Top.obj \in Nat
      BY <1>1 DEF PackageFrames
    <3>2. [obj |-> Top.obj, slot |-> slot, file |-> f, pc |-> "begin", seen |-> 0] \in Fetchers
      BY <1>7, <3>1 DEF Fetchers
    <3>3. QED
      BY <3>2 DEF Fetchers
  <2>5. threads' = threads \cup {t}
    BY <1>7, <2>4 DEF Spawn
  <2>6. Stays
    BY <1>1, <1>7, KindsOfMoves
  <2>7. ObjectTypeOK'
    BY <1>2, <1>3, <1>7, <2>3, <2>4, <2>5 DEF ObjectTypeOK
  <2>8. QED
    BY <1>7, <2>3, <2>6, <2>7 DEF ObjectsFollow
<1>8. ASSUME Installs(Top), NEW rc, Return(rc, Top.obj), UNCHANGED threads,
             NEW refs \in Int, objs' = [objs EXCEPT ![Top.obj] = [@ EXCEPT !.refs = refs, !.state = "returned"]]
      PROVE  ObjectsFollow /\ ObjectTypeOK'
  <2>1. PICK r \in Objects : /\ r = [objs[Top.obj] EXCEPT !.refs = refs, !.state = "returned"] /\ r.state # "used"
                             /\ r.p = objs[Top.obj].p /\ r.dir = objs[Top.obj].dir
    <3>1. [objs[Top.obj] EXCEPT !.refs = refs, !.state = "returned"] \in Objects
      BY <1>2, <1>8 DEF Objects
    <3>2. QED
      BY <1>2, <1>8, <3>1 DEF Objects
  <2>2. objs' = [objs EXCEPT ![Top.obj] = r]
    BY <1>8, <2>1
  <2>3. objs' \in Seq(Objects) /\ DOMAIN objs' = DOMAIN objs /\ ObjsMove(Top.obj)
    BY <1>2, <1>8, <2>1, <2>2, ChangeObject
  <2>4. Returns /\ ret'.obj = Top.obj
    BY <1>1, <1>8, KindsOfMoves DEF Return
  <2>5. ObjectTypeOK'
    BY <1>3, <1>8, <2>3 DEF ObjectTypeOK
  <2>6. QED
    BY <2>3, <2>4, <2>5 DEF ObjectsFollow
<1>9. ASSUME NEW rc, PackageReturn(rc), Installs(Top), UNCHANGED threads
      PROVE  ObjectsFollow /\ ObjectTypeOK'
  <2>1. PICK refs \in Int : refs = objs[Top.obj].refs
    BY <1>2, <1>9 DEF Objects
  <2>2. [objs[Top.obj] EXCEPT !.refs = refs, !.state = "returned"] = [objs[Top.obj] EXCEPT !.state = "returned"]
    BY <1>2, <1>9, <2>1 DEF Objects
  <2>3. objs' = [objs EXCEPT ![Top.obj] = [@ EXCEPT !.refs = refs, !.state = "returned"]]
    BY <1>9, <2>2 DEF PackageReturn
  <2>4. QED
    BY <1>8, <1>9, <2>3 DEF PackageReturn
<1>10. ASSUME NEW rc, SpawnFails(rc), Installs(Top)
       PROVE  ObjectsFollow /\ ObjectTypeOK'
  <2>1. PICK refs \in Int : refs = objs[Top.obj].refs + 1
    BY <1>2, <1>10 DEF Objects
  <2>2. objs' = [objs EXCEPT ![Top.obj] = [@ EXCEPT !.refs = refs, !.state = "returned"]]
    BY <1>2, <1>10, <2>1 DEF SpawnFails, Objects
  <2>3. QED
    BY <1>8, <1>10, <2>2 DEF SpawnFails
<1>11. ASSUME NEW pc, NEW then, pc \notin {"enter", "manifest"}, JoinFetch(pc, then)
       PROVE  ObjectsFollow /\ ObjectTypeOK'
  <2>1. UNCHANGED objs /\ Installs(Top)
    BY <1>11 DEF JoinFetch, In, Installs
  <2>2. threads' \subseteq threads /\ \E f : Stay(f)
    BY <1>11 DEF JoinFetch, Join, Goto
  <2>3. QED
    BY <1>4, <2>1, <2>2
<1>12. CASE PackageMakefile
  <2>1. Installs(Top) /\ \E x : Stay(x)
    BY <1>12 DEF PackageMakefile, In, Goto, Installs
  <2>2. CASE Spawn(MakefileSlot, "Makefile")
    <3>1. MakefileSlot \in Nat
      BY DEF MakefileSlot
    <3>2. "Makefile" \in FileNames
      BY DEF FileNames
    <3>3. QED
      BY <1>7, <2>1, <2>2, <3>1, <3>2
  <2>3. CASE UNCHANGED <<objs, threads>>
    BY <1>4, <2>1, <2>3
  <2>4. QED
    BY <1>12, <2>2, <2>3 DEF PackageMakefile
<1>13. CASE PackageFetch
  <2>1. Installs(Top) /\ \E x : Stay(x)
    BY <1>13 DEF PackageFetch, In, Goto, Installs
  <2>2. CASE Top.next > Len(Pkg[Top.p].src)
    BY <1>4, <1>13, <2>1, <2>2 DEF PackageFetch
  <2>3. CASE ~(Top.next > Len(Pkg[Top.p].src))
    <3>1. Pkg[Top.p].src \in Seq(STRING) /\ Top.next \in Nat \ {0}
      BY <1>1, CInstallManifests DEF PackageFrames
    <3>2. Pkg[Top.p].src[Top.next] \in FileNames
      <4>1. Top.next \in DOMAIN Pkg[Top.p].src /\ Top.p \in Packages
        BY <1>1, <2>3, <3>1 DEF PackageFrames
      <4>2. QED
        BY <4>1 DEF FileNames, Range
    <3>3. Spawn(Top.next, Pkg[Top.p].src[Top.next])
      BY <1>13, <2>3 DEF PackageFetch
    <3>4. QED
      BY <1>7, <2>1, <3>1, <3>2, <3>3
  <2>4. QED
    BY <2>2, <2>3
<1>14. CASE PackageNoMakefile \/ PackageNotFetched
  BY <1>10, <1>14 DEF PackageNoMakefile, PackageNotFetched, In, Installs
<1>15. CASE PackageWindow \/ PackageFinal
  BY <1>11, <1>15 DEF PackageWindow, PackageFinal
<1>16. CASE PackageMakefileJoined \/ PackageCache \/ PackageSave \/ Copies \/ PackageConfigure
  <2>1. UNCHANGED objs /\ threads' \subseteq threads
    BY <1>16 DEF PackageMakefileJoined, PackageCache, PackageSave, Copies, CopyOpen, CopyWrite, CopyFails, CopyOver,
                 PackageConfigure, process, Join
  <2>2. Installs(Top)
    BY <1>16 DEF PackageMakefileJoined, PackageCache, PackageSave, Copies, CopyOpen, CopyWrite, CopyFails, CopyOver,
                 Copying, PackageConfigure, In, Installs
  <2>3. (\E f : Stay(f)) \/ \E f, b : Call(f, b)
    BY <1>16 DEF PackageMakefileJoined, PackageCache, PackageSave, Copies, CopyOpen, CopyWrite, CopyFails, CopyOver,
                 PackageConfigure, Goto, CallThen
  <2>4. QED
    BY <1>4, <2>1, <2>2, <2>3
<1>17. CASE PackageNotConfigured \/ PackageDeps \/ (PackageExecuted /\ ret.rc # "ok")
  <2>1. Installs(Top) /\ UNCHANGED threads /\ \E rc : PackageReturn(rc)
    BY <1>17 DEF PackageNotConfigured, PackageDeps, PackageExecuted, In, Installs
  <2>2. QED
    BY <1>9, <2>1
<1>18. CASE PackageExecuted /\ ret.rc = "ok"
  <2>1. UNCHANGED <<objs, threads>> /\ Installs(Top) /\ \E f, b : Call(f, b)
    BY <1>18 DEF PackageExecuted, In, CallThen, Installs
  <2>2. QED
    BY <1>4, <2>1
<1>19. QED
  BY <1>5, <1>6, <1>12, <1>13, <1>14, <1>15, <1>16, <1>17, <1>18 DEF PackageSteps

-----------------------------------------------------------------------------
(* A step of a fetching thread: it stays with its object and its file, and *)
(* changes nothing of the objects but the count.                           *)
ThreadMove(t) ==
    /\ \E u \in Fetchers : /\ u.obj = t.obj /\ u.slot = t.slot /\ u.file = t.file
                           /\ t.pc = "done" => u = t
                           /\ threads' = (threads \ {t}) \cup {u}
    /\ objs' \in Seq(Objects) /\ DOMAIN objs' = DOMAIN objs
    /\ \A o \in DOMAIN objs : /\ objs'[o].p = objs[o].p /\ objs'[o].dir = objs[o].dir
                              /\ objs'[o].state = objs[o].state
(* Every step of a fetching thread is such a step.                          *)
LEMMA ThreadMoves ==
    ASSUME ObjectTypeOK, NEW t \in threads, ThreadBegin(t) \/ ThreadOpen(t) \/ ThreadGet(t) \/ ThreadDrop(t)
    PROVE  ThreadMove(t)
<1>1. t \in Fetchers /\ t.obj \in DOMAIN objs /\ objs[t.obj] \in Objects /\ objs \in Seq(Objects)
  BY DEF ObjectTypeOK
<1>2. ASSUME NEW pc \in {"get", "drop", "done"}, NEW seen \in Int
      PROVE  \E u \in Fetchers : /\ u = [t EXCEPT !.pc = pc, !.seen = seen]
                                 /\ u.obj = t.obj /\ u.slot = t.slot /\ u.file = t.file
  <2>1. [t EXCEPT !.pc = pc, !.seen = seen] \in Fetchers
    BY <1>1 DEF Fetchers
  <2>2. QED
    BY <1>1, <2>1 DEF Fetchers
<1>3. objs' = objs => /\ objs' \in Seq(Objects) /\ DOMAIN objs' = DOMAIN objs
                      /\ \A o \in DOMAIN objs : /\ objs'[o].p = objs[o].p /\ objs'[o].dir = objs[o].dir
                                                /\ objs'[o].state = objs[o].state
  BY <1>1
<1>4. ASSUME Leave(t), UNCHANGED objs, t.pc # "done"
      PROVE  ThreadMove(t)
  <2>1. objs[t.obj].refs \in Int
    BY <1>1 DEF Objects
  <2>2. PICK u \in Fetchers : /\ u = [t EXCEPT !.pc = "drop", !.seen = objs[t.obj].refs]
                              /\ u.obj = t.obj /\ u.slot = t.slot /\ u.file = t.file
    BY <1>2, <2>1
  <2>3. threads' = (threads \ {t}) \cup {u}
    BY <1>4, <2>2 DEF Leave, Step
  <2>4. QED
    BY <1>3, <1>4, <2>2, <2>3 DEF ThreadMove
<1>a. ASSUME NEW pc \in {"open", "get"}, Step(t, [t EXCEPT !.pc = pc]), UNCHANGED objs, t.pc # "done"
      PROVE  ThreadMove(t)
  <2>1. PICK u \in Fetchers : /\ u = [t EXCEPT !.pc = pc]
                              /\ u.obj = t.obj /\ u.slot = t.slot /\ u.file = t.file
    <3>1. [t EXCEPT !.pc = pc] \in Fetchers
      BY <1>1 DEF Fetchers
    <3>2. QED
      BY <1>1, <3>1 DEF Fetchers
  <2>2. threads' = (threads \ {t}) \cup {u}
    BY <1>a, <2>1 DEF Step
  <2>3. QED
    BY <1>3, <1>a, <2>1, <2>2 DEF ThreadMove
<1>5. CASE ThreadBegin(t)
  <2>1. t.pc = "begin" /\ UNCHANGED objs
    BY <1>5 DEF ThreadBegin
  <2>2. Leave(t) \/ Step(t, [t EXCEPT !.pc = "open"])
    BY <1>5 DEF ThreadBegin
  <2>3. QED
    BY <1>4, <1>a, <2>1, <2>2
<1>b. CASE ThreadOpen(t)
  <2>1. t.pc = "open" /\ UNCHANGED objs
    BY <1>b DEF ThreadOpen
  <2>2. Leave(t) \/ Step(t, [t EXCEPT !.pc = "get"])
    BY <1>b DEF ThreadOpen
  <2>3. QED
    BY <1>4, <1>a, <2>1, <2>2
<1>6. CASE ThreadGet(t)
  BY <1>4, <1>6 DEF ThreadGet
<1>7. CASE ThreadDrop(t)
  <2>1. t.pc = "drop" /\ Step(t, [t EXCEPT !.pc = "done", !.seen = 0])
    BY <1>7 DEF ThreadDrop
  <2>2. PICK u \in Fetchers : /\ u = [t EXCEPT !.pc = "done", !.seen = 0]
                              /\ u.obj = t.obj /\ u.slot = t.slot /\ u.file = t.file
    <3>1. PICK zero \in Int : zero = 0
      OBVIOUS
    <3>2. PICK u \in Fetchers : /\ u = [t EXCEPT !.pc = "done", !.seen = zero]
                                /\ u.obj = t.obj /\ u.slot = t.slot /\ u.file = t.file
      BY <1>2
    <3>3. QED
      BY <3>1, <3>2
  <2>3. threads' = (threads \ {t}) \cup {u}
    BY <2>1, <2>2 DEF Step
  <2>4. CASE UNCHANGED objs
    BY <1>3, <2>1, <2>2, <2>3, <2>4 DEF ThreadMove
  <2>5. CASE objs' = [objs EXCEPT ![t.obj].refs = t.seen - 1]
    <3>1. t.seen - 1 \in Int
      BY <1>1 DEF Fetchers
    <3>2. PICK r \in Objects : /\ r = [objs[t.obj] EXCEPT !.refs = t.seen - 1]
                               /\ r.p = objs[t.obj].p /\ r.dir = objs[t.obj].dir /\ r.state = objs[t.obj].state
      <4>1. [objs[t.obj] EXCEPT !.refs = t.seen - 1] \in Objects
        BY <1>1, <3>1 DEF Objects
      <4>2. QED
        BY <1>1, <4>1 DEF Objects
    <3>3. objs' = [objs EXCEPT ![t.obj] = r]
      BY <2>5, <3>2
    <3>4. PICK n \in Nat : DOMAIN objs = 1 .. n /\ objs \in [1 .. n -> Objects]
      BY <1>1
    <3>5. objs' \in [1 .. n -> Objects] /\ objs'[t.obj] = r /\ \A o \in 1 .. n : o # t.obj => objs'[o] = objs[o]
      BY <1>1, <3>3, <3>4
    <3>6. objs' \in Seq(Objects) /\ DOMAIN objs' = DOMAIN objs
      BY <3>4, <3>5
    <3>7. \A o \in DOMAIN objs : /\ objs'[o].p = objs[o].p /\ objs'[o].dir = objs[o].dir
                                 /\ objs'[o].state = objs[o].state
      BY <3>2, <3>4, <3>5
    <3>8. QED
      BY <2>1, <2>2, <2>3, <3>6, <3>7 DEF ThreadMove
  <2>6. QED
    BY <1>7, <2>4, <2>5 DEF ThreadDrop
<1>8. QED
  BY <1>5, <1>b, <1>6, <1>7

(* Such a step keeps the objects and what refers to them.                   *)
LEMMA ThreadsKeepObjects ==
    ASSUME ObjectTypeOK, ObjectInv, NEW t \in threads, ThreadMove(t), UNCHANGED <<stack, ret, exit>>
    PROVE  ObjectTypeOK' /\ ObjectInv'
<1>1. PICK u \in Fetchers : u.obj = t.obj /\ threads' = (threads \ {t}) \cup {u}
  BY DEF ThreadMove
<1>2. /\ objs' \in Seq(Objects) /\ DOMAIN objs' = DOMAIN objs
      /\ \A o \in DOMAIN objs : /\ objs'[o].p = objs[o].p /\ objs'[o].dir = objs[o].dir
                                /\ objs'[o].state = objs[o].state
  BY DEF ThreadMove
<1>3. ObjectTypeOK'
  BY <1>1, <1>2 DEF ObjectTypeOK
<1>4. \A o : LeftAlone(o) => LeftAlone(o)'
  BY <1>2 DEF LeftAlone
<1>5. ASSUME exit' = "running"
      PROVE  ObjectInv'
  <2>1. ASSUME NEW i \in DOMAIN stack, Installs(stack[i])
        PROVE  /\ stack[i].obj \in DOMAIN objs' /\ objs'[stack[i].obj].state = "used"
               /\ objs'[stack[i].obj].p = stack[i].p /\ objs'[stack[i].obj].dir = stack[i].dir
    BY <1>2, <1>5, <2>1 DEF ObjectInv
  <2>2. \A i, j \in DOMAIN stack :
              Installs(stack[i]) /\ Installs(stack[j]) /\ stack[i].obj = stack[j].obj => i = j
    BY <1>5 DEF ObjectInv
  <2>3. /\ \A i \in DOMAIN stack : stack[i].fn = "list" => \A o \in stack[i].mine : LeftAlone(o)
        /\ \A i \in DOMAIN stack : stack[i].fn = "args" => LeftAlone(stack[i].obj)
        /\ LeftAlone(ret.obj)
    BY <1>5 DEF ObjectInv
  <2>4. QED
    BY <1>4, <2>1, <2>2, <2>3 DEF ObjectInv, Installs, LeftAlone
<1>6. QED
  BY <1>3, <1>5 DEF ObjectInv

(* The main thread.                                                        *)
LEMMA MainObjects ==
    ASSUME InstallTypeOK, CallInv, ObjectTypeOK, ObjectInv, Main
    PROVE  ObjectsFollow /\ ObjectTypeOK'
<1>1. CASE LocalReads \/ LocalInstalled \/ LocalDev
  <2>1. UNCHANGED <<objs, threads>> /\ Top.fn # "package"
    BY <1>1 DEF LocalReads, LocalInstalled, LocalDev, process, In
  <2>2. Stays \/ Calls \/ Returns \/ Ends
    BY <1>1, LocalMoves DEF MainMove
  <2>3. QED
    BY <2>1, <2>2, QuietMoves
<1>2. CASE NewLookup \/ NewGet \/ NewGiveUp
  <2>1. UNCHANGED <<objs, threads>>
    BY <1>2 DEF NewLookup, NewGet, NewGiveUp, process
  <2>2. QED
    BY <1>2, <2>1, NewMoves, QuietMoves
<1>3. CASE ExecTarball \/ ExecFails \/ ExecDeps \/ ExecRun
  <2>1. UNCHANGED <<objs, threads>>
    BY <1>3 DEF ExecTarball, ExecFails, ExecDeps, ExecRun, process
  <2>2. QED
    BY <1>3, <2>1, ExecMoves, QuietMoves
<1>4. CASE \/ NextArgument \/ ArgsHere \/ (\E dir \in Dirs : Made(dir)) \/ Development
           \/ InstallOver \/ UpdateOver \/ UpgradeOver
  BY <1>4, ArgsObjects
<1>5. CASE ListNext \/ ListMade \/ ListInstalled
  BY <1>5, ListObjects
<1>6. CASE PackageSteps
  BY <1>6, PackageObjects
<1>7. CASE Overflow
  <2>1. Ends /\ UNCHANGED <<objs, threads>>
    BY <1>7, OverflowEnds DEF process
  <2>2. QED
    BY <2>1 DEF ObjectsFollow, ObjectTypeOK
<1>8. QED
  BY <1>1, <1>2, <1>3, <1>4, <1>5, <1>6, <1>7, StepsOfThePrograms, StepsOfTheLibrary DEF Main

(* The frame that runs after a step in which its function goes on.         *)
LEMMA HeadAfterStay ==
    ASSUME stack \in Seq(Frames), stack # <<>>, NEW f, Stay(f)
    PROVE  Head(stack') = f
<1>1. stack \in Seq(Frames \cup {f}) /\ f \in Frames \cup {f}
  OBVIOUS
<1>2. /\ <<f>> \o Tail(stack) \in Seq(Frames \cup {f}) /\ Len(<<f>> \o Tail(stack)) = Len(stack)
      /\ Len(stack) \in Nat \ {0} /\ (<<f>> \o Tail(stack))[1] = f
  BY <1>1, StackOperations
<1>3. QED
  BY <1>2 DEF Stay

-----------------------------------------------------------------------------
(* The files on the disk and in the cache.                                 *)

(* The files of a directory are replaced.                                  *)
LEMMA DirectoryWritten ==
    ASSUME DiskOK(disk), NEW dir \in Dirs, NEW p \in Packages, NEW g \in Directory(p),
           disk' = [disk EXCEPT ![dir][p] = g]
    PROVE  /\ DiskOK(disk')
           /\ \A d \in Dirs, q \in Packages : \A x \in FilesOf(q) :
                 disk'[d][q][x] = IF d = dir /\ q = p THEN g[x] ELSE disk[d][q][x]
<1>1. PICK h : h = [disk[dir] EXCEPT ![p] = g]
  OBVIOUS
<1>2. DOMAIN h = Packages /\ \A q \in Packages : h[q] = IF q = p THEN g ELSE disk[dir][q]
  BY <1>1 DEF DiskOK
<1>3. disk' = [disk EXCEPT ![dir] = h]
  BY <1>1
<1>4. DOMAIN disk' = Dirs /\ \A d \in Dirs : disk'[d] = IF d = dir THEN h ELSE disk[d]
  BY <1>3 DEF DiskOK
<1>5. DiskOK(disk')
  BY <1>2, <1>4 DEF DiskOK
<1>6. QED
  BY <1>2, <1>4, <1>5

(* One file is written.                                                    *)
Wrote(dir, p, f, v) == disk' = [disk EXCEPT ![dir][p][f] = v]

(* It has its new worth, and no other file has changed.                    *)
LEMMA FileWritten ==
    ASSUME DiskOK(disk), NEW dir \in Dirs, NEW p \in Packages, NEW f, NEW v \in Worths,
           Wrote(dir, p, f, v)
    PROVE  /\ DiskOK(disk')
           /\ \A d \in Dirs, q \in Packages : \A x \in FilesOf(q) :
                 disk'[d][q][x] = IF d = dir /\ q = p /\ x = f THEN v ELSE disk[d][q][x]
<1>1. PICK g : g = [disk[dir][p] EXCEPT ![f] = v]
  OBVIOUS
<1>2. g \in Directory(p) /\ \A x \in FilesOf(p) : g[x] = IF x = f THEN v ELSE disk[dir][p][x]
  BY <1>1 DEF DiskOK, Directory
<1>3. disk' = [disk EXCEPT ![dir][p] = g]
  BY <1>1 DEF Wrote
<1>4. /\ DiskOK(disk')
      /\ \A d \in Dirs, q \in Packages : \A x \in FilesOf(q) :
            disk'[d][q][x] = IF d = dir /\ q = p THEN g[x] ELSE disk[d][q][x]
  BY <1>2, <1>3, DirectoryWritten
<1>5. QED
  BY <1>2, <1>4

(* A cached copy is replaced.                                              *)
LEMMA CacheWritten ==
    ASSUME CacheOK(cache), NEW p \in Packages, NEW g, g = NoCopy \/ g \in Directory(p), cache' = [cache EXCEPT ![p] = g]
    PROVE  CacheOK(cache') /\ \A q \in Packages : cache'[q] = IF q = p THEN g ELSE cache[q]
BY DEF CacheOK

(* A copy is not taken for none.                                           *)
LEMMA CopiesAreNoSequences ==
    ASSUME NEW p \in Packages, NEW g \in Directory(p)
    PROVE  g # NoCopy
<1>1. "clib.json" \in FilesOf(p)
  BY DEF FilesOf, Range, ManifestNames
<1>2. DOMAIN g = FilesOf(p) /\ DOMAIN NoCopy = {}
  BY DEF Directory, NoCopy
<1>3. QED
  BY <1>1, <1>2

(* One file of a cached copy is written.                                   *)
LEMMA CopyWritten ==
    ASSUME CacheOK(cache), NEW p \in Packages, cache[p] # NoCopy, NEW f, NEW v \in Worths,
           cache' = [cache EXCEPT ![p][f] = v]
    PROVE  /\ CacheOK(cache')
           /\ \A q \in Packages : cache'[q] = NoCopy <=> cache[q] = NoCopy
           /\ \A q \in Packages : q # p => cache'[q] = cache[q]
           /\ \A x \in FilesOf(p) : cache'[p][x] = IF x = f THEN v ELSE cache[p][x]
<1>1. PICK g : g = [cache[p] EXCEPT ![f] = v]
  OBVIOUS
<1>2. g \in Directory(p) /\ \A x \in FilesOf(p) : g[x] = IF x = f THEN v ELSE cache[p][x]
  BY <1>1 DEF CacheOK, Directory
<1>3. cache' = [cache EXCEPT ![p] = g]
  BY <1>1
<1>4. CacheOK(cache') /\ \A q \in Packages : cache'[q] = IF q = p THEN g ELSE cache[q]
  BY <1>2, <1>3, CacheWritten
<1>5. g # NoCopy
  BY <1>2, CopiesAreNoSequences
<1>6. QED
  BY <1>2, <1>4, <1>5

(* The files of a package.                                                 *)
LEMMA FilesOfPackage ==
    ASSUME NEW p \in Packages
    PROVE  Range(ManifestNames) \subseteq FilesOf(p) /\ Sources(p) \subseteq FilesOf(p)
BY DEF FilesOf, Sources

(* The steps that write files.                                             *)
PackageFiles == PackageEnter \/ PackageWritten \/ PackageCache \/ PackageSave \/ CopyOpen \/ CopyWrite
LEMMA StepsThatWrite ==
    ASSUME Main, ~UNCHANGED <<disk, cache>>
    PROVE  PackageFiles
<1>1. CASE Programs
  <2>1. UNCHANGED <<disk, cache>>
    BY <1>1, StepsOfThePrograms
       DEF LocalReads, LocalInstalled, LocalDev, NextArgument, ArgsHere, Made, Development, InstallOver, UpdateOver, UpgradeOver, files
  <2>2. QED
    BY <2>1
<1>2. CASE \/ NewLookup \/ NewGet \/ NewGiveUp \/ ListNext \/ ListMade \/ ListInstalled
           \/ ExecTarball \/ ExecFails \/ ExecDeps \/ ExecRun \/ Overflow
  <2>1. UNCHANGED <<disk, cache>>
    BY <1>2 DEF NewLookup, NewGet, NewGiveUp, ListNext, ListMade, ListInstalled, ExecTarball, ExecFails, ExecDeps, ExecRun,
                Overflow, files
  <2>2. QED
    BY <2>1
<1>3. CASE \/ PackageVisited \/ PackageRefused \/ PackageMakefile \/ PackageNoMakefile \/ PackageMakefileJoined
           \/ CopyFails \/ CopyOver \/ PackageFetch \/ PackageNotFetched \/ PackageWindow \/ PackageFinal
           \/ PackageConfigure \/ PackageNotConfigured \/ PackageExecuted \/ PackageDeps
  <2>1. UNCHANGED <<disk, cache>>
    BY <1>3 DEF PackageVisited, PackageRefused, PackageMakefile, PackageNoMakefile, PackageMakefileJoined, CopyFails, CopyOver,
       PackageFetch, PackageNotFetched, PackageWindow, PackageFinal, JoinFetch, SpawnFails, PackageConfigure,
       PackageNotConfigured, PackageExecuted, PackageDeps, files
  <2>2. QED
    BY <2>1
<1>4. QED
  BY <1>1, <1>2, <1>3, StepsOfTheLibrary DEF Main, PackageSteps, PackageFiles, Copies

(* What clib_package_install knows of the files.                           *)
LEMMA RunningPackage ==
    ASSUME InstallTypeOK, CallInv, exit = "running", Top.fn = "package"
    PROVE  /\ Top \in PackageFrames /\ Top.p \in Packages /\ Top.dir \in Dirs /\ Top.file \in Range(ManifestNames)
           /\ stack # <<>> /\ FrameOK(Top) /\ Pkg[Top.p].parses /\ Top.pc \in PackagePlaces
           /\ DiskOK(disk) /\ CacheOK(cache) /\ disk[Top.dir][Top.p] \in Directory(Top.p)
           /\ Top.pc \in {"load", "copy"} => cache[Top.p] # NoCopy /\ cache[Top.p] \in Directory(Top.p)
           /\ Top.left \subseteq FilesOf(Top.p)
           /\ Top.now # <<>> => /\ Top.now[1] \in FilesOf(Top.p) /\ Top.now[2] \in Worths
           /\ Top.pc \notin {"load", "copy"} => Top.left = {} /\ Top.now = <<>>
<1>1. stack # <<>> /\ Top \in PackageFrames /\ FrameOK(Top)
  BY RunningFrame, FrameKinds
<1>2. Top.p \in Packages /\ Top.dir \in Dirs /\ Top.file \in Range(ManifestNames) /\ Top.pc \in PackagePlaces
  BY <1>1 DEF PackageFrames
<1>3. Top.now # <<>> => Top.now \in AnyFile \X Worths
  BY <1>1 DEF PackageFrames
<1>4. /\ Pkg[Top.p].parses /\ Top.left \subseteq FilesOf(Top.p) /\ (Top.now # <<>> => Top.now[1] \in FilesOf(Top.p))
      /\ Top.pc \notin {"load", "copy"} => Top.left = {} /\ Top.now = <<>>
  BY <1>1 DEF FrameOK
<1>5. DiskOK(disk) /\ CacheOK(cache) /\ CopyOK
  BY DEF InstallTypeOK, FilesTypeOK
<1>6. disk[Top.dir][Top.p] \in Directory(Top.p)
  BY <1>2, <1>5 DEF DiskOK
<1>7. Top.pc \in {"load", "copy"} => cache[Top.p] # NoCopy /\ cache[Top.p] \in Directory(Top.p)
  BY <1>1, <1>2, <1>5 DEF CacheOK, CopyOK
<1>8. Top.now # <<>> => Top.now[2] \in Worths
  BY <1>3
<1>9. QED
  BY <1>1, <1>2, <1>4, <1>5, <1>6, <1>7, <1>8

(* What clib_package_install does to the files: it writes one of its own   *)
(* directory, one of its cached copy, or the whole of the latter.          *)
WritesOne(f, v) ==
    /\ Wrote(Top.dir, Top.p, f, v) /\ UNCHANGED cache
    /\ \/ Top.pc \in {"enter", "manifest"} /\ f = Top.file
       \/ Top.pc = "load"
CopiesOne(f, v) == Top.pc = "copy" /\ cache' = [cache EXCEPT ![Top.p][f] = v] /\ UNCHANGED disk
CopiesNone == /\ \/ Top.pc = "cache" /\ cache' = [cache EXCEPT ![Top.p] = NoCopy]
                 \/ Top.pc = "save" /\ cache' = [cache EXCEPT ![Top.p] = [f \in FilesOf(Top.p) |-> "absent"]]
              /\ UNCHANGED disk
LEMMA PackageWrites ==
    ASSUME InstallTypeOK, CallInv, PackageFiles
    PROVE  /\ exit = "running" /\ Top.fn = "package"
           /\ \/ UNCHANGED <<disk, cache>> \/ CopiesNone
              \/ \E f \in FilesOf(Top.p), v \in Worths : WritesOne(f, v) \/ CopiesOne(f, v)
<1>1. exit = "running" /\ Top.fn = "package"
  BY DEF PackageFiles, PackageEnter, PackageWritten, Enters, PackageCache, PackageSave, CopyOpen, CopyWrite, Copying, In
<1>2. Top.file \in FilesOf(Top.p)
  BY <1>1, RunningPackage, FilesOfPackage
<1>3. CASE PackageEnter \/ PackageWritten
  <2>1. UNCHANGED cache /\ Top.pc \in {"enter", "manifest"}
    BY <1>3 DEF PackageEnter, PackageWritten, Enters, In
  <2>2. UNCHANGED disk \/ \E v \in Worths : Wrote(Top.dir, Top.p, Top.file, v)
    BY <1>3 DEF PackageEnter, PackageWritten, PackageManifest, Wrote, Worths
  <2>3. QED
    BY <1>1, <1>2, <2>1, <2>2 DEF WritesOne
<1>4. CASE PackageCache \/ PackageSave
  BY <1>1, <1>4 DEF PackageCache, PackageSave, CopiesNone, In
<1>5. CASE CopyOpen \/ CopyWrite
  <2>1. UNCHANGED <<disk, cache>> \/ \E f \in FilesOf(Top.p), v \in Worths : SetCopy(f, v)
    <3>1. CopyOpen => UNCHANGED <<disk, cache>> \/ \E f \in Top.left : SetCopy(f, "broken")
      BY DEF CopyOpen
    <3>2. CopyWrite => UNCHANGED <<disk, cache>> \/ (Top.now # <<>> /\ SetCopy(Top.now[1], Top.now[2]))
      BY DEF CopyWrite
    <3>3. QED
      BY <1>1, <1>5, <3>1, <3>2, RunningPackage DEF Worths
  <2>2. \A f, v : SetCopy(f, v) => WritesOne(f, v) \/ CopiesOne(f, v)
    BY DEF SetCopy, WritesOne, CopiesOne, Wrote
  <2>3. QED
    BY <1>1, <2>1, <2>2
<1>6. QED
  BY <1>3, <1>4, <1>5 DEF PackageFiles

(* The function that copies has a copy.                                    *)
LEMMA MainKeepsCopying ==
    ASSUME InstallTypeOK, CallInv, ObjectTypeOK, Main
    PROVE  CopyOK'
<1>1. exit = "running" /\ (Stays \/ Calls \/ Returns \/ Ends)
  BY MainMoves DEF MainMove
<1>2. stack \in Seq(Frames) /\ stack # <<>> /\ Top \in Frames /\ Top = stack[1]
  BY <1>1, RunningFrame DEF InstallTypeOK
<1>3. CASE Ends
  BY <1>3 DEF Ends, Finish, CopyOK
<1>4. CASE Returns
  <2>1. PICK s \in Seq(Frames) : s = stack' /\ Len(s) = Len(stack) - 1 /\ \A i \in 1 .. Len(stack) - 1 : s[i] = stack[i + 1]
    BY <1>2, <1>4, StackOfReturn DEF Returns
  <2>2. Len(stack) > 1 => s[1] = stack[2] /\ CalledBy(Top, stack[2]) /\ Head(s) = s[1]
    BY <1>1, <1>2, <2>1, RunningFrame
  <2>3. Len(stack) > 1 \/ s = <<>>
    BY <1>1, <2>1, RunningFrame
  <2>4. QED
    BY <2>1, <2>2, <2>3 DEF CopyOK, Top, CalledBy
<1>5. CASE Calls
  <2>1. PICK f \in Frames, b \in Frames : Call(f, b) /\ Fresh(f)
    BY <1>5 DEF Calls
  <2>2. Head(stack') = f
    BY <1>2, <2>1, StackOfCall
  <2>3. QED
    BY <2>1, <2>2 DEF CopyOK, Top, Fresh
<1>6. CASE Stays /\ Top.fn # "package"
  <2>1. PICK f \in Frames : Stay(f) /\ SameCall(Top, f)
    BY <1>6 DEF Stays
  <2>2. Head(stack') = f /\ f.fn # "package"
    BY <1>2, <1>6, <2>1, HeadAfterStay DEF SameCall
  <2>3. QED
    BY <2>2 DEF CopyOK, Top
<1>7. CASE Stays /\ PackageSteps
  <2>1. PICK f \in Frames : Stay(f) /\ SameCall(Top, f)
    BY <1>7 DEF Stays
  <2>2. f = Head(stack') /\ f = Top'
    BY <1>2, <2>1, HeadAfterStay DEF Top
  <2>3. /\ Top.fn = "package" /\ Top \in PackageFrames /\ Top.p \in Packages /\ f.p = Top.p /\ CacheOK(cache)
        /\ Top.pc \in {"load", "copy"} => cache[Top.p] # NoCopy
    BY <1>1, <1>7, <2>1, PackageStepsRun, RunningPackage DEF SameCall
  <2>4. ASSUME f.pc \notin {"load", "copy"}
        PROVE  CopyOK'
    BY <2>2, <2>4 DEF CopyOK
  <2>5. ASSUME cache'[Top.p] # NoCopy
        PROVE  CopyOK'
    BY <2>2, <2>3, <2>5 DEF CopyOK
  <2>6. ASSUME NEW g, Stay(g)
        PROVE  f = g
    BY <1>2, <2>2, <2>6, HeadAfterStay
  <2>7. \A pc : Goto(pc) => f.pc = pc
    <3> SUFFICES ASSUME NEW pc, Goto(pc) PROVE f.pc = pc
      OBVIOUS
    <3>1. f = [Top EXCEPT !.pc = pc]
      BY <2>6 DEF Goto
    <3>2. QED
      BY <2>3, <3>1 DEF PackageFrames
  <2>8. CASE PackageCache
    <3>1. CASE \E pc \in {"fetch", "configure"} : Goto(pc)
      BY <2>4, <2>7, <3>1
    <3>2. CASE HasPackage(Top.p) /\ UNCHANGED cache
      BY <2>5, <3>2 DEF HasPackage
    <3>3. QED
      BY <2>8, <3>1, <3>2 DEF PackageCache
  <2>9. CASE PackageSave
    <3>1. PICK g \in Directory(Top.p) : cache' = [cache EXCEPT ![Top.p] = g]
      BY <2>9 DEF PackageSave, Directory, Worths
    <3>2. cache'[Top.p] = g
      BY <2>3, <3>1 DEF CacheOK
    <3>3. QED
      BY <2>3, <2>5, <3>2, CopiesAreNoSequences
  <2>10. CASE CopyOpen \/ CopyWrite
    <3>1. Top.pc \in {"load", "copy"}
      BY <2>10 DEF CopyOpen, CopyWrite, Copying, In
    <3>2. UNCHANGED cache \/ \E x \in FilesOf(Top.p), v \in Worths : CopiesOne(x, v)
      BY <2>10, <3>1, PackageWrites DEF PackageFiles, WritesOne, CopiesNone
    <3>3. cache'[Top.p] # NoCopy
      <4>1. PICK p : p = Top.p
        OBVIOUS
      <4>2. ASSUME NEW x, NEW v \in Worths, CopiesOne(x, v)
            PROVE  cache'[p] # NoCopy
        <5>1. CacheOK(cache) /\ p \in Packages /\ cache[p] # NoCopy /\ cache' = [cache EXCEPT ![p][x] = v]
          BY <2>3, <3>1, <4>1, <4>2 DEF CopiesOne
        <5>2. QED
          BY ONLY <5>1, <4>2, CopyWritten
      <4>3. QED
        BY <2>3, <3>1, <3>2, <4>1, <4>2
    <3>4. QED
      BY <2>5, <3>3
  <2>11. CASE PackageFetch
    <3>1. \E room \in BOOLEAN : \/ Goto("final")
                               \/ f = [Top EXCEPT !.next = @ + 1, !.pc = IF room THEN "fetch" ELSE "window",
                                                  !.window = IF room THEN Append(@, Top.next) ELSE @]
      BY <2>6, <2>11 DEF PackageFetch
    <3>2. f.pc \in {"fetch", "window", "final"}
      BY <2>3, <2>7, <3>1 DEF PackageFrames
    <3>3. QED
      BY <2>4, <3>2
  <2>12. CASE PackageWindow \/ PackageFinal
    <3>1. Top.pc \in {"window", "final"} /\ ((\E pc \in {"fetch", "save"} : Goto(pc)) \/ f = [Top EXCEPT !.window = Front(@)])
      BY <2>6, <2>12 DEF PackageWindow, PackageFinal, JoinFetch, In
    <3>2. f.pc \in {"fetch", "save", "window", "final"}
      BY <2>3, <2>7, <3>1 DEF PackageFrames
    <3>3. QED
      BY <2>4, <3>2
  <2>13. CASE PackageEnter \/ PackageWritten
    <3>1. Goto("manifest") \/ f = [Top EXCEPT !.pc = "makefile", !.obj = Len(objs) + 1]
      BY <2>6, <2>13 DEF PackageEnter, PackageWritten, Mark
    <3>2. f.pc \in {"manifest", "makefile"}
      BY <2>3, <2>7, <3>1 DEF PackageFrames
    <3>3. QED
      BY <2>4, <3>2
  <2>14. CASE PackageMakefile \/ PackageMakefileJoined \/ CopyOver
    <3>1. \E pc \in {"makefile fetch", "cache", "configure"} : Goto(pc)
      BY <2>14 DEF PackageMakefile, PackageMakefileJoined, CopyOver
    <3>2. QED
      BY <2>4, <2>7, <3>1
  <2>15. CASE CopyFails
    <3>1. \E pc \in {"fetch", "configure"} : f = [Top EXCEPT !.left = {}, !.pc = pc]
      BY <2>6, <2>15 DEF CopyFails
    <3>2. f.pc \in {"fetch", "configure"}
      BY <2>3, <3>1 DEF PackageFrames
    <3>3. QED
      BY <2>4, <3>2
  <2>16. CASE \/ PackageVisited \/ PackageRefused \/ PackageNoMakefile \/ PackageNotFetched
              \/ PackageNotConfigured \/ PackageDeps \/ (PackageExecuted /\ ret.rc # "ok")
    <3>1. \E rc, o : Return(rc, o)
      BY <2>16 DEF PackageVisited, PackageRefused, PackageNoMakefile, PackageNotFetched, SpawnFails,
                   PackageNotConfigured, PackageDeps, PackageExecuted, PackageReturn
    <3>2. Returns
      BY <1>1, <1>2, <1>7, <3>1, KindsOfMoves
    <3>3. QED
      BY <1>4, <3>2
  <2>17. CASE PackageConfigure \/ (PackageExecuted /\ ret.rc = "ok")
    <3>1. \E g, b : Call(g, b)
      BY <2>17 DEF PackageConfigure, PackageExecuted, CallThen
    <3>2. Calls
      BY <1>1, <1>2, <1>7, <3>1, KindsOfMoves
    <3>3. QED
      BY <1>5, <3>2
  <2>18. QED
    BY <1>7, <2>8, <2>9, <2>10, <2>11, <2>12, <2>13, <2>14, <2>15, <2>16, <2>17 DEF PackageSteps, Copies
<1>8. Top.fn = "package" => PackageSteps \/ Overflow
  BY StepsOfThePrograms, StepsOfTheLibrary
     DEF Main, LocalReads, LocalInstalled, LocalDev, NextArgument, ArgsHere, Made, Development, InstallOver, UpdateOver,
         UpgradeOver, ArgumentOver, NewLookup, NewGet, NewGiveUp, ListNext, ListMade, ListInstalled, ExecTarball,
         ExecFails, ExecDeps, ExecRun, In
<1>9. QED
  BY <1>1, <1>3, <1>4, <1>5, <1>6, <1>7, <1>8, OverflowEnds

(* Every step of the main thread keeps the types of the files.             *)
LEMMA MainKeepsFiles ==
    ASSUME InstallTypeOK, CallInv, ObjectTypeOK, Main
    PROVE  FilesTypeOK'
<1>1. DiskOK(disk) /\ CacheOK(cache) /\ CopyOK'
  BY MainKeepsCopying DEF InstallTypeOK, FilesTypeOK
<1>2. CASE UNCHANGED <<disk, cache>>
  BY <1>1, <1>2 DEF FilesTypeOK
<1>3. CASE PackageFiles
  <2>1. Top.p \in Packages /\ Top.dir \in Dirs /\ (Top.pc \in {"load", "copy"} => cache[Top.p] # NoCopy)
    BY <1>3, PackageWrites, RunningPackage
  <2>2. ASSUME NEW f \in FilesOf(Top.p), NEW v \in Worths, WritesOne(f, v) \/ CopiesOne(f, v)
        PROVE  FilesTypeOK'
    <3>1. PICK p, dir : p = Top.p /\ dir = Top.dir
      OBVIOUS
    <3>2. CASE Wrote(dir, p, f, v) /\ UNCHANGED cache
      <4>1. DiskOK(disk) /\ dir \in Dirs /\ p \in Packages
        BY <1>1, <2>1, <3>1
      <4>2. DiskOK(disk')
        BY ONLY <2>2, <3>2, <4>1, FileWritten
      <4>3. QED
        BY <1>1, <3>2, <4>2 DEF FilesTypeOK
    <3>3. CASE Top.pc = "copy" /\ cache' = [cache EXCEPT ![p][f] = v] /\ UNCHANGED disk
      <4>1. CacheOK(cache) /\ cache[p] # NoCopy /\ p \in Packages
        BY <1>1, <2>1, <3>1, <3>3
      <4>2. CacheOK(cache')
        BY ONLY <2>2, <3>3, <4>1, CopyWritten
      <4>3. QED
        BY <1>1, <3>3, <4>2 DEF FilesTypeOK
    <3>4. QED
      BY <2>2, <3>1, <3>2, <3>3 DEF WritesOne, CopiesOne
  <2>3. ASSUME CopiesNone
        PROVE  FilesTypeOK'
    <3>1. PICK g : (g = NoCopy \/ g \in Directory(Top.p)) /\ cache' = [cache EXCEPT ![Top.p] = g]
      BY <2>3 DEF CopiesNone, Directory, Worths
    <3>2. CacheOK(cache') /\ UNCHANGED disk
      BY <1>1, <2>1, <2>3, <3>1, CacheWritten DEF CopiesNone
    <3>3. QED
      BY <1>1, <3>2 DEF FilesTypeOK
  <2>4. QED
    BY <1>2, <1>3, <2>2, <2>3, PackageWrites
<1>4. QED
  BY <1>2, <1>3, StepsThatWrite

(* What a fetching thread does to the files.                               *)
LEMMA ThreadWrites ==
    ASSUME InstallTypeOK, ObjectTypeOK, NEW t \in threads,
           ThreadBegin(t) \/ ThreadOpen(t) \/ ThreadGet(t) \/ ThreadDrop(t), UNCHANGED <<stack, exit>>
    PROVE  /\ FilesTypeOK' /\ UNCHANGED cache
           /\ objs[t.obj].dir \in Dirs /\ objs[t.obj].p \in Packages
           /\ \/ UNCHANGED disk
              \/ \E v \in {"broken", "whole"} :
                    /\ Wrote(objs[t.obj].dir, objs[t.obj].p, t.file, v)
                    /\ (t.pc = "open" /\ v = "broken") \/ (t.pc = "get" /\ v = "whole")
<1>1. UNCHANGED cache
  BY DEF ThreadBegin, ThreadOpen, ThreadGet, ThreadDrop, files
<1>2. objs[t.obj].dir \in Dirs /\ objs[t.obj].p \in Packages
  <2>1. t.obj \in DOMAIN objs /\ objs \in Seq(Objects)
    BY DEF ObjectTypeOK
  <2>2. objs[t.obj] \in Objects
    BY <2>1
  <2>3. QED
    BY <2>2 DEF Objects
<1>3. DiskOK(disk) /\ CacheOK(cache) /\ CopyOK'
  BY <1>1 DEF InstallTypeOK, FilesTypeOK, CopyOK, Top
<1>4. \/ UNCHANGED disk
      \/ \E v \in {"broken", "whole"} :
            /\ Wrote(objs[t.obj].dir, objs[t.obj].p, t.file, v)
            /\ (t.pc = "open" /\ v = "broken") \/ (t.pc = "get" /\ v = "whole")
  <2>1. \A v : SetFile(t, v) => Wrote(objs[t.obj].dir, objs[t.obj].p, t.file, v)
    BY DEF SetFile, Wrote
  <2>2. CASE ThreadBegin(t) \/ ThreadDrop(t)
    BY <2>2 DEF ThreadBegin, ThreadDrop, files
  <2>3. CASE ThreadOpen(t)
    <3>1. t.pc = "open" /\ (UNCHANGED disk \/ SetFile(t, "broken"))
      BY <2>3 DEF ThreadOpen
    <3>2. SetFile(t, "broken") => Wrote(objs[t.obj].dir, objs[t.obj].p, t.file, "broken")
      BY <2>1
    <3>3. QED
      BY ONLY <3>1, <3>2
  <2>4. CASE ThreadGet(t)
    <3>1. t.pc = "get" /\ (UNCHANGED disk \/ SetFile(t, "whole"))
      BY <2>4 DEF ThreadGet
    <3>2. SetFile(t, "whole") => Wrote(objs[t.obj].dir, objs[t.obj].p, t.file, "whole")
      BY <2>1
    <3>3. QED
      BY ONLY <3>1, <3>2
  <2>5. QED
    BY <2>2, <2>3, <2>4
<1>5. DiskOK(disk')
  <2>1. {"broken", "whole"} \subseteq Worths
    BY DEF Worths
  <2>2. QED
    BY <1>2, <1>3, <1>4, <2>1, FileWritten
<1>6. QED
  BY <1>1, <1>2, <1>3, <1>4, <1>5 DEF FilesTypeOK

(* What the user does to them.                                             *)
LEMMA UserKeepsFiles ==
    ASSUME InstallTypeOK, User
    PROVE  FilesTypeOK'
<1>1. UNCHANGED cache /\ (UNCHANGED disk \/ disk' = [disk EXCEPT !["deps"] = Nothing])
  BY DEF User, StartInstall, StartUpdate, StartUpgrade, Start, TimePasses, Clean, Kill, files
<1>2. DOMAIN Nothing = Packages /\ \A p \in Packages : Nothing[p] \in Directory(p)
  BY DEF Nothing, Directory, Worths
<1>3. ASSUME disk' = [disk EXCEPT !["deps"] = Nothing]
      PROVE  DiskOK(disk')
  BY <1>2, <1>3 DEF InstallTypeOK, FilesTypeOK, DiskOK
<1>4. exit' = "running" => \E f : stack' = <<f>> /\ f.pc \in {"read", "next"}
  BY DEF User, StartInstall, StartUpdate, StartUpgrade, Start, TimePasses, Clean, Kill, Between, Finish, LocalFrame, ArgsFrame
<1>5. CopyOK'
  BY <1>4 DEF CopyOK, Top
<1>6. QED
  BY <1>1, <1>3, <1>5 DEF InstallTypeOK, FilesTypeOK

(* Nothing is installed and nothing is cached at the start.                *)
LEMMA InitFiles ==
    ASSUME Init
    PROVE  FilesTypeOK
<1>1. DOMAIN Nothing = Packages /\ \A p \in Packages : Nothing[p] \in Directory(p)
  BY DEF Nothing, Directory, Worths
<1>2. disk = [d \in Dirs |-> Nothing] /\ cache = [p \in Packages |-> NoCopy] /\ exit = "zero"
  BY DEF Init
<1>3. DiskOK(disk)
  BY <1>1, <1>2 DEF DiskOK
<1>4. CacheOK(cache) /\ CopyOK
  BY <1>2 DEF CacheOK, CopyOK
<1>5. QED
  BY <1>3, <1>4 DEF FilesTypeOK

-----------------------------------------------------------------------------
(* The invariant of the calls and the objects.                             *)
InstallInv == InstallTypeOK /\ CallInv /\ ObjectTypeOK /\ ObjectInv

(* A new command: one frame, no objects.                                   *)
LEMMA StartKeeps ==
    ASSUME InstallInv, NEW c \in Commands, StartInstall(c) \/ StartUpdate(c) \/ StartUpgrade(c)
    PROVE  InstallInv'
<1>a. <<1, 2>> \in Tries /\ LocalFrame(<<1, 2>>).tries = <<1, 2>>
  BY DEF Tries, LocalFrame
<1>1. PICK f \in {LocalFrame(<<1, 2>>), ArgsFrame(c.args)} : Start(c, f) /\ (f = LocalFrame(<<1, 2>>) => c.args = <<>>)
  BY DEF StartInstall, StartUpdate, StartUpgrade, LocalFrame, ArgsFrame
<1>2. c.args \in Seq(Packages \cup {Here} \cup DOMAIN Regular)
  BY CInstallCommands DEF Packages
<1>3. /\ LocalFrame(<<1, 2>>) \in Frames /\ ArgsFrame(c.args) \in Frames
      /\ LocalFrame(<<1, 2>>).fn = "local" /\ LocalFrame(<<1, 2>>).pc = "read"
      /\ ArgsFrame(c.args).fn = "args" /\ ArgsFrame(c.args).pc = "next"
      /\ ArgsFrame(c.args).todo = c.args /\ ArgsFrame(c.args).obj = 0
  <2>1. LocalFrame(<<1, 2>>) \in Frames /\ ArgsFrame(c.args) \in Frames
    BY <1>2, <1>a, NewFramesFit DEF Frames
  <2>2. QED
    BY <2>1 DEF LocalFrame, ArgsFrame
<1>4. /\ cmd' = c /\ exit' = "running" /\ stack' = <<f>> /\ ret' = NoRet /\ objs' = <<>> /\ threads' = {}
      /\ UNCHANGED <<jsons, local>>
  BY <1>1 DEF Start, files
<1>5. PICK s \in Seq(Frames) : s = stack' /\ Len(s) = 1 /\ DOMAIN s = 1 .. 1 /\ s[1] = f /\ s # <<>> /\ Head(s) = f
  <2>1. <<f>> \in Seq(Frames) /\ Len(<<f>>) = 1 /\ DOMAIN <<f>> = 1 .. 1 /\ <<f>>[1] = f /\ <<f>> # <<>> /\ Head(<<f>>) = f
    BY <1>1, <1>3
  <2>2. QED
    BY <1>4, <2>1
<1>6. NoRet \in [rc : Results, obj : Nat] /\ NoRet.obj = 0
  BY DEF NoRet, Results
<1>7. InstallTypeOK'
  <2>1. FilesTypeOK'
    BY UserKeepsFiles DEF InstallInv, User
  <2>2. QED
    BY <1>4, <1>5, <1>6, <2>1 DEF InstallInv, InstallTypeOK, Endings
<1>8. CallInv'
  <2>1. FrameOK(f)' /\ f.fn \in {"local", "args"} /\ (f.fn = "local" => c.args = <<>>) /\ f.pc # "made"
    BY <1>1, <1>3, <1>4, <1>a DEF FrameOK
  <2>2. QED
    BY <1>4, <1>5, <2>1 DEF CallInv, FrameOK, Answered
<1>9. ObjectTypeOK'
  <2>1. <<>> \in Seq(Objects)
    OBVIOUS
  <2>2. QED
    BY <1>4, <2>1 DEF ObjectTypeOK
<1>10. ObjectInv'
  <2>1. ~Installs(f) /\ f.fn # "list" /\ (f.fn = "args" => f.obj = 0)
    BY <1>1, <1>3 DEF Installs
  <2>2. QED
    BY <1>4, <1>5, <1>6, <2>1 DEF ObjectInv, Installs, LeftAlone
<1>11. QED
  BY <1>7, <1>8, <1>9, <1>10 DEF InstallInv

(* Between two commands, and a command that is killed.                     *)
LEMMA UserKeeps ==
    ASSUME InstallInv, TimePasses \/ Clean \/ Kill
    PROVE  InstallInv'
<1>0. FilesTypeOK'
  BY UserKeepsFiles DEF InstallInv, User
<1>1. CASE TimePasses \/ Clean
  <2>1. exit' = "idle" /\ UNCHANGED <<cmd, stack, ret, jsons, local, objs, threads>>
    BY <1>1 DEF TimePasses, Clean, Between, process
  <2>2. QED
    BY <1>0, <2>1 DEF InstallInv, InstallTypeOK, CallInv, ObjectTypeOK, ObjectInv, Endings
<1>2. CASE Kill
  <2>1. exit' = "killed" /\ stack' = <<>> /\ ret' = NoRet /\ UNCHANGED <<cmd, jsons, local, objs, threads>>
    BY <1>2 DEF Kill, Finish, files, process
  <2>2. <<>> \in Seq(Frames) /\ NoRet \in [rc : Results, obj : Nat]
    BY DEF NoRet, Results
  <2>3. QED
    BY <1>0, <2>1, <2>2 DEF InstallInv, InstallTypeOK, CallInv, ObjectTypeOK, ObjectInv, Endings
<1>3. QED
  BY <1>1, <1>2

(* Every step keeps the invariant of the calls and the objects.             *)
LEMMA StepKeepsInstallInv ==
    ASSUME InstallInv, [Next]_vars
    PROVE  InstallInv'
<1>1. CASE Main
  <2>1. ObjectsFollow /\ ObjectTypeOK' /\ MainMove /\ jsons' \subseteq {p \in Packages : Pkg[p].parses}
    BY <1>1, MainObjects, MainMoves DEF InstallInv
  <2>2. exit = "running" /\ cmd' = cmd
    BY <2>1 DEF MainMove
  <2>3. ObjectInv'
    BY <2>1, <2>2, ObjMovesKeep DEF InstallInv
  <2>4. exit' \in Endings /\ stack' \in Seq(Frames) /\ ret' \in [rc : Results, obj : Nat] /\ CallInv'
    BY <2>1, MovesKeepTheStack DEF InstallInv
  <2>5. InstallTypeOK'
    BY <1>1, <2>1, <2>2, <2>4, MainKeepsFiles DEF InstallInv, InstallTypeOK, MainMove
  <2>6. QED
    BY <2>1, <2>3, <2>4, <2>5 DEF InstallInv
<1>2. CASE Threads
  <2>1. UNCHANGED <<stack, ret, exit, cmd, jsons, local>>
    BY <1>2 DEF Threads, ThreadBegin, ThreadOpen, ThreadGet, ThreadDrop, files
  <2>2. PICK t \in threads : ThreadBegin(t) \/ ThreadOpen(t) \/ ThreadGet(t) \/ ThreadDrop(t)
    BY <1>2 DEF Threads
  <2>3. ObjectTypeOK' /\ ObjectInv'
    BY <2>1, <2>2, ThreadMoves, ThreadsKeepObjects DEF InstallInv
  <2>4. InstallTypeOK' /\ CallInv'
    BY <2>1, <2>2, ThreadWrites DEF InstallInv, InstallTypeOK, CallInv, FrameOK, CalledBy, Answered
  <2>5. QED
    BY <2>3, <2>4 DEF InstallInv
<1>3. CASE User
  BY <1>3, StartKeeps, UserKeeps DEF User
<1>4. CASE UNCHANGED vars
  <2>1. UNCHANGED <<stack, ret, exit, cmd, jsons, local, objs, threads, disk, cache>>
    BY <1>4 DEF vars, files, process
  <2>2. QED
    BY <2>1 DEF InstallInv, InstallTypeOK, FilesTypeOK, CopyOK, Top, CallInv, FrameOK, CalledBy, Answered, ObjectTypeOK, ObjectInv, Installs, LeftAlone
<1>5. QED
  BY <1>1, <1>2, <1>3, <1>4 DEF Next

(* It holds at the start.                                                   *)
LEMMA InitInstallInv ==
    ASSUME Init
    PROVE  InstallInv
<1>1. /\ exit = "zero" /\ stack = <<>> /\ ret = NoRet /\ cmd \in Commands /\ jsons = {} /\ local = LocalDeps
      /\ objs = <<>> /\ threads = {}
  BY CInstallCommands DEF Init
<1>2. <<>> \in Seq(Frames) /\ NoRet \in [rc : Results, obj : Nat] /\ <<>> \in Seq(Objects)
  BY DEF NoRet, Results
<1>3. \A k \in DOMAIN local : local[k] \in [deps : Seq(Packages), dev : Seq(Packages)]
  BY <1>1, CInstallLocal DEF Packages
<1>4. QED
  BY <1>1, <1>2, <1>3, InitFiles DEF InstallInv, InstallTypeOK, CallInv, ObjectTypeOK, ObjectInv, Endings

(* Every function runs because of the one below it on the stack, up to the *)
(* program that was started; every package that is being installed has an  *)
(* object of its own, which stays in use and is known to nobody else until *)
(* clib_package_install returns.                                           *)
THEOREM CallsAndObjects == Spec => []InstallInv
<1>1. Init => InstallInv
  BY InitInstallInv
<1>2. InstallInv /\ [Next]_vars => InstallInv'
  BY StepKeepsInstallInv
<1>3. QED
  BY <1>1, <1>2, PTL DEF Spec

-----------------------------------------------------------------------------
(* The threads of a package.                                               *)

(* What went wrong is not forgotten.                                       *)
LEMMA FaultsStay ==
    ASSUME Main \/ Threads
    PROVE  faults \subseteq faults'
<1>1. \A kind : Fail(kind) => faults \subseteq faults'
  BY DEF Fail
<1>2. UNCHANGED history => faults \subseteq faults'
  BY DEF history
<1>3. UNCHANGED faults => faults \subseteq faults'
  OBVIOUS
<1>4. CASE LocalReads \/ LocalInstalled \/ LocalDev
  BY <1>2, <1>4 DEF LocalReads, LocalInstalled, LocalDev
<1>5. CASE \/ NextArgument \/ ArgsHere \/ (\E dir \in Dirs : Made(dir)) \/ Development
           \/ InstallOver \/ UpdateOver \/ UpgradeOver
  BY <1>2, <1>5 DEF NextArgument, ArgsHere, Made, Development, InstallOver, UpdateOver, UpgradeOver
<1>6. CASE NewLookup \/ NewGet \/ NewGiveUp
  BY <1>1, <1>2, <1>3, <1>6 DEF NewLookup, NewGet, NewGiveUp
<1>7. CASE ListNext \/ ListMade \/ ListInstalled
  BY <1>2, <1>7 DEF ListNext, ListMade, ListInstalled
<1>8. CASE PackageSteps
  <2>1. CASE PackageVisited \/ PackageRefused \/ PackageEnter \/ PackageWritten \/ PackageCache \/ PackageSave \/ Copies
    BY <1>1, <1>2, <1>3, <2>1 DEF PackageVisited, PackageRefused, PackageEnter, PackageWritten, PackageCache, PackageSave,
       Copies, CopyOpen, CopyWrite, CopyFails, CopyOver
  <2>2. CASE \/ PackageMakefile \/ PackageNoMakefile \/ PackageMakefileJoined \/ PackageFetch \/ PackageNotFetched
             \/ PackageWindow \/ PackageFinal \/ PackageConfigure \/ PackageNotConfigured \/ PackageExecuted \/ PackageDeps
    BY <1>1, <1>2, <1>3, <2>2 DEF PackageMakefile, PackageNoMakefile, PackageMakefileJoined, PackageFetch, PackageNotFetched,
       PackageWindow, PackageFinal, JoinFetch, SpawnFails, PackageConfigure, PackageNotConfigured, PackageExecuted, PackageDeps
  <2>3. QED
    BY <1>8, <2>1, <2>2 DEF PackageSteps
<1>9. CASE ExecTarball \/ ExecFails \/ ExecDeps \/ ExecRun
  BY <1>1, <1>2, <1>9 DEF ExecTarball, ExecFails, ExecDeps, ExecRun
<1>10. CASE Threads
  BY <1>1, <1>2, <1>3, <1>10 DEF Threads, ThreadBegin, ThreadOpen, ThreadGet, ThreadDrop
<1>11. CASE Overflow
  BY <1>2, <1>11, OverflowEnds
<1>12. QED
  BY <1>4, <1>5, <1>6, <1>7, <1>8, <1>9, <1>10, <1>11, StepsOfThePrograms, StepsOfTheLibrary DEF Main

(* A thread keeps its package.                                             *)
LEMMA AttachedAsBefore ==
    ASSUME ObjectTypeOK, ObjectsFollow, exit' = "running", NEW t \in threads
    PROVE  Attached(t)' <=> Attached(t)
<1>1. t.obj \in DOMAIN objs
  BY DEF ObjectTypeOK
<1>2. ~Ends
  BY DEF Ends, Finish
<1>3. objs'[t.obj].p = objs[t.obj].p
  BY <1>1, <1>2 DEF ObjectsFollow, ObjsMove
<1>4. QED
  BY <1>3 DEF Attached, Joined

(* The object of the package that is being installed.                      *)
LEMMA PackageHasObject ==
    ASSUME InstallInv, exit = "running", Installs(Top)
    PROVE  /\ Top.obj \in DOMAIN objs /\ objs[Top.obj].state = "used"
           /\ objs[Top.obj].p = Top.p /\ objs[Top.obj].dir = Top.dir
<1>1. 1 \in DOMAIN stack /\ Top = stack[1]
  BY RunningFrame DEF InstallInv, InstallTypeOK
<1>2. Installs(stack[1])
  BY <1>1 DEF Installs
<1>3. QED
  BY <1>1, <1>2 DEF InstallInv, ObjectInv

(* The slots of a window when one is added or removed.                     *)
LEMMA RangeOfAppend ==
    ASSUME NEW S, NEW s \in Seq(S), NEW x \in S
    PROVE  Range(Append(s, x)) = Range(s) \cup {x}
<1>1. /\ Len(s) \in Nat /\ DOMAIN s = 1 .. Len(s) /\ DOMAIN Append(s, x) = 1 .. Len(s) + 1
      /\ Append(s, x)[Len(s) + 1] = x
  OBVIOUS
<1>2. \A i \in 1 .. Len(s) : Append(s, x)[i] = s[i]
  OBVIOUS
<1>3. 1 .. Len(s) + 1 = (1 .. Len(s)) \cup {Len(s) + 1}
  BY <1>1
<1>4. QED
  BY <1>1, <1>2, <1>3 DEF Range

(* The last slot is the only one that leaves a window.                      *)
LEMMA RangeOfFront ==
    ASSUME NEW S, NEW s \in Seq(S), s # <<>>
    PROVE  Range(s) \subseteq Range(Front(s)) \cup {Last(s)}
<1>1. /\ Front(s) \in Seq(S) /\ Len(Front(s)) = Len(s) - 1 /\ Len(s) \in Nat \ {0}
      /\ \A i \in 1 .. Len(s) - 1 : Front(s)[i] = s[i]
      /\ Last(s) = s[Len(s)]
  BY FrontAndLast
<1>2. DOMAIN s = 1 .. Len(s) /\ DOMAIN Front(s) = 1 .. Len(s) - 1
  BY <1>1
<1>3. \A i \in 1 .. Len(s) : i = Len(s) \/ i \in 1 .. Len(s) - 1
  BY <1>1
<1>4. QED
  BY <1>1, <1>2, <1>3 DEF Range

(* As long as no thread was refused, the function that runs waits for      *)
(* every thread of a package with room for all of them.                    *)
LEMMA NoneIsAttached ==
    ASSUME ObjectTypeOK, ObjectsFollow, threads' \subseteq threads, \A t \in threads : ~Attached(t)
    PROVE  WindowInv'
BY AttachedAsBefore DEF WindowInv

(* Outside of the places where threads are awaited none is attached.        *)
LEMMA OthersKeepWindows ==
    ASSUME InstallInv, WindowInv, exit = "running", "spawn" \notin faults, ObjectsFollow, threads' \subseteq threads,
           ~(Top.fn = "package" /\ Top.pc \in {"makefile fetch", "fetch", "window", "final"})
    PROVE  WindowInv'
<1>1. \A t \in threads : ~Attached(t)
  BY DEF WindowInv, Installs, Awaited, Top
<1>2. QED
  BY <1>1, NoneIsAttached DEF InstallInv

(* clib_package_install awaits every thread it creates.                     *)
LEMMA PackageKeepsWindows ==
    ASSUME InstallInv, WindowInv, "spawn" \notin faults, "spawn" \notin faults', ObjectsFollow, PackageSteps
    PROVE  WindowInv'
<1>1. /\ exit = "running" /\ Top.fn = "package" /\ stack \in Seq(Frames) /\ stack # <<>> /\ Top \in PackageFrames
      /\ FrameOK(Top) /\ Top.p \in Packages /\ Top.next \in Nat \ {0} /\ Top.window \in Seq(Nat) /\ Top.obj \in Nat
  <2>1. exit = "running" /\ Top.fn = "package" /\ stack \in Seq(Frames) /\ stack # <<>> /\ Top \in PackageFrames /\ FrameOK(Top)
    BY PackageStepsRun, RunningFrame, FrameKinds DEF InstallInv, InstallTypeOK
  <2>2. QED
    BY <2>1 DEF PackageFrames
<1>2. /\ \A t \in threads : Attached(t) => t.obj = Top.obj /\ Awaited(t.slot, Top)
      /\ \A t, u \in threads : Attached(t) /\ t.obj = u.obj /\ t.slot = u.slot => t = u
  BY <1>1 DEF WindowInv, Top
<1>3. \A t, u \in threads : t.obj = u.obj => (Attached(t) <=> Attached(u))
  BY DEF Attached
<1>4. ASSUME exit' = "running", NEW t \in threads
      PROVE  Attached(t)' <=> Attached(t)
  BY <1>4, AttachedAsBefore DEF InstallInv
<1>5. ASSUME NEW t, t \in threads, t.obj = Top.obj, NEW f, Stay(f), Installs(f), f.obj = Top.obj,
             threads' = threads \ {t},
             \A slot : Awaited(slot, Top) => slot = t.slot \/ Awaited(slot, f)
      PROVE  WindowInv'
  <2>1. Head(stack') = f /\ exit' = "running"
    BY <1>1, <1>5, HeadAfterStay DEF Stay
  <2>2. ASSUME NEW u \in threads', Attached(u)'
        PROVE  u.obj = f.obj /\ Awaited(u.slot, f)
    <3>1. u \in threads /\ u # t /\ Attached(u)
      BY <1>4, <1>5, <2>1, <2>2
    <3>2. u.obj = Top.obj /\ Awaited(u.slot, Top)
      BY <1>2, <3>1
    <3>3. u.slot # t.slot
      BY <1>2, <1>5, <3>1, <3>2
    <3>4. QED
      BY <1>5, <3>2, <3>3
  <2>3. \A u, v \in threads' : Attached(u)' /\ u.obj = v.obj /\ u.slot = v.slot => u = v
    BY <1>2, <1>4, <1>5, <2>1
  <2>4. QED
    BY <1>5, <2>1, <2>2, <2>3 DEF WindowInv, Installs, Awaited
<1>6. ASSUME NEW f, Stay(f), Installs(f), f.obj = Top.obj, NEW slot, NEW name, Spawn(slot, name),
             Installs(Top), ~Awaited(slot, Top), \A s : Awaited(s, Top) => Awaited(s, f),
             Joined(objs[Top.obj].p) => Awaited(slot, f)
      PROVE  WindowInv'
  <2>1. Head(stack') = f /\ exit' = "running"
    BY <1>1, <1>6, HeadAfterStay DEF Stay
  <2>2. PICK t : t.obj = Top.obj /\ t.slot = slot /\ threads' = threads \cup {t}
    BY <1>6 DEF Spawn
  <2>3. Attached(t)' => Joined(objs[Top.obj].p)
    <3>1. \A o \in DOMAIN objs : objs'[o].p = objs[o].p
      <4>1. ~Ends
        BY <2>1 DEF Ends, Finish
      <4>2. QED
        BY <4>1 DEF ObjectsFollow, ObjsMove
    <3>2. Top.obj \in DOMAIN objs
      BY <1>1, <1>6, PackageHasObject
    <3>3. QED
      BY <2>2, <3>1, <3>2 DEF Attached, Joined
  <2>4. ASSUME NEW u \in threads', Attached(u)'
        PROVE  u.obj = f.obj /\ Awaited(u.slot, f)
    <3>1. CASE u = t
      BY <1>6, <2>2, <2>3, <2>4, <3>1
    <3>2. CASE u \in threads
      BY <1>2, <1>4, <1>6, <2>1, <2>4, <3>2
    <3>3. QED
      BY <2>2, <3>1, <3>2
  <2>5. ASSUME NEW u \in threads', NEW v \in threads', Attached(u)', u.obj = v.obj, u.slot = v.slot
        PROVE  u = v
    <3>1. CASE u \in threads /\ v \in threads
      BY <1>2, <1>4, <2>1, <2>5, <3>1
    <3>2. CASE u = t /\ v \in threads
      <4>1. Attached(v)'
        BY <2>5 DEF Attached
      <4>2. Awaited(v.slot, Top)
        BY <1>2, <1>4, <2>1, <3>2, <4>1
      <4>3. QED
        BY <1>6, <2>2, <2>5, <3>2, <4>2
    <3>3. CASE v = t /\ u \in threads
      <4>1. Awaited(u.slot, Top)
        BY <1>2, <1>4, <2>1, <2>5, <3>3
      <4>2. QED
        BY <1>6, <2>2, <2>5, <3>3, <4>1
    <3>4. QED
      BY <2>2, <3>1, <3>2, <3>3
  <2>6. QED
    BY <1>6, <2>1, <2>4, <2>5 DEF WindowInv, Installs, Awaited
<1>7. ASSUME NEW slot, NEW f, Join(slot), Stay(f), Installs(f), f.obj = Top.obj,
             \A s : Awaited(s, Top) => s = slot \/ Awaited(s, f)
      PROVE  WindowInv'
  <2>1. PICK t \in threads : t.obj = Top.obj /\ t.slot = slot /\ threads' = threads \ {t}
    BY <1>7 DEF Join
  <2>2. QED
    BY <1>5, <1>7, <2>1
<1>8. ASSUME NEW f, Stay(f), Installs(f), f.obj = Top.obj, UNCHANGED threads,
             \A s : Awaited(s, Top) => Awaited(s, f)
      PROVE  WindowInv'
  <2>1. Head(stack') = f /\ exit' = "running"
    BY <1>1, <1>8, HeadAfterStay DEF Stay
  <2>2. QED
    BY <1>2, <1>4, <1>8, <2>1 DEF WindowInv, Installs, Awaited
<1>9. ASSUME NEW pc \in PackagePlaces
      PROVE  LET f == [Top EXCEPT !.pc = pc]
             IN f.fn = "package" /\ f.pc = pc /\ f.obj = Top.obj /\ f.window = Top.window
  BY <1>1 DEF PackageFrames
<1>10. CASE \/ PackageVisited \/ PackageRefused \/ PackageEnter \/ PackageWritten \/ PackageCache \/ PackageSave
            \/ Copies \/ PackageConfigure \/ PackageNotConfigured \/ PackageExecuted \/ PackageDeps
  <2>1. Top.pc \notin {"makefile fetch", "fetch", "window", "final"}
    BY <1>10 DEF PackageVisited, PackageRefused, PackageEnter, PackageWritten, Enters, PackageCache, PackageSave, Copies,
       CopyOpen, CopyWrite, CopyFails, CopyOver, Copying, PackageConfigure, PackageNotConfigured, PackageExecuted, PackageDeps, In
  <2>2. UNCHANGED threads
    BY <1>10 DEF PackageVisited, PackageRefused, PackageEnter, PackageWritten, Enters, PackageCache, PackageSave, Copies,
       CopyOpen, CopyWrite, CopyFails, CopyOver, Copying, PackageConfigure, PackageNotConfigured, PackageExecuted, PackageDeps, process
  <2>3. QED
    BY <1>1, <2>1, <2>2, OthersKeepWindows
<1>11. CASE PackageNoMakefile \/ PackageNotFetched
  BY <1>11 DEF PackageNoMakefile, PackageNotFetched, SpawnFails, Fail
<1>12. CASE PackageMakefile
  <2>1. Top.pc = "makefile"
    BY <1>12 DEF PackageMakefile, In
  <2>2. CASE UNCHANGED threads
    BY <1>1, <2>1, <2>2, OthersKeepWindows
  <2>3. CASE Spawn(MakefileSlot, "Makefile") /\ Goto("makefile fetch")
    <3>1. PICK f : /\ Stay(f) /\ f.fn = "package" /\ f.pc = "makefile fetch" /\ f.obj = Top.obj
      <4>1. "makefile fetch" \in PackagePlaces
        BY DEF PackagePlaces, Fetching
      <4>2. QED
        BY <1>9, <2>3, <4>1 DEF Goto
    <3>2. \A s : ~Awaited(s, Top)
      BY <2>1 DEF Awaited
    <3>3. Awaited(MakefileSlot, f)
      BY <3>1 DEF Awaited
    <3>4. QED
      BY <1>1, <1>6, <2>1, <2>3, <3>1, <3>2, <3>3 DEF Installs
  <2>4. QED
    BY <1>12, <2>2, <2>3 DEF PackageMakefile
<1>13. CASE PackageMakefileJoined
  <2>1. Top.pc = "makefile fetch" /\ Join(MakefileSlot) /\ Goto("cache")
    BY <1>13 DEF PackageMakefileJoined, In
  <2>2. PICK f : Stay(f) /\ f.fn = "package" /\ f.pc = "cache" /\ f.obj = Top.obj
    <3>1. "cache" \in PackagePlaces
      BY DEF PackagePlaces, Fetching
    <3>2. QED
      BY <1>9, <2>1, <3>1 DEF Goto
  <2>3. \A s : Awaited(s, Top) => s = MakefileSlot
    BY <2>1 DEF Awaited
  <2>4. QED
    BY <1>7, <2>1, <2>2, <2>3 DEF Installs
<1>14. ASSUME NEW pc \in {"window", "final"}, NEW then \in {"fetch", "save"}, JoinFetch(pc, then)
       PROVE  WindowInv'
  <2>1. Top.pc = pc
    BY <1>14 DEF JoinFetch, In
  <2>2. CASE Top.window = <<>>
    <3>1. Goto(then) /\ UNCHANGED threads
      BY <1>14, <2>2 DEF JoinFetch
    <3>2. PICK f : Stay(f) /\ f.fn = "package" /\ f.pc = then /\ f.obj = Top.obj
      <4>1. then \in PackagePlaces
        BY DEF PackagePlaces, Fetching
      <4>2. PICK f : f = [Top EXCEPT !.pc = then] /\ f.fn = "package" /\ f.pc = then /\ f.obj = Top.obj
        BY <1>9, <4>1
      <4>3. QED
        BY <3>1, <4>2 DEF Goto
    <3>3. \A s : ~Awaited(s, Top)
      <4>1. Range(<<>>) = {}
        BY DEF Range
      <4>2. QED
        BY <1>14, <2>1, <2>2, <4>1 DEF Awaited
    <3>4. QED
      BY <1>8, <1>14, <3>1, <3>2, <3>3 DEF Installs
  <2>3. CASE Top.window # <<>>
    <3>1. Join(Last(Top.window)) /\ Stay([Top EXCEPT !.window = Front(@)])
      BY <1>14, <2>3 DEF JoinFetch
    <3>2. PICK f : /\ Stay(f) /\ f.fn = "package" /\ f.pc = Top.pc /\ f.obj = Top.obj /\ f.window = Front(Top.window)
      BY <1>1, <3>1 DEF PackageFrames
    <3>3. Range(Top.window) \subseteq Range(Front(Top.window)) \cup {Last(Top.window)}
      BY <1>1, <2>3, RangeOfFront
    <3>4. \A s : Awaited(s, Top) => s = Last(Top.window) \/ Awaited(s, f)
      BY <1>14, <2>1, <3>2, <3>3 DEF Awaited
    <3>5. Installs(f)
      BY <1>14, <2>1, <3>2 DEF Installs
    <3>6. QED
      BY <1>7, <3>1, <3>2, <3>4, <3>5
  <2>4. QED
    BY <2>2, <2>3
<1>15. CASE PackageWindow \/ PackageFinal
  BY <1>14, <1>15 DEF PackageWindow, PackageFinal
<1>16. CASE PackageFetch
  <2>0. Top.pc = "fetch"
    BY <1>16 DEF PackageFetch, In
  <2>1. CASE Top.next > Len(Pkg[Top.p].src)
    <3>1. Goto("final") /\ UNCHANGED threads
      BY <1>16, <2>1 DEF PackageFetch
    <3>2. PICK f : Stay(f) /\ f.fn = "package" /\ f.pc = "final" /\ f.obj = Top.obj /\ f.window = Top.window
      <4>1. "final" \in PackagePlaces
        BY DEF PackagePlaces, Fetching
      <4>2. QED
        BY <1>9, <3>1, <4>1 DEF Goto
    <3>3. \A s : Awaited(s, Top) => Awaited(s, f)
      BY <2>0, <3>2 DEF Awaited
    <3>4. QED
      BY <1>8, <3>1, <3>2, <3>3 DEF Installs
  <2>2. CASE ~(Top.next > Len(Pkg[Top.p].src))
    <3>1. PICK room \in BOOLEAN : room <=> Len(Top.window) < Concurrency
      OBVIOUS
    <3>2. PICK next, pc, window :
             /\ next = Top.next + 1 /\ pc = (IF room THEN "fetch" ELSE "window")
             /\ window = IF room THEN Append(Top.window, Top.next) ELSE Top.window
      OBVIOUS
    <3>3. Spawn(Top.next, Pkg[Top.p].src[Top.next]) /\ Stay([Top EXCEPT !.next = next, !.pc = pc, !.window = window])
      BY <1>16, <2>2, <3>1, <3>2 DEF PackageFetch
    <3>4. PICK f : Stay(f) /\ f.fn = "package" /\ f.pc = pc /\ f.obj = Top.obj /\ f.window = window
      <4>1. PICK f : f = [Top EXCEPT !.next = next, !.pc = pc, !.window = window]
        OBVIOUS
      <4>2. f.fn = "package" /\ f.pc = pc /\ f.obj = Top.obj /\ f.window = window
        BY <1>1, <4>1 DEF PackageFrames
      <4>3. QED
        BY <3>3, <4>1, <4>2
    <3>5. /\ room => Range(window) = Range(Top.window) \cup {Top.next}
          /\ ~room => Range(window) = Range(Top.window)
      BY <1>1, <3>2, RangeOfAppend
    <3>6. ~Awaited(Top.next, Top)
      <4>1. \A k \in DOMAIN Top.window : Top.window[k] \in 1 .. Top.next - 1
        BY <1>1 DEF FrameOK
      <4>2. Top.next \notin Range(Top.window)
        BY <1>1, <4>1 DEF Range
      <4>3. QED
        BY <2>0, <4>2 DEF Awaited
    <3>7. \A s : Awaited(s, Top) => Awaited(s, f)
      BY <2>0, <3>2, <3>4, <3>5 DEF Awaited
    <3>8. ASSUME Joined(objs[Top.obj].p)
          PROVE  Awaited(Top.next, f)
      <4>1. objs[Top.obj].p = Top.p
        BY <1>1, <2>0, PackageHasObject DEF Installs
      <4>2. Len(Pkg[Top.p].src) <= Concurrency /\ Len(Pkg[Top.p].src) \in Nat
        BY <1>1, <3>8, <4>1, CInstallManifests DEF Joined
      <4>3. Len(Top.window) < Top.next /\ Len(Top.window) \in Nat
        BY <1>1 DEF FrameOK
      <4>4. room
        BY <1>1, <2>2, <3>1, <4>2, <4>3, CInstallAssumption
      <4>5. QED
        BY <3>2, <3>4, <3>5, <4>4 DEF Awaited
    <3>9. Installs(f) /\ Installs(Top)
      BY <1>1, <2>0, <3>2, <3>4 DEF Installs
    <3>10. QED
      BY <1>6, <3>3, <3>4, <3>6, <3>7, <3>8, <3>9
  <2>3. QED
    BY <2>1, <2>2
<1>17. QED
  BY <1>10, <1>11, <1>12, <1>13, <1>15, <1>16 DEF PackageSteps

(* A thread keeps its object and its slot.                                  *)
LEMMA ThreadsKeepWindows ==
    ASSUME InstallInv, WindowInv, Threads
    PROVE  WindowInv'
<1>1. PICK t \in threads : ThreadBegin(t) \/ ThreadOpen(t) \/ ThreadGet(t) \/ ThreadDrop(t)
  BY DEF Threads
<1>2. ThreadMove(t)
  BY <1>1, ThreadMoves DEF InstallInv
<1>3. PICK u \in Fetchers : u.obj = t.obj /\ u.slot = t.slot /\ threads' = (threads \ {t}) \cup {u}
  BY <1>2 DEF ThreadMove
<1>4. UNCHANGED <<stack, exit>> /\ faults \subseteq faults'
  BY FaultsStay DEF Threads
<1>5. \A x \in threads : x.obj \in DOMAIN objs
  BY DEF InstallInv, ObjectTypeOK
<1>6. ASSUME NEW x \in threads'
      PROVE  \E y \in threads : /\ y.obj = x.obj /\ y.slot = x.slot /\ (Attached(x)' <=> Attached(y))
                                /\ ((x = u /\ y = t) \/ (x = y /\ y # t))
  <2>1. PICK y \in threads : y.obj = x.obj /\ y.slot = x.slot /\ ((x = u /\ y = t) \/ (x = y /\ y # t))
    BY <1>3
  <2>2. objs'[y.obj].p = objs[y.obj].p
    BY <1>2, <1>5 DEF ThreadMove
  <2>3. Attached(x)' <=> Joined(objs'[x.obj].p)
    BY DEF Attached, Joined
  <2>4. Attached(y) <=> Joined(objs[y.obj].p)
    BY DEF Attached
  <2>5. objs'[x.obj].p = objs[y.obj].p
    BY <2>1, <2>2
  <2>6. Attached(x)' <=> Attached(y)
    BY <2>3, <2>4, <2>5
  <2>7. QED
    BY <2>1, <2>6
<1>7. CASE exit = "running" /\ "spawn" \notin faults
  <2>1. /\ \A x \in threads : Attached(x) =>
              Installs(Head(stack)) /\ x.obj = Head(stack).obj /\ Awaited(x.slot, Head(stack))
        /\ \A x, y \in threads : Attached(x) /\ x.obj = y.obj /\ x.slot = y.slot => x = y
    BY <1>7 DEF WindowInv
  <2>2. \A x \in threads' : Attached(x)' =>
              Installs(Head(stack)) /\ x.obj = Head(stack).obj /\ Awaited(x.slot, Head(stack))
    BY <1>6, <2>1
  <2>3. ASSUME NEW x \in threads', NEW y \in threads', Attached(x)', x.obj = y.obj, x.slot = y.slot
        PROVE  x = y
    <3>1. PICK v \in threads : /\ v.obj = x.obj /\ v.slot = x.slot /\ (Attached(x)' <=> Attached(v))
                               /\ ((x = u /\ v = t) \/ (x = v /\ v # t))
      BY <1>6
    <3>2. PICK w \in threads : /\ w.obj = y.obj /\ w.slot = y.slot
                               /\ ((y = u /\ w = t) \/ (y = w /\ w # t))
      BY <1>6
    <3>3. v = w
      BY <2>1, <2>3, <3>1, <3>2
    <3>4. QED
      BY <3>1, <3>2, <3>3
  <2>4. QED
    BY <1>4, <2>2, <2>3 DEF WindowInv, Installs, Awaited
<1>8. CASE ~(exit = "running" /\ "spawn" \notin faults)
  BY <1>4, <1>8 DEF WindowInv
<1>9. QED
  BY <1>7, <1>8

(* The main thread keeps the windows.                                       *)
LEMMA MainKeepsWindows ==
    ASSUME InstallInv, WindowInv, Main
    PROVE  WindowInv'
<1>1. ObjectsFollow /\ exit = "running" /\ faults \subseteq faults'
  BY MainObjects, MainMoves, FaultsStay DEF InstallInv, MainMove
<1>2. CASE "spawn" \in faults'
  BY <1>2 DEF WindowInv
<1>3. CASE "spawn" \notin faults' /\ PackageSteps
  BY <1>1, <1>3, PackageKeepsWindows
<1>4. ASSUME "spawn" \notin faults', UNCHANGED threads, Top.fn # "package"
      PROVE  WindowInv'
  BY <1>1, <1>4, OthersKeepWindows
<1>5. CASE LocalReads \/ LocalInstalled \/ LocalDev
  <2>1. UNCHANGED threads /\ Top.fn # "package"
    BY <1>5 DEF LocalReads, LocalInstalled, LocalDev, process, In
  <2>2. QED
    BY <1>2, <1>4, <2>1
<1>6. CASE \/ NextArgument \/ ArgsHere \/ (\E dir \in Dirs : Made(dir)) \/ Development
           \/ InstallOver \/ UpdateOver \/ UpgradeOver
  <2>1. Top.fn # "package"
    BY <1>6, ArgsMoves DEF InstallInv
  <2>2. UNCHANGED threads
    BY <1>6 DEF NextArgument, ArgsHere, Made, Development, InstallOver, UpdateOver, UpgradeOver, process
  <2>3. QED
    BY <1>2, <1>4, <2>1, <2>2
<1>7. CASE \/ NewLookup \/ NewGet \/ NewGiveUp \/ ListNext \/ ListMade \/ ListInstalled
           \/ ExecTarball \/ ExecFails \/ ExecDeps \/ ExecRun
  <2>1. UNCHANGED threads /\ Top.fn # "package"
    BY <1>7 DEF NewLookup, NewGet, NewGiveUp, ListNext, ListMade, ListInstalled,
       ExecTarball, ExecFails, ExecDeps, ExecRun, process, In
  <2>2. QED
    BY <1>2, <1>4, <2>1
<1>8. CASE Overflow
  BY <1>8 DEF Overflow, Finish, WindowInv
<1>9. QED
  BY <1>2, <1>3, <1>5, <1>6, <1>7, <1>8, StepsOfThePrograms, StepsOfTheLibrary DEF Main

(* Every step keeps them.                                                   *)
LEMMA StepKeepsWindows ==
    ASSUME InstallInv, WindowInv, [Next]_vars
    PROVE  WindowInv'
<1>1. CASE Main
  BY <1>1, MainKeepsWindows
<1>2. CASE Threads
  BY <1>2, ThreadsKeepWindows
<1>3. CASE User
  <2>1. exit' # "running" \/ threads' = {}
    BY <1>3 DEF User, StartInstall, StartUpdate, StartUpgrade, Start, TimePasses, Clean, Between, Kill, Finish
  <2>2. QED
    BY <2>1 DEF WindowInv
<1>4. CASE UNCHANGED vars
  <2>1. UNCHANGED <<exit, faults, stack, threads, objs>>
    BY <1>4 DEF vars, process, history
  <2>2. QED
    BY <2>1 DEF WindowInv, Attached, Joined, Installs, Awaited
<1>5. QED
  BY <1>1, <1>2, <1>3, <1>4 DEF Next

(* A fetching thread runs only while its package is being installed,       *)
(* whatever the other packages, windows and failures are, unless a thread  *)
(* could not be created or the package has more sources than threads.      *)
THEOREM ThreadsAreJoined == Spec => []NoUseAfterFree
<1>1. Init => InstallInv /\ WindowInv
  BY InitInstallInv DEF Init, WindowInv
<1>2. InstallInv /\ WindowInv /\ [Next]_vars => InstallInv' /\ WindowInv'
  BY StepKeepsInstallInv, StepKeepsWindows
<1>3. InstallInv /\ WindowInv => NoUseAfterFree
  <2> SUFFICES ASSUME InstallInv, WindowInv, exit = "running", "spawn" \notin faults,
                      NEW t \in threads, Joined(objs[t.obj].p)
               PROVE  objs[t.obj].state = "used"
    BY DEF NoUseAfterFree
  <2>1. Installs(Top) /\ t.obj = Top.obj
    BY DEF WindowInv, Attached, Top
  <2>2. QED
    BY <2>1, PackageHasObject
<1>4. QED
  BY <1>1, <1>2, <1>3, PTL DEF Spec

-----------------------------------------------------------------------------
(* A manifest that nobody got.                                             *)

(* What a function returns is in front of its caller.                      *)
LEMMA ReturnsToTheCaller ==
    ASSUME InstallInv, exit = "running", Len(stack) > 1, NEW rc, NEW o, Return(rc, o)
    PROVE  \E g \in Frames : g = Head(stack)' /\ CalledBy(Top, g) /\ ret'.rc = rc /\ exit' = "running"
<1>1. stack # <<>> /\ stack \in Seq(Frames) /\ Len(stack) \in Nat \ {0} /\ CalledBy(Top, stack[2])
  BY RunningFrame DEF InstallInv, InstallTypeOK
<1>2. PICK s \in Seq(Frames) : s = stack' /\ Len(s) = Len(stack) - 1 /\ \A i \in 1 .. Len(stack) - 1 : s[i] = stack[i + 1]
  BY <1>1, StackOfReturn
<1>3. s # <<>> /\ Head(s) = s[1] /\ s[1] = stack[2] /\ s[1] \in Frames
  BY <1>1, <1>2
<1>4. ret'.rc = rc /\ exit' = "running"
  BY DEF Return
<1>5. QED
  BY <1>1, <1>2, <1>3, <1>4

(* -1 goes from level to level, and a package without a manifest makes -1. *)
LEMMA FailureReturns ==
    ASSUME InstallInv, exit = "running", NEW rc, NEW o, Return(rc, o),
           (rc = "fail" /\ Top.fn \in {"list", "package", "exec"}) \/ (rc = "null" /\ Top.fn = "new")
    PROVE  Reported'
<1>1. Len(stack) > 1
  BY RunningFrame DEF InstallInv
<1>2. PICK g \in Frames : g = Head(stack)' /\ CalledBy(Top, g) /\ ret'.rc = rc /\ exit' = "running"
  BY <1>1, ReturnsToTheCaller
<1>3. OnItsWay(g)'
  <2>1. CASE rc = "null" /\ Top.fn = "new"
    BY <1>2, <2>1 DEF OnItsWay, CalledBy
  <2>2. CASE rc = "fail" /\ Top.fn \in {"list", "package", "exec"}
    BY <1>2, <2>2 DEF OnItsWay, CalledBy
  <2>3. QED
    BY <2>1, <2>2
<1>4. QED
  BY <1>2, <1>3 DEF Reported, OnItsWay

(* The local manifests.                                                    *)
LEMMA LocalReports ==
    ASSUME InstallInv, ~Hidden, OnItsWay(Top), LocalReads \/ LocalInstalled \/ LocalDev
    PROVE  Reported'
<1>1. exit = "running" /\ Top.fn = "local" /\ UNCHANGED local
  BY DEF LocalReads, LocalInstalled, LocalDev, In, files
<1>2. /\ Top \in LocalFrames /\ FrameOK(Top) /\ Len(stack) \in Nat \ {0}
      /\ Top \in Frames /\ Top = stack[1] /\ stack \in Seq(Frames) /\ stack # <<>>
  BY <1>1, RunningFrame, FrameKinds DEF InstallInv, InstallTypeOK
<1>3. Len(stack) = 1 /\ cmd.args = <<>>
  <2>1. ASSUME Len(stack) > 1
        PROVE  FALSE
    <3>1. CalledBy(Top, stack[2]) /\ 2 \in 1 .. Len(stack) /\ DOMAIN stack = 1 .. Len(stack)
      BY <1>1, <1>2, <2>1, RunningFrame DEF InstallInv
    <3>2. PICK g \in Frames : g = stack[2] /\ g.fn = "args" /\ g.pc = "here" /\ FrameOK(g)
      BY <1>1, <1>2, <3>1 DEF CalledBy, InstallInv, CallInv
    <3>3. /\ g.todo \in Seq(Packages \cup {Here} \cup DOMAIN Regular) /\ g.todo # <<>>
          /\ Head(g.todo) \notin Packages /\ Range(g.todo) \subseteq Range(cmd.args)
      BY <3>2, FrameKinds DEF FrameOK, ArgsFrames
    <3>4. Head(g.todo) = g.todo[1] /\ 1 \in DOMAIN g.todo
      BY <3>3
    <3>5. Head(g.todo) \in {Here} \cup DOMAIN Regular /\ Head(g.todo) \in Range(g.todo)
      BY <3>3, <3>4 DEF Range
    <3>6. QED
      BY <3>3, <3>5 DEF Hidden
  <2>a. ~(Len(stack) > 1)
    BY <2>1
  <2>b. \A n \in Nat \ {0} : ~(n > 1) => n = 1
    OBVIOUS
  <2>2. Len(stack) = 1
    BY <1>2, <2>a, <2>b
  <2>3. stack[Len(stack)].fn = "local"
    BY <1>1, <1>2, <2>2
  <2>4. QED
    BY <1>1, <2>2, <2>3 DEF InstallInv, CallInv
<1>4. ~(1 \in DOMAIN local /\ 2 \in DOMAIN local)
  <2>1. Project = {1, 2}
    BY DEF Project, ManifestNames
  <2>2. QED
    BY <1>3, <2>1 DEF Hidden
<1>5. /\ Top.tries \in {<<1, 2>>, <<2>>} /\ Top.pc \in {"read", "deps", "dev"}
      /\ Top.pc # "read" => Head(Top.tries) \in DOMAIN local
  BY <1>1, <1>2, <1>3 DEF LocalFrames, FrameOK
<1>a. Top.tries \in Tries
  BY <1>5 DEF Tries
<1>6. (Top.pc = "read" => Top.tries = <<2>> /\ 1 \in DOMAIN local) /\ (Top.pc # "read" => ret.rc = "fail")
  BY <1>1, <1>5 DEF OnItsWay
<1>b. Top.tries = <<2>> => Head(Top.tries) = 2
  BY <1>a, NextTries
<1>7. LocalFails
  BY <1>4, <1>6, <1>b DEF LocalReads, LocalInstalled, LocalDev, In, Tried
<1>8. CASE Top.tries = <<1, 2>>
  <2>1. Tail(Top.tries) = <<2>> /\ Head(Top.tries) = 1
    BY <1>8, <1>a, NextTries
  <2>c. <<2>> # <<>> /\ <<1, 2>> # <<2>>
    <3>1. Len(<<2>>) = 1 /\ Len(<<1, 2>>) = 2
      OBVIOUS
    <3>2. QED
      BY <3>1
  <2>d. 1 \in DOMAIN local
    BY <1>5, <1>6, <1>8, <2>1, <2>c
  <2>2. Stay([Top EXCEPT !.pc = "read", !.tries = <<2>>])
    <3>1. Stay([Top EXCEPT !.pc = "read", !.tries = Tail(Top.tries)])
      BY <1>7, <2>1, <2>c DEF LocalFails
    <3>2. QED
      BY <2>1, <3>1
  <2>3. [Top EXCEPT !.pc = "read", !.tries = <<2>>] \in LocalFrames
    BY <1>2 DEF LocalFrames, Tries
  <2>4. PICK f \in LocalFrames :
           f = [Top EXCEPT !.pc = "read", !.tries = <<2>>] /\ f.fn = "local" /\ f.pc = "read" /\ f.tries = <<2>>
    BY <1>2, <2>3 DEF LocalFrames
  <2>5. Head(stack)' = f
    BY <1>2, <2>2, <2>4, HeadAfterStay DEF Frames
  <2>6. OnItsWay(f)'
    BY <1>1, <2>d, <2>4 DEF OnItsWay
  <2>7. exit' = "running"
    BY <1>1, <2>2 DEF Stay
  <2>8. QED
    BY <2>5, <2>6, <2>7 DEF Reported, OnItsWay
<1>9. CASE Top.tries = <<2>>
  <2>1. Tail(Top.tries) = <<>>
    <3>1. <<2>> # <<1, 2>>
      <4>1. Len(<<2>>) = 1 /\ Len(<<1, 2>>) = 2
        OBVIOUS
      <4>2. QED
        BY <4>1
    <3>2. QED
      BY <1>9, <1>a, <3>1, NextTries
  <2>2. Finish("nonzero")
    BY <1>3, <1>7, <2>1 DEF LocalFails, LocalOver
  <2>3. QED
    BY <2>2 DEF Finish, Reported
<1>10. QED
  BY <1>5, <1>8, <1>9

(* The arguments of the command line.                                      *)
LEMMA ArgsReport ==
    ASSUME InstallInv, OnItsWay(Top),
           \/ NextArgument \/ ArgsHere \/ (\E dir \in Dirs : Made(dir)) \/ Development
           \/ InstallOver \/ UpdateOver \/ UpgradeOver
    PROVE  Reported'
<1>1. Top.fn = "args" /\ exit = "running"
  BY ArgsMoves DEF InstallInv
<1>2. (Top.pc = "made" /\ ret.rc = "null") \/ (Top.pc \in {"installed", "dev"} /\ ret.rc = "fail")
  BY <1>1 DEF OnItsWay
<1>3. Finish("nonzero")
  BY <1>2 DEF NextArgument, ArgsHere, Made, Development, InstallOver, UpdateOver, UpgradeOver, ArgumentOver, PackageOver, In
<1>4. QED
  BY <1>3 DEF Finish, Reported

(* The functions of the library.                                           *)
LEMMA LibraryReports ==
    ASSUME InstallInv, OnItsWay(Top), Library
    PROVE  Reported'
<1>1. exit = "running"
  BY MainMoves DEF InstallInv, MainMove, Main
<1>2. Top \in Frames
  BY <1>1, RunningFrame DEF InstallInv
<1>3. CASE NewLookup \/ NewGet \/ NewGiveUp
  <2>1. Top.fn = "new" /\ Top.pc \in {"lookup", "get"}
    BY <1>3 DEF NewLookup, NewGet, NewGiveUp, In
  <2>2. QED
    BY <2>1 DEF OnItsWay
<1>4. CASE ListNext \/ ListMade \/ ListInstalled
  <2>1. Top.fn = "list"
    BY <1>4 DEF ListNext, ListMade, ListInstalled, In
  <2>2. (Top.pc = "made" /\ ret.rc = "null") \/ (Top.pc = "installed" /\ ret.rc = "fail")
    BY <2>1 DEF OnItsWay
  <2>3. Return("fail", 0)
    BY <1>4, <2>2 DEF ListNext, ListMade, ListInstalled, ListOver, In
  <2>4. QED
    BY <1>1, <2>1, <2>3, FailureReturns
<1>5. CASE PackageSteps
  <2>1. Top.fn = "package"
    BY <1>5, PackageStepsRun
  <2>2. Top.pc # "made"
    BY <1>2, <2>1, FrameKinds DEF PackageFrames, PackagePlaces, Fetching
  <2>3. Top.pc \in {"executed", "deps"} /\ ret.rc = "fail"
    BY <2>1, <2>2 DEF OnItsWay
  <2>4. PackageExecuted \/ PackageDeps
    BY <1>5, <2>3
       DEF PackageSteps, PackageVisited, PackageRefused, PackageEnter, PackageWritten, Enters, PackageMakefile,
           PackageNoMakefile, PackageMakefileJoined, PackageCache, Copies, CopyOpen, CopyWrite, CopyFails, CopyOver, Copying,
           PackageFetch, PackageNotFetched, PackageWindow, PackageFinal, JoinFetch,
           PackageSave, PackageConfigure, PackageNotConfigured, In
  <2>5. Return("fail", Top.obj)
    BY <2>3, <2>4 DEF PackageExecuted, PackageDeps, PackageReturn
  <2>6. QED
    BY <1>1, <2>1, <2>5, FailureReturns
<1>6. CASE ExecTarball \/ ExecFails \/ ExecDeps \/ ExecRun
  <2>1. Top.fn = "exec"
    BY <1>6 DEF ExecTarball, ExecFails, ExecDeps, ExecRun, In
  <2>2. Top.pc # "made"
    BY <1>2, <2>1, FrameKinds DEF ExecFrames
  <2>3. Top.pc = "deps" /\ ret.rc = "fail"
    BY <2>1, <2>2 DEF OnItsWay
  <2>4. Return("fail", 0)
    BY <1>6, <2>3 DEF ExecTarball, ExecFails, ExecDeps, ExecRun, In
  <2>5. QED
    BY <1>1, <2>1, <2>4, FailureReturns
<1>7. CASE Overflow
  BY <1>7 DEF Overflow, Finish, Reported
<1>8. QED
  BY <1>3, <1>4, <1>5, <1>6, <1>7, StepsOfTheLibrary

(* A manifest is given up for lost in one place.                           *)
LEMMA MissingIsNoticed ==
    ASSUME InstallInv, Main, missing' # missing
    PROVE  Reported'
<1>1. NewGet \/ NewGiveUp
  <2>1. CASE Programs
    <3>1. UNCHANGED missing
      BY <2>1, StepsOfThePrograms
         DEF LocalReads, LocalInstalled, LocalDev, NextArgument, ArgsHere, Made, Development, InstallOver, UpdateOver, UpgradeOver, history
    <3>2. QED
      BY <3>1
  <2>2. CASE PackageSteps
    <3>1. UNCHANGED missing
      BY <2>2
         DEF PackageSteps, PackageVisited, PackageRefused, PackageEnter, PackageWritten, PackageMakefile, PackageNoMakefile,
             PackageMakefileJoined, PackageCache, Copies, CopyOpen, CopyWrite, CopyFails, CopyOver, PackageFetch,
             PackageNotFetched, PackageWindow, PackageFinal, JoinFetch, SpawnFails,
             PackageSave, PackageConfigure, PackageNotConfigured, PackageExecuted, PackageDeps, history
    <3>2. QED
      BY <3>1
  <2>3. CASE NewLookup \/ ListNext \/ ListMade \/ ListInstalled \/ ExecTarball \/ ExecFails \/ ExecDeps \/ ExecRun
             \/ Overflow
    <3>1. UNCHANGED missing
      BY <2>3 DEF Overflow, NewLookup, ListNext, ListMade, ListInstalled, ExecTarball, ExecFails, ExecDeps, ExecRun, history
    <3>2. QED
      BY <3>1
  <2>4. QED
    BY <2>1, <2>2, <2>3, StepsOfTheLibrary DEF Main
<1>2. Return("null", 0) /\ Top.fn = "new" /\ exit = "running"
  BY <1>1 DEF NewGet, NewGiveUp, NewFails, In
<1>3. QED
  BY <1>2, FailureReturns

(* The command line and the number of local manifests stay.                *)
LEMMA HiddenStays ==
    ASSUME InstallInv, Main
    PROVE  Hidden' <=> Hidden
<1>1. cmd' = cmd /\ DOMAIN local' = DOMAIN local
  BY MainMoves DEF InstallInv, MainMove
<1>2. QED
  BY <1>1 DEF Hidden

(* A command that got no manifest of a package it needs does not exit with *)
(* zero, whatever the level of the package in the tree of dependencies.    *)
THEOREM MissingManifestsAreReported == Spec => []MissingIsReported
<1>1. Init => InstallInv /\ MissingInv
  BY InitInstallInv DEF Init, MissingInv
<1>2. ASSUME InstallInv, MissingInv, [Next]_vars
      PROVE  MissingInv'
  <2>1. CASE Main
    <3> SUFFICES ASSUME missing' # {}, ~Hidden PROVE Reported'
      BY <2>1, <1>2, HiddenStays DEF MissingInv
    <3>1. CASE missing' # missing
      BY <1>2, <2>1, <3>1, MissingIsNoticed
    <3>2. CASE missing' = missing
      <4>1. exit = "running"
        BY <1>2, <2>1, MainMoves DEF InstallInv, MainMove
      <4>2. OnItsWay(Top)
        BY <1>2, <3>2, <4>1 DEF MissingInv, Reported, Top
      <4>3. QED
        BY <1>2, <2>1, <4>2, LocalReports, ArgsReport, LibraryReports, StepsOfThePrograms DEF Main
    <3>3. QED
      BY <3>1, <3>2
  <2>2. CASE Threads
    <3>1. UNCHANGED <<cmd, local, missing, exit, stack, ret>>
      BY <2>2 DEF Threads, ThreadBegin, ThreadOpen, ThreadGet, ThreadDrop, files, history
    <3>2. QED
      BY <1>2, <3>1 DEF MissingInv, Hidden, Reported, OnItsWay
  <2>3. CASE User
    <3>1. missing' = {} \/ exit' \in {"idle", "killed"}
      BY <2>3 DEF User, StartInstall, StartUpdate, StartUpgrade, Start, TimePasses, Clean, Between, Kill, Finish
    <3>2. QED
      BY <3>1 DEF MissingInv, Reported
  <2>4. CASE UNCHANGED vars
    <3>1. UNCHANGED <<cmd, local, missing, exit, stack, ret>>
      BY <2>4 DEF vars, files, process, history
    <3>2. QED
      BY <1>2, <3>1 DEF MissingInv, Hidden, Reported, OnItsWay
  <2>5. QED
    BY <1>2, <2>1, <2>2, <2>3, <2>4 DEF Next
<1>3. InstallInv /\ MissingInv /\ [Next]_vars => InstallInv' /\ MissingInv'
  BY <1>2, StepKeepsInstallInv
<1>4. InstallInv /\ MissingInv => MissingIsReported
  BY DEF MissingInv, Hidden, Reported, MissingIsReported
<1>5. QED
  BY <1>1, <1>3, <1>4, PTL DEF Spec

-----------------------------------------------------------------------------
(* The copies in the cache.                                                *)

(* A package is being written only while its threads run.                  *)
LEMMA NothingSpoilt ==
    ASSUME InstallInv, WindowInv, Spoilt, exit = "running", "spawn" \notin faults,
           ~(Top.fn = "package" /\ Top.pc \in {"makefile fetch", "fetch", "window", "final"}),
           \A dir, p, f : ~BeingWritten(Top, dir, p, f)
    PROVE  /\ \A t \in threads : ~Attached(t)
           /\ \A dir \in Dirs, p \in Packages : \A f \in FilesOf(p) : Joined(p) => disk[dir][p][f] # "broken"
<1>1. \A t \in threads : ~Attached(t)
  BY DEF WindowInv, Installs, Awaited, Top
<1>2. ASSUME NEW dir \in Dirs, NEW p \in Packages, NEW f \in FilesOf(p), Joined(p), disk[dir][p][f] = "broken"
      PROVE  FALSE
  <2>1. PICK t \in threads : Writes(t, dir, p, f)
    BY <1>2 DEF Spoilt, Top
  <2>2. Attached(t)
    BY <1>2, <2>1 DEF Writes, Attached
  <2>3. QED
    BY <1>1, <2>2
<1>3. QED
  BY <1>1, <1>2

(* The main thread goes on and spoils nothing.                             *)
LEMMA NoMoreSpoilt ==
    ASSUME ObjectTypeOK, Spoilt, ObjectsFollow, exit' = "running",
           \A t \in threads : t \in threads' \/ t.pc = "done",
           \A dir \in Dirs, p \in Packages : \A f \in FilesOf(p) :
               Joined(p) /\ disk'[dir][p][f] = "broken" =>
                   \/ disk[dir][p][f] = "broken" /\ ~BeingWritten(Top, dir, p, f)
                   \/ BeingWritten(Head(stack'), dir, p, f)
    PROVE  Spoilt'
<1>1. ~Ends
  BY DEF Ends, Finish
<1>2. \A t \in threads : objs'[t.obj].p = objs[t.obj].p /\ objs'[t.obj].dir = objs[t.obj].dir
  BY <1>1 DEF ObjectTypeOK, ObjectsFollow, ObjsMove
<1>3. ASSUME NEW t \in threads, NEW dir, NEW p, NEW f, Writes(t, dir, p, f)
      PROVE  t \in threads' /\ Writes(t, dir, p, f)'
  BY <1>2, <1>3 DEF Writes
<1>4. ASSUME NEW dir \in Dirs, NEW p \in Packages, NEW f \in FilesOf(p), Joined(p), disk'[dir][p][f] = "broken"
      PROVE  (\E t \in threads' : Writes(t, dir, p, f)') \/ BeingWritten(Head(stack'), dir, p, f)
  BY <1>3, <1>4 DEF Spoilt, Top
<1>5. QED
  BY <1>4 DEF Spoilt, Joined, BeingWritten

(* What is on its way stays on its way.                                    *)
LEMMA StillComes ==
    ASSUME NEW g, NEW h, h.p = g.p, h.dir = g.dir, h.obj = g.obj, NEW f, Comes(f, g),
           \A t \in threads : t \in threads' \/ t.pc = "done",
           disk[g.dir][g.p][f] = "whole" => disk'[g.dir][g.p][f] = "whole"
    PROVE  Comes(f, h)'
<1>1. CASE disk[g.dir][g.p][f] = "whole"
  BY <1>1 DEF Comes
<1>2. ASSUME NEW t \in threads, t.obj = g.obj, t.file = f, t.pc \in {"begin", "open", "get"}
      PROVE  Comes(f, h)'
  <2>1. t \in threads'
    BY <1>2
  <2>2. QED
    BY <1>2, <2>1 DEF Comes
<1>3. QED
  BY <1>1, <1>2 DEF Comes

(* Steps that leave the files alone.                                       *)
Settled == ~(Top.fn = "package" /\ Top.pc \in {"manifest", "load", "copy"})
LEMMA QuietSteps ==
    ASSUME InstallInv, WindowInv, CopyInv, faults = {}, exit = "running", ObjectsFollow,
           UNCHANGED <<disk, cache>>, \A t \in threads : t \in threads' \/ t.pc = "done",
           Settled, exit' # "running" => ~(Top.fn = "package" /\ Top.pc \in Fetching),
           exit' = "running" => (Head(stack').fn = "package" /\ Joined(Head(stack').p) => GetsAll(Head(stack))')
    PROVE  CopyInv'
<1>1. Spoilt /\ Copied /\ Getting
  BY DEF CopyInv
<1>a. \A dir, p, f : ~BeingWritten(Top, dir, p, f)
  BY DEF Settled, BeingWritten
<1>2. Spoilt'
  <2>1. CASE exit' = "running"
    BY <1>1, <1>a, <2>1, NoMoreSpoilt DEF InstallInv
  <2>2. CASE exit' # "running"
    <3>1. \A dir \in Dirs, p \in Packages : \A f \in FilesOf(p) : Joined(p) => disk[dir][p][f] # "broken"
      BY <1>1, <1>a, <2>2, NothingSpoilt DEF Fetching
    <3>2. QED
      BY <3>1 DEF Spoilt, Joined
  <2>3. QED
    BY <2>1, <2>2
<1>3. Copied'
  BY <1>1 DEF Copied, Joined, Settled, In
<1>4. Getting'
  BY DEF Getting, Joined
<1>5. QED
  BY <1>2, <1>3, <1>4 DEF CopyInv

(* The caller is second on the stack.                                      *)
LEMMA SecondInFront ==
    ASSUME stack \in Seq(Frames), Len(stack) > 1, NEW rc, NEW o, Return(rc, o)
    PROVE  Head(stack') = stack[2]
<1>1. stack # <<>> /\ Len(stack) \in Nat \ {0}
  BY StackOperations
<1>2. PICK s \in Seq(Frames) : s = stack' /\ Len(s) = Len(stack) - 1 /\ \A i \in 1 .. Len(stack) - 1 : s[i] = stack[i + 1]
  BY <1>1, StackOfReturn
<1>3. QED
  BY <1>1, <1>2

(* What is in front after a call and after a return.                       *)
LEMMA PackageInFront ==
    ASSUME InstallInv, exit = "running", ~Stays, ObjectsFollow, exit' = "running", Head(stack').fn = "package"
    PROVE  GetsAll(Head(stack))'
<1>1. stack # <<>> /\ stack \in Seq(Frames) /\ Len(stack) \in Nat \ {0}
  BY RunningFrame DEF InstallInv, InstallTypeOK
<1>2. CASE Calls
  <2>1. PICK f \in Frames, b \in Frames : Call(f, b) /\ Fresh(f) /\ FrameOK(f)
    BY <1>2 DEF Calls
  <2>2. Head(stack') = f
    BY <1>1, <2>1, StackOfCall
  <2>3. f.pc = "enter" /\ f.next = 1 /\ f.now = <<>>
    BY <2>1, <2>2 DEF Fresh, FrameOK
  <2>4. GetsAll(f)'
    BY <2>3 DEF GetsAll, Downloading, Fetching
  <2>5. QED
    BY <2>2, <2>4 DEF GetsAll, Comes
<1>3. CASE Returns
  <2>1. PICK rc \in Results, o \in Nat : Return(rc, o) /\ Top.fn # "args" /\ (Top.fn = "local" => Len(stack) > 1)
    BY <1>3 DEF Returns
  <2>2. Len(stack) > 1
    BY <2>1, RunningFrame DEF InstallInv
  <2>3. PICK g \in Frames : g = Head(stack)' /\ CalledBy(Top, g)
    BY <2>1, <2>2, ReturnsToTheCaller
  <2>a. g.fn = "package" /\ FrameOK(g)
    <3>1. g = stack[2]
      BY <1>1, <2>1, <2>2, <2>3, SecondInFront
    <3>2. 2 \in DOMAIN stack
      BY <1>1, <2>2
    <3>3. QED
      BY <2>3, <3>1, <3>2 DEF InstallInv, CallInv
  <2>4. g.pc \in {"executed", "deps"} /\ g.now = <<>>
    BY <2>3, <2>a DEF CalledBy, FrameOK
  <2>5. GetsAll(g)'
    BY <2>4 DEF GetsAll, Downloading, Fetching
  <2>6. QED
    BY <2>3, <2>5 DEF GetsAll, Comes
<1>4. CASE Ends
  BY <1>4 DEF Ends, Finish
<1>5. QED
  BY <1>2, <1>3, <1>4 DEF ObjectsFollow

(* The other functions.                                                    *)
LEMMA OthersKeepCopies ==
    ASSUME InstallInv, WindowInv, CopyInv, faults = {}, Main, ~PackageSteps, ~Overflow
    PROVE  CopyInv'
<1>1. ObjectsFollow /\ exit = "running"
  BY MainObjects, MainMoves DEF InstallInv, MainMove
<1>2. Top.fn # "package" /\ UNCHANGED threads
  <2>1. CASE LocalReads \/ LocalInstalled \/ LocalDev
    BY <2>1 DEF LocalReads, LocalInstalled, LocalDev, process, In
  <2>2. CASE \/ NextArgument \/ ArgsHere \/ (\E dir \in Dirs : Made(dir)) \/ Development
             \/ InstallOver \/ UpdateOver \/ UpgradeOver
    <3>1. Top.fn # "package"
      BY <2>2, ArgsMoves DEF InstallInv
    <3>2. UNCHANGED threads
      BY <2>2 DEF NextArgument, ArgsHere, Made, Development, InstallOver, UpdateOver, UpgradeOver, process
    <3>3. QED
      BY <3>1, <3>2
  <2>3. CASE \/ NewLookup \/ NewGet \/ NewGiveUp \/ ListNext \/ ListMade \/ ListInstalled
             \/ ExecTarball \/ ExecFails \/ ExecDeps \/ ExecRun
    BY <2>3 DEF NewLookup, NewGet, NewGiveUp, ListNext, ListMade, ListInstalled,
       ExecTarball, ExecFails, ExecDeps, ExecRun, process, In
  <2>4. QED
    BY <2>1, <2>2, <2>3, StepsOfThePrograms, StepsOfTheLibrary DEF Main
<1>3. UNCHANGED <<disk, cache>>
  BY StepsThatWrite DEF PackageSteps, PackageFiles, Copies
<1>4. ASSUME exit' = "running", Head(stack').fn = "package"
      PROVE  GetsAll(Head(stack))'
  <2>1. ~Stays
    <3>1. ASSUME NEW f \in Frames, Stay(f), SameCall(Top, f)
          PROVE  FALSE
      <4>1. Head(stack') = f
        BY <1>1, <3>1, RunningFrame, HeadAfterStay DEF InstallInv, InstallTypeOK
      <4>2. QED
        BY <1>2, <1>4, <3>1, <4>1 DEF SameCall
    <3>2. QED
      BY <3>1 DEF Stays
  <2>2. QED
    BY <1>1, <1>4, <2>1, PackageInFront
<1>5. Settled
  BY <1>2 DEF Settled
<1>6. QED
  BY <1>1, <1>2, <1>3, <1>4, <1>5, QuietSteps

(* The function that was called is in front.                                *)
LEMMA HeadAfterCall ==
    ASSUME stack \in Seq(Frames), stack # <<>>, NEW f, NEW b, Call(f, b)
    PROVE  Head(stack') = f
<1>1. stack \in Seq(Frames \cup {f, b}) /\ f \in Frames \cup {f, b} /\ b \in Frames \cup {f, b}
  OBVIOUS
<1>2. /\ <<f, b>> \o Tail(stack) \in Seq(Frames \cup {f, b}) /\ Len(<<f, b>> \o Tail(stack)) = Len(stack) + 1
      /\ Len(stack) \in Nat \ {0} /\ (<<f, b>> \o Tail(stack))[1] = f
  BY <1>1, StackOperations
<1>3. QED
  BY <1>2 DEF Call

SamePackage(f) == f.fn = "package" /\ f.p = Top.p /\ f.dir = Top.dir /\ f.obj = Top.obj

(* clib_package_install, where it changes files itself.                    *)
LEMMA PackageFilesCopied ==
    ASSUME InstallInv, WindowInv, CopyInv, faults = {}, faults' = {},
           PackageEnter \/ PackageWritten \/ PackageCache \/ PackageSave \/ Copies
    PROVE  CopyInv'
<1>1. PackageSteps
  BY DEF PackageSteps
<1>2. /\ exit = "running" /\ Top.fn = "package" /\ stack \in Seq(Frames) /\ stack # <<>> /\ Top \in PackageFrames
      /\ cmd' = cmd /\ ObjectsFollow /\ "spawn" \notin faults /\ UNCHANGED threads
  <2>1. Main
    BY <1>1, StepsOfTheLibrary DEF Main, PackageSteps, Library, Copies
  <2>2. UNCHANGED threads
    BY DEF PackageEnter, PackageWritten, PackageCache, PackageSave, Copies, CopyOpen, CopyWrite, CopyFails, CopyOver, process
  <2>3. QED
    BY <1>1, <2>1, <2>2, PackageStepsRun, RunningFrame, FrameKinds, MainObjects DEF InstallInv, InstallTypeOK
<1>a. /\ Top.p \in Packages /\ Top.dir \in Dirs /\ Top.file \in Range(ManifestNames)
      /\ DiskOK(disk) /\ CacheOK(cache) /\ disk[Top.dir][Top.p] \in Directory(Top.p)
      /\ Top.pc \in {"load", "copy"} => cache[Top.p] # NoCopy /\ cache[Top.p] \in Directory(Top.p)
      /\ Top.left \subseteq FilesOf(Top.p)
      /\ Top.now # <<>> => Top.now[1] \in FilesOf(Top.p) /\ Top.now[2] \in Worths
      /\ Top.pc \notin {"load", "copy"} => Top.left = {} /\ Top.now = <<>>
  BY <1>2, RunningPackage DEF InstallInv
<1>3. Top.next \in Nat \ {0} /\ Top.obj \in Nat /\ Pkg[Top.p].src \in Seq(STRING)
  BY <1>2, <1>a, CInstallManifests DEF PackageFrames
<1>4. Spoilt /\ Copied /\ (Joined(Top.p) => GetsAll(Top))
  BY <1>2 DEF CopyInv, Getting, Top
<1>5. Opts' = Opts
  BY <1>2 DEF Opts
<1>6. ASSUME NEW f, Stay(f), f.fn = "package", f.p = Top.p, Copied', Joined(Top.p) => GetsAll(f)',
             \A dir \in Dirs, p \in Packages : \A x \in FilesOf(p) :
                 Joined(p) /\ disk'[dir][p][x] = "broken" =>
                     \/ disk[dir][p][x] = "broken" /\ ~BeingWritten(Top, dir, p, x)
                     \/ BeingWritten(f, dir, p, x)
      PROVE  CopyInv'
  <2>1. Head(stack') = f /\ exit' = "running"
    BY <1>2, <1>6, HeadAfterStay DEF Stay
  <2>2. Spoilt'
    BY <1>2, <1>4, <1>6, <2>1, NoMoreSpoilt DEF InstallInv
  <2>3. Getting'
    BY <1>6, <2>1 DEF Getting, GetsAll, Comes, Joined
  <2>4. QED
    BY <1>6, <2>2, <2>3 DEF CopyInv
(* Top goes on as f.                                                       *)
<1> DEFINE GoesOn(f) == Stay(f) /\ SamePackage(f) /\ f.next = Top.next
<1>7. ASSUME NEW pc, Goto(pc)
      PROVE  \E f : GoesOn(f) /\ f.pc = pc /\ f.left = Top.left /\ f.now = Top.now /\ f.file = Top.file
  <2>1. PICK f : f = [Top EXCEPT !.pc = pc]
    OBVIOUS
  <2>2. SamePackage(f) /\ f.pc = pc /\ f.next = Top.next /\ f.left = Top.left /\ f.now = Top.now /\ f.file = Top.file
    BY <1>2, <2>1 DEF PackageFrames, SamePackage
  <2>3. QED
    BY <1>7, <2>1, <2>2 DEF Goto
(* What is on the disk before copying.                                     *)
<1>c. ASSUME Top.pc \in {"enter", "cache", "save", "load", "copy"}, Top.now = <<>>
      PROVE  /\ \A t \in threads : ~Attached(t)
             /\ \A dir \in Dirs, p \in Packages : \A x \in FilesOf(p) : Joined(p) => disk[dir][p][x] # "broken"
  <2>1. \A dir, p, x : ~BeingWritten(Top, dir, p, x)
    BY <1>c DEF BeingWritten
  <2>2. QED
    BY <1>2, <1>4, <1>c, <2>1, NothingSpoilt
<1>d. ASSUME Top.pc \in {"cache", "save", "load", "copy"}, Joined(Top.p), NEW x, \A t \in threads : ~Attached(t)
      PROVE  Comes(x, Top) <=> disk[Top.dir][Top.p][x] = "whole"
  <2>1. objs[Top.obj].p = Top.p
    BY <1>2, <1>d, PackageHasObject DEF Installs
  <2>2. \A t \in threads : t.obj # Top.obj
    BY <1>d, <2>1 DEF Attached
  <2>3. QED
    BY <2>2 DEF Comes
<1>e. ASSUME ~In("package", "copy"), UNCHANGED cache
      PROVE  Copied'
  BY <1>4, <1>e DEF Copied, Joined
<1>8. CASE PackageEnter
  <2>1. Top.pc = "enter" /\ UNCHANGED cache /\ ~In("package", "copy") /\ Top.now = <<>>
    BY <1>8, <1>a DEF PackageEnter, Enters, In
  <2>2. Copied'
    BY <1>e, <2>1
  <2>3. \A dir \in Dirs, p \in Packages : \A x \in FilesOf(p) : Joined(p) => disk[dir][p][x] # "broken"
    BY <1>c, <2>1
  <2>4. CASE (Opts.global \/ Pkg[Top.p].src = <<>>) /\ Mark /\ UNCHANGED disk
    <3>1. PICK f : f = [Top EXCEPT !.pc = "makefile", !.obj = Len(objs) + 1]
      OBVIOUS
    <3>2. Stay(f) /\ f.fn = "package" /\ f.p = Top.p /\ f.pc = "makefile" /\ f.next = Top.next /\ f.now = <<>>
      BY <1>2, <2>1, <2>4, <3>1 DEF Mark, PackageFrames
    <3>3. Joined(Top.p) => GetsAll(f)'
      BY <1>4, <1>5, <2>1, <2>4, <3>2 DEF GetsAll, Downloading, Fetching
    <3>4. QED
      BY <1>6, <2>2, <2>3, <2>4, <3>2, <3>3
  <2>5. CASE PackageManifest("broken") /\ Goto("manifest")
    <3>1. PICK f : GoesOn(f) /\ f.pc = "manifest" /\ f.now = <<>> /\ f.file = Top.file
      BY <1>7, <2>1, <2>5
    <3>2. Top.file \in FilesOf(Top.p)
      BY <1>a, FilesOfPackage
    <3>3. \A dir \in Dirs, p \in Packages : \A x \in FilesOf(p) :
             disk'[dir][p][x] = IF dir = Top.dir /\ p = Top.p /\ x = Top.file THEN "broken" ELSE disk[dir][p][x]
      <4>1. Wrote(Top.dir, Top.p, Top.file, "broken")
        BY <2>5 DEF PackageManifest, Wrote
      <4>2. QED
        BY <1>a, <4>1, FileWritten DEF Worths
    <3>4. Joined(Top.p) => GetsAll(f)'
      BY <1>4, <2>1, <3>1 DEF GetsAll, Downloading, Fetching
    <3>5. ASSUME NEW dir \in Dirs, NEW p \in Packages, NEW x \in FilesOf(p), Joined(p), disk'[dir][p][x] = "broken"
          PROVE  BeingWritten(f, dir, p, x)
      <4>1. dir = Top.dir /\ p = Top.p /\ x = Top.file
        BY <2>3, <3>3, <3>5
      <4>2. QED
        BY <3>1, <4>1 DEF BeingWritten, SamePackage
    <3>6. QED
      BY <1>6, <2>2, <3>1, <3>4, <3>5 DEF SamePackage
  <2>6. QED
    BY <1>8, <2>4, <2>5 DEF PackageEnter
<1>9. CASE PackageWritten
  <2>1. Top.pc = "manifest" /\ UNCHANGED cache /\ ~In("package", "copy") /\ Top.now = <<>>
    BY <1>9, <1>a DEF PackageWritten, In
  <2>2. Copied'
    BY <1>e, <2>1
  <2>3. \A dir \in Dirs, p \in Packages : \A x \in FilesOf(p) :
           disk'[dir][p][x] = IF dir = Top.dir /\ p = Top.p /\ x = Top.file THEN "whole" ELSE disk[dir][p][x]
    <3>1. Wrote(Top.dir, Top.p, Top.file, "whole")
      BY <1>9 DEF PackageWritten, PackageManifest, Wrote, Fail
    <3>2. QED
      BY <1>a, <3>1, FileWritten DEF Worths
  <2>4. PICK f : f = [Top EXCEPT !.pc = "makefile", !.obj = Len(objs) + 1]
    OBVIOUS
  <2>5. /\ Stay(f) /\ f.fn = "package" /\ f.p = Top.p /\ f.dir = Top.dir /\ f.pc = "makefile" /\ f.next = Top.next
        /\ f.now = <<>>
    BY <1>2, <1>9, <2>1, <2>4 DEF PackageWritten, Mark, PackageFrames
  <2>6. PICK i \in 1 .. 2 : Top.file = ManifestNames[i] /\ Top.file \in FilesOf(Top.p)
    BY <1>a, FilesOfPackage DEF Range, ManifestNames
  <2>7. Comes(ManifestNames[i], f)'
    BY <1>a, <2>3, <2>5, <2>6 DEF Comes
  <2>8. Joined(Top.p) => GetsAll(f)'
    BY <1>4, <1>5, <2>1, <2>5, <2>7 DEF GetsAll, Downloading, Fetching
  <2>9. ASSUME NEW dir \in Dirs, NEW p \in Packages, NEW x \in FilesOf(p), Joined(p), disk'[dir][p][x] = "broken"
        PROVE  disk[dir][p][x] = "broken" /\ ~BeingWritten(Top, dir, p, x)
    BY <2>1, <2>3, <2>9 DEF BeingWritten
  <2>10. QED
    BY <1>6, <2>2, <2>5, <2>8, <2>9
<1>10. CASE PackageCache
  <2>1. Top.pc = "cache" /\ UNCHANGED disk /\ ~In("package", "copy") /\ Top.now = <<>>
    BY <1>10, <1>a DEF PackageCache, In
  <2>2. /\ \A t \in threads : ~Attached(t)
        /\ \A dir \in Dirs, p \in Packages : \A x \in FilesOf(p) : Joined(p) => disk'[dir][p][x] # "broken"
    BY <1>c, <2>1
  <2>3. \A p \in Packages : Joined(p) /\ cache[p] # NoCopy =>
           Whole(cache[p], p) /\ \A x \in FilesOf(p) : cache[p][x] # "broken"
    BY <1>4, <2>1 DEF Copied
  <2>4. ASSUME UNCHANGED cache \/ cache' = [cache EXCEPT ![Top.p] = NoCopy]
        PROVE  Copied'
    <3>1. \A p \in Packages : cache'[p] = cache[p] \/ cache'[p] = NoCopy
      BY <1>a, <2>4 DEF CacheOK
    <3>2. QED
      BY <2>3, <3>1 DEF Copied, Joined
  <2>5. CASE Goto("configure") /\ UNCHANGED cache
    <3>1. PICK f : GoesOn(f) /\ f.pc = "configure" /\ f.now = <<>>
      BY <1>7, <2>1, <2>5
    <3>2. GetsAll(f)'
      BY <3>1 DEF GetsAll, Downloading, Fetching
    <3>3. QED
      BY <1>6, <2>2, <2>4, <2>5, <3>1, <3>2 DEF SamePackage
  <2>6. CASE /\ Goto("fetch") /\ ~Opts.global /\ Pkg[Top.p].src # <<>>
             /\ UNCHANGED cache \/ cache' = [cache EXCEPT ![Top.p] = NoCopy]
    <3>1. PICK f : GoesOn(f) /\ f.pc = "fetch" /\ f.now = <<>>
      BY <1>7, <2>1, <2>6
    <3>2. \A x : Comes(x, Top) => Comes(x, f)'
      BY <1>2, <2>1, <3>1, StillComes DEF SamePackage
    <3>3. ASSUME Joined(Top.p)
          PROVE  GetsAll(f)'
      <4>1. f.next = 1 /\ \A n \in 1 .. Len(Pkg[f.p].src) : ~(n < 1)
        <5>1. Top.next = 1
          BY <1>4, <2>1, <3>3 DEF GetsAll
        <5>2. Len(Pkg[f.p].src) \in Nat
          BY <1>3, <3>1 DEF SamePackage
        <5>3. QED
          BY <3>1, <5>1, <5>2
      <4>2. QED
        BY <1>4, <1>5, <2>1, <2>6, <3>1, <3>2, <3>3, <4>1 DEF GetsAll, Downloading, Fetching, SamePackage
    <3>4. QED
      BY <1>6, <2>2, <2>4, <2>6, <3>1, <3>3 DEF SamePackage
  <2>7. CASE HasPackage(Top.p) /\ Stay([Top EXCEPT !.pc = "load", !.left = Present(cache[Top.p])]) /\ UNCHANGED cache
    <3>1. PICK left : left = Present(cache[Top.p])
      OBVIOUS
    <3>2. PICK f : f = [Top EXCEPT !.pc = "load", !.left = left]
      OBVIOUS
    <3>3. GoesOn(f) /\ f.pc = "load" /\ f.left = left /\ f.now = <<>>
      BY <1>2, <2>1, <2>7, <3>1, <3>2 DEF PackageFrames, SamePackage
    <3>4. cache[Top.p] # NoCopy /\ cache[Top.p] \in Directory(Top.p)
      BY <1>a, <2>7 DEF HasPackage, CacheOK
    <3>5. left \subseteq FilesOf(Top.p) /\ \A x \in FilesOf(Top.p) : x \in left <=> cache[Top.p][x] # "absent"
      BY <3>1, <3>4 DEF Present, Directory
    <3>6. ASSUME Joined(Top.p)
          PROVE  GetsAll(f)'
      <4>1. \A x \in FilesOf(Top.p) : cache[Top.p][x] \in Worths
        BY <3>4 DEF Directory
      <4>2. \A x \in left : cache[Top.p][x] = "whole"
        BY <1>a, <2>3, <3>4, <3>5, <3>6, <4>1 DEF Worths
      <4>3. \A x \in Done(f) : cache[Top.p][x] # "whole"
        BY <3>3, <3>5 DEF Done, SamePackage
      <4>4. QED
        BY <2>7, <3>3, <4>2, <4>3 DEF GetsAll, Downloading, Fetching, SamePackage, Done
    <3>7. QED
      BY <1>6, <2>2, <2>4, <2>7, <3>3, <3>6 DEF SamePackage
  <2>8. QED
    BY <1>10, <2>5, <2>6, <2>7 DEF PackageCache
<1>11. CASE PackageSave
  <2>1. Top.pc = "save" /\ UNCHANGED disk /\ ~In("package", "copy") /\ Top.now = <<>>
    BY <1>11, <1>a DEF PackageSave, In
  <2>2. /\ \A t \in threads : ~Attached(t)
        /\ \A dir \in Dirs, p \in Packages : \A x \in FilesOf(p) : Joined(p) => disk'[dir][p][x] # "broken"
    BY <1>c, <2>1
  <2>3. PICK g : g = [x \in FilesOf(Top.p) |-> "absent"]
    OBVIOUS
  <2>4. g \in Directory(Top.p) /\ \A x \in FilesOf(Top.p) : g[x] # "broken"
    BY <2>3 DEF Directory, Worths
  <2>5. cache' = [cache EXCEPT ![Top.p] = g]
    BY <1>11, <2>3 DEF PackageSave
  <2>6. \A q \in Packages : cache'[q] = IF q = Top.p THEN g ELSE cache[q]
    <3>1. CacheOK(cache) /\ Top.p \in Packages /\ g \in Directory(Top.p)
      BY <1>a, <2>4
    <3>2. QED
      BY ONLY <2>5, <3>1, CacheWritten
  <2>7. PICK left : left = Present(disk[Top.dir][Top.p])
    OBVIOUS
  <2>8. PICK f : f = [Top EXCEPT !.pc = "copy", !.left = left]
    OBVIOUS
  <2>9. GoesOn(f) /\ f.pc = "copy" /\ f.left = left /\ f.now = <<>>
    BY <1>2, <1>11, <2>1, <2>7, <2>8 DEF PackageFrames, SamePackage, PackageSave
  <2>10. Top' = f /\ In("package", "copy")'
    BY <1>2, <2>9, HeadAfterStay DEF In, Top, Stay, SamePackage
  <2>11. Copied'
    BY <1>4, <2>1, <2>4, <2>6, <2>9, <2>10 DEF Copied, Joined, SamePackage
  <2>12. \A x : Comes(x, Top) => Comes(x, f)'
    BY <1>2, <2>1, <2>9, StillComes DEF SamePackage
  <2>13. left \subseteq FilesOf(Top.p) /\ \A x \in FilesOf(Top.p) : x \in left <=> disk[Top.dir][Top.p][x] # "absent"
    BY <1>a, <2>7 DEF Present, Directory
  <2>14. ASSUME Joined(Top.p)
         PROVE  GetsAll(f)'
    <3>1. \A x \in FilesOf(Top.p) : disk[Top.dir][Top.p][x] \in Worths
      BY <1>a DEF Directory
    <3>2. \A x \in left : disk'[f.dir][f.p][x] = "whole"
      BY <1>a, <2>1, <2>2, <2>9, <2>13, <2>14, <3>1 DEF Worths, SamePackage
    <3>3. \A x \in Done(f) : disk'[f.dir][f.p][x] # "whole"
      BY <2>1, <2>9, <2>13 DEF Done, SamePackage
    <3>4. Done(f)' = Done(f) /\ f.p = Top.p /\ f.dir = Top.dir
      BY <2>9 DEF Done, SamePackage
    <3>5. QED
      BY <1>3, <1>4, <1>5, <2>1, <2>9, <2>12, <2>14, <3>2, <3>3, <3>4 DEF GetsAll, Downloading, Fetching
  <2>15. QED
    BY <1>6, <2>2, <2>9, <2>11, <2>14 DEF SamePackage
<1>12. ASSUME Copying
       PROVE  /\ Top.pc \in {"load", "copy"} /\ (In("package", "copy") <=> Top.pc = "copy")
              /\ cache[Top.p] # NoCopy /\ cache[Top.p] \in Directory(Top.p)
  BY <1>2, <1>a, <1>12 DEF Copying, In
(* One file written to the disk or to the cache while Top goes on as f.    *)
<1>13. ASSUME Copying, NEW x0 \in FilesOf(Top.p), NEW v \in Worths, SetCopy(x0, v),
              NEW f, GoesOn(f), f.pc = Top.pc, f.left \subseteq Top.left,
              \A t \in threads : ~Attached(t),
              \A dir \in Dirs, p \in Packages : \A x \in FilesOf(p) :
                  Joined(p) /\ disk[dir][p][x] = "broken" => BeingWritten(Top, dir, p, x),
              Joined(Top.p) =>
                  /\ f.now # <<>> => f.now[2] = "whole" /\ f.now[1] = x0
                  /\ Top.now # <<>> => Top.now[1] = x0
                  /\ (v = "broken" /\ f.now # <<>>) \/ v = "whole"
                  /\ \A x \in Done(f) : (x = x0 /\ v = "whole") \/ (x # x0 /\ x \in Done(Top))
       PROVE  CopyInv'
  <2>0. f.p = Top.p /\ f.dir = Top.dir /\ f.fn = "package" /\ Done(f)' = Done(f) /\ f.obj = Top.obj
    BY <1>13 DEF SamePackage, Done
  <2>1. Top' = f /\ exit' = "running"
    BY <1>2, <1>13, HeadAfterStay DEF Top, Stay
  <2>2. CASE Top.pc = "load"
    <3>1. UNCHANGED cache /\ Wrote(Top.dir, Top.p, x0, v) /\ ~In("package", "copy")
      BY <1>13, <2>2 DEF SetCopy, Wrote, In
    <3>2. \A dir \in Dirs, p \in Packages : \A x \in FilesOf(p) :
             disk'[dir][p][x] = IF dir = Top.dir /\ p = Top.p /\ x = x0 THEN v ELSE disk[dir][p][x]
      BY <1>a, <1>13, <3>1, FileWritten
    <3>3. Copied'
      BY <1>e, <3>1
    <3>4. ASSUME Joined(Top.p)
          PROVE  GetsAll(f)'
      <4>1. \A x \in f.left : cache'[f.p][x] = "whole"
        BY <1>4, <1>13, <2>0, <2>2, <3>1, <3>4 DEF GetsAll
      <4>2. \A x \in Done(Top) : cache[Top.p][x] = "whole" => disk[Top.dir][Top.p][x] = "whole"
        BY <1>4, <2>2, <3>4 DEF GetsAll
      <4>3. \A x \in Done(f) : cache'[f.p][x] = "whole" => disk'[f.dir][f.p][x] = "whole"
        <5>1. ASSUME NEW x \in Done(f), cache'[f.p][x] = "whole"
              PROVE  disk'[f.dir][f.p][x] = "whole"
          <6>1. x \in FilesOf(Top.p)
            BY <2>0 DEF Done
          <6>2. QED
            BY <1>a, <1>13, <2>0, <3>1, <3>2, <3>4, <4>2, <5>1, <6>1
        <5>2. QED
          BY <5>1
      <4>4. QED
        BY <1>13, <2>0, <2>2, <3>4, <4>1, <4>3 DEF GetsAll, Downloading, Fetching
    <3>5. ASSUME NEW dir \in Dirs, NEW p \in Packages, NEW x \in FilesOf(p), Joined(p), disk'[dir][p][x] = "broken"
          PROVE  (disk[dir][p][x] = "broken" /\ ~BeingWritten(Top, dir, p, x)) \/ BeingWritten(f, dir, p, x)
      <4>1. CASE dir = Top.dir /\ p = Top.p /\ x = x0
        <5>1. v = "broken" /\ f.now # <<>> /\ f.now[1] = x0
          BY <1>13, <3>2, <3>5, <4>1
        <5>2. QED
          BY <1>13, <2>0, <2>2, <4>1, <5>1 DEF BeingWritten
      <4>2. CASE ~(dir = Top.dir /\ p = Top.p /\ x = x0)
        <5>1. BeingWritten(Top, dir, p, x)
          BY <1>13, <3>2, <3>5, <4>2
        <5>2. dir = Top.dir /\ p = Top.p /\ Top.now # <<>> /\ x = Top.now[1]
          BY <2>2, <5>1 DEF BeingWritten
        <5>3. QED
          BY <1>13, <3>5, <4>2, <5>2
      <4>3. QED
        BY <4>1, <4>2
    <3>6. QED
      BY <1>6, <1>13, <2>0, <3>3, <3>4, <3>5
  <2>3. CASE Top.pc = "copy"
    <3>1. UNCHANGED disk /\ cache' = [cache EXCEPT ![Top.p][x0] = v] /\ In("package", "copy") /\ In("package", "copy")'
      BY <1>2, <1>13, <2>0, <2>1, <2>3 DEF SetCopy, In
    <3>2. cache[Top.p] # NoCopy
      BY <1>a, <2>3
    <3>3. /\ \A q \in Packages : q # Top.p => cache'[q] = cache[q]
          /\ \A x \in FilesOf(Top.p) : cache'[Top.p][x] = IF x = x0 THEN v ELSE cache[Top.p][x]
      <4>1. PICK g : g = [cache[Top.p] EXCEPT ![x0] = v]
        OBVIOUS
      <4>2. g \in Directory(Top.p) /\ \A x \in FilesOf(Top.p) : g[x] = IF x = x0 THEN v ELSE cache[Top.p][x]
        BY <1>a, <1>13, <2>3, <4>1 DEF Directory
      <4>3. cache' = [cache EXCEPT ![Top.p] = g]
        BY <3>1, <4>1
      <4>4. \A q \in Packages : cache'[q] = IF q = Top.p THEN g ELSE cache[q]
        <5>1. CacheOK(cache) /\ Top.p \in Packages /\ g \in Directory(Top.p)
          BY <1>a, <4>2
        <5>2. QED
          BY ONLY <4>3, <5>1, CacheWritten
      <4>5. QED
        BY <1>a, <4>2, <4>4
    <3>4. Copied'
      <4> SUFFICES ASSUME NEW p \in Packages, Joined(p), cache'[p] # NoCopy
                   PROVE  /\ \A x \in FilesOf(p) : cache'[p][x] = "broken" => f.p = p /\ f.now # <<>> /\ f.now[1] = x
                          /\ f.p = p \/ Whole(cache'[p], p)
        BY <2>1, <3>1 DEF Copied, Joined
      <4>1. CASE p = Top.p
        <5>1. \A x \in FilesOf(p) : cache[p][x] = "broken" => Top.now # <<>> /\ Top.now[1] = x
          BY <1>4, <3>2, <4>1 DEF Copied
        <5>2. QED
          BY <1>13, <2>0, <3>3, <4>1, <5>1
      <4>2. CASE p # Top.p
        BY <1>4, <3>3, <4>2 DEF Copied
      <4>3. QED
        BY <4>1, <4>2
    <3>5. ASSUME Joined(Top.p)
          PROVE  GetsAll(f)'
      <4>1. GetsAll(Top) /\ \A x : Comes(x, Top) => Comes(x, f)'
        BY <1>2, <1>4, <2>0, <3>1, <3>5, StillComes
      <4>2. \A x \in f.left : disk'[f.dir][f.p][x] = "whole"
        BY <1>13, <2>0, <2>3, <3>1, <4>1 DEF GetsAll
      <4>3. \A x \in Done(Top) : disk[Top.dir][Top.p][x] = "whole" => cache[Top.p][x] = "whole"
        BY <2>3, <4>1 DEF GetsAll
      <4>4. \A x \in Done(f) : disk'[f.dir][f.p][x] = "whole" => cache'[f.p][x] = "whole"
        <5>1. ASSUME NEW x \in Done(f), disk'[f.dir][f.p][x] = "whole"
              PROVE  cache'[f.p][x] = "whole"
          <6>1. x \in FilesOf(Top.p)
            BY <2>0 DEF Done
          <6>2. QED
            BY <1>13, <2>0, <3>1, <3>3, <3>5, <4>3, <5>1, <6>1
        <5>2. QED
          BY <5>1
      <4>5. f.next = Top.next /\ f.pc = "copy" /\ (f.now # <<>> => f.now[2] = "whole")
        BY <1>13, <2>3, <3>5
      <4>6. QED
        BY <1>5, <2>0, <2>3, <4>1, <4>2, <4>4, <4>5 DEF GetsAll, Downloading, Fetching
    <3>6. ASSUME NEW dir \in Dirs, NEW p \in Packages, NEW x \in FilesOf(p), Joined(p), disk'[dir][p][x] = "broken"
          PROVE  disk[dir][p][x] = "broken" /\ ~BeingWritten(Top, dir, p, x)
      BY <2>3, <3>1, <3>6 DEF BeingWritten
    <3>7. QED
      BY <1>6, <1>13, <2>0, <3>4, <3>5, <3>6
  <2>4. QED
    BY <1>12, <1>13, <2>2, <2>3
<1>14. CASE CopyOpen
  <2>1. Copying /\ Top.now = <<>>
    BY <1>14 DEF CopyOpen
  <2>2. PICK x0 \in Top.left : SetCopy(x0, "broken") /\ Stay([Top EXCEPT !.left = @ \ {x0}, !.now = <<x0, From[x0]>>])
    <3>1. \A kind : ~Fail(kind)
      BY <1>2 DEF Fail
    <3>2. QED
      BY ONLY <1>14, <3>1 DEF CopyOpen
  <2>3. PICK left, now : left = Top.left \ {x0} /\ now = <<x0, From[x0]>>
    OBVIOUS
  <2>4. PICK f : f = [Top EXCEPT !.left = left, !.now = now]
    OBVIOUS
  <2>5. GoesOn(f) /\ f.pc = Top.pc /\ f.left = left /\ f.now = now
    BY <1>2, <2>2, <2>3, <2>4 DEF PackageFrames, SamePackage
  <2>6. now # <<>> /\ now[1] = x0 /\ now[2] = From[x0]
    BY <2>3
  <2>7. x0 \in FilesOf(Top.p) /\ Top.pc \in {"load", "copy"}
    BY <1>a, <1>12, <2>1
  <2>8. Joined(Top.p) => From[x0] = "whole"
    BY <1>4, <2>7 DEF GetsAll, From
  <2>9. \A x \in Done(f) : x # x0 /\ x \in Done(Top)
    BY <2>1, <2>3, <2>5, <2>6 DEF Done, SamePackage
  <2>10. /\ \A t \in threads : ~Attached(t)
         /\ \A dir \in Dirs, p \in Packages : \A x \in FilesOf(p) : Joined(p) => disk[dir][p][x] # "broken"
    BY <1>c, <2>1, <2>7
  <2>11. "broken" \in Worths /\ left \subseteq Top.left /\ x0 \notin left
    BY <2>3 DEF Worths
  <2>12. QED
    BY <1>13, <2>1, <2>2, <2>5, <2>6, <2>7, <2>8, <2>9, <2>10, <2>11
<1>15. CASE CopyWrite
  <2>1. Copying /\ Top.now # <<>> /\ SetCopy(Top.now[1], Top.now[2]) /\ Stay([Top EXCEPT !.now = <<>>])
    BY <1>15 DEF CopyWrite, Fail
  <2>2. Top.pc \in {"load", "copy"} /\ Top.now[1] \in FilesOf(Top.p) /\ Top.now[2] \in Worths
    BY <1>a, <1>12, <2>1
  <2>3. PICK f : f = [Top EXCEPT !.now = <<>>]
    OBVIOUS
  <2>4. GoesOn(f) /\ f.pc = Top.pc /\ f.left = Top.left /\ f.now = <<>>
    BY <1>2, <2>1, <2>3 DEF PackageFrames, SamePackage
  <2>5. Joined(Top.p) => Top.now[2] = "whole"
    BY <1>4, <2>1 DEF GetsAll
  <2>6. \A x \in Done(f) : x = Top.now[1] \/ x \in Done(Top)
    BY <2>4 DEF Done, SamePackage
  <2>7. \A t \in threads : ~Attached(t)
    BY <1>2, <2>2 DEF WindowInv, Installs, Awaited, Top
  <2>8. ASSUME NEW dir \in Dirs, NEW p \in Packages, NEW x \in FilesOf(p), Joined(p), disk[dir][p][x] = "broken"
        PROVE  BeingWritten(Top, dir, p, x)
    <3>1. (\E t \in threads : Writes(t, dir, p, x)) \/ BeingWritten(Top, dir, p, x)
      BY <1>4, <2>8 DEF Spoilt, Top
    <3>2. QED
      BY <2>7, <2>8, <3>1 DEF Writes, Attached
  <2>9. QED
    BY <1>13, <2>1, <2>2, <2>4, <2>5, <2>6, <2>7, <2>8
<1>16. CASE CopyOver
  <2>1. Copying /\ Top.now = <<>> /\ Top.left = {} /\ Goto("configure") /\ UNCHANGED <<disk, cache>>
    BY <1>16 DEF CopyOver, files
  <2>2. Top.pc \in {"load", "copy"}
    BY <1>12, <2>1
  <2>3. PICK f : GoesOn(f) /\ f.pc = "configure" /\ f.now = <<>>
    BY <1>7, <2>1
  <2>4. GetsAll(f)'
    BY <2>3 DEF GetsAll, Downloading, Fetching
  <2>5. /\ \A t \in threads : ~Attached(t)
        /\ \A dir \in Dirs, p \in Packages : \A x \in FilesOf(p) : Joined(p) => disk'[dir][p][x] # "broken"
    BY <1>c, <2>1, <2>2
  <2>6. CASE Top.pc = "load"
    <3>1. Copied'
      BY <1>e, <2>1, <2>6 DEF In
    <3>2. QED
      BY <1>6, <2>3, <2>4, <2>5, <3>1 DEF SamePackage
  <2>7. CASE Top.pc = "copy"
    <3>1. cache[Top.p] # NoCopy /\ cache[Top.p] \in Directory(Top.p)
      BY <1>a, <2>7
    <3>2. ASSUME Joined(Top.p)
          PROVE  Whole(cache[Top.p], Top.p) /\ \A x \in FilesOf(Top.p) : cache[Top.p][x] # "broken"
      <4>1. GetsAll(Top) /\ Done(Top) = FilesOf(Top.p)
        BY <1>4, <2>1, <3>2 DEF Done
      <4>2. ASSUME NEW x \in FilesOf(Top.p), Comes(x, Top)
            PROVE  cache[Top.p][x] = "whole"
        BY <1>d, <2>5, <2>7, <3>2, <4>1, <4>2 DEF GetsAll
      <4>3. ~Opts.global /\ Pkg[Top.p].src # <<>> /\ Top.next > Len(Pkg[Top.p].src)
        BY <2>7, <4>1 DEF GetsAll, Downloading
      <4>4. DOMAIN cache[Top.p] = FilesOf(Top.p)
        BY <3>1 DEF Directory
      <4>5. \E i \in 1 .. 2 : ManifestNames[i] \in DOMAIN cache[Top.p] /\ cache[Top.p][ManifestNames[i]] = "whole"
        <5>1. PICK i \in 1 .. 2 : Comes(ManifestNames[i], Top)
          BY <2>7, <4>1, <4>3 DEF GetsAll, Fetching
        <5>2. ManifestNames[i] \in FilesOf(Top.p)
          BY <1>a, FilesOfPackage DEF Range, ManifestNames
        <5>3. QED
          BY <4>2, <4>4, <5>1, <5>2
      <4>6. ASSUME NEW x \in Sources(Top.p)
            PROVE  cache[Top.p][x] = "whole"
        <5>1. x \in FilesOf(Top.p)
          BY <1>a, FilesOfPackage
        <5>2. CASE x \in Range(Pkg[Top.p].src)
          <6>1. PICK n \in 1 .. Len(Pkg[Top.p].src) : x = Pkg[Top.p].src[n]
            BY <1>3, <5>2 DEF Range
          <6>2. n < Top.next
            BY <1>3, <4>3
          <6>3. Comes(x, Top)
            BY <2>7, <4>1, <6>1, <6>2 DEF GetsAll, Downloading
          <6>4. QED
            BY <4>2, <5>1, <6>3
        <5>3. CASE x = "Makefile" /\ Pkg[Top.p].makefile
          <6>1. Comes(x, Top)
            BY <2>7, <4>1, <4>3, <5>3 DEF GetsAll, Fetching
          <6>2. QED
            BY <4>2, <5>1, <6>1
        <5>4. QED
          BY <4>6, <5>2, <5>3 DEF Sources
      <4>7. \A x \in FilesOf(Top.p) : cache[Top.p][x] # "broken"
        BY <1>a, <1>4, <2>1, <3>1, <3>2 DEF Copied
      <4>8. QED
        BY <4>5, <4>6, <4>7 DEF Whole
    <3>3. Copied'
      <4>1. ASSUME NEW p \in Packages, Joined(p), cache'[p] # NoCopy
            PROVE  Whole(cache'[p], p) /\ \A x \in FilesOf(p) : cache'[p][x] # "broken"
        BY <1>4, <2>1, <3>2, <4>1 DEF Copied
      <4>2. QED
        BY <4>1 DEF Copied, Joined
    <3>4. QED
      BY <1>6, <2>3, <2>4, <2>5, <3>3 DEF SamePackage
  <2>8. QED
    BY <2>2, <2>6, <2>7
<1>17. ~CopyFails
  BY DEF CopyFails, Fail
<1>18. QED
  BY <1>8, <1>9, <1>10, <1>11, <1>14, <1>15, <1>16, <1>17 DEF Copies

(* clib_package_install.                                                   *)
LEMMA PackageKeepsCopies ==
    ASSUME InstallInv, WindowInv, CopyInv, faults = {}, faults' = {}, PackageSteps
    PROVE  CopyInv'
<1>1. /\ exit = "running" /\ Top.fn = "package" /\ stack \in Seq(Frames) /\ stack # <<>> /\ Top \in PackageFrames
      /\ cmd' = cmd /\ Len(stack) > 1
  BY PackageStepsRun, RunningFrame, FrameKinds DEF InstallInv, InstallTypeOK
<1>2. /\ Top.p \in Packages /\ Top.dir \in Dirs /\ Top.file \in Range(ManifestNames) /\ Top.next \in Nat \ {0}
      /\ Top.obj \in Nat /\ Pkg[Top.p].src \in Seq(STRING)
      /\ Settled => Top.now = <<>>
  <2>1. Settled => Top.now = <<>>
    BY <1>1, RunningPackage DEF InstallInv, Settled
  <2>2. QED
    BY <1>1, <2>1, CInstallManifests DEF PackageFrames
<1>3. Spoilt /\ Copied /\ (Joined(Top.p) => GetsAll(Top))
  BY <1>1 DEF CopyInv, Getting, Top
<1>4. Opts' = Opts
  BY <1>1 DEF Opts
<1>5. ObjectsFollow /\ "spawn" \notin faults
  <2>1. Main
    BY StepsOfTheLibrary DEF Main, PackageSteps, Library, Copies
  <2>2. QED
    BY <2>1, MainObjects DEF InstallInv
<1>6. ASSUME NEW f, Stay(f), f.fn = "package", f.p = Top.p, UNCHANGED <<disk, cache>>,
             \A t \in threads : t \in threads' \/ t.pc = "done", Settled,
             Joined(Top.p) => GetsAll(f)'
      PROVE  CopyInv'
  <2>1. Head(stack') = f /\ exit' = "running"
    BY <1>1, <1>6, HeadAfterStay DEF Stay
  <2>2. Joined(f.p) => GetsAll(f)'
    BY <1>6 DEF Joined
  <2>3. exit' = "running" => (Head(stack').fn = "package" /\ Joined(Head(stack').p) => GetsAll(Head(stack))')
    BY ONLY <2>1, <2>2 DEF GetsAll, Comes
  <2>4. QED
    BY <1>1, <1>5, <1>6, <2>1, <2>3, QuietSteps
<1>7. ASSUME UNCHANGED <<disk, cache, threads>>, Settled, exit' = "running", Head(stack').fn # "package"
      PROVE  CopyInv'
  BY <1>1, <1>5, <1>7, QuietSteps DEF Settled
<1>8. ASSUME NEW pc, Goto(pc)
      PROVE  \E f : Stay(f) /\ SamePackage(f) /\ f.pc = pc /\ f.next = Top.next /\ f.now = Top.now
  <2>1. PICK f : f = [Top EXCEPT !.pc = pc]
    OBVIOUS
  <2>2. SamePackage(f) /\ f.pc = pc /\ f.next = Top.next /\ f.now = Top.now
    BY <1>1, <2>1 DEF PackageFrames, SamePackage
  <2>3. QED
    BY <1>8, <2>1, <2>2 DEF Goto
<1>9. ASSUME NEW rc, NEW o, Return(rc, o)
      PROVE  Head(stack').fn # "package" /\ exit' = "running"
  <2>1. PICK g \in Frames : g = Head(stack)' /\ CalledBy(Top, g) /\ exit' = "running"
    BY <1>1, <1>9, ReturnsToTheCaller
  <2>2. QED
    BY <1>1, <2>1 DEF CalledBy
<1>10. ASSUME NEW f, f.fn # "package", NEW pc, CallThen(f, pc)
       PROVE  Head(stack').fn # "package" /\ exit' = "running"
  BY <1>1, <1>10, HeadAfterCall DEF CallThen, Call
<1>11. ASSUME NEW f, SamePackage(f), \A t \in threads : t \in threads' \/ t.pc = "done", UNCHANGED disk
       PROVE  \A x : Comes(x, Top) => Comes(x, f)'
  BY <1>11, StillComes DEF SamePackage
<1>12. CASE PackageVisited \/ PackageDeps \/ (PackageExecuted /\ ret.rc # "ok")
  <2>1. UNCHANGED <<disk, cache, threads>> /\ Settled /\ \E rc, o : Return(rc, o)
    BY <1>12 DEF PackageVisited, PackageDeps, PackageExecuted, PackageReturn, files, process, In, Settled
  <2>2. QED
    BY <1>7, <1>9, <2>1
<1>13. CASE PackageConfigure \/ (PackageExecuted /\ ret.rc = "ok")
  <2>1. /\ UNCHANGED <<disk, cache, threads>> /\ Settled
        /\ \/ CallThen(ExecFrame(Top.p, Top.dir), "executed")
           \/ CallThen(ListFrame(Pkg[Top.p].deps, Top.dir), "deps")
    BY <1>13 DEF PackageConfigure, PackageExecuted, files, process, In, Settled
  <2>2. ExecFrame(Top.p, Top.dir).fn # "package" /\ ListFrame(Pkg[Top.p].deps, Top.dir).fn # "package"
    BY DEF ExecFrame, ListFrame
  <2>3. QED
    BY <1>7, <1>10, <2>1, <2>2
<1>14. ASSUME PackageRefused \/ PackageNoMakefile \/ PackageNotFetched \/ PackageNotConfigured
       PROVE  FALSE
  BY <1>14 DEF PackageRefused, PackageNoMakefile, PackageNotFetched, PackageNotConfigured, SpawnFails, Fail
<1>15. CASE PackageMakefile
  <2>0. Top.pc = "makefile" /\ Settled /\ UNCHANGED <<disk, cache>>
    BY <1>15 DEF PackageMakefile, In, files, Settled
  <2>1. CASE ~HasMakefile
    <3>1. PICK f : Stay(f) /\ SamePackage(f) /\ f.pc = "cache" /\ f.next = Top.next /\ f.now = Top.now
      BY <1>8, <1>15, <2>1 DEF PackageMakefile
    <3>2. UNCHANGED threads
      BY <1>15, <2>1 DEF PackageMakefile
    <3>3. \A x : Comes(x, Top) => Comes(x, f)'
      BY <1>11, <2>0, <3>1, <3>2
    <3>4. Joined(Top.p) => GetsAll(f)'
      BY <1>2, <1>3, <1>4, <2>0, <2>1, <3>1, <3>3 DEF GetsAll, Downloading, Fetching, SamePackage, HasMakefile
    <3>5. QED
      BY <1>6, <2>0, <3>1, <3>2, <3>4 DEF SamePackage
  <2>2. CASE HasMakefile
    <3>1. PICK f : Stay(f) /\ SamePackage(f) /\ f.pc = "makefile fetch" /\ f.next = Top.next /\ f.now = Top.now
      BY <1>8, <1>15, <2>2 DEF PackageMakefile
    <3>2. PICK u : u = [obj |-> Top.obj, slot |-> MakefileSlot, file |-> "Makefile", pc |-> "begin", seen |-> 0]
      OBVIOUS
    <3>3. threads' = threads \cup {u} /\ u.obj = Top.obj /\ u.file = "Makefile" /\ u.pc = "begin"
      BY <1>15, <2>2, <3>2 DEF PackageMakefile, Spawn
    <3>4. Comes("Makefile", f)'
      BY <3>1, <3>3 DEF Comes, SamePackage
    <3>5. \A x : Comes(x, Top) => Comes(x, f)'
      BY <1>11, <2>0, <3>1, <3>3
    <3>6. Joined(Top.p) => GetsAll(f)'
      BY <1>2, <1>3, <1>4, <2>0, <3>1, <3>4, <3>5 DEF GetsAll, Downloading, Fetching, SamePackage
    <3>7. QED
      BY <1>6, <2>0, <3>1, <3>3, <3>6 DEF SamePackage
  <2>3. QED
    BY <2>1, <2>2
<1>16. CASE PackageMakefileJoined
  <2>1. /\ Top.pc = "makefile fetch" /\ Settled /\ UNCHANGED <<disk, cache>>
        /\ \A t \in threads : t \in threads' \/ t.pc = "done"
    BY <1>16 DEF PackageMakefileJoined, In, files, Join, Settled
  <2>2. PICK f : Stay(f) /\ SamePackage(f) /\ f.pc = "cache" /\ f.next = Top.next /\ f.now = Top.now
    BY <1>8, <1>16 DEF PackageMakefileJoined
  <2>3. \A x : Comes(x, Top) => Comes(x, f)'
    BY <1>11, <2>1, <2>2
  <2>4. Joined(Top.p) => GetsAll(f)'
    BY <1>2, <1>3, <1>4, <2>1, <2>2, <2>3 DEF GetsAll, Downloading, Fetching, SamePackage
  <2>5. QED
    BY <1>6, <2>1, <2>2, <2>4 DEF SamePackage
<1>17. CASE PackageWindow \/ PackageFinal
  <2>1. PICK pc \in {"window", "final"} : JoinFetch(pc, IF pc = "window" THEN "fetch" ELSE "save") /\ Top.pc = pc /\ Settled
    BY <1>17 DEF PackageWindow, PackageFinal, JoinFetch, In, Settled
  <2>2. UNCHANGED <<disk, cache>> /\ \A t \in threads : t \in threads' \/ t.pc = "done"
    BY <2>1 DEF JoinFetch, files, Join
  <2>3. PICK f : Stay(f) /\ SamePackage(f) /\ f.pc \in {pc, IF pc = "window" THEN "fetch" ELSE "save"} /\ f.next = Top.next /\ f.now = Top.now
    <3>1. CASE Top.window = <<>>
      BY <1>8, <2>1, <3>1 DEF JoinFetch
    <3>2. CASE Top.window # <<>>
      <4>1. PICK f : f = [Top EXCEPT !.window = Front(@)]
        OBVIOUS
      <4>2. SamePackage(f) /\ f.pc = Top.pc /\ f.next = Top.next /\ f.now = Top.now
        BY <1>1, <4>1 DEF PackageFrames, SamePackage
      <4>3. Stay(f)
        BY <2>1, <3>2, <4>1 DEF JoinFetch
      <4>4. QED
        BY <2>1, <4>2, <4>3
    <3>3. QED
      BY <3>1, <3>2
  <2>4. \A x : Comes(x, Top) => Comes(x, f)'
    BY <1>11, <2>2, <2>3
  <2>5. Joined(Top.p) => GetsAll(f)'
    <3>1. CASE pc = "window"
      BY <1>2, <1>3, <1>4, <2>1, <2>3, <2>4, <3>1 DEF GetsAll, Downloading, Fetching, SamePackage
    <3>2. CASE pc = "final"
      BY <1>2, <1>3, <1>4, <2>1, <2>3, <2>4, <3>2 DEF GetsAll, Downloading, Fetching, SamePackage
    <3>3. QED
      BY <3>1, <3>2
  <2>6. QED
    BY <1>6, <2>1, <2>2, <2>3, <2>5 DEF SamePackage
<1>18. CASE PackageFetch
  <2>0. Top.pc = "fetch" /\ Settled /\ UNCHANGED <<disk, cache>>
    BY <1>18 DEF PackageFetch, In, files, Settled
  <2>1. CASE Top.next > Len(Pkg[Top.p].src)
    <3>1. PICK f : Stay(f) /\ SamePackage(f) /\ f.pc = "final" /\ f.next = Top.next /\ f.now = Top.now
      BY <1>8, <1>18, <2>1 DEF PackageFetch
    <3>2. UNCHANGED threads
      BY <1>18, <2>1 DEF PackageFetch
    <3>3. \A x : Comes(x, Top) => Comes(x, f)'
      BY <1>11, <2>0, <3>1, <3>2
    <3>4. Joined(Top.p) => GetsAll(f)'
      BY <1>2, <1>3, <1>4, <2>0, <2>1, <3>1, <3>3 DEF GetsAll, Downloading, Fetching, SamePackage
    <3>5. QED
      BY <1>6, <2>0, <3>1, <3>2, <3>4 DEF SamePackage
  <2>2. CASE ~(Top.next > Len(Pkg[Top.p].src))
    <3>1. PICK room \in BOOLEAN : room <=> Len(Top.window) < Concurrency
      OBVIOUS
    <3>2. PICK next, pc, window :
             /\ next = Top.next + 1 /\ pc = (IF room THEN "fetch" ELSE "window")
             /\ window = IF room THEN Append(Top.window, Top.next) ELSE Top.window
      OBVIOUS
    <3>3. Spawn(Top.next, Pkg[Top.p].src[Top.next]) /\ Stay([Top EXCEPT !.next = next, !.pc = pc, !.window = window])
      BY <1>18, <2>2, <3>1, <3>2 DEF PackageFetch
    <3>4. PICK f : f = [Top EXCEPT !.next = next, !.pc = pc, !.window = window]
      OBVIOUS
    <3>5. Stay(f) /\ SamePackage(f) /\ f.pc \in {"fetch", "window"} /\ f.next = Top.next + 1 /\ f.now = Top.now
      BY <1>1, <3>2, <3>3, <3>4 DEF PackageFrames, SamePackage
    <3>6. PICK src, k, u : /\ src = Pkg[Top.p].src /\ k = Top.next
                           /\ u = [obj |-> Top.obj, slot |-> k, file |-> src[k], pc |-> "begin", seen |-> 0]
      OBVIOUS
    <3>7. threads' = threads \cup {u} /\ u.obj = Top.obj /\ u.file = src[k] /\ u.pc = "begin"
      BY <3>3, <3>6 DEF Spawn
    <3>8. Comes(src[k], f)'
      BY <3>5, <3>7 DEF Comes, SamePackage
    <3>9. \A x : Comes(x, Top) => Comes(x, f)'
      BY <1>11, <2>0, <3>5, <3>7
    <3>a. f.next = k + 1 /\ k \in Nat /\ src \in Seq(STRING) /\ src = Pkg[f.p].src
      BY <1>2, <3>5, <3>6 DEF SamePackage
    <3>10. \A n \in 1 .. Len(src) : n < f.next => n < k \/ n = k
      BY <3>a
    <3>11. ASSUME Joined(Top.p)
           PROVE  \A n \in 1 .. Len(src) : n < f.next => Comes(src[n], f)'
      <4>1. \A n \in 1 .. Len(src) : n < k => Comes(src[n], Top)
        BY <1>3, <2>0, <3>6, <3>11 DEF GetsAll, Downloading
      <4>2. \A n \in 1 .. Len(src) : n < k => Comes(src[n], f)'
        BY <3>9, <4>1
      <4>3. QED
        BY <3>8, <3>10, <4>2
    <3>12. Joined(Top.p) => GetsAll(f)'
      BY <1>2, <1>3, <1>4, <2>0, <3>5, <3>9, <3>a, <3>11 DEF GetsAll, Downloading, Fetching, SamePackage
    <3>13. QED
      BY <1>6, <2>0, <3>5, <3>7, <3>12 DEF SamePackage
  <2>3. QED
    BY <2>1, <2>2
<1>19. CASE PackageEnter \/ PackageWritten \/ PackageCache \/ PackageSave \/ Copies
  BY <1>19, PackageFilesCopied
<1>20. QED
  BY <1>12, <1>13, <1>14, <1>15, <1>16, <1>17, <1>18, <1>19 DEF PackageSteps

(* A fetching thread.                                                      *)
LEMMA ThreadsKeepCopies ==
    ASSUME InstallInv, WindowInv, CopyInv, faults = {}, faults' = {}, exit = "running", UNCHANGED <<stack, exit>>,
           NEW t \in threads, ThreadBegin(t) \/ ThreadOpen(t) \/ ThreadGet(t) \/ ThreadDrop(t), cmd' = cmd
    PROVE  CopyInv'
<1>1. Spoilt /\ Copied /\ Getting /\ DiskOK(disk)
  BY DEF CopyInv, InstallInv, InstallTypeOK, FilesTypeOK
<1>2. /\ \A x \in threads : x.obj \in DOMAIN objs
      /\ DOMAIN objs' = DOMAIN objs
      /\ \A o \in DOMAIN objs : objs'[o].p = objs[o].p /\ objs'[o].dir = objs[o].dir
  BY ThreadMoves DEF InstallInv, ObjectTypeOK, ThreadMove
<1>3. PICK dir, p, f : dir = objs[t.obj].dir /\ p = objs[t.obj].p /\ f = t.file
  OBVIOUS
<1>4. dir \in Dirs /\ p \in Packages /\ t \in Fetchers
  <2>1. t.obj \in DOMAIN objs /\ objs \in Seq(Objects) /\ t \in Fetchers
    BY DEF InstallInv, ObjectTypeOK
  <2>2. objs[t.obj] \in Objects
    BY <2>1
  <2>3. QED
    BY <1>3, <2>1, <2>2 DEF Objects
(* What the step does to the file and to the thread.                       *)
<1>5. PICK u : /\ threads' = (threads \ {t}) \cup {u} /\ u.obj = t.obj /\ u.file = f
               /\ \/ t.pc = "begin" /\ u.pc = "drop" /\ disk[dir][p][f] # "absent" /\ UNCHANGED disk
                  \/ t.pc = "begin" /\ u.pc = "open" /\ UNCHANGED disk
                  \/ t.pc = "open" /\ u.pc = "get" /\ Wrote(dir, p, f, "broken")
                  \/ t.pc = "get" /\ u.pc = "drop" /\ Wrote(dir, p, f, "whole")
                  \/ t.pc = "drop" /\ u.pc = "done" /\ UNCHANGED disk
  <2>1. CASE ThreadBegin(t)
    <3>1. CASE File(t) # "absent" /\ Leave(t) /\ UNCHANGED disk
      <4>1. PICK u : u = [t EXCEPT !.pc = "drop", !.seen = objs[t.obj].refs]
        OBVIOUS
      <4>2. u.obj = t.obj /\ u.file = t.file /\ u.pc = "drop"
        BY <1>4, <4>1 DEF Fetchers
      <4>3. QED
        BY <1>3, <2>1, <3>1, <4>1, <4>2 DEF ThreadBegin, Leave, Step, File
    <3>2. CASE Step(t, [t EXCEPT !.pc = "open"]) /\ UNCHANGED disk
      <4>1. PICK u : u = [t EXCEPT !.pc = "open"]
        OBVIOUS
      <4>2. u.obj = t.obj /\ u.file = t.file /\ u.pc = "open"
        BY <1>4, <4>1 DEF Fetchers
      <4>3. QED
        BY <1>3, <2>1, <3>2, <4>1, <4>2 DEF ThreadBegin, Step
    <3>3. QED
      BY <2>1, <3>1, <3>2 DEF ThreadBegin, files
  <2>a. CASE ThreadOpen(t)
    <3>1. t.pc = "open" /\ Step(t, [t EXCEPT !.pc = "get"]) /\ SetFile(t, "broken")
      BY <2>a DEF ThreadOpen, Fail
    <3>2. PICK u : u = [t EXCEPT !.pc = "get"]
      OBVIOUS
    <3>3. u.obj = t.obj /\ u.file = t.file /\ u.pc = "get"
      BY <1>4, <3>2 DEF Fetchers
    <3>4. QED
      BY <1>3, <3>1, <3>2, <3>3 DEF Step, SetFile, Wrote
  <2>2. CASE ThreadGet(t)
    <3>1. SetFile(t, "whole") /\ Leave(t) /\ t.pc = "get"
      BY <2>2 DEF ThreadGet, Fail
    <3>2. PICK u : u = [t EXCEPT !.pc = "drop", !.seen = objs[t.obj].refs]
      OBVIOUS
    <3>3. u.obj = t.obj /\ u.file = t.file /\ u.pc = "drop"
      BY <1>4, <3>2 DEF Fetchers
    <3>4. QED
      BY <1>3, <3>1, <3>2, <3>3 DEF Leave, Step, SetFile, Wrote
  <2>3. CASE ThreadDrop(t)
    <3>1. PICK u : u = [t EXCEPT !.pc = "done", !.seen = 0]
      OBVIOUS
    <3>2. u.obj = t.obj /\ u.file = t.file /\ u.pc = "done"
      BY <1>4, <3>1 DEF Fetchers
    <3>3. QED
      BY <1>3, <2>3, <3>1, <3>2 DEF ThreadDrop, Step, files
  <2>4. QED
    BY <2>1, <2>a, <2>2, <2>3
<1>6. PICK v : v = IF u.pc = "get" THEN "broken" ELSE IF t.pc = "get" THEN "whole" ELSE disk[dir][p][f]
  OBVIOUS
<1>7. \A d \in Dirs, q \in Packages : \A x \in FilesOf(q) :
         disk'[d][q][x] = IF d = dir /\ q = p /\ x = f THEN v ELSE disk[d][q][x]
  <2>1. CASE UNCHANGED disk /\ v = disk[dir][p][f]
    BY <2>1
  <2>2. CASE v \in {"absent", "broken", "whole"} /\ Wrote(dir, p, f, v)
    BY <1>1, <1>4, <2>2, FileWritten DEF Worths
  <2>3. QED
    BY <1>5, <1>6, <2>1, <2>2
<1>8. ASSUME NEW x \in threads, x # t
      PROVE  x \in threads' /\ \A d, q, y : Writes(x, d, q, y) => Writes(x, d, q, y)'
  BY <1>2, <1>5, <1>8 DEF Writes
<1>9. Spoilt'
  <2> SUFFICES ASSUME NEW d \in Dirs, NEW q \in Packages, NEW x \in FilesOf(q), Joined(q), disk'[d][q][x] = "broken"
               PROVE  (\E y \in threads' : Writes(y, d, q, x)') \/ BeingWritten(Head(stack), d, q, x)
    BY DEF Spoilt, Joined, BeingWritten
  <2>1. CASE d = dir /\ q = p /\ x = f /\ u.pc = "get"
    <3>1. u \in threads' /\ objs'[u.obj].dir = dir /\ objs'[u.obj].p = p
      BY <1>2, <1>3, <1>5
    <3>2. QED
      BY <1>5, <2>1, <3>1 DEF Writes
  <2>2. CASE ~(d = dir /\ q = p /\ x = f /\ u.pc = "get")
    <3>1. disk[d][q][x] = "broken" /\ (d = dir /\ q = p /\ x = f => t.pc # "get")
      BY <1>5, <1>6, <1>7, <2>2
    <3>2. ASSUME NEW y \in threads, Writes(y, d, q, x)
          PROVE  y \in threads' /\ Writes(y, d, q, x)'
      <4>1. y # t
        BY <1>3, <3>1, <3>2 DEF Writes
      <4>2. QED
        BY <1>8, <3>2, <4>1
    <3>3. QED
      BY <1>1, <3>1, <3>2 DEF Spoilt
  <2>3. QED
    BY <2>1, <2>2
<1>10. Copied'
  <2>1. UNCHANGED cache /\ (In("package", "copy")' <=> In("package", "copy")) /\ Top' = Top
    BY DEF ThreadBegin, ThreadOpen, ThreadGet, ThreadDrop, files, In, Top
  <2>2. QED
    BY <1>1, <2>1 DEF Copied, Joined
<1>11. Getting'
  <2> SUFFICES ASSUME Top.fn = "package", Joined(Top.p)
               PROVE  GetsAll(Top)'
    BY DEF Getting, Top, Joined
  <2>1. GetsAll(Top) /\ Top' = Top /\ Opts' = Opts
    BY <1>1 DEF Getting, Top, Opts
  <2>2. CASE Top.pc \in {"enter", "manifest"}
    BY <2>1, <2>2 DEF GetsAll, Downloading, Fetching
  <2>3. CASE Top.pc \notin {"enter", "manifest"}
    <3>1. PICK g : g = Top /\ g.fn = "package" /\ Joined(g.p) /\ g.p \in Packages /\ g.dir \in Dirs
                   /\ objs[g.obj].p = g.p /\ objs[g.obj].dir = g.dir /\ Pkg[g.p].src \in Seq(STRING)
      <4>1. Top \in PackageFrames
        BY RunningFrame, FrameKinds DEF InstallInv
      <4>2. Top.p \in Packages /\ Top.dir \in Dirs
        BY <4>1 DEF PackageFrames
      <4>3. QED
        BY <2>3, <4>2, PackageHasObject, CInstallManifests DEF Installs
    <3>2. ASSUME NEW x \in FilesOf(g.p), Comes(x, g)
          PROVE  Comes(x, g)'
      <4>1. CASE g.p = p /\ g.dir = dir /\ x = f
        <5>1. Attached(t)
          BY <1>3, <3>1, <4>1 DEF Attached
        <5>2. t.obj = g.obj
          BY <3>1, <5>1 DEF WindowInv, Top
        <5>3. CASE u.pc = "get"
          BY <1>5, <4>1, <5>2, <5>3 DEF Comes
        <5>4. CASE u.pc # "get" /\ t.pc = "get"
          <6>1. disk'[g.dir][g.p][x] = "whole"
            BY <1>6, <1>7, <3>1, <3>2, <4>1, <5>4
          <6>2. QED
            BY <6>1 DEF Comes
        <5>5. CASE u.pc # "get" /\ t.pc # "get"
          <6>1. disk'[g.dir][g.p][x] = disk[g.dir][g.p][x]
            BY <1>6, <1>7, <3>1, <3>2, <4>1, <5>5
          <6>2. CASE disk[g.dir][g.p][x] = "whole"
            BY <6>1, <6>2 DEF Comes
          <6>3. CASE disk[g.dir][g.p][x] # "whole" /\ t.pc = "begin"
            <7>0. u.pc = "open" \/ disk[g.dir][g.p][x] # "absent"
              BY <1>5, <4>1, <5>5, <6>3
            <7>b. CASE u.pc = "open"
              BY <1>5, <4>1, <5>2, <7>b DEF Comes
            <7>1. u.pc # "open" => disk[g.dir][g.p][x] = "broken"
              <8>1. disk[g.dir][g.p][x] \in Worths
                BY <1>1, <3>1, <3>2 DEF DiskOK, Directory
              <8>2. QED
                BY <6>3, <7>0, <8>1 DEF Worths
            <7> SUFFICES ASSUME u.pc # "open"
                         PROVE  Comes(x, g)'
              BY <7>b
            <7>a. ~BeingWritten(Top, g.dir, g.p, x)
              BY <5>1 DEF WindowInv, Awaited, BeingWritten, Top
            <7>2. PICK y \in threads : Writes(y, g.dir, g.p, x)
              BY <1>1, <3>1, <3>2, <7>1, <7>a DEF Spoilt, Top
            <7>3. Attached(y)
              BY <3>1, <7>2 DEF Attached, Writes
            <7>4. y.obj = g.obj /\ y # t
              BY <3>1, <6>3, <7>2, <7>3 DEF WindowInv, Top, Writes
            <7>5. y \in threads' /\ y.file = x /\ y.pc = "get"
              BY <1>8, <7>2, <7>4 DEF Writes
            <7>6. QED
              BY <7>4, <7>5 DEF Comes
          <6>4. CASE disk[g.dir][g.p][x] # "whole" /\ t.pc # "begin"
            <7>1. PICK y \in threads : y.obj = g.obj /\ y.file = x /\ y.pc \in {"begin", "open", "get"}
              BY <3>2, <6>4 DEF Comes
            <7>2. y \in threads'
              BY <1>5, <1>8, <5>5, <6>4, <7>1
            <7>3. QED
              BY <7>1, <7>2 DEF Comes
          <6>5. QED
            BY <6>2, <6>3, <6>4
        <5>6. QED
          BY <5>3, <5>4, <5>5
      <4>2. CASE ~(g.p = p /\ g.dir = dir /\ x = f)
        <5>1. disk'[g.dir][g.p][x] = disk[g.dir][g.p][x]
          BY <1>7, <3>1, <3>2, <4>2
        <5>2. CASE disk[g.dir][g.p][x] = "whole"
          BY <5>1, <5>2 DEF Comes
        <5>3. CASE disk[g.dir][g.p][x] # "whole"
          <6>1. PICK y \in threads : y.obj = g.obj /\ y.file = x /\ y.pc \in {"begin", "open", "get"}
            BY <3>2, <5>3 DEF Comes
          <6>2. y # t
            BY <1>3, <3>1, <4>2, <6>1
          <6>3. QED
            BY <1>8, <6>1, <6>2 DEF Comes
        <5>4. QED
          BY <5>2, <5>3
      <4>3. QED
        BY <4>1, <4>2
    <3>3. /\ \A i \in 1 .. 2 : ManifestNames[i] \in FilesOf(g.p)
          /\ Pkg[g.p].makefile => "Makefile" \in FilesOf(g.p)
          /\ \A n \in 1 .. Len(Pkg[g.p].src) : Pkg[g.p].src[n] \in FilesOf(g.p)
      <4>1. \A i \in 1 .. 2 : ManifestNames[i] \in Range(ManifestNames)
        BY DEF Range, ManifestNames
      <4>2. \A n \in 1 .. Len(Pkg[g.p].src) : Pkg[g.p].src[n] \in Range(Pkg[g.p].src)
        BY <3>1 DEF Range
      <4>3. QED
        BY <3>1, <4>1, <4>2 DEF FilesOf
    <3>a. ASSUME g.pc \in {"load", "copy"}, NEW x \in FilesOf(g.p)
          PROVE  disk'[g.dir][g.p][x] = disk[g.dir][g.p][x]
      <4>1. ~Attached(t)
        BY <3>1, <3>a DEF WindowInv, Awaited, Top
      <4>2. g.p # p
        BY <1>3, <3>1, <4>1 DEF Attached
      <4>3. QED
        BY <1>7, <3>1, <4>2
    <3>b. g.left \subseteq FilesOf(g.p)
      BY <3>1, RunningPackage DEF InstallInv
    <3>4. UNCHANGED cache
      BY DEF ThreadBegin, ThreadOpen, ThreadGet, ThreadDrop, files
    <3>5. GetsAll(g)'
      <4> DEFINE disks(h) == \A x \in FilesOf(h.p) : disk'[h.dir][h.p][x] = disk[h.dir][h.p][x]
      <4>1. g.pc \in {"load", "copy"} => disks(g)
        BY <3>a
      <4>2. \A x \in Done(g) : x \in FilesOf(g.p)
        BY DEF Done
      <4>3. CASE g.pc \in {"load", "copy"}
        <5>1. \A x \in FilesOf(g.p) : disk'[g.dir][g.p][x] = disk[g.dir][g.p][x]
          BY <4>1, <4>3
        <5>2. \A x \in g.left \cup Done(g) : x \in FilesOf(g.p)
          BY <3>b, <4>2
        <5>3. \A x \in g.left \cup Done(g) : disk'[g.dir][g.p][x] = disk[g.dir][g.p][x]
          BY <5>1, <5>2
        <5>4. GetsAll(g) /\ cache' = cache
          BY <2>1, <3>1, <3>4
        <5>5. /\ g.pc = "copy" => \A x \in g.left : disk'[g.dir][g.p][x] = "whole"
              /\ g.pc = "load" => \A x \in Done(g) : cache'[g.p][x] = "whole" => disk'[g.dir][g.p][x] = "whole"
              /\ g.pc = "copy" => \A x \in Done(g) : disk'[g.dir][g.p][x] = "whole" => cache'[g.p][x] = "whole"
          BY <5>3, <5>4 DEF GetsAll
        <5>6. QED
          BY <2>1, <3>2, <3>3, <5>4, <5>5 DEF GetsAll
      <4>4. CASE g.pc \notin {"load", "copy"}
        BY <2>1, <3>1, <3>2, <3>3, <3>4, <4>4 DEF GetsAll
      <4>5. QED
        BY <4>3, <4>4
    <3>6. QED
      BY <2>1, <3>1, <3>5
  <2>4. QED
    BY <2>2, <2>3
<1>12. QED
  BY <1>9, <1>10, <1>11 DEF CopyInv

(* Nothing is spoilt and nothing is cached at the start.                   *)
LEMMA InitCopies ==
    ASSUME Init
    PROVE  InstallInv /\ WindowInv /\ CopyInv
<1>1. exit = "zero" /\ disk = [d \in Dirs |-> Nothing] /\ cache = [p \in Packages |-> NoCopy]
  BY DEF Init
<1>2. \A d \in Dirs, p \in Packages : \A f \in FilesOf(p) : disk[d][p][f] = "absent"
  BY <1>1 DEF Nothing
<1>3. CopyInv
  BY <1>1, <1>2 DEF CopyInv, Spoilt, Copied, Getting
<1>4. QED
  BY <1>1, <1>3, InitInstallInv DEF WindowInv

(* Every step keeps the copies in whole.                                   *)
LEMMA StepKeepsCopies ==
    ASSUME InstallInv, WindowInv, CopyInv, [Next]_vars
    PROVE  CopyInv'
<1> SUFFICES ASSUME faults' = {}
             PROVE  CopyInv'
  BY DEF CopyInv
<1>1. CASE Main
  <2>1. faults = {}
    BY <1>1, FaultsStay
  <2>2. CASE Overflow
    <3>1. /\ Top.fn = "package" /\ Top.pc = "enter" /\ exit = "running" /\ exit' = "overflow"
          /\ UNCHANGED <<disk, cache, threads>>
      BY <2>2 DEF Overflow, Enters, In, Finish, files, process
    <3>2. ObjectsFollow /\ Settled /\ Top.pc \notin Fetching
      BY <1>1, <3>1, MainObjects DEF InstallInv, Settled, Fetching
    <3>3. QED
      BY <2>1, <3>1, <3>2, QuietSteps
  <2>3. QED
    BY <1>1, <2>1, <2>2, OthersKeepCopies, PackageKeepsCopies
<1>2. CASE Threads
  <2>1. faults = {} /\ exit = "running" /\ UNCHANGED <<stack, exit>> /\ cmd' = cmd
    BY <1>2, FaultsStay DEF Threads
  <2>2. QED
    BY <1>2, <2>1, ThreadsKeepCopies DEF Threads
<1>3. CASE User
  <2>1. ~Kill
    BY DEF Kill, Fail
  <2>2. exit # "running" /\ UNCHANGED <<cache, faults>> /\ (UNCHANGED disk \/ disk' = [disk EXCEPT !["deps"] = Nothing])
    BY <1>3, <2>1 DEF User, StartInstall, StartUpdate, StartUpgrade, Start, TimePasses, Clean, Between, files, history
  <2>3. Spoilt /\ Copied /\ DiskOK(disk)
    BY <2>2 DEF CopyInv, InstallInv, InstallTypeOK, FilesTypeOK
  <2>4. \A d \in Dirs, p \in Packages : \A f \in FilesOf(p) : Joined(p) => disk'[d][p][f] # "broken"
    <3>1. \A p \in Packages : \A f \in FilesOf(p) : Nothing[p][f] = "absent"
      BY DEF Nothing
    <3>2. QED
      BY <2>2, <2>3, <3>1 DEF Spoilt, DiskOK
  <2>5. Spoilt'
    BY <2>4 DEF Spoilt, Joined
  <2>6. Copied'
    BY <2>2, <2>3 DEF Copied, Joined, In
  <2>7. exit' = "running" => Head(stack').fn # "package"
    <3>1. CASE TimePasses \/ Clean
      BY <3>1 DEF TimePasses, Clean, Between
    <3>2. ASSUME NEW c \in Commands, StartInstall(c) \/ StartUpdate(c) \/ StartUpgrade(c)
          PROVE  Head(stack').fn # "package"
      <4>1. PICK f : stack' = <<f>> /\ (f = LocalFrame(<<1, 2>>) \/ f = ArgsFrame(c.args))
        BY <3>2 DEF StartInstall, StartUpdate, StartUpgrade, Start
      <4>2. Head(stack') = f
        BY <4>1
      <4>3. QED
        BY <4>1, <4>2 DEF LocalFrame, ArgsFrame
    <3>3. QED
      BY <1>3, <2>1, <3>1, <3>2 DEF User
  <2>8. QED
    BY <2>5, <2>6, <2>7 DEF CopyInv, Getting
<1>4. CASE UNCHANGED vars
  <2>1. UNCHANGED <<disk, cache, threads, objs, exit, stack, faults, cmd>>
    BY <1>4 DEF vars, files, process, history
  <2>2. faults = {} /\ Spoilt /\ Copied /\ Getting
    BY <2>1 DEF CopyInv
  <2>3. Spoilt'
    BY <2>1, <2>2 DEF Spoilt, Writes, Joined, BeingWritten
  <2>4. Copied'
    BY <2>1, <2>2 DEF Copied, In, Top, Joined
  <2>5. GetsAll(Head(stack))' <=> GetsAll(Head(stack))
    <3>1. \A f : Comes(f, Head(stack))' <=> Comes(f, Head(stack))
      BY <2>1 DEF Comes
    <3>2. Opts' = Opts
      BY <2>1 DEF Opts
    <3>3. QED
      BY <2>1, <3>1, <3>2 DEF GetsAll
  <2>6. QED
    BY <2>1, <2>2, <2>3, <2>4, <2>5 DEF CopyInv, Getting, Joined
<1>5. QED
  BY <1>1, <1>2, <1>3, <1>4 DEF Next

(* As long as nothing went wrong the cache holds packages in whole: a      *)
(* package is copied when all its threads have written their files, and    *)
(* nothing spoils them in between, whatever else is installed.             *)
THEOREM CachedPackagesAreWhole == Spec => []CachedIsWhole
<1> DEFINE Inv == InstallInv /\ WindowInv /\ CopyInv
<1>1. Init => Inv
  BY InitCopies
<1>2. Inv /\ [Next]_vars => Inv'
  BY StepKeepsInstallInv, StepKeepsWindows, StepKeepsCopies
<1>3. Inv => CachedIsWhole
  <2> SUFFICES ASSUME CopyInv
               PROVE  CachedIsWhole
    OBVIOUS
  <2>1. QED
    BY DEF CopyInv, Copied, CachedIsWhole
<1>4. QED
  <2> HIDE DEF Inv
  <2>1. QED
    BY <1>1, <1>2, <1>3, PTL DEF Spec

-----------------------------------------------------------------------------
(* What a command that ends well has installed.                            *)

(* What is to be installed is marked, or ahead in a list that a function   *)
(* works through.                                                          *)
Due(q) == q \in visited \/ \E g \in Range(stack) : g.fn = "list" /\ q \in Range(g.todo)
AllDue(s) == \A q \in Range(s) : Due(q)
ListedDue(a, section) == \A q \in Listed(a, section) : Due(q)
LocalDue(a) == ListedDue(a, "deps") /\ (cmd.dev => ListedDue(a, "dev"))

(* What a function of the stack has seen to, as far as it has got.  The    *)
(* local manifests that are left to be tried are those of the argument.    *)
Left(f) == Range(f.tries) \cap DOMAIN local
LocalOwed(f) ==
    /\ cmd.args = <<>> => Left(f) = Manifests(Here)
    /\ \A g \in Range(stack) : g.fn = "args" => Left(f) = Manifests(Head(g.todo))
    /\ f.pc # "read" => AllDue(local[Head(f.tries)].deps)
    /\ f.pc = "dev" => AllDue(local[Head(f.tries)].dev)
ArgsOwed(f) ==
    /\ cmd.args # <<>>
    /\ \A p \in Named : p \in Range(f.todo) \/ (p \in visited /\ (cmd.dev => AllDue(Pkg[p].dev)))
    /\ \A a \in Lists : a \in Range(f.todo) \/ LocalDue(a)
    /\ f.pc = "dev" => Head(f.todo) \in visited /\ AllDue(Pkg[Head(f.todo)].dev)
Owed(f) ==
    /\ f.fn = "local" => LocalOwed(f)
    /\ f.fn = "args" => ArgsOwed(f)
    /\ Installs(f) => f.p \in visited

(* What the function that was called has brought about when it returns.    *)
Waits(f) ==
    \/ f.fn \in {"args", "list"} /\ f.pc = "installed"
    \/ f.fn = "args" /\ f.pc = "dev"
    \/ f.fn = "local" /\ f.pc # "read"
    \/ f.fn = "package" /\ f.pc \in {"executed", "deps"}
    \/ f.fn = "exec" /\ f.pc = "deps"
Succeeded(f) ==
    /\ f.pc = "made" => ret.rc # "null"
    /\ Waits(f) => ret.rc = "ok"
    /\ f.pc = "installed" => Head(f.todo) \in visited
    /\ f.pc = "here" => LocalDue(Head(f.todo))

(* A marked package is on the disk in whole, unless it is being fetched,   *)
(* and its dependencies are due, unless their list is still to be begun.   *)
Good(p) == Pkg[p].src = <<>> \/ ~Joined(p) \/ \E d \in Dirs : Whole(disk[d][p], p)
Fetched(p) == Top.fn = "package" /\ Top.p = p /\ Top.pc \in Fetching \cup {"manifest"}
Early(f, p) == f.fn = "package" /\ f.p = p /\ f.pc \in Fetching \cup {"configure", "executed"}
Begun(p) == \E g \in Range(stack) : Early(g, p)

Stacked ==
    /\ Succeeded(Top) /\ \A g \in Range(stack) : Owed(g)
    /\ \A p \in visited : AllDue(Pkg[p].deps) \/ Begun(p)
OnDisk == visited \subseteq Packages /\ \A p \in visited : Good(p) \/ Fetched(p)
Installed == Roots \subseteq visited /\ \A p \in visited : Good(p) /\ Range(Pkg[p].deps) \subseteq visited
Unspoilt == faults = {} /\ missing = {} /\ ~Opts.global
CleanInv ==
    Unspoilt => /\ exit = "running" => Stacked /\ OnDisk
                /\ exit = "zero" /\ commands > 0 => Installed

(* A list is its head and the rest of it.                                  *)
LEMMA RangeOfHeadAndTail ==
    ASSUME NEW S, NEW s \in Seq(S), s # <<>>
    PROVE  Range(s) = {Head(s)} \cup Range(Tail(s)) /\ Range(Tail(s)) = {s[i] : i \in 2 .. Len(s)}
<1>1. /\ Len(s) \in Nat \ {0} /\ Head(s) = s[1] /\ Tail(s) \in Seq(S) /\ Len(Tail(s)) = Len(s) - 1
      /\ \A i \in 1 .. Len(s) - 1 : Tail(s)[i] = s[i + 1]
  BY StackOperations
<1>2. PICK r \in Seq(S) : r = Tail(s) /\ Len(r) = Len(s) - 1 /\ \A i \in 1 .. Len(s) - 1 : r[i] = s[i + 1]
  BY <1>1
<1>3. Range(r) = {s[i] : i \in 2 .. Len(s)}
  <2>1. ASSUME NEW i \in DOMAIN r
        PROVE  r[i] \in {s[j] : j \in 2 .. Len(s)}
    <3>1. i \in 1 .. Len(s) - 1 /\ i + 1 \in 2 .. Len(s)
      BY <1>1, <1>2
    <3>2. QED
      BY <1>2, <3>1
  <2>2. ASSUME NEW j \in 2 .. Len(s)
        PROVE  s[j] \in Range(r)
    <3>1. j - 1 \in 1 .. Len(s) - 1 /\ (j - 1) + 1 = j /\ DOMAIN r = 1 .. Len(s) - 1
      BY <1>1, <1>2
    <3>2. r[j - 1] = s[(j - 1) + 1]
      BY <1>2, <3>1
    <3>3. QED
      BY <3>1, <3>2 DEF Range
  <2>3. QED
    BY <2>1, <2>2 DEF Range
<1>4. Range(s) = {Head(s)} \cup Range(r)
  <2>1. DOMAIN s = 1 .. Len(s) /\ 1 \in 1 .. Len(s) /\ \A i \in 1 .. Len(s) : i = 1 \/ i \in 2 .. Len(s)
    BY <1>1
  <2>2. 2 .. Len(s) \subseteq 1 .. Len(s)
    BY <1>1
  <2>3. QED
    BY <1>1, <1>3, <2>1, <2>2 DEF Range
<1>5. QED
  BY <1>2, <1>3, <1>4

(* The functions on the stack, before and after a step.                    *)
LEMMA FramesOnTheStack ==
    ASSUME InstallInv, exit = "running"
    PROVE  /\ Range(stack) = {Top} \cup Range(Tail(stack)) /\ Range(Tail(stack)) \subseteq Range(stack)
           /\ Top \in Range(stack) /\ Range(stack) \subseteq Frames
           /\ \A f : Stay(f) => Range(stack') = {f} \cup Range(Tail(stack)) /\ Top' = f
           /\ \A f, b : Call(f, b) => Range(stack') = {f, b} \cup Range(Tail(stack)) /\ Top' = f
           /\ \A rc, o : Return(rc, o) => Range(stack') = Range(Tail(stack))
           /\ Len(stack) = 1 => Range(stack) = {Top} /\ Range(Tail(stack)) = {}
<1>1. stack \in Seq(Frames) /\ stack # <<>> /\ Len(stack) \in Nat \ {0} /\ Top = stack[1] /\ Top \in Frames
  BY RunningFrame DEF InstallInv, InstallTypeOK
<1>2. PICK r : r = Tail(stack)
  OBVIOUS
<1>3. Range(r) = {stack[i] : i \in 2 .. Len(stack)}
  BY <1>1, <1>2, RangeOfHeadAndTail
<1>4. Range(stack) = {Top} \cup Range(r)
  BY <1>1, <1>2, RangeOfHeadAndTail DEF Top
<1>5. Range(stack) \subseteq Frames
  BY <1>1 DEF Range
<1>6. ASSUME NEW f, Stay(f)
      PROVE  Range(stack') = {f} \cup Range(r) /\ Top' = f
  <2>1. PICK S, s : S = Frames \cup {f} /\ s = <<f>> \o Tail(stack)
    OBVIOUS
  <2>2. stack \in Seq(S) /\ f \in S /\ stack # <<>>
    BY <1>1, <2>1
  <2>3. s \in Seq(S) /\ Len(s) = Len(stack) /\ s[1] = f /\ \A i \in 2 .. Len(stack) : s[i] = stack[i]
    BY ONLY <2>1, <2>2, StackOperations
  <2>4. /\ DOMAIN s = 1 .. Len(stack) /\ 1 \in 1 .. Len(stack) /\ 2 .. Len(stack) \subseteq 1 .. Len(stack)
        /\ \A i \in 1 .. Len(stack) : i = 1 \/ i \in 2 .. Len(stack)
    BY <1>1, <2>3
  <2>5. Range(s) = {f} \cup {stack[i] : i \in 2 .. Len(stack)}
    BY <2>3, <2>4 DEF Range
  <2>6. stack' = s /\ Head(s) = s[1]
    BY <1>1, <1>6, <2>1, <2>3 DEF Stay
  <2>7. QED
    BY <1>3, <2>3, <2>5, <2>6 DEF Top
<1>7. ASSUME NEW f, NEW b, Call(f, b)
      PROVE  Range(stack') = {f, b} \cup Range(r) /\ Top' = f
  <2>0. PICK S, s : S = Frames \cup {f, b} /\ s = <<f, b>> \o Tail(stack)
    OBVIOUS
  <2>a. stack \in Seq(S) /\ f \in S /\ b \in S /\ stack # <<>>
    BY <1>1, <2>0
  <2>1. /\ s \in Seq(S) /\ Len(s) = Len(stack) + 1 /\ s[1] = f /\ s[2] = b
        /\ \A i \in 3 .. Len(stack) + 1 : s[i] = stack[i - 1]
    BY ONLY <2>0, <2>a, StackOperations
  <2>2. DOMAIN s = 1 .. Len(stack) + 1 /\ 1 \in DOMAIN s /\ 2 \in DOMAIN s
    BY <1>1, <2>1
  <2>3. ASSUME NEW i \in DOMAIN s
        PROVE  s[i] \in {f, b} \cup Range(r)
    <3>1. i = 1 \/ i = 2 \/ (i \in 3 .. Len(stack) + 1 /\ i - 1 \in 2 .. Len(stack))
      BY <1>1, <2>2
    <3>2. QED
      BY <1>3, <2>1, <3>1
  <2>4. ASSUME NEW j \in 2 .. Len(stack)
        PROVE  stack[j] \in Range(s)
    <3>1. j + 1 \in 3 .. Len(stack) + 1 /\ (j + 1) - 1 = j /\ j + 1 \in DOMAIN s
      BY <1>1, <2>2
    <3>2. s[j + 1] = stack[j]
      BY <2>1, <3>1
    <3>3. QED
      BY <3>1, <3>2 DEF Range
  <2>5. f \in Range(s) /\ b \in Range(s)
    BY <2>1, <2>2 DEF Range
  <2>6. Range(s) = {f, b} \cup Range(r)
    BY <1>3, <2>3, <2>4, <2>5 DEF Range
  <2>7. stack' = s /\ Head(s) = s[1]
    BY <1>1, <1>7, <2>0, <2>1 DEF Call
  <2>8. QED
    BY <2>1, <2>6, <2>7 DEF Top
<1>8. \A rc, o : Return(rc, o) => Range(stack') = Range(r)
  BY <1>2 DEF Return
<1>9. Len(stack) = 1 => Range(stack) = {Top} /\ Range(r) = {}
  <2>1. ASSUME Len(stack) = 1
        PROVE  2 .. Len(stack) = {}
    BY <2>1
  <2>2. QED
    BY <1>3, <1>4, <2>1
<1>10. QED
  BY <1>2, <1>4, <1>5, <1>6, <1>7, <1>8, <1>9

(* Nobody calls the function that works through the arguments.             *)
LEMMA ArgumentsAreLast ==
    ASSUME InstallInv, exit = "running", Top.fn = "args"
    PROVE  Len(stack) = 1
<1>1. Len(stack) \in Nat \ {0} /\ (Len(stack) > 1 => CalledBy(Top, stack[2]))
  BY RunningFrame DEF InstallInv
<1>2. ~(Len(stack) > 1)
  BY <1>1 DEF CalledBy
<1>3. \A n \in Nat \ {0} : ~(n > 1) => n = 1
  OBVIOUS
<1>4. QED
  BY <1>1, <1>2, <1>3

(* What is due stays due while a function of the stack makes room for the  *)
(* functions of N: a list loses what is marked, and a package whose        *)
(* dependencies are not due has them put in a list.                        *)
Moves(N) ==
    /\ exit = "running" /\ visited \subseteq visited' /\ cmd' = cmd
    /\ Range(stack') = N \cup Range(Tail(stack))
    /\ \A g \in N : g.fn = "args" => Top.fn = "args"
    /\ Top.fn = "list" => \A q \in Range(Top.todo) : q \in visited' \/ \E g \in N : g.fn = "list" /\ q \in Range(g.todo)
    /\ \A p : Early(Top, p) => \E g \in N : Early(g, p) \/ (g.fn = "list" /\ g.todo = Pkg[p].deps)

(* Whatever step that is.                                                  *)
LEMMA DueStays ==
    ASSUME InstallInv, NEW N, Moves(N)
    PROVE  \A q : Due(q) => Due(q)'
<1>1. Range(stack) = {Top} \cup Range(Tail(stack))
  BY FramesOnTheStack DEF Moves
<1>2. ASSUME NEW q, Due(q)
      PROVE  Due(q)'
  <2>1. CASE q \in visited
    BY <2>1 DEF Moves, Due
  <2>2. ASSUME NEW g \in Range(Tail(stack)), g.fn = "list", q \in Range(g.todo)
        PROVE  Due(q)'
    BY <2>2 DEF Moves, Due
  <2>3. CASE Top.fn = "list" /\ q \in Range(Top.todo)
    BY <2>3 DEF Moves, Due
  <2>4. QED
    BY <1>1, <1>2, <2>1, <2>2, <2>3 DEF Due
<1>3. QED
  BY <1>2

(* The lists of an argument stay due.                                      *)
LEMMA ListsStay ==
    ASSUME \A q : Due(q) => Due(q)', cmd' = cmd, local' = local
    PROVE  /\ \A a : Manifests(a)' = Manifests(a)
           /\ \A a, section : Listed(a, section)' = Listed(a, section)
           /\ \A a : LocalDue(a) => LocalDue(a)'
<1>1. \A a : Manifests(a)' = Manifests(a)
  BY DEF Manifests
<1>2. \A a, section : Listed(a, section)' = Listed(a, section)
  BY <1>1 DEF Listed
<1>3. \A a, section : ListedDue(a, section) => ListedDue(a, section)'
  BY <1>2 DEF ListedDue
<1>4. \A a : LocalDue(a) => LocalDue(a)'
  BY <1>3 DEF LocalDue
<1>5. QED
  BY <1>1, <1>2, <1>4

(* And so is what the functions below the one on top have seen to.         *)
LEMMA OwedStays ==
    ASSUME \A q : Due(q) => Due(q)', visited \subseteq visited', cmd' = cmd, local' = local, NEW f, Owed(f),
           f.fn = "local" => \A g \in Range(stack') : g.fn = "args" => g \in Range(stack)
    PROVE  Owed(f)'
<1>1. \A s : AllDue(s) => AllDue(s)'
  BY DEF AllDue
<1>2. \A a : Manifests(a)' = Manifests(a) /\ (LocalDue(a) => LocalDue(a)')
  BY ListsStay
<1>3. Left(f)' = Left(f)
  BY DEF Left
<1>4. f.fn = "local" => LocalOwed(f)'
  BY <1>1, <1>2, <1>3 DEF Owed, LocalOwed
<1>5. f.fn = "args" => ArgsOwed(f)'
  <2>1. Named' = Named /\ Lists' = Lists
    BY DEF Named, Lists, Arguments
  <2>2. QED
    BY <1>1, <1>2, <2>1 DEF Owed, ArgsOwed
<1>6. QED
  BY <1>4, <1>5 DEF Owed

(* With that the stack goes on.                                            *)
LEMMA StackGoesOn ==
    ASSUME InstallInv, Stacked, NEW N, Moves(N), local' = local \/ Len(stack) = 1, Succeeded(Top)',
           \A g \in N : Owed(g)', \A p \in visited' \ visited : \E g \in N : Early(g, p)
    PROVE  Stacked'
<1>1. /\ \A q : Due(q) => Due(q)' 
      /\ exit = "running" /\ visited \subseteq visited' /\ cmd' = cmd /\ Range(stack') = N \cup Range(Tail(stack))
      /\ Range(stack) = {Top} \cup Range(Tail(stack))
  BY DueStays, FramesOnTheStack DEF Moves
<1>2. ASSUME NEW g \in Range(Tail(stack))
      PROVE  Owed(g)'
  <2>1. local' = local
    BY <1>1, <1>2, FramesOnTheStack
  <2>2. Len(stack) # 1
    BY <1>1, <1>2, FramesOnTheStack
  <2>3. Top.fn # "args"
    BY <1>1, <2>2, ArgumentsAreLast
  <2>4. \A h \in Range(stack') : h.fn = "args" => h \in Range(stack)
    BY <1>1, <2>3 DEF Moves
  <2>5. Owed(g)
    BY <1>1, <1>2 DEF Stacked
  <2>6. QED
    BY <1>1, <2>1, <2>4, <2>5, OwedStays
<1>3. ASSUME NEW p \in visited'
      PROVE  AllDue(Pkg[p].deps)' \/ Begun(p)'
  <2>1. CASE p \notin visited
    BY <1>1, <2>1 DEF Begun
  <2>2. CASE AllDue(Pkg[p].deps)
    BY <1>1, <2>2 DEF AllDue
  <2>3. ASSUME NEW g \in Range(Tail(stack)), Early(g, p)
        PROVE  Begun(p)'
    BY <1>1, <2>3 DEF Begun
  <2>4. CASE Early(Top, p)
    <3>1. PICK g \in N : Early(g, p) \/ (g.fn = "list" /\ g.todo = Pkg[p].deps)
      BY <2>4 DEF Moves
    <3>2. QED
      BY <1>1, <3>1 DEF Begun, AllDue, Due
  <2>5. QED
    BY <1>1, <2>1, <2>2, <2>3, <2>4 DEF Stacked, Begun
<1>4. QED
  BY <1>1, <1>2, <1>3 DEF Stacked

(* The function on top goes on, and nothing is expected from a call.       *)
LEMMA StaysClean ==
    ASSUME InstallInv, Stacked, exit = "running", UNCHANGED <<visited, cmd, local>>, NEW f, Stay(f),
           f.pc \notin {"made", "installed", "here"}, ~Waits(f), Owed(f), f.fn = Top.fn,
           Top.fn = "list" => f.fn = "list" /\ Range(Top.todo) \subseteq visited \cup Range(f.todo),
           \A p : Early(Top, p) => Early(f, p)
    PROVE  Stacked'
<1>1. Range(stack') = {f} \cup Range(Tail(stack)) /\ Top' = f
  BY FramesOnTheStack
<1>2. Moves({f})
  BY <1>1 DEF Moves
<1>a. Range(stack) = {Top} \cup Range(Tail(stack))
  BY FramesOnTheStack
<1>3. Owed(f)'
  BY <1>1, <1>2, <1>a, DueStays, OwedStays
<1>4. Succeeded(Top)'
  BY <1>1 DEF Succeeded, Waits
<1>5. QED
  BY <1>2, <1>3, <1>4, StackGoesOn

(* Where a function begins.                                                *)
Begins(f) ==
    \/ f.fn = "local" /\ f.pc = "read"
    \/ f.fn = "new" /\ f.pc = "lookup"
    \/ f.fn = "list" /\ f.pc = "next"
    \/ f.fn = "package" /\ f.pc = "enter"
    \/ f.fn = "exec" /\ f.pc = "tarball"

(* The function on top calls another one: what was due stays due, and what *)
(* is in the list of a function that begins is due now.                    *)
LEMMA CallMoves ==
    ASSUME InstallInv, exit = "running", UNCHANGED <<visited, cmd>>, NEW f, NEW b, Call(f, b),
           b.fn = Top.fn, f.fn # "args", Top.fn = "list" => b.todo = Top.todo,
           \A p : Early(Top, p) => Early(b, p) \/ (f.fn = "list" /\ f.todo = Pkg[p].deps)
    PROVE  Moves({f, b}) /\ (\A q : Due(q) => Due(q)') /\ (f.fn = "list" => \A q \in Range(f.todo) : Due(q)')
<1>1. Range(stack') = {f, b} \cup Range(Tail(stack)) /\ Top' = f
  BY FramesOnTheStack
<1>2. Moves({f, b})
  BY <1>1 DEF Moves
<1>3. QED
  BY <1>1, <1>2, DueStays DEF Due

(* And the stack goes on, with the function that was called on top.        *)
LEMMA CallsClean ==
    ASSUME InstallInv, Stacked, exit = "running", UNCHANGED <<visited, cmd, local>>, NEW f, NEW b, Call(f, b),
           Begins(f), Owed(b)', f.fn = "local" => LocalOwed(f)', b.fn = Top.fn, Top.fn = "list" => b.todo = Top.todo,
           \A p : Early(Top, p) => Early(b, p) \/ (f.fn = "list" /\ f.todo = Pkg[p].deps)
    PROVE  Stacked'
<1>1. Range(stack') = {f, b} \cup Range(Tail(stack)) /\ Top' = f
  BY FramesOnTheStack
<1>2. Moves({f, b})
  BY CallMoves DEF Begins
<1>3. Owed(f)'
  BY DEF Begins, Owed, Installs
<1>4. Succeeded(Top)'
  BY <1>1 DEF Succeeded, Waits, Begins
<1>5. QED
  BY <1>2, <1>3, <1>4, StackGoesOn

(* It returns what its caller needs.                                       *)
LEMMA ReturnsClean ==
    ASSUME InstallInv, Stacked, exit = "running", UNCHANGED <<visited, cmd, local>>, NEW rc, NEW o, Return(rc, o),
           Len(stack) > 1, Top.fn = "list" => Range(Top.todo) \subseteq visited, \A p : ~Early(Top, p),
           \A g \in Frames : g \in Range(stack) /\ CalledBy(Top, g) =>
               /\ g.pc = "made" => rc # "null"
               /\ Waits(g) => rc = "ok"
               /\ g.pc = "installed" => Head(g.todo) \in visited
               /\ g.pc = "here" => LocalDue(Head(g.todo))
    PROVE  Stacked'
<1>1. Range(stack') = Range(Tail(stack))
  BY FramesOnTheStack
<1>2. Moves({})
  BY <1>1 DEF Moves
<1>a. stack \in Seq(Frames) /\ Len(stack) \in Nat /\ Head(stack') = stack[2] /\ stack[2] \in Range(stack)
  <2>1. stack \in Seq(Frames) /\ Len(stack) \in Nat
    BY DEF InstallInv, InstallTypeOK
  <2>2. Head(stack') = stack[2] /\ 2 \in DOMAIN stack
    BY <2>1, SecondInFront
  <2>3. QED
    BY <2>1, <2>2 DEF Range
<1>3. PICK g \in Frames : g = Top' /\ CalledBy(Top, g) /\ ret'.rc = rc /\ g \in Range(stack)
  BY <1>a, ReturnsToTheCaller DEF Top
<1>4. \A a : LocalDue(a) => LocalDue(a)'
  BY <1>2, DueStays, ListsStay
<1>5. Succeeded(Top)'
  BY <1>3, <1>4 DEF Succeeded, Waits
<1>6. QED
  BY <1>2, <1>5, StackGoesOn

(* The manifest that is tried first is the one whose lists count.          *)
LEMMA FirstManifest ==
    ASSUME NEW f \in LocalFrames, Head(f.tries) \in DOMAIN local, NEW a, Left(f) = Manifests(a)
    PROVE  \A section : Listed(a, section) = Range(local[Head(f.tries)][section])
<1>1. PICK k : k = Head(f.tries) /\ k \in DOMAIN local
  OBVIOUS
<1>2. DOMAIN Regular # {} => \A x \in DOMAIN Regular : Regular[x] \in Nat
  BY CInstallLocal
<1>3. f.tries \in Tries
  BY DEF LocalFrames
<1>4. f.tries = <<1, 2>> \/ \E n \in Nat : f.tries = <<n>>
  BY <1>2, <1>3 DEF Tries
<1>5. k \in Nat /\ k \in Left(f) /\ \A y \in Left(f) : y \in Nat /\ k <= y
  <2>1. CASE f.tries = <<1, 2>>
    <3>1. Range(f.tries) = {1, 2} /\ k = 1
      BY <1>1, <2>1 DEF Range
    <3>2. QED
      BY <1>1, <3>1 DEF Left
  <2>2. ASSUME NEW n \in Nat, f.tries = <<n>>
        PROVE  k \in Nat /\ k \in Left(f) /\ \A y \in Left(f) : y \in Nat /\ k <= y
    <3>1. Range(f.tries) = {n} /\ k = n
      BY <1>1, <2>2 DEF Range
    <3>2. QED
      BY <1>1, <3>1 DEF Left
  <2>3. QED
    BY <1>4, <2>1, <2>2
<1>6. \A x \in Left(f) : (\A y \in Left(f) : x <= y) => x = k
  BY <1>5
<1>7. Min(Left(f)) = k
  BY <1>5, <1>6 DEF Min
<1>8. QED
  BY <1>1, <1>5, <1>7 DEF Listed

(* Nothing is listed where there is no manifest.                           *)
LEMMA NoManifest ==
    ASSUME NEW a, Manifests(a) = {}
    PROVE  LocalDue(a)
BY DEF LocalDue, ListedDue, Listed

(* The program ends when nothing is left on the stack but the function     *)
(* that ends it.                                                           *)
LEMMA EndsClean ==
    ASSUME InstallInv, Stacked, OnDisk, exit = "running", Len(stack) = 1, Top.fn \in {"local", "args"},
           UNCHANGED <<visited, disk, cmd, local>>, \A q \in Roots : Due(q)
    PROVE  Installed'
<1>1. Range(stack) = {Top}
  BY FramesOnTheStack
<1>2. \A q : Due(q) => q \in visited
  BY <1>1 DEF Due
<1>3. \A p \in visited : Range(Pkg[p].deps) \subseteq visited
  BY <1>1, <1>2 DEF Stacked, Begun, Early, AllDue
<1>4. \A p \in visited : Good(p)
  BY DEF OnDisk, Fetched
<1>5. Roots' = Roots
  <2>1. \A a, section : Listed(a, section)' = Listed(a, section)
    BY DEF Listed, Manifests
  <2>2. Named' = Named /\ Lists' = Lists
    BY DEF Named, Lists, Arguments
  <2>3. QED
    BY <2>1, <2>2 DEF Roots, Developed, AnyListed
<1>6. QED
  BY <1>2, <1>3, <1>4, <1>5 DEF Installed, Good, Whole, Joined

(* What is to be installed.                                                *)
LEMMA RootsAre ==
    \A q \in Roots :
        \/ q \in Named
        \/ cmd.dev /\ \E p \in Named : q \in Range(Pkg[p].dev)
        \/ \E a \in Lists : q \in Listed(a, "deps") \/ (cmd.dev /\ q \in Listed(a, "dev"))
<1> DEFINE OfPackages == UNION {Range(Pkg[p].dev) : p \in Named}
<1>1. \A section : \A q \in AnyListed(section) : \E a \in Lists : q \in Listed(a, section)
  BY DEF AnyListed
<1>2. \A q \in OfPackages : \E p \in Named : q \in Range(Pkg[p].dev)
  OBVIOUS
<1>3. Developed = OfPackages \cup AnyListed("dev")
  BY DEF Developed
<1>4. Roots = Named \cup AnyListed("deps") \cup (IF cmd.dev THEN Developed ELSE {})
  BY DEF Roots
<1> HIDE DEF OfPackages
<1>5. ASSUME NEW q \in Roots
      PROVE  \/ q \in Named
             \/ cmd.dev /\ \E p \in Named : q \in Range(Pkg[p].dev)
             \/ \E a \in Lists : q \in Listed(a, "deps") \/ (cmd.dev /\ q \in Listed(a, "dev"))
  <2>1. CASE q \in Named
    BY <2>1
  <2>2. CASE q \in AnyListed("deps")
    BY <1>1, <2>2
  <2>3. CASE cmd.dev /\ q \in OfPackages
    BY <1>2, <2>3
  <2>4. CASE cmd.dev /\ q \in AnyListed("dev")
    BY <1>1, <2>4
  <2>5. QED
    BY <1>3, <1>4, <1>5, <2>1, <2>2, <2>3, <2>4
<1>6. QED
  BY <1>5

(* When every list is due all is.                                          *)
LEMMA AllListsDue ==
    ASSUME \A p \in Named : p \in visited /\ (cmd.dev => AllDue(Pkg[p].dev)), \A a \in Lists : LocalDue(a)
    PROVE  \A q \in Roots : Due(q)
<1>1. \A q \in Named : Due(q)
  BY DEF Due
<1>2. cmd.dev => \A p \in Named : \A q \in Range(Pkg[p].dev) : Due(q)
  BY DEF AllDue
<1>3. \A a \in Lists : \A q : q \in Listed(a, "deps") \/ (cmd.dev /\ q \in Listed(a, "dev")) => Due(q)
  BY DEF LocalDue, ListedDue
<1>4. QED
  BY <1>1, <1>2, <1>3, RootsAre

(* The local manifests.                                                    *)
LEMMA LocalClean ==
    ASSUME InstallInv, Stacked, OnDisk, LocalReads \/ LocalInstalled \/ LocalDev
    PROVE  (exit' = "running" => Stacked') /\ (exit' = "zero" => Installed')
<1>1. exit = "running" /\ Top.fn = "local" /\ UNCHANGED <<visited, disk, cmd, local>> /\ Len(stack) \in Nat \ {0}
  <2>1. exit = "running" /\ Top.fn = "local" /\ UNCHANGED <<visited, disk, cmd, local>>
    BY DEF LocalReads, LocalInstalled, LocalDev, In, files, process
  <2>2. QED
    BY <2>1, RunningFrame DEF InstallInv
<1>2. Top \in LocalFrames /\ (Top.pc # "read" => Tried \in DOMAIN local) /\ (cmd.args = <<>> => Top.tries \in {<<1, 2>>, <<2>>})
  <2>1. Top \in LocalFrames /\ FrameOK(Top)
    BY <1>1, RunningFrame, FrameKinds DEF InstallInv
  <2>2. QED
    BY <1>1, <2>1 DEF FrameOK, Tried
<1>3. LocalOwed(Top) /\ Succeeded(Top)
  BY <1>1, FramesOnTheStack DEF Stacked, Owed
<1>4. \A p : ~Early(Top, p)
  BY <1>1 DEF Early
<1>a. Range(stack) = {Top} \cup Range(Tail(stack)) /\ Range(Tail(stack)) \subseteq Range(stack)
  BY <1>1, FramesOnTheStack
<1>5. ASSUME NEW rc, LocalOver(rc), \A a : Left(Top) = Manifests(a) => LocalDue(a)
      PROVE  (exit' = "running" => Stacked') /\ (exit' = "zero" => Installed')
  <2>1. CASE Len(stack) > 1
    <3>1. Return(rc, 0)
      BY <1>5, <2>1 DEF LocalOver
    <3>2. \A g \in Frames : CalledBy(Top, g) => g.fn = "args" /\ g.pc = "here"
      BY <1>1 DEF CalledBy
    <3>a. \A g \in Range(stack) : g.fn = "args" => LocalDue(Head(g.todo))
      BY <1>3, <1>5 DEF LocalOwed
    <3>3. Stacked'
      BY <1>1, <1>4, <1>5, <2>1, <3>1, <3>2, <3>a, ReturnsClean DEF Waits
    <3>4. QED
      BY <1>1, <3>1, <3>3 DEF Return
  <2>2. CASE ~(Len(stack) > 1)
    <3>1. Len(stack) = 1
      <4>1. \A n \in Nat \ {0} : ~(n > 1) => n = 1
        OBVIOUS
      <4>2. QED
        BY <1>1, <2>2, <4>1
    <3>2. cmd.args = <<>>
      <4>1. Top = stack[1]
        BY <1>1, RunningFrame DEF InstallInv
      <4>2. QED
        BY <1>1, <3>1, <4>1 DEF InstallInv, CallInv
    <3>3. Named = {} /\ Lists = {Here}
      BY <3>2, CInstallLocal DEF Named, Lists, Arguments, Packages
    <3>b. LocalDue(Here)
      BY <1>3, <1>5, <3>2 DEF LocalOwed
    <3>4. \A q \in Roots : Due(q)
      BY <3>3, <3>b, AllListsDue
    <3>5. Installed'
      BY <1>1, <3>1, <3>4, EndsClean
    <3>6. exit' # "running"
      BY <1>5, <2>2 DEF LocalOver, Finish
    <3>7. QED
      BY <3>5, <3>6
  <2>3. QED
    BY <2>1, <2>2
<1>6. ASSUME NEW todo, NEW pc \in {"deps", "dev"}, CallThen(ListFrame(todo, "deps"), pc),
             \/ pc = "deps" /\ todo = local[Tried].deps
             \/ pc = "dev" /\ todo = local[Tried].dev /\ Top.pc # "read"
      PROVE  Stacked' /\ exit' = "running"
  <2>a. PICK f : f = ListFrame(todo, "deps")
    OBVIOUS
  <2>1. f.fn = "list" /\ f.pc = "next" /\ f.todo = todo
    BY <2>a DEF ListFrame
  <2>b. [Top EXCEPT !.pc = pc] \in LocalFrames
    BY <1>2, <1>6 DEF LocalFrames
  <2>2. PICK b \in LocalFrames : b = [Top EXCEPT !.pc = pc] /\ b.fn = "local" /\ b.pc = pc /\ b.tries = Top.tries
    BY <1>2, <2>b DEF LocalFrames
  <2>3. Call(f, b)
    BY <1>6, <2>a, <2>2 DEF CallThen
  <2>4. (\A q : Due(q) => Due(q)') /\ \A q \in Range(f.todo) : Due(q)'
    BY <1>1, <1>4, <2>1, <2>2, <2>3, CallMoves
  <2>5. \A todos : AllDue(todos) => AllDue(todos)'
    BY <2>4 DEF AllDue
  <2>c. PICK k : k = Tried
    OBVIOUS
  <2>6. AllDue(local[k].deps)' /\ (pc = "dev" => AllDue(local[k].dev)')
    <3>1. AllDue(todo)'
      BY <2>1, <2>4 DEF AllDue
    <3>2. pc = "dev" => AllDue(local[k].deps)
      BY <1>3, <1>6, <2>c DEF LocalOwed, Tried
    <3>3. local' = local
      BY <1>1
    <3>4. pc = "dev" => AllDue(local[k].deps)'
      BY <2>5, <3>2, <3>3 DEF AllDue
    <3>5. QED
      BY <1>6, <2>c, <3>1, <3>3, <3>4 DEF AllDue
  <2>7. Range(stack') = {f, b} \cup Range(Tail(stack))
    BY <1>1, <2>3, FramesOnTheStack
  <2>8. LocalOwed(b)'
    <3>1. Head(b.tries) = k
      BY <2>2, <2>c DEF Tried
    <3>2. local' = local /\ cmd' = cmd /\ Left(b)' = Left(Top) /\ \A a : Manifests(a)' = Manifests(a)
      BY <1>1, <2>2 DEF Left, Manifests
    <3>3. \A g \in Range(stack') : g.fn = "args" => g \in Range(stack)
      BY <1>a, <2>1, <2>2, <2>7
    <3>4. QED
      BY <1>3, <2>2, <2>6, <3>1, <3>2, <3>3 DEF LocalOwed
  <2>9. Begins(f) /\ Owed(b)'
    BY <2>1, <2>2, <2>8 DEF Begins, Owed, Installs
  <2>10. Stacked'
    BY <1>1, <1>4, <2>1, <2>2, <2>3, <2>9, CallsClean
  <2>11. QED
    BY <1>1, <2>3, <2>10 DEF Call
<1>b. ASSUME AllDue(local[Tried].deps), cmd.dev => AllDue(local[Tried].dev), Tried \in DOMAIN local
      PROVE  \A a : Left(Top) = Manifests(a) => LocalDue(a)
  <2>1. ASSUME NEW a, Left(Top) = Manifests(a)
        PROVE  \A section : Listed(a, section) = Range(local[Tried][section])
    BY <1>2, <1>b, <2>1, FirstManifest DEF Tried
  <2>2. QED
    BY <1>b, <2>1 DEF LocalDue, ListedDue, AllDue
<1>7. CASE LocalReads
  <2>1. CASE Tried \in DOMAIN local
    BY <1>6, <1>7, <2>1 DEF LocalReads
  <2>2. CASE Tried \notin DOMAIN local /\ Tail(Top.tries) # <<>>
    <3>1. Stay([Top EXCEPT !.pc = "read", !.tries = Tail(@)])
      BY <1>7, <2>2 DEF LocalReads, LocalFails
    <3>a. Top.tries = <<1, 2>> /\ Tail(Top.tries) = <<2>>
      <4>1. Top.tries \in Tries
        BY <1>2 DEF LocalFrames
      <4>2. Tail(<<1, 2>>) = <<2>> /\ \A x : Tail(<<x>>) = <<>>
        OBVIOUS
      <4>3. QED
        BY <2>2, <4>1, <4>2 DEF Tries
    <3>b. [Top EXCEPT !.pc = "read", !.tries = Tail(@)] \in LocalFrames
      BY <1>2, <3>a DEF LocalFrames, Tries
    <3>2. PICK f \in LocalFrames : /\ f = [Top EXCEPT !.pc = "read", !.tries = Tail(@)]
                                   /\ f.fn = "local" /\ f.pc = "read" /\ f.tries = <<2>>
      BY <1>2, <3>a, <3>b DEF LocalFrames
    <3>c. Left(f) = Left(Top)
      <4>1. Range(<<1, 2>>) = {1, 2} /\ Range(<<2>>) = {2} /\ Tried = 1
        BY <3>a DEF Range, Tried
      <4>2. QED
        BY <2>2, <3>a, <3>2, <4>1 DEF Left
    <3>3. Owed(f) /\ ~Waits(f)
      BY <1>3, <3>2, <3>c DEF Owed, LocalOwed, Waits, Installs
    <3>4. Stacked'
      BY <1>1, <1>4, <3>1, <3>2, <3>3, StaysClean
    <3>5. QED
      BY <1>1, <3>1, <3>4 DEF Stay
  <2>3. CASE Tried \notin DOMAIN local /\ Tail(Top.tries) = <<>>
    <3>1. LocalOver("one")
      BY <1>7, <2>3 DEF LocalReads, LocalFails
    <3>2. Left(Top) = {}
      <4>1. Top.tries \in Tries
        BY <1>2 DEF LocalFrames
      <4>2. Tail(<<1, 2>>) # <<>>
        OBVIOUS
      <4>3. PICK x : Top.tries = <<x>>
        BY <2>3, <4>1, <4>2 DEF Tries
      <4>4. Range(<<x>>) = {x} /\ Tried = x
        BY <4>3 DEF Range, Tried
      <4>5. QED
        BY <2>3, <4>3, <4>4 DEF Left
    <3>3. \A a : Left(Top) = Manifests(a) => LocalDue(a)
      BY <3>2, NoManifest
    <3>4. QED
      BY <1>5, <3>1, <3>3
  <2>4. QED
    BY <2>1, <2>2, <2>3
<1>8. CASE LocalInstalled
  <2>1. Top.pc = "deps" /\ ret.rc = "ok"
    BY <1>1, <1>3, <1>8 DEF LocalInstalled, In, Succeeded, Waits
  <2>2. CASE cmd.dev
    BY <1>2, <1>6, <1>8, <2>1, <2>2 DEF LocalInstalled
  <2>3. CASE ~cmd.dev
    <3>1. LocalOver("ok") /\ \A a : Left(Top) = Manifests(a) => LocalDue(a)
      BY <1>2, <1>3, <1>8, <1>b, <2>1, <2>3 DEF LocalInstalled, LocalOwed, Tried
    <3>2. QED
      BY <1>5, <3>1
  <2>4. QED
    BY <2>2, <2>3
<1>9. CASE LocalDev
  <2>1. Top.pc = "dev" /\ ret.rc = "ok"
    BY <1>1, <1>3, <1>9 DEF LocalDev, In, Succeeded, Waits
  <2>2. LocalOver("ok") /\ \A a : Left(Top) = Manifests(a) => LocalDue(a)
    BY <1>2, <1>3, <1>9, <1>b, <2>1 DEF LocalDev, LocalOwed, Tried
  <2>3. QED
    BY <1>5, <2>2
<1>10. QED
  BY <1>7, <1>8, <1>9

(* What is saved is in a list of the first manifest then.                  *)
LEMMA SavedIsListed ==
    ASSUME InstallTypeOK, NEW p \in Packages, NEW section \in {"deps", "dev"}, WriteDependency(p, section)
    PROVE  \A a : \A s \in {"deps", "dev"} : Listed(a, s)' \subseteq Listed(a, s) \cup {p}
<1>1. /\ DOMAIN local' = DOMAIN local /\ DOMAIN local \subseteq Nat
      /\ \A k \in DOMAIN local : local[k] \in [deps : Seq(Packages), dev : Seq(Packages)]
  BY SavedDependency, CInstallLocal DEF InstallTypeOK
<1>2. \A a : Manifests(a)' = Manifests(a) /\ Manifests(a) \subseteq DOMAIN local
  BY <1>1 DEF Manifests
<1>3. CASE UNCHANGED local
  BY <1>3 DEF Listed, Manifests
<1>4. CASE DOMAIN local \cap Project # {} /\ local' # local
  <2>1. PICK k \in DOMAIN local : k = Min(DOMAIN local \cap Project)
    <3>1. DOMAIN local \cap Project \subseteq Nat
      BY <1>1
    <3>2. \E x \in DOMAIN local \cap Project : \A y \in DOMAIN local \cap Project : x <= y
      BY <1>4, <3>1, LeastNumber
    <3>3. QED
      BY <3>2 DEF Min
  <2>2. PICK u : u = [local[k] EXCEPT ![section] = Append(@, p)] /\ local' = [local EXCEPT ![k] = u]
    BY <1>4, <2>1 DEF WriteDependency
  <2>3. Range(Append(local[k][section], p)) = Range(local[k][section]) \cup {p}
    BY <1>1, <2>1, RangeOfAppend
  <2>4. \A s \in {"deps", "dev"} : u[s] = IF s = section THEN Append(local[k][section], p) ELSE local[k][s]
    BY <1>1, <2>1, <2>2
  <2>5. \A m \in DOMAIN local, s \in {"deps", "dev"} : Range(local'[m][s]) \subseteq Range(local[m][s]) \cup {p}
    BY <1>1, <2>1, <2>2, <2>3, <2>4
  <2>6. ASSUME NEW a, NEW s \in {"deps", "dev"}, Manifests(a) # {}
        PROVE  Listed(a, s)' \subseteq Listed(a, s) \cup {p}
    <3>1. \E x \in Manifests(a) : \A y \in Manifests(a) : x <= y
      BY <1>1, <1>2, <2>6, LeastNumber
    <3>2. PICK m \in DOMAIN local : m = Min(Manifests(a))
      BY <1>2, <3>1 DEF Min
    <3>3. Listed(a, s) = Range(local[m][s]) /\ Listed(a, s)' = Range(local'[m][s])
      BY <1>2, <2>6, <3>2 DEF Listed
    <3>4. QED
      BY <2>5, <3>3
  <2>7. QED
    BY <1>2, <2>6 DEF Listed
<1>5. QED
  BY <1>3, <1>4 DEF WriteDependency

(* The arguments of the command line.                                      *)
LEMMA ArgsClean ==
    ASSUME InstallInv, Stacked, OnDisk, ~Opts.global,
           \/ NextArgument \/ ArgsHere \/ (\E dir \in Dirs : Made(dir)) \/ Development
           \/ InstallOver \/ UpdateOver \/ UpgradeOver
    PROVE  (exit' = "running" => Stacked') /\ (exit' = "zero" => Installed')
<1>1. /\ exit = "running" /\ Top.fn = "args" /\ UNCHANGED <<visited, disk, cmd>> /\ Len(stack) = 1
      /\ UNCHANGED local \/ InstallOver
  <2>1. exit = "running" /\ Top.fn = "args" /\ UNCHANGED cmd
    BY ArgsMoves DEF InstallInv
  <2>2. UNCHANGED <<visited, disk>> /\ (UNCHANGED local \/ InstallOver)
    BY DEF NextArgument, ArgsHere, Made, Development, InstallOver, UpdateOver, UpgradeOver, files, process
  <2>3. QED
    BY <2>1, <2>2, ArgumentsAreLast
<1>2. /\ Top \in ArgsFrames /\ Top.todo \in Seq(Packages \cup {Here} \cup DOMAIN Regular)
      /\ Top.pc # "next" => Top.todo # <<>>
      /\ Top.pc = "here" => Head(Top.todo) \notin Packages
      /\ Top.pc \in {"made", "installed", "dev"} => Head(Top.todo) \in Packages
  <2>1. Top \in ArgsFrames /\ FrameOK(Top)
    BY <1>1, RunningFrame, FrameKinds DEF InstallInv
  <2>2. QED
    BY <1>1, <2>1 DEF FrameOK, ArgsFrames
<1>3. ArgsOwed(Top) /\ Succeeded(Top)
  BY <1>1, FramesOnTheStack DEF Stacked, Owed
<1>4. \A p : ~Early(Top, p)
  BY <1>1 DEF Early
(* The next argument.                                                      *)
<1>5. ASSUME Stay([Top EXCEPT !.pc = "next", !.todo = Tail(@)]), Top.todo # <<>>,
             Head(Top.todo) \in Packages =>
                 Head(Top.todo) \in visited /\ (cmd.dev => AllDue(Pkg[Head(Top.todo)].dev)),
             Head(Top.todo) \notin Packages => LocalDue(Head(Top.todo)),
             \A a : \A s \in {"deps", "dev"} : Listed(a, s)' \subseteq Listed(a, s) \cup visited
      PROVE  Stacked'
  <2>1. Tail(Top.todo) \in Seq(Packages \cup {Here} \cup DOMAIN Regular) /\ Range(Top.todo) = {Head(Top.todo)} \cup Range(Tail(Top.todo))
    BY <1>2, <1>5, RangeOfHeadAndTail
  <2>2. [Top EXCEPT !.pc = "next", !.todo = Tail(@)] \in ArgsFrames
    BY <1>2, <2>1 DEF ArgsFrames
  <2>3. PICK f \in ArgsFrames : /\ f = [Top EXCEPT !.pc = "next", !.todo = Tail(@)]
                                /\ f.fn = "args" /\ f.pc = "next" /\ f.todo = Tail(Top.todo)
    BY <1>2, <2>2 DEF ArgsFrames
  <2>4. Range(stack') = {f} \cup Range(Tail(stack)) /\ Top' = f
    BY <1>1, <1>5, <2>3, FramesOnTheStack
  <2>5. Moves({f})
    BY <1>1, <1>4, <2>4 DEF Moves
  <2>6. \A q : Due(q) => Due(q)'
    BY <2>5, DueStays
  <2>7. \A a : LocalDue(a) => LocalDue(a)'
    <3>1. \A q \in visited : Due(q)'
      BY <1>1 DEF Due
    <3>2. \A a : \A s \in {"deps", "dev"} : ListedDue(a, s) => ListedDue(a, s)'
      BY <1>5, <2>6, <3>1 DEF ListedDue
    <3>3. QED
      BY <1>1, <3>2 DEF LocalDue
  <2>8. \A p \in Named : p \in Range(f.todo) \/ (p \in visited /\ (cmd.dev => AllDue(Pkg[p].dev)))
    BY <1>3, <1>5, <2>1, <2>3 DEF ArgsOwed, Named
  <2>9. \A p : AllDue(Pkg[p].dev) => AllDue(Pkg[p].dev)'
    BY <2>6 DEF AllDue
  <2>10. \A a \in Lists : a \in Range(f.todo) \/ LocalDue(a)'
    BY <1>3, <1>5, <2>1, <2>3, <2>7 DEF ArgsOwed, Lists
  <2>11. ArgsOwed(f)'
    <3>1. Named' = Named /\ Lists' = Lists
      BY <1>1 DEF Named, Lists, Arguments
    <3>2. QED
      BY <1>1, <1>3, <2>3, <2>8, <2>9, <2>10, <3>1 DEF ArgsOwed
  <2>12. Owed(f)'
    BY <2>3, <2>11 DEF Owed, Installs
  <2>13. Succeeded(Top)'
    BY <2>3, <2>4 DEF Succeeded, Waits
  <2>14. QED
    BY <1>1, <2>5, <2>12, <2>13, StackGoesOn
(* A call.                                                                 *)
<1>6. ASSUME NEW f, NEW b \in ArgsFrames, Call(f, b), Begins(f), UNCHANGED local, b.todo = Top.todo,
             b.pc \in {"here", "made", "installed"} \/ (b.pc = "dev" /\ Head(b.todo) \in visited
                 /\ f.fn = "list" /\ f.todo = Pkg[Head(b.todo)].dev),
             f.fn = "local" => Left(f) = Manifests(Head(b.todo))
      PROVE  Stacked'
  <2>1. b.fn = "args"
    BY DEF ArgsFrames
  <2>2. (\A q : Due(q) => Due(q)') /\ (f.fn = "list" => \A q \in Range(f.todo) : Due(q)')
    BY <1>1, <1>4, <1>6, <2>1, CallMoves DEF Begins
  <2>4. (\A a : LocalDue(a) => LocalDue(a)') /\ \A a : Manifests(a)' = Manifests(a)
    BY <1>1, <1>6, <2>2, ListsStay
  <2>5. \A p : AllDue(Pkg[p].dev) => AllDue(Pkg[p].dev)'
    BY <2>2 DEF AllDue
  <2>6. b.pc = "dev" => AllDue(Pkg[Head(b.todo)].dev)'
    BY <1>6, <2>2 DEF AllDue
  <2>7. ArgsOwed(b)'
    <3>1. Named' = Named /\ Lists' = Lists
      BY <1>1 DEF Named, Lists, Arguments
    <3>2. QED
      BY <1>1, <1>3, <1>6, <2>4, <2>5, <2>6, <3>1 DEF ArgsOwed
  <2>8. Owed(b)'
    BY <2>1, <2>7 DEF Owed, Installs
  <2>9. f.fn = "local" => LocalOwed(f)'
    <3>1. Range(stack') = {f, b}
      BY <1>1, <1>6, FramesOnTheStack
    <3>2. cmd'.args # <<>> /\ Left(f)' = Left(f)
      BY <1>1, <1>3, <1>6 DEF ArgsOwed, Left
    <3>3. QED
      BY <1>6, <2>4, <3>1, <3>2 DEF LocalOwed, Begins
  <2>10. QED
    BY <1>1, <1>4, <1>6, <2>1, <2>8, <2>9, CallsClean
<1>7. ASSUME NEW f, NEW pc \in {"here", "made", "installed"}, CallThen(f, pc), Begins(f), UNCHANGED local,
             f.fn = "local" => Left(f) = Manifests(Head(Top.todo))
      PROVE  Stacked'
  <2>1. [Top EXCEPT !.pc = pc] \in ArgsFrames
    BY <1>2 DEF ArgsFrames
  <2>2. PICK b \in ArgsFrames : b = [Top EXCEPT !.pc = pc] /\ b.pc = pc /\ b.todo = Top.todo
    BY <1>2, <2>1 DEF ArgsFrames
  <2>3. Call(f, b)
    BY <1>7, <2>2 DEF CallThen
  <2>4. QED
    BY <1>6, <1>7, <2>2, <2>3
<1>8. CASE NextArgument
  <2>1. CASE Top.todo = <<>>
    <3>1. Finish("zero")
      BY <1>8, <2>1 DEF NextArgument
    <3>2. Range(Top.todo) = {}
      BY <2>1 DEF Range
    <3>3. \A q \in Roots : Due(q)
      BY <1>3, <3>2, AllListsDue DEF ArgsOwed
    <3>4. UNCHANGED local
      BY <1>8 DEF NextArgument, files
    <3>5. Installed'
      BY <1>1, <3>3, <3>4, EndsClean
    <3>6. QED
      BY <3>1, <3>5 DEF Finish
  <2>2. CASE Top.todo # <<>> /\ (Head(Top.todo) = Here \/ Head(Top.todo) \in DOMAIN Regular)
    <3>1. PICK a, tries : /\ a = Head(Top.todo)
                          /\ tries = IF a = Here THEN <<1, 2>> ELSE <<Regular[a]>>
      OBVIOUS
    <3>2. PICK f : f = LocalFrame(tries)
      OBVIOUS
    <3>3. f.fn = "local" /\ f.pc = "read" /\ f.tries = tries
      BY <3>2 DEF LocalFrame
    <3>4. CallThen(f, "here") /\ UNCHANGED local
      <4>1. Here \notin DOMAIN Regular
        BY CInstallLocal
      <4>2. CASE a = Here
        BY <1>8, <2>2, <3>1, <3>2, <4>1, <4>2 DEF NextArgument, files
      <4>3. CASE a # Here
        BY <1>8, <2>2, <3>1, <3>2, <4>1, <4>3 DEF NextArgument, files
      <4>4. QED
        BY <4>2, <4>3
    <3>5. Left(f) = Manifests(a)
      <4>1. Range(<<1, 2>>) = {1, 2} /\ \A x : Range(<<x>>) = {x}
        BY DEF Range
      <4>2. Project = {1, 2}
        BY DEF Project, ManifestNames
      <4>3. QED
        BY <3>1, <3>3, <4>1, <4>2 DEF Left, Manifests
    <3>6. exit' = "running"
      BY <1>1, <3>4 DEF CallThen, Call
    <3>7. QED
      BY <1>7, <3>1, <3>3, <3>4, <3>5, <3>6 DEF Begins
  <2>3. CASE Top.todo # <<>> /\ Head(Top.todo) # Here /\ Head(Top.todo) \notin DOMAIN Regular
    <3>1. CallThen(NewFrame(Head(Top.todo)), "made") /\ UNCHANGED local
      BY <1>8, <2>3 DEF NextArgument, files
    <3>2. Begins(NewFrame(Head(Top.todo))) /\ NewFrame(Head(Top.todo)).fn # "local"
      BY DEF Begins, NewFrame
    <3>3. exit' = "running"
      BY <1>1, <3>1 DEF CallThen, Call
    <3>4. QED
      BY <1>7, <3>1, <3>2, <3>3
  <2>4. QED
    BY <2>1, <2>2, <2>3
<1>9. CASE ArgsHere
  <2>1. Top.pc = "here" /\ Stay([Top EXCEPT !.pc = "next", !.todo = Tail(@)]) /\ UNCHANGED local
    BY <1>9 DEF ArgsHere, In, files
  <2>2. Head(Top.todo) \notin Packages /\ LocalDue(Head(Top.todo)) /\ Top.todo # <<>>
    BY <1>2, <1>3, <2>1 DEF Succeeded
  <2>3. \A a : \A s \in {"deps", "dev"} : Listed(a, s)' \subseteq Listed(a, s) \cup visited
    BY <2>1 DEF Listed, Manifests
  <2>4. Stacked' /\ exit' = "running"
    BY <1>1, <1>5, <2>1, <2>2, <2>3 DEF Stay
  <2>5. QED
    BY <2>4
<1>10. ASSUME NEW dir \in Dirs, Made(dir)
       PROVE  Stacked' /\ exit' = "running"
  <2>1. Top.pc = "made" /\ ret.rc # "null"
    BY <1>3, <1>10 DEF Made, In, Succeeded
  <2>2. CallThen(PackageFrame(Head(Top.todo), dir, ret.rc), "installed") /\ UNCHANGED local
    BY <1>3, <1>10, <2>1 DEF Made, files
  <2>3. Begins(PackageFrame(Head(Top.todo), dir, ret.rc)) /\ PackageFrame(Head(Top.todo), dir, ret.rc).fn # "local"
    BY DEF Begins, PackageFrame
  <2>4. exit' = "running"
    BY <1>1, <2>2 DEF CallThen, Call
  <2>5. QED
    BY <1>7, <2>2, <2>3, <2>4
<1>11. CASE Development
  <2>1. /\ Top.pc = "installed" /\ UNCHANGED local /\ Head(Top.todo) \in visited
        /\ Call(ListFrame(Pkg[Head(Top.todo)].dev, "deps"), [Top EXCEPT !.pc = "dev", !.obj = ret.obj])
    BY <1>3, <1>11 DEF Development, In, files, Succeeded
  <2>2. PICK f : f = ListFrame(Pkg[Head(Top.todo)].dev, "deps")
    OBVIOUS
  <2>3. f.fn = "list" /\ f.pc = "next" /\ f.todo = Pkg[Head(Top.todo)].dev
    BY <2>2 DEF ListFrame
  <2>4. ret.obj \in Nat
    BY <1>1, RunningFrame DEF InstallInv
  <2>5. [Top EXCEPT !.pc = "dev", !.obj = ret.obj] \in ArgsFrames
    BY <1>2, <2>4 DEF ArgsFrames
  <2>6. PICK b \in ArgsFrames : b = [Top EXCEPT !.pc = "dev", !.obj = ret.obj] /\ b.pc = "dev" /\ b.todo = Top.todo
    BY <1>2, <2>5 DEF ArgsFrames
  <2>7. Begins(f) /\ Call(f, b)
    BY <2>1, <2>2, <2>3, <2>6 DEF Begins
  <2>8. Stacked' /\ exit' = "running"
    BY <1>1, <1>6, <2>1, <2>3, <2>6, <2>7 DEF Call
  <2>9. QED
    BY <2>8
<1>12. CASE InstallOver \/ UpdateOver \/ UpgradeOver
  <2>1. Top.pc \in {"installed", "dev"} /\ ret.rc = "ok" /\ Top.todo # <<>> /\ Head(Top.todo) \in Packages
    <3>1. Top.pc \in {"installed", "dev"}
      BY <1>12 DEF InstallOver, UpdateOver, UpgradeOver, ArgumentOver, In
    <3>2. QED
      BY <1>1, <1>2, <1>3, <3>1 DEF Succeeded, Waits
  <2>2. cmd.tool # "upgrade"
    <3>1. cmd.tool = "upgrade" => Opts.global
      BY DEF Opts, UpgradeOptions
    <3>2. QED
      BY <3>1
  <2>3. Stay([Top EXCEPT !.pc = "next", !.todo = Tail(@)])
    BY <1>12, <2>1, <2>2 DEF InstallOver, UpdateOver, UpgradeOver, PackageOver
  <2>4. Head(Top.todo) \in visited /\ (cmd.dev => AllDue(Pkg[Head(Top.todo)].dev))
    <3>1. CASE Top.pc = "installed"
      <4>1. ~cmd.dev
        BY <1>12, <2>1, <2>2, <3>1 DEF InstallOver, UpdateOver, UpgradeOver, ArgumentOver, In
      <4>2. QED
        BY <1>3, <3>1, <4>1 DEF Succeeded
    <3>2. CASE Top.pc = "dev"
      BY <1>3, <3>2 DEF ArgsOwed
    <3>3. QED
      BY <2>1, <3>1, <3>2
  <2>5. \A a : \A s \in {"deps", "dev"} : Listed(a, s)' \subseteq Listed(a, s) \cup visited
    <3>1. CASE UNCHANGED local
      BY <3>1 DEF Listed, Manifests
    <3>2. CASE InstallOver
      <4>1. WriteDependency(Head(Top.todo), "deps") \/ WriteDependency(Head(Top.todo), "dev") \/ UNCHANGED local
        BY <3>2 DEF InstallOver, Save, SaveDev
      <4>2. Head(Top.todo) \in Packages
        BY <1>2, <2>1
      <4>3. QED
        BY <2>4, <3>1, <4>1, <4>2, SavedIsListed DEF InstallInv
    <3>3. QED
      BY <1>1, <3>1, <3>2
  <2>6. Stacked' /\ exit' = "running"
    BY <1>1, <1>5, <2>1, <2>3, <2>4, <2>5 DEF Stay
  <2>7. QED
    BY <2>6
<1>13. QED
  <2>1. "running" # "zero"
    OBVIOUS
  <2>2. QED
    BY <1>8, <1>9, <1>10, <1>11, <1>12

(* The manifests of the server: as long as every package that was asked    *)
(* for has one, clib_package_new_from_slug finds it.                       *)
LEMMA NewClean ==
    ASSUME InstallInv, Stacked, NewLookup \/ NewGet \/ NewGiveUp, missing' = {}
    PROVE  (exit' = "running" => Stacked') /\ exit' # "zero"
<1>1. exit = "running" /\ Top.fn = "new" /\ Top.pc \in {"lookup", "get"} /\ UNCHANGED <<visited, cmd, local>>
  BY DEF NewLookup, NewGet, NewGiveUp, In, files, process
<1>2. Top \in NewFrames /\ Top.k \in 1 .. 2 /\ Len(stack) > 1
  <2>1. Top \in NewFrames /\ Len(stack) > 1
    BY <1>1, RunningFrame, FrameKinds DEF InstallInv
  <2>2. QED
    BY <2>1 DEF NewFrames
<1>3. \A p : ~Early(Top, p)
  BY <1>1 DEF Early
<1>4. ASSUME NEW f, Stay(f), f.fn = "new", f.pc \in {"lookup", "get"}
      PROVE  Stacked' /\ exit' = "running"
  <2>1. Owed(f) /\ ~Waits(f)
    BY <1>4 DEF Owed, Waits, Installs
  <2>2. Stacked'
    BY <1>1, <1>3, <1>4, <2>1, StaysClean
  <2>3. QED
    BY <1>1, <1>4, <2>2 DEF Stay
<1>5. ASSUME NewMade
      PROVE  Stacked' /\ exit' = "running"
  <2>1. Return(ManifestNames[Top.k], 0) /\ ManifestNames[Top.k] # "null"
    BY <1>2, <1>5 DEF NewMade, ManifestNames
  <2>2. \A g \in Frames : CalledBy(Top, g) => g.pc = "made" /\ g.fn \in {"args", "list"}
    BY <1>1 DEF CalledBy
  <2>3. Stacked'
    BY <1>1, <1>2, <1>3, <2>1, <2>2, ReturnsClean DEF Waits
  <2>4. QED
    BY <1>1, <2>1, <2>3 DEF Return
<1>6. ASSUME NewFails
      PROVE  Stacked' /\ exit' = "running"
  <2>1. Stay([Top EXCEPT !.pc = "lookup", !.k = @ + 1, !.tries = Retries])
    BY <1>6 DEF NewFails
  <2>2. PICK f : f = [Top EXCEPT !.pc = "lookup", !.k = @ + 1, !.tries = Retries]
    OBVIOUS
  <2>3. f.fn = "new" /\ f.pc = "lookup" /\ Stay(f)
    BY <1>1, <1>2, <2>1, <2>2 DEF NewFrames
  <2>4. QED
    BY <1>4, <2>3
<1>7. ASSUME Goto("get")
      PROVE  Stacked' /\ exit' = "running"
  <2>1. PICK f : f = [Top EXCEPT !.pc = "get"]
    OBVIOUS
  <2>2. f.fn = "new" /\ f.pc = "get" /\ Stay(f)
    BY <1>1, <1>2, <1>7, <2>1 DEF NewFrames, Goto
  <2>3. QED
    BY <1>4, <2>2
<1>8. ASSUME Stay([Top EXCEPT !.tries = @ - 1])
      PROVE  Stacked' /\ exit' = "running"
  <2>1. PICK f : f = [Top EXCEPT !.tries = @ - 1]
    OBVIOUS
  <2>2. f.fn = "new" /\ f.pc \in {"lookup", "get"} /\ Stay(f)
    BY <1>1, <1>2, <1>8, <2>1 DEF NewFrames
  <2>3. QED
    BY <1>4, <2>2
<1>9. CASE NewLookup
  BY <1>5, <1>7, <1>9 DEF NewLookup
<1>10. CASE NewGet
  BY <1>5, <1>6, <1>8, <1>10 DEF NewGet
<1>11. CASE NewGiveUp
  <2>1. CASE NewFails
    BY <1>6, <2>1
  <2>2. CASE Finish("aborted")
    BY <2>2 DEF Finish
  <2>3. QED
    BY <1>11, <2>1, <2>2 DEF NewGiveUp
<1>12. QED
  BY <1>9, <1>10, <1>11

(* install_packages of the library.                                        *)
LEMMA ListClean ==
    ASSUME InstallInv, Stacked, ListNext \/ ListMade \/ ListInstalled
    PROVE  Stacked' /\ exit' = "running"
<1>1. /\ exit = "running" /\ Top.fn = "list" /\ UNCHANGED <<visited, cmd, local>> /\ Succeeded(Top)
      /\ Top \in ListFrames /\ Top.todo \in Seq(Packages) /\ (Top.pc # "next" => Top.todo # <<>>) /\ Len(stack) > 1
  <2>1. exit = "running" /\ Top.fn = "list" /\ UNCHANGED <<visited, cmd, local>>
    BY DEF ListNext, ListMade, ListInstalled, In, files, process
  <2>2. Top \in ListFrames /\ FrameOK(Top) /\ Len(stack) > 1
    BY <2>1, RunningFrame, FrameKinds DEF InstallInv
  <2>3. QED
    BY <2>1, <2>2 DEF ListFrames, FrameOK, Stacked
<1>2. \A p : ~Early(Top, p)
  BY <1>1 DEF Early
<1>3. ASSUME NEW f, NEW pc, CallThen(f, pc), Begins(f), f.fn # "local"
      PROVE  Stacked' /\ exit' = "running"
  <2>1. PICK b : b = [Top EXCEPT !.pc = pc]
    OBVIOUS
  <2>2. b.fn = "list" /\ b.todo = Top.todo /\ Call(f, b)
    BY <1>1, <1>3, <2>1 DEF ListFrames, CallThen
  <2>3. Owed(b)'
    BY <2>2 DEF Owed, Installs
  <2>4. Stacked'
    BY <1>1, <1>2, <1>3, <2>2, <2>3, CallsClean DEF Begins
  <2>5. QED
    BY <1>1, <2>2, <2>4 DEF Call
<1>4. CASE ListNext
  <2>1. CASE Top.todo = <<>>
    <3>1. Return("ok", 0) /\ Range(Top.todo) = {}
      BY <1>4, <2>1 DEF ListNext, ListOver, Range
    <3>2. \A g \in Frames : CalledBy(Top, g) => g.pc \in {"deps", "dev"}
      BY <1>1 DEF CalledBy
    <3>3. Stacked'
      BY <1>1, <1>2, <3>1, <3>2, ReturnsClean
    <3>4. QED
      BY <1>1, <3>1, <3>3 DEF Return
  <2>2. CASE Top.todo # <<>>
    <3>1. PICK f : f = NewFrame(Head(Top.todo))
      OBVIOUS
    <3>2. CallThen(f, "made") /\ Begins(f) /\ f.fn # "local"
      BY <1>4, <2>2, <3>1 DEF ListNext, NewFrame, Begins
    <3>3. QED
      BY <1>3, <3>2
  <2>3. QED
    BY <2>1, <2>2
<1>5. CASE ListMade
  <2>1. ret.rc # "null"
    BY <1>1, <1>5 DEF ListMade, In, Succeeded
  <2>2. PICK f : f = PackageFrame(Head(Top.todo), Top.dir, ret.rc)
    OBVIOUS
  <2>3. CallThen(f, "installed") /\ Begins(f) /\ f.fn # "local"
    BY <1>5, <2>1, <2>2 DEF ListMade, PackageFrame, Begins
  <2>4. QED
    BY <1>3, <2>3
<1>6. CASE ListInstalled
  <2>1. ret.rc = "ok" /\ Head(Top.todo) \in visited /\ Top.todo # <<>>
    BY <1>1, <1>6 DEF ListInstalled, In, Succeeded, Waits
  <2>2. PICK f : f = [Top EXCEPT !.pc = "next", !.todo = Tail(@), !.mine = @ \union {ret.obj}]
    OBVIOUS
  <2>3. f.fn = "list" /\ f.pc = "next" /\ f.todo = Tail(Top.todo) /\ Stay(f)
    BY <1>1, <1>6, <2>1, <2>2 DEF ListInstalled, ListFrames
  <2>4. Range(Top.todo) = {Head(Top.todo)} \cup Range(f.todo)
    BY <1>1, <2>1, <2>3, RangeOfHeadAndTail
  <2>5. Owed(f) /\ ~Waits(f)
    BY <2>3 DEF Owed, Waits, Installs
  <2>6. Stacked'
    BY <1>1, <1>2, <2>1, <2>3, <2>4, <2>5, StaysClean
  <2>7. QED
    BY <1>1, <2>3, <2>6 DEF Stay
<1>7. QED
  BY <1>4, <1>5, <1>6

(* clib_package_install_executable.                                        *)
LEMMA ExecClean ==
    ASSUME InstallInv, Stacked, ExecTarball \/ ExecFails \/ ExecDeps \/ ExecRun, faults' = {}
    PROVE  (exit' = "running" => Stacked') /\ exit' # "zero"
<1>1. ~ExecFails
  BY DEF ExecFails, Fail
<1>2. /\ exit = "running" /\ Top.fn = "exec" /\ UNCHANGED <<visited, cmd, local>> /\ Succeeded(Top)
      /\ Top \in ExecFrames /\ Len(stack) > 1
  <2>1. exit = "running" /\ Top.fn = "exec" /\ UNCHANGED <<visited, cmd, local>>
    BY <1>1 DEF ExecTarball, ExecDeps, ExecRun, In, files, process
  <2>2. QED
    BY <2>1, RunningFrame, FrameKinds DEF InstallInv, Stacked
<1>3. \A p : ~Early(Top, p)
  BY <1>2 DEF Early
<1>4. ASSUME Goto("run")
      PROVE  Stacked' /\ exit' = "running"
  <2>1. PICK f : f = [Top EXCEPT !.pc = "run"]
    OBVIOUS
  <2>2. f.fn = "exec" /\ f.pc = "run" /\ Stay(f)
    BY <1>2, <1>4, <2>1 DEF ExecFrames, Goto
  <2>3. Owed(f) /\ ~Waits(f)
    BY <2>2 DEF Owed, Waits, Installs
  <2>4. Stacked'
    BY <1>2, <1>3, <2>2, <2>3, StaysClean
  <2>5. QED
    BY <1>2, <2>2, <2>4 DEF Stay
<1>5. CASE ExecTarball
  <2>1. CASE Goto("run")
    BY <1>4, <2>1
  <2>2. CASE CallThen(ListFrame(Pkg[Top.p].deps, "tmp"), "deps")
    <3>1. PICK f, b : f = ListFrame(Pkg[Top.p].deps, "tmp") /\ b = [Top EXCEPT !.pc = "deps"]
      OBVIOUS
    <3>2. b.fn = "exec" /\ Call(f, b) /\ Begins(f) /\ f.fn = "list"
      BY <1>2, <2>2, <3>1 DEF ExecFrames, CallThen, ListFrame, Begins
    <3>3. Owed(b)'
      BY <3>2 DEF Owed, Installs
    <3>4. Stacked'
      BY <1>2, <1>3, <3>2, <3>3, CallsClean
    <3>5. QED
      BY <1>2, <3>2, <3>4 DEF Call
  <2>3. QED
    BY <1>5, <2>1, <2>2 DEF ExecTarball
<1>6. CASE ExecDeps
  <2>1. ret.rc = "ok"
    BY <1>2, <1>6 DEF ExecDeps, In, Succeeded, Waits
  <2>2. QED
    BY <1>4, <1>6, <2>1 DEF ExecDeps
<1>7. CASE ExecRun
  <2>1. CASE Finish("aborted")
    BY <2>1 DEF Finish
  <2>2. CASE Return("ok", 0)
    <3>1. \A g \in Frames : CalledBy(Top, g) => g.pc = "executed"
      BY <1>2 DEF CalledBy
    <3>2. Stacked'
      BY <1>2, <1>3, <2>2, <3>1, ReturnsClean
    <3>3. QED
      BY <1>2, <2>2, <3>2 DEF Return
  <2>3. QED
    BY <1>7, <2>1, <2>2 DEF ExecRun
<1>8. QED
  BY <1>1, <1>5, <1>6, <1>7

(* clib_package_install: marks the package, and does not return before the *)
(* list of its dependencies is worked through.                             *)
LEMMA PackageClean ==
    ASSUME InstallInv, Stacked, PackageSteps, faults' = {}
    PROVE  Stacked' /\ exit' = "running"
<1>1. /\ exit = "running" /\ Top.fn = "package" /\ UNCHANGED <<cmd, local>> /\ Succeeded(Top) /\ Len(stack) > 1
      /\ Top \in PackageFrames /\ (Installs(Top) => Top.p \in visited) /\ FrameOK(Top)
  <2>1. exit = "running" /\ Top.fn = "package" /\ UNCHANGED <<cmd, local>>
    BY PackageStepsRun
  <2>2. Top \in PackageFrames /\ Len(stack) > 1 /\ Top \in Range(stack) /\ FrameOK(Top)
    BY <2>1, RunningFrame, FrameKinds, FramesOnTheStack DEF InstallInv
  <2>3. QED
    BY <2>1, <2>2 DEF Stacked, Owed
<1>2. \A p : Early(Top, p) => p = Top.p /\ Top.pc \in Fetching \cup {"configure", "executed"}
  BY DEF Early
<1>3. ASSUME NEW f, Stay(f), f.fn = "package", f.p = Top.p, f.pc \in Fetching \cup {"configure"}, Installs(Top),
             UNCHANGED visited
      PROVE  Stacked' /\ exit' = "running"
  <2>1. Owed(f) /\ ~Waits(f) /\ f.pc \notin {"made", "installed", "here"}
    BY <1>1, <1>3 DEF Owed, Waits, Fetching, Installs
  <2>2. \A p : Early(Top, p) => Early(f, p)
    BY <1>2, <1>3 DEF Early
  <2>3. Stacked'
    BY <1>1, <1>3, <2>1, <2>2, StaysClean
  <2>4. QED
    BY <1>1, <1>3, <2>3 DEF Stay
<1>4. ASSUME NEW pc \in Fetching \cup {"configure"}, Goto(pc), Installs(Top), UNCHANGED visited
      PROVE  Stacked' /\ exit' = "running"
  <2>1. PICK f : f = [Top EXCEPT !.pc = pc]
    OBVIOUS
  <2>2. f.fn = "package" /\ f.p = Top.p /\ f.pc = pc /\ Stay(f)
    BY <1>1, <1>4, <2>1 DEF PackageFrames, Goto
  <2>3. QED
    BY <1>3, <1>4, <2>2
<1>5. ASSUME CallThen(ListFrame(Pkg[Top.p].deps, Top.dir), "deps"), Installs(Top), UNCHANGED visited
      PROVE  Stacked' /\ exit' = "running"
  <2>1. PICK f, b : f = ListFrame(Pkg[Top.p].deps, Top.dir) /\ b = [Top EXCEPT !.pc = "deps"]
    OBVIOUS
  <2>2. /\ b.fn = "package" /\ b.pc = "deps" /\ b.p = Top.p /\ Call(f, b) /\ Begins(f)
        /\ f.fn = "list" /\ f.todo = Pkg[Top.p].deps
    BY <1>1, <1>5, <2>1 DEF PackageFrames, CallThen, ListFrame, Begins
  <2>3. Owed(b)'
    BY <1>1, <1>5, <2>2 DEF Owed, Installs
  <2>4. Stacked'
    BY <1>1, <1>2, <1>5, <2>2, <2>3, CallsClean
  <2>5. QED
    BY <1>1, <2>2, <2>4 DEF Call
<1>6. ASSUME NEW o, Return("ok", o), Top.pc \in {"enter", "deps"}, Top.p \in visited, UNCHANGED visited
      PROVE  Stacked' /\ exit' = "running"
  <2>1. \A g \in Frames : CalledBy(Top, g) => g.pc = "installed" /\ Head(g.todo) = Top.p
    BY <1>1 DEF CalledBy
  <2>2. \A p : ~Early(Top, p)
    BY <1>6 DEF Early, Fetching
  <2>3. Stacked'
    BY <1>1, <1>6, <2>1, <2>2, ReturnsClean
  <2>4. QED
    BY <1>1, <1>6, <2>3 DEF Return
<1>7. CASE PackageVisited
  <2>1. Return("ok", 0) /\ Top.pc = "enter" /\ Top.p \in visited /\ UNCHANGED visited
    BY <1>7 DEF PackageVisited, In, process
  <2>2. QED
    BY <1>6, <2>1
<1>8. ASSUME Mark, Top.pc \in {"enter", "manifest"}
      PROVE  Stacked' /\ exit' = "running"
  <2>1. PICK f : f = [Top EXCEPT !.pc = "makefile", !.obj = Len(objs) + 1]
    OBVIOUS
  <2>2. Stay(f) /\ f.fn = "package" /\ f.p = Top.p /\ f.pc = "makefile" /\ visited' = visited \cup {Top.p}
    BY <1>1, <1>8, <2>1 DEF Mark, PackageFrames
  <2>3. Range(stack') = {f} \cup Range(Tail(stack)) /\ Top' = f
    BY <1>1, <2>2, FramesOnTheStack
  <2>4. Moves({f})
    BY <1>1, <1>8, <2>2, <2>3 DEF Moves, Early, Fetching
  <2>5. Succeeded(Top)'
    BY <2>2, <2>3 DEF Succeeded, Waits
  <2>6. Owed(f)'
    BY <2>2 DEF Owed
  <2>7. \A p \in visited' \ visited : \E g \in {f} : Early(g, p)
    BY <2>2 DEF Early, Fetching
  <2>8. Stacked'
    BY <1>1, <2>4, <2>5, <2>6, <2>7, StackGoesOn
  <2>9. QED
    BY <1>1, <2>2, <2>8 DEF Stay
<1>18. CASE PackageEnter
  <2>1. Top.pc = "enter"
    BY <1>18 DEF PackageEnter, Enters, In
  <2>2. CASE Mark
    BY <1>8, <2>1, <2>2
  <2>3. CASE ~Mark
    <3>1. Goto("manifest") /\ UNCHANGED visited
      BY <1>18, <2>3 DEF PackageEnter
    <3>2. PICK f : f = [Top EXCEPT !.pc = "manifest"]
      OBVIOUS
    <3>3. f.fn = "package" /\ f.pc = "manifest" /\ Stay(f)
      BY <1>1, <3>1, <3>2 DEF PackageFrames, Goto
    <3>4. Owed(f) /\ ~Waits(f)
      BY <3>3 DEF Owed, Waits, Installs
    <3>5. \A p : ~Early(Top, p)
      BY <2>1 DEF Early, Fetching
    <3>6. Stacked'
      BY <1>1, <3>1, <3>3, <3>4, <3>5, StaysClean
    <3>7. QED
      BY <1>1, <3>3, <3>6 DEF Stay
  <2>4. QED
    BY <2>2, <2>3
<1>19. CASE PackageWritten
  BY <1>8, <1>19 DEF PackageWritten, In
<1>20. CASE Copies
  <2>1. UNCHANGED visited /\ Top.pc \in {"load", "copy"} /\ Installs(Top)
    BY <1>1, <1>20 DEF Copies, CopyOpen, CopyWrite, CopyFails, CopyOver, Copying, In, process, Installs
  <2>2. CASE CopyOver
    BY <1>4, <2>1, <2>2 DEF CopyOver
  <2>3. CASE CopyFails
    BY <2>3 DEF CopyFails, Fail
  <2>4. CASE CopyOpen
    <3>1. PICK x, now : Stay([Top EXCEPT !.left = @ \ {x}, !.now = now])
      <4>1. \A kind : ~Fail(kind)
        BY DEF Fail
      <4>2. PICK x \in Top.left : Stay([Top EXCEPT !.left = @ \ {x}, !.now = <<x, From[x]>>])
        BY <2>4, <4>1 DEF CopyOpen
      <4>3. QED
        BY <4>2
    <3>2. PICK f : f = [Top EXCEPT !.left = @ \ {x}, !.now = now]
      OBVIOUS
    <3>3. f.fn = "package" /\ f.p = Top.p /\ f.pc = Top.pc /\ Stay(f)
      BY <1>1, <3>1, <3>2 DEF PackageFrames
    <3>4. QED
      BY <1>3, <2>1, <3>3 DEF Fetching
  <2>5. CASE CopyWrite
    <3>1. PICK f : f = [Top EXCEPT !.now = <<>>]
      OBVIOUS
    <3>2. f.fn = "package" /\ f.p = Top.p /\ f.pc = Top.pc /\ Stay(f)
      BY <1>1, <2>5, <3>1 DEF PackageFrames, CopyWrite
    <3>3. QED
      BY <1>3, <2>1, <3>2 DEF Fetching
  <2>6. QED
    BY <1>20, <2>2, <2>3, <2>4, <2>5 DEF Copies
<1>9. CASE PackageMakefile \/ PackageMakefileJoined \/ PackageCache \/ PackageSave
  <2>1. Installs(Top) /\ UNCHANGED visited
    BY <1>1, <1>9 DEF PackageMakefile, PackageMakefileJoined, PackageCache, PackageSave, In, process, Installs
  <2>2. CASE \E pc \in Fetching \cup {"configure"} : Goto(pc)
    BY <1>4, <2>1, <2>2
  <2>3. ASSUME NEW pc \in {"load", "copy"}, NEW s, Stay([Top EXCEPT !.pc = pc, !.left = s])
        PROVE  Stacked' /\ exit' = "running"
    <3>1. PICK f : f = [Top EXCEPT !.pc = pc, !.left = s]
      OBVIOUS
    <3>2. f.fn = "package" /\ f.p = Top.p /\ f.pc = pc /\ Stay(f)
      BY <1>1, <2>3, <3>1 DEF PackageFrames
    <3>3. QED
      BY <1>3, <2>1, <3>2 DEF Fetching
  <2>4. CASE PackageMakefile \/ PackageMakefileJoined
    <3>1. {"makefile fetch", "cache"} \subseteq Fetching
      BY DEF Fetching
    <3>2. QED
      BY <2>2, <2>4, <3>1 DEF PackageMakefile, PackageMakefileJoined
  <2>5. CASE PackageCache
    <3>1. {"fetch", "configure"} \subseteq Fetching \cup {"configure"}
      BY DEF Fetching
    <3>2. QED
      BY <2>2, <2>3, <2>5, <3>1 DEF PackageCache
  <2>6. CASE PackageSave
    BY <2>3, <2>6 DEF PackageSave
  <2>7. QED
    BY <1>9, <2>4, <2>5, <2>6
<1>10. CASE PackageFetch
  <2>1. Installs(Top) /\ UNCHANGED visited
    BY <1>1, <1>10 DEF PackageFetch, In, Installs
  <2>2. CASE Goto("final")
    BY <1>4, <2>1, <2>2 DEF Fetching
  <2>3. CASE ~Goto("final")
    <3>1. PICK room \in BOOLEAN :
             Stay([Top EXCEPT !.next = @ + 1, !.pc = IF room THEN "fetch" ELSE "window",
                              !.window = IF room THEN Append(@, Top.next) ELSE @])
      BY <1>10, <2>3 DEF PackageFetch
    <3>2. PICK f : f = [Top EXCEPT !.next = @ + 1, !.pc = IF room THEN "fetch" ELSE "window",
                                   !.window = IF room THEN Append(@, Top.next) ELSE @]
      OBVIOUS
    <3>3. f.fn = "package" /\ f.p = Top.p /\ f.pc \in {"fetch", "window"} /\ Stay(f)
      BY <1>1, <3>1, <3>2 DEF PackageFrames
    <3>4. f.pc \in Fetching
      BY <3>3 DEF Fetching
    <3>5. QED
      BY <1>3, <2>1, <3>3, <3>4
  <2>4. QED
    BY <2>2, <2>3
<1>11. ASSUME NEW pc \in Fetching, NEW then \in Fetching, JoinFetch(pc, then)
       PROVE  Stacked' /\ exit' = "running"
  <2>1. Top.pc = pc /\ Installs(Top) /\ UNCHANGED visited
    BY <1>1, <1>11 DEF JoinFetch, In, Fetching, Installs
  <2>2. CASE Top.window = <<>>
    <3>1. Goto(then)
      BY <1>11, <2>2 DEF JoinFetch
    <3>2. QED
      BY <1>4, <2>1, <3>1
  <2>3. CASE Top.window # <<>>
    <3>1. PICK f : f = [Top EXCEPT !.window = Front(@)]
      OBVIOUS
    <3>2. f.fn = "package" /\ f.p = Top.p /\ f.pc = pc /\ Stay(f)
      BY <1>1, <1>11, <2>1, <2>3, <3>1 DEF PackageFrames, JoinFetch
    <3>3. QED
      BY <1>3, <2>1, <3>2
  <2>4. QED
    BY <2>2, <2>3
<1>12. CASE PackageWindow \/ PackageFinal
  <2>1. {"window", "fetch", "final", "save"} \subseteq Fetching
    BY DEF Fetching
  <2>2. QED
    BY <1>11, <1>12, <2>1 DEF PackageWindow, PackageFinal
<1>13. CASE PackageConfigure
  <2>1. Top.pc = "configure" /\ Installs(Top) /\ UNCHANGED visited
    BY <1>1, <1>13 DEF PackageConfigure, In, process, Installs
  <2>2. CASE CallThen(ExecFrame(Top.p, Top.dir), "executed")
    <3>1. PICK f, b : f = ExecFrame(Top.p, Top.dir) /\ b = [Top EXCEPT !.pc = "executed"]
      OBVIOUS
    <3>2. b.fn = "package" /\ b.pc = "executed" /\ b.p = Top.p /\ Call(f, b) /\ Begins(f) /\ f.fn = "exec"
      BY <1>1, <2>2, <3>1 DEF PackageFrames, CallThen, ExecFrame, Begins
    <3>3. Owed(b)'
      BY <1>1, <2>1, <3>2 DEF Owed, Installs
    <3>4. \A p : Early(Top, p) => Early(b, p)
      BY <1>2, <3>2 DEF Early
    <3>5. Stacked'
      BY <1>1, <2>1, <3>2, <3>3, <3>4, CallsClean
    <3>6. QED
      BY <1>1, <3>2, <3>5 DEF Call
  <2>3. CASE ~CallThen(ExecFrame(Top.p, Top.dir), "executed")
    <3>1. CallThen(ListFrame(Pkg[Top.p].deps, Top.dir), "deps")
      BY <1>13, <2>3 DEF PackageConfigure
    <3>2. QED
      BY <1>5, <2>1, <3>1
  <2>4. QED
    BY <2>2, <2>3
<1>14. CASE PackageExecuted
  <2>1. Top.pc = "executed" /\ Installs(Top) /\ UNCHANGED visited
    BY <1>1, <1>14 DEF PackageExecuted, In, Installs
  <2>2. ret.rc = "ok"
    BY <1>1, <2>1 DEF Succeeded, Waits
  <2>3. QED
    BY <1>5, <1>14, <2>1, <2>2 DEF PackageExecuted
<1>15. CASE PackageDeps
  <2>1. Top.pc = "deps" /\ Installs(Top) /\ UNCHANGED visited
    BY <1>1, <1>15 DEF PackageDeps, In, Installs
  <2>2. ret.rc = "ok"
    BY <1>1, <2>1 DEF Succeeded, Waits
  <2>3. Return("ok", Top.obj)
    BY <1>15, <2>2 DEF PackageDeps, PackageReturn
  <2>4. QED
    BY <1>1, <1>6, <2>1, <2>3
<1>16. CASE PackageRefused \/ PackageNoMakefile \/ PackageNotFetched \/ PackageNotConfigured
  BY <1>16 DEF PackageRefused, PackageNoMakefile, PackageNotFetched, PackageNotConfigured, SpawnFails, Fail
<1>17. QED
  BY <1>7, <1>9, <1>10, <1>12, <1>13, <1>14, <1>15, <1>16, <1>18, <1>19, <1>20 DEF PackageSteps

(* What is there in whole stays so, unless a file of it is overwritten.    *)
LEMMA StaysGood ==
    ASSUME DiskOK(disk), DiskOK(disk'), NEW p \in Packages, Good(p),
           \A d \in Dirs : \A f \in FilesOf(p) : disk[d][p][f] = "whole" => disk'[d][p][f] = "whole"
    PROVE  Good(p)'
<1>1. ASSUME NEW d \in Dirs, Whole(disk[d][p], p)
      PROVE  Whole(disk'[d][p], p)
  <2>1. DOMAIN disk[d][p] = FilesOf(p) /\ DOMAIN disk'[d][p] = FilesOf(p)
    BY DEF DiskOK, Directory
  <2>2. Sources(p) \subseteq FilesOf(p)
    BY FilesOfPackage
  <2>3. QED
    BY <1>1, <2>1, <2>2 DEF Whole
<1>2. QED
  BY <1>1 DEF Good, Joined, Whole, Sources

(* A step that writes no files, of a function that fetches none.           *)
LEMMA DiskAsBefore ==
    ASSUME OnDisk, UNCHANGED <<visited, disk>>, Top.fn = "package" => Top.pc \notin Fetching \cup {"manifest"}
    PROVE  OnDisk'
BY DEF OnDisk, Fetched, Good, Whole, Joined, Sources

(* clib_package_install fetches on.                                        *)
LEMMA FetchingGoesOn ==
    ASSUME InstallInv, \/ PackageEnter \/ PackageWritten \/ PackageMakefile \/ PackageMakefileJoined
                       \/ PackageFetch \/ PackageWindow \/ PackageFinal \/ PackageSave \/ CopyOpen \/ CopyWrite
    PROVE  \A p : p = Top.p => Fetched(p)'
<1>1. exit = "running" /\ Top.fn = "package" /\ Top \in PackageFrames
  <2>1. exit = "running" /\ Top.fn = "package"
    BY PackageStepsRun DEF PackageSteps, Copies
  <2>2. QED
    BY <2>1, RunningFrame, FrameKinds DEF InstallInv
<1>2. ASSUME NEW f, Stay(f), f.fn = "package", f.p = Top.p, f.pc \in Fetching \cup {"manifest"}
      PROVE  \A p : p = Top.p => Fetched(p)'
  <2>1. Top' = f
    BY <1>1, <1>2, FramesOnTheStack
  <2>2. QED
    BY <1>2, <2>1 DEF Fetched
<1>3. ASSUME NEW pc \in Fetching \cup {"manifest"}, Goto(pc)
      PROVE  \A p : p = Top.p => Fetched(p)'
  <2>1. PICK f : f = [Top EXCEPT !.pc = pc]
    OBVIOUS
  <2>2. f.fn = "package" /\ f.p = Top.p /\ f.pc = pc /\ Stay(f)
    BY <1>1, <1>3, <2>1 DEF PackageFrames, Goto
  <2>3. QED
    BY <1>2, <2>2
<1>4. CASE Mark
  <2>1. PICK f : f = [Top EXCEPT !.pc = "makefile", !.obj = Len(objs) + 1]
    OBVIOUS
  <2>2. Stay(f) /\ f.fn = "package" /\ f.p = Top.p /\ f.pc = "makefile"
    BY <1>1, <1>4, <2>1 DEF Mark, PackageFrames
  <2>3. QED
    BY <1>2, <2>2 DEF Fetching
<1>5. CASE PackageEnter \/ PackageWritten
  BY <1>3, <1>4, <1>5 DEF PackageEnter, PackageWritten
<1>10. CASE PackageMakefile \/ PackageMakefileJoined
  <2>1. {"makefile fetch", "cache"} \subseteq Fetching
    BY DEF Fetching
  <2>2. QED
    BY <1>3, <1>10, <2>1 DEF PackageMakefile, PackageMakefileJoined
<1>12. CASE PackageSave
  <2>1. PICK f : f = [Top EXCEPT !.pc = "copy", !.left = Present(disk[Top.dir][Top.p])]
    OBVIOUS
  <2>2. f.fn = "package" /\ f.p = Top.p /\ f.pc = "copy" /\ Stay(f)
    BY <1>1, <1>12, <2>1 DEF PackageFrames, PackageSave
  <2>3. QED
    BY <1>2, <2>2 DEF Fetching
<1>13. CASE CopyOpen \/ CopyWrite
  <2>1. PICK left, now : Stay([Top EXCEPT !.left = left, !.now = now])
    <3>1. CASE CopyOpen
      <4>1. PICK x \in Top.left : \/ Stay([Top EXCEPT !.left = @ \ {x}, !.now = <<x, From[x]>>])
                                 \/ Stay([Top EXCEPT !.left = @ \ {x}])
        BY <3>1 DEF CopyOpen
      <4>2. [Top EXCEPT !.left = @ \ {x}] = [Top EXCEPT !.left = @ \ {x}, !.now = Top.now]
        BY <1>1 DEF PackageFrames
      <4>3. QED
        BY <4>1, <4>2
    <3>2. CASE CopyWrite
      <4>1. [Top EXCEPT !.now = <<>>] = [Top EXCEPT !.left = Top.left, !.now = <<>>]
        BY <1>1 DEF PackageFrames
      <4>2. QED
        BY <3>2, <4>1 DEF CopyWrite
    <3>3. QED
      BY <1>13, <3>1, <3>2
  <2>2. PICK f : f = [Top EXCEPT !.left = left, !.now = now]
    OBVIOUS
  <2>3. f.fn = "package" /\ f.p = Top.p /\ f.pc = Top.pc /\ Stay(f)
    BY <1>1, <2>1, <2>2 DEF PackageFrames
  <2>4. Top.pc \in Fetching
    BY <1>13 DEF CopyOpen, CopyWrite, Copying, In, Fetching
  <2>5. QED
    BY <1>2, <2>3, <2>4
<1>6. CASE PackageFetch
  <2>1. CASE Goto("final")
    BY <1>3, <2>1 DEF Fetching
  <2>2. CASE ~Goto("final")
    <3>1. PICK room \in BOOLEAN :
             Stay([Top EXCEPT !.next = @ + 1, !.pc = IF room THEN "fetch" ELSE "window",
                              !.window = IF room THEN Append(@, Top.next) ELSE @])
      BY <1>6, <2>2 DEF PackageFetch
    <3>2. PICK f : f = [Top EXCEPT !.next = @ + 1, !.pc = IF room THEN "fetch" ELSE "window",
                                   !.window = IF room THEN Append(@, Top.next) ELSE @]
      OBVIOUS
    <3>3. f.fn = "package" /\ f.p = Top.p /\ f.pc \in {"fetch", "window"} /\ Stay(f)
      BY <1>1, <3>1, <3>2 DEF PackageFrames
    <3>4. f.pc \in Fetching
      BY <3>3 DEF Fetching
    <3>5. QED
      BY <1>2, <3>3, <3>4
  <2>3. QED
    BY <2>1, <2>2
<1>7. ASSUME NEW pc \in Fetching, NEW then \in Fetching, JoinFetch(pc, then)
      PROVE  \A p : p = Top.p => Fetched(p)'
  <2>1. CASE Top.window = <<>>
    <3>1. Goto(then)
      BY <1>7, <2>1 DEF JoinFetch
    <3>2. QED
      BY <1>3, <3>1
  <2>2. CASE Top.window # <<>>
    <3>1. PICK f : f = [Top EXCEPT !.window = Front(@)]
      OBVIOUS
    <3>2. f.fn = "package" /\ f.p = Top.p /\ f.pc = pc /\ Stay(f)
      BY <1>1, <1>7, <2>2, <3>1 DEF PackageFrames, JoinFetch, In
    <3>3. QED
      BY <1>2, <3>2
  <2>3. QED
    BY <2>1, <2>2
<1>8. CASE PackageWindow \/ PackageFinal
  <2>1. {"window", "fetch", "final", "save"} \subseteq Fetching
    BY DEF Fetching
  <2>2. QED
    BY <1>7, <1>8, <2>1 DEF PackageWindow, PackageFinal
<1>9. QED
  BY <1>5, <1>6, <1>8, <1>10, <1>12, <1>13

(* The files of its package have come from the cache, where they are in    *)
(* whole, or from the threads, all of which have ended before it saves the *)
(* copy.                                                                   *)
LEMMA FetchingEnds ==
    ASSUME InstallInv, WindowInv, CopyInv, faults = {}, CopyOver
    PROVE  Good(Top.p)
<1>1. /\ exit = "running" /\ Top.fn = "package" /\ Top \in PackageFrames /\ Top.p \in Packages /\ Top.dir \in Dirs
      /\ "spawn" \notin faults /\ Pkg[Top.p].src \in Seq(STRING) /\ Top.pc \in {"load", "copy"}
      /\ Top.now = <<>> /\ Top.left = {} /\ Installs(Top)
  <2>1. exit = "running" /\ Top.fn = "package" /\ Top.pc \in {"load", "copy"} /\ Top.now = <<>> /\ Top.left = {}
    BY DEF CopyOver, Copying, In
  <2>2. QED
    BY <2>1, RunningFrame, FrameKinds, CInstallManifests DEF InstallInv, PackageFrames, Installs
<1>2. PICK p : p = Top.p
  OBVIOUS
<1> SUFFICES ASSUME Joined(p)
             PROVE  Whole(disk[Top.dir][p], p)
  BY <1>1, <1>2 DEF Good
<1>3. Spoilt /\ Copied /\ GetsAll(Top) /\ disk[Top.dir][p] \in Directory(p)
  BY <1>1, <1>2 DEF CopyInv, Getting, Top, InstallInv, InstallTypeOK, FilesTypeOK, DiskOK
<1>4. Sources(p) \subseteq FilesOf(p) /\ \A i \in 1 .. 2 : ManifestNames[i] \in FilesOf(p)
  BY <1>1, <1>2, FilesOfPackage DEF Range, ManifestNames
<1>5. CASE Top.pc = "load"
  <2>1. cache[p] # NoCopy /\ cache[p] \in Directory(p)
    BY <1>1, <1>2, <1>5, RunningPackage DEF InstallInv
  <2>2. Whole(cache[p], p)
    BY <1>1, <1>2, <1>3, <1>5, <2>1 DEF Copied, In
  <2>3. \A x \in FilesOf(p) : cache[p][x] = "whole" => disk[Top.dir][p][x] = "whole"
    BY <1>1, <1>2, <1>3, <1>5 DEF GetsAll, Done
  <2>4. DOMAIN disk[Top.dir][p] = FilesOf(p)
    BY <1>3 DEF Directory
  <2>5. QED
    BY <1>4, <2>2, <2>3, <2>4 DEF Whole
<1>6. CASE Top.pc = "copy"
  <2>1. \A dir, q, f : ~BeingWritten(Top, dir, q, f)
    BY <1>6 DEF BeingWritten
  <2>2. \A t \in threads : ~Attached(t)
    BY <1>1, <1>3, <1>6, <2>1, NothingSpoilt
  <2>3. /\ ~Opts.global /\ Top.next > Len(Pkg[p].src) /\ DOMAIN disk[Top.dir][p] = FilesOf(p) /\ Len(Pkg[p].src) \in Nat
        /\ Top.next \in Nat /\ Pkg[p].src # <<>>
    BY <1>1, <1>2, <1>3, <1>6 DEF GetsAll, Downloading, Directory, PackageFrames
  <2>4. ASSUME NEW x, Comes(x, Top)
        PROVE  disk[Top.dir][p][x] = "whole"
    <3>1. \A t \in threads : t.obj # Top.obj
      <4>1. objs[Top.obj].p = p
        BY <1>1, <1>2, PackageHasObject
      <4>2. QED
        BY <2>2, <4>1 DEF Attached
    <3>2. QED
      BY <1>2, <2>4, <3>1 DEF Comes
  <2>5. \E i \in 1 .. 2 : disk[Top.dir][p][ManifestNames[i]] = "whole"
    BY <1>2, <1>3, <1>6, <2>3, <2>4 DEF GetsAll, Fetching
  <2>6. ASSUME NEW x \in Sources(p)
        PROVE  disk[Top.dir][p][x] = "whole"
    <3>1. CASE x \in Range(Pkg[p].src)
      <4>1. PICK n \in 1 .. Len(Pkg[p].src) : x = Pkg[p].src[n]
        BY <1>1, <1>2, <3>1 DEF Range
      <4>2. n < Top.next
        BY <2>3
      <4>3. Comes(x, Top)
        BY <1>2, <1>3, <1>6, <4>1, <4>2 DEF GetsAll, Downloading
      <4>4. QED
        BY <2>4, <4>3
    <3>2. CASE x = "Makefile" /\ Pkg[p].makefile
      <4>1. Comes(x, Top)
        BY <1>2, <1>3, <1>6, <2>3, <3>2 DEF GetsAll, Fetching
      <4>2. QED
        BY <2>4, <4>1
    <3>3. QED
      BY <2>6, <3>1, <3>2 DEF Sources
  <2>7. QED
    BY <1>4, <2>3, <2>5, <2>6 DEF Whole
<1>7. QED
  BY <1>1, <1>5, <1>6

(* clib_package_install: what it marks it fetches, and what it has fetched *)
(* is there in whole.                                                      *)
LEMMA PackageOnDisk ==
    ASSUME InstallInv, FilesTypeOK', WindowInv, CopyInv, OnDisk, faults = {}, faults' = {}, ~Opts.global,
           PackageSteps
    PROVE  OnDisk'
<1>1. /\ exit = "running" /\ Top.fn = "package" /\ Top.p \in Packages /\ Top.dir \in Dirs /\ Top.file \in Range(ManifestNames)
      /\ DiskOK(disk) /\ DiskOK(disk') /\ CacheOK(cache)
  <2>1. exit = "running" /\ Top.fn = "package"
    BY PackageStepsRun
  <2>2. QED
    BY <2>1, RunningFrame, FrameKinds DEF InstallInv, InstallTypeOK, PackageFrames, FilesTypeOK
<1>2. ASSUME \A p : p = Top.p => Good(p)' \/ Fetched(p)', visited' \subseteq visited \cup {Top.p},
             \A d \in Dirs, q \in Packages : q # Top.p => \A x \in FilesOf(q) : disk'[d][q][x] = disk[d][q][x]
      PROVE  OnDisk'
  <2>1. ASSUME NEW p \in visited'
        PROVE  Good(p)' \/ Fetched(p)'
    <3>1. CASE p = Top.p
      BY <1>2, <3>1
    <3>2. CASE p # Top.p
      <4>1. p \in Packages /\ Good(p)
        BY <1>2, <2>1, <3>2 DEF OnDisk, Fetched
      <4>2. \A d \in Dirs : \A f \in FilesOf(p) : disk[d][p][f] = "whole" => disk'[d][p][f] = "whole"
        BY <1>2, <3>2, <4>1
      <4>3. QED
        BY <1>1, <4>1, <4>2, StaysGood
    <3>3. QED
      BY <3>1, <3>2
  <2>2. QED
    BY <1>1, <1>2, <2>1 DEF OnDisk
<1>3. CASE \/ PackageMakefile \/ PackageMakefileJoined \/ PackageFetch \/ PackageWindow \/ PackageFinal \/ PackageSave
  <2>1. UNCHANGED <<disk, visited>>
    BY <1>3 DEF PackageMakefile, PackageMakefileJoined, PackageFetch, PackageWindow, PackageFinal, JoinFetch, PackageSave,
       files, process
  <2>2. QED
    BY <1>2, <1>3, <2>1, FetchingGoesOn
<1>9. ASSUME UNCHANGED disk \/ \E f, v : Wrote(Top.dir, Top.p, f, v)
      PROVE  \A d \in Dirs, q \in Packages : q # Top.p => \A x \in FilesOf(q) : disk'[d][q][x] = disk[d][q][x]
  <2>1. ASSUME NEW f, NEW v, Wrote(Top.dir, Top.p, f, v)
        PROVE  \A d \in Dirs, q \in Packages : q # Top.p => disk'[d][q] = disk[d][q]
    BY <1>1, <2>1 DEF Wrote, DiskOK
  <2>2. QED
    BY <1>9, <2>1
<1>4. CASE PackageEnter \/ PackageWritten
  <2>1. visited' \subseteq visited \cup {Top.p} /\ (UNCHANGED disk \/ \E v : Wrote(Top.dir, Top.p, Top.file, v))
    BY <1>4 DEF PackageEnter, PackageWritten, Mark, PackageManifest, Wrote
  <2>2. Top.file \in FilesOf(Top.p)
    BY <1>1 DEF FilesOf
  <2>3. QED
    BY <1>2, <1>4, <1>9, <2>1, <2>2, FetchingGoesOn
<1>5. CASE CopyOpen \/ CopyWrite
  <2>1. UNCHANGED visited /\ (UNCHANGED disk \/ \E f \in FilesOf(Top.p) : \E v : Wrote(Top.dir, Top.p, f, v))
    <3>1. Top.left \subseteq FilesOf(Top.p) /\ (Top.now # <<>> => Top.now[1] \in FilesOf(Top.p))
      BY <1>1, RunningFrame DEF InstallInv, FrameOK
    <3>2. QED
      BY <1>5, <3>1 DEF CopyOpen, CopyWrite, SetCopy, Wrote, process
  <2>2. QED
    BY <1>2, <1>5, <1>9, <2>1, FetchingGoesOn
<1>10. CASE CopyOver
  <2>1. UNCHANGED <<disk, visited>>
    BY <1>10 DEF CopyOver, files, process
  <2>2. Good(Top.p)
    BY <1>10, FetchingEnds
  <2>3. \A p : p = Top.p => Good(p)'
    BY <2>1, <2>2 DEF Good, Whole, Joined, Sources
  <2>4. QED
    BY <1>2, <2>1, <2>3
<1>11. CASE PackageCache
  <2>1. UNCHANGED <<disk, visited>> /\ Top \in PackageFrames
    BY <1>1, <1>11, RunningFrame, FrameKinds DEF PackageCache, process, InstallInv
  <2>2. ASSUME NEW f, Stay(f), f.fn = "package", f.p = Top.p, f.pc \in Fetching
        PROVE  \A p : p = Top.p => Fetched(p)'
    <3>1. Top' = f
      BY <1>1, <2>2, FramesOnTheStack
    <3>2. QED
      BY <2>2, <3>1 DEF Fetched
  <2>3. CASE Pkg[Top.p].src = <<>>
    <3>1. \A p : p = Top.p => Good(p)'
      BY <2>3 DEF Good
    <3>2. QED
      BY <1>2, <2>1, <3>1
  <2>4. CASE Goto("fetch")
    <3>1. PICK f : f = [Top EXCEPT !.pc = "fetch"]
      OBVIOUS
    <3>2. f.fn = "package" /\ f.p = Top.p /\ f.pc = "fetch" /\ Stay(f)
      BY <2>1, <2>4, <3>1 DEF PackageFrames, Goto
    <3>3. QED
      BY <1>2, <2>1, <2>2, <3>2 DEF Fetching
  <2>5. CASE Stay([Top EXCEPT !.pc = "load", !.left = Present(cache[Top.p])])
    <3>1. PICK f : f = [Top EXCEPT !.pc = "load", !.left = Present(cache[Top.p])]
      OBVIOUS
    <3>2. f.fn = "package" /\ f.p = Top.p /\ f.pc = "load" /\ Stay(f)
      BY <2>1, <2>5, <3>1 DEF PackageFrames
    <3>3. QED
      BY <1>2, <2>1, <2>2, <3>2 DEF Fetching
  <2>6. QED
    BY <1>11, <2>3, <2>4, <2>5 DEF PackageCache
<1>6. CASE PackageVisited \/ PackageConfigure \/ PackageExecuted \/ PackageDeps
  <2>1. UNCHANGED <<visited, disk>> /\ Top.pc \notin Fetching \cup {"manifest"}
    BY <1>6 DEF PackageVisited, PackageConfigure, PackageExecuted, PackageDeps, In, Fetching, files, process
  <2>2. QED
    BY <2>1, DiskAsBefore
<1>7. CASE PackageRefused \/ PackageNoMakefile \/ PackageNotFetched \/ PackageNotConfigured \/ CopyFails
  BY <1>7 DEF PackageRefused, PackageNoMakefile, CopyFails, PackageNotFetched, PackageNotConfigured, SpawnFails, Fail
<1>8. QED
  BY <1>3, <1>4, <1>5, <1>6, <1>7, <1>10, <1>11 DEF PackageSteps, Copies

(* The threads write files of the package that is being fetched, or of one *)
(* that has more sources than threads.                                     *)
LEMMA ThreadsOnDisk ==
    ASSUME InstallInv, FilesTypeOK', WindowInv, OnDisk, faults = {}, Threads
    PROVE  OnDisk'
<1>1. PICK t \in threads : ThreadBegin(t) \/ ThreadOpen(t) \/ ThreadGet(t) \/ ThreadDrop(t)
  BY DEF Threads
<1>2. exit = "running" /\ UNCHANGED <<stack, visited>> /\ DiskOK(disk) /\ DiskOK(disk') /\ "spawn" \notin faults
  BY DEF Threads, FilesTypeOK, InstallInv, InstallTypeOK
<1>3. PICK w : w = objs[t.obj].p
  OBVIOUS
<1>4. \A d \in Dirs, q \in Packages : q # w => disk'[d][q] = disk[d][q]
  <2>1. UNCHANGED disk \/ \E v : SetFile(t, v)
    BY <1>1 DEF ThreadBegin, ThreadOpen, ThreadGet, ThreadDrop, files
  <2>2. ASSUME NEW v, SetFile(t, v)
        PROVE  \A d \in Dirs, q \in Packages : q # w => disk'[d][q] = disk[d][q]
    BY <1>2, <1>3, <2>2 DEF SetFile, DiskOK
  <2>3. QED
    BY <2>1, <2>2
<1>5. ASSUME NEW p \in visited
      PROVE  Good(p)' \/ Fetched(p)'
  <2>1. CASE Fetched(p)
    BY <1>2, <2>1 DEF Fetched, Top
  <2>2. CASE ~Joined(p)
    BY <2>2 DEF Good, Joined
  <2>3. CASE Joined(p) /\ ~Fetched(p)
    <3>1. p # w
      <4>1. ASSUME p = w
            PROVE  FALSE
        <5>1. Attached(t)
          BY <1>3, <2>3, <4>1 DEF Attached
        <5>2. Installs(Top) /\ t.obj = Top.obj /\ Awaited(t.slot, Top)
          BY <1>2, <5>1 DEF WindowInv, Top
        <5>3. Top.fn = "package" /\ Top.pc \in Fetching
          BY <5>2 DEF Installs, Awaited, Fetching
        <5>4. objs[Top.obj].p = Top.p
          BY <1>2, <5>2, PackageHasObject
        <5>5. QED
          BY <1>3, <2>3, <4>1, <5>2, <5>3, <5>4 DEF Fetched
      <4>2. QED
        BY <4>1
    <3>2. p \in Packages /\ Good(p)
      BY <2>3 DEF OnDisk
    <3>3. QED
      BY <1>2, <1>4, <3>1, <3>2, StaysGood
  <2>4. QED
    BY <2>1, <2>2, <2>3
<1>6. QED
  BY <1>2, <1>5 DEF OnDisk

(* A package without a manifest is not forgotten either.                   *)
LEMMA MissingStays ==
    ASSUME Main \/ Threads
    PROVE  missing \subseteq missing'
<1>1. UNCHANGED history => missing \subseteq missing'
  BY DEF history
<1>2. UNCHANGED missing => missing \subseteq missing'
  OBVIOUS
<1>3. NewFails => missing \subseteq missing'
  BY DEF NewFails
<1>4. CASE LocalReads \/ LocalInstalled \/ LocalDev
  BY <1>1, <1>4 DEF LocalReads, LocalInstalled, LocalDev
<1>5. CASE \/ NextArgument \/ ArgsHere \/ (\E dir \in Dirs : Made(dir)) \/ Development
           \/ InstallOver \/ UpdateOver \/ UpgradeOver
  BY <1>1, <1>5 DEF NextArgument, ArgsHere, Made, Development, InstallOver, UpdateOver, UpgradeOver
<1>6. CASE NewLookup \/ NewGet \/ NewGiveUp
  BY <1>1, <1>2, <1>3, <1>6 DEF NewLookup, NewGet, NewGiveUp
<1>7. CASE ListNext \/ ListMade \/ ListInstalled
  BY <1>1, <1>7 DEF ListNext, ListMade, ListInstalled
<1>8. CASE PackageSteps
  BY <1>1, <1>2, <1>8 DEF PackageSteps, PackageVisited, PackageRefused, PackageEnter, PackageWritten, PackageMakefile,
     PackageNoMakefile, PackageMakefileJoined, PackageCache, PackageFetch, PackageNotFetched, PackageWindow, PackageFinal,
     JoinFetch, SpawnFails, PackageSave, Copies, CopyOpen, CopyWrite, CopyFails, CopyOver, PackageConfigure, PackageNotConfigured, PackageExecuted, PackageDeps
<1>9. CASE ExecTarball \/ ExecFails \/ ExecDeps \/ ExecRun
  BY <1>1, <1>2, <1>9 DEF ExecTarball, ExecFails, ExecDeps, ExecRun
<1>10. CASE Threads
  BY <1>1, <1>2, <1>10 DEF Threads, ThreadBegin, ThreadOpen, ThreadGet, ThreadDrop
<1>11. CASE Overflow
  BY <1>1, <1>11, OverflowEnds
<1>12. QED
  BY <1>4, <1>5, <1>6, <1>7, <1>8, <1>9, <1>10, <1>11, StepsOfThePrograms, StepsOfTheLibrary DEF Main

(* Every step of the main thread keeps the invariant.                      *)
LEMMA MainKeepsClean ==
    ASSUME InstallInv, FilesTypeOK', WindowInv, CopyInv, CleanInv, Main
    PROVE  CleanInv'
<1> SUFFICES ASSUME Unspoilt'
             PROVE  (exit' = "running" => Stacked' /\ OnDisk') /\ (exit' = "zero" => Installed')
  BY DEF CleanInv
<1>1. exit = "running" /\ cmd' = cmd
  BY MainMoves DEF MainMove, InstallInv
<1>2. Unspoilt /\ faults = {} /\ faults' = {} /\ missing' = {} /\ ~Opts.global
  BY <1>1, FaultsStay, MissingStays DEF Unspoilt, Opts
<1>3. Stacked /\ OnDisk
  BY <1>1, <1>2 DEF CleanInv
<1>4. CASE LocalReads \/ LocalInstalled \/ LocalDev
  <2>1. Top.fn = "local" /\ UNCHANGED <<visited, disk>>
    BY <1>4 DEF LocalReads, LocalInstalled, LocalDev, In, files, process
  <2>2. OnDisk'
    BY <1>3, <2>1, DiskAsBefore
  <2>3. QED
    BY <1>3, <1>4, <2>2, LocalClean
<1>5. CASE \/ NextArgument \/ ArgsHere \/ (\E dir \in Dirs : Made(dir)) \/ Development
           \/ InstallOver \/ UpdateOver \/ UpgradeOver
  <2>1. Top.fn = "args"
    BY <1>5, ArgsMoves DEF InstallInv
  <2>2. UNCHANGED <<visited, disk>>
    BY <1>5 DEF NextArgument, ArgsHere, Made, Development, InstallOver, UpdateOver, UpgradeOver, files, process
  <2>3. OnDisk'
    BY <1>3, <2>1, <2>2, DiskAsBefore
  <2>4. QED
    BY <1>2, <1>3, <1>5, <2>3, ArgsClean
<1>6. CASE NewLookup \/ NewGet \/ NewGiveUp
  <2>1. Top.fn = "new" /\ UNCHANGED <<visited, disk>>
    BY <1>6 DEF NewLookup, NewGet, NewGiveUp, In, files, process
  <2>2. OnDisk'
    BY <1>3, <2>1, DiskAsBefore
  <2>3. QED
    BY <1>2, <1>3, <1>6, <2>2, NewClean
<1>7. CASE ListNext \/ ListMade \/ ListInstalled
  <2>1. Top.fn = "list" /\ UNCHANGED <<visited, disk>>
    BY <1>7 DEF ListNext, ListMade, ListInstalled, In, files
  <2>2. OnDisk'
    BY <1>3, <2>1, DiskAsBefore
  <2>3. QED
    BY <1>3, <1>7, <2>2, ListClean
<1>8. CASE PackageSteps
  <2>1. OnDisk'
    BY <1>2, <1>3, <1>8, PackageOnDisk
  <2>2. Stacked' /\ exit' = "running"
    BY <1>2, <1>3, <1>8, PackageClean
  <2>3. QED
    BY <2>1, <2>2
<1>9. CASE ExecTarball \/ ExecFails \/ ExecDeps \/ ExecRun
  <2>1. Top.fn = "exec" /\ UNCHANGED <<visited, disk>>
    BY <1>9 DEF ExecTarball, ExecFails, ExecDeps, ExecRun, In, files, process
  <2>2. OnDisk'
    BY <1>3, <2>1, DiskAsBefore
  <2>3. QED
    BY <1>2, <1>3, <1>9, <2>2, ExecClean
<1>10. CASE Overflow
  BY <1>10 DEF Overflow, Finish
<1>11. QED
  BY <1>4, <1>5, <1>6, <1>7, <1>8, <1>9, <1>10, StepsOfThePrograms, StepsOfTheLibrary DEF Main

(* A command begins with all it is to install ahead.                       *)
LEMMA StartClean ==
    ASSUME NEW c \in Commands, StartInstall(c) \/ StartUpdate(c) \/ StartUpgrade(c), Unspoilt'
    PROVE  exit' = "running" /\ Stacked' /\ OnDisk'
<1>1. PICK f : Start(c, f) /\ f = IF c.args = <<>> THEN LocalFrame(<<1, 2>>) ELSE ArgsFrame(c.args)
  <2>1. c.tool # "upgrade"
    <3>1. c.tool = "upgrade" => Opts'.global
      <4>1. cmd' = c
        BY DEF StartInstall, StartUpdate, StartUpgrade, Start
      <4>2. QED
        BY <4>1 DEF Opts, UpgradeOptions
    <3>2. QED
      BY <3>1 DEF Unspoilt
  <2>2. QED
    BY <2>1 DEF StartInstall, StartUpdate, StartUpgrade
<1>2. exit' = "running" /\ cmd' = c /\ stack' = <<f>> /\ visited' = {}
  BY <1>1 DEF Start
<1>3. Top' = f /\ Range(stack') = {f}
  BY <1>2 DEF Top, Range
<1>4. CASE c.args = <<>>
  <2>1. f.fn = "local" /\ f.pc = "read" /\ f.tries = <<1, 2>>
    BY <1>1, <1>4 DEF LocalFrame
  <2>2. Range(<<1, 2>>) = Project
    BY DEF Range, Project, ManifestNames
  <2>3. (Left(f) = Manifests(Here))'
    BY <2>1, <2>2 DEF Left, Manifests
  <2>4. Owed(f)' /\ Succeeded(f)'
    BY <1>3, <2>1, <2>3 DEF Owed, LocalOwed, Succeeded, Waits, Installs
  <2>5. QED
    BY <1>2, <1>3, <2>4 DEF Stacked, OnDisk, Succeeded
<1>5. CASE c.args # <<>>
  <2>1. f.fn = "args" /\ f.pc = "next" /\ f.todo = c.args
    BY <1>1, <1>5 DEF ArgsFrame
  <2>2. Owed(f)' /\ Succeeded(f)'
    BY <1>2, <1>5, <2>1 DEF Owed, ArgsOwed, Named, Lists, Arguments, Succeeded, Waits, Installs
  <2>3. QED
    BY <1>2, <1>3, <2>2 DEF Stacked, OnDisk, Succeeded
<1>6. QED
  BY <1>4, <1>5

(* Every step keeps the invariant.                                         *)
LEMMA StepKeepsClean ==
    ASSUME InstallInv, FilesTypeOK', WindowInv, CopyInv, CleanInv, [Next]_vars
    PROVE  CleanInv'
<1>1. CASE Main
  BY <1>1, MainKeepsClean
<1>2. CASE Threads
  <2> SUFFICES ASSUME Unspoilt'
               PROVE  exit' = "running" /\ Stacked' /\ OnDisk'
    BY DEF CleanInv
  <2>1. exit = "running" /\ UNCHANGED <<cmd, visited, stack, ret, exit, local>>
    BY <1>2 DEF Threads, ThreadBegin, ThreadOpen, ThreadGet, ThreadDrop, files
  <2>2. Unspoilt /\ faults = {}
    BY <1>2, <2>1, FaultsStay, MissingStays DEF Unspoilt, Opts
  <2>3. Stacked /\ OnDisk
    BY <2>1, <2>2 DEF CleanInv
  <2>4. OnDisk'
    BY <1>2, <2>2, <2>3, ThreadsOnDisk
  <2>5. \A q : Due(q) <=> Due(q)'
    BY <2>1 DEF Due
  <2>6. \A g \in Range(stack) : Owed(g)'
    BY <2>1, <2>3, <2>5, OwedStays DEF Stacked
  <2>7. Succeeded(Top)'
    <3>1. \A a : LocalDue(a) => LocalDue(a)'
      BY <2>1, <2>5, ListsStay
    <3>2. QED
      BY <2>1, <2>3, <3>1 DEF Stacked, Succeeded, Waits, Top
  <2>8. Stacked'
    BY <2>1, <2>3, <2>5, <2>6, <2>7 DEF Stacked, AllDue, Begun
  <2>9. QED
    BY <2>1, <2>4, <2>8
<1>3. CASE User
  <2>1. CASE TimePasses \/ Clean
    BY <2>1 DEF TimePasses, Clean, Between, CleanInv
  <2>2. CASE Kill
    BY <2>2 DEF Kill, Finish, CleanInv
  <2>3. CASE \E c \in Commands : StartInstall(c) \/ StartUpdate(c) \/ StartUpgrade(c)
    BY <2>3, StartClean DEF CleanInv
  <2>4. QED
    BY <1>3, <2>1, <2>2, <2>3 DEF User
<1>4. CASE UNCHANGED vars
  <2>1. UNCHANGED <<disk, local, cmd, stack, ret, visited, exit, missing, faults, commands>>
    BY <1>4 DEF vars, files, process, history
  <2>2. Unspoilt' => Unspoilt
    BY <2>1 DEF Unspoilt, Opts
  <2>3. Stacked => Stacked'
    <3>1. \A q : Due(q) <=> Due(q)'
      BY <2>1 DEF Due
    <3>2. \A a : LocalDue(a) => LocalDue(a)'
      BY <2>1, <3>1, ListsStay
    <3>3. ASSUME Stacked
          PROVE  \A g \in Range(stack) : Owed(g)'
      BY <2>1, <3>1, <3>3, OwedStays DEF Stacked
    <3>4. Succeeded(Top) => Succeeded(Top)'
      BY <2>1, <3>2 DEF Succeeded, Waits, Top
    <3>5. QED
      BY <2>1, <3>1, <3>3, <3>4 DEF Stacked, AllDue, Begun
  <2>4. OnDisk => OnDisk'
    BY <2>1 DEF OnDisk, Good, Whole, Joined, Sources, Fetched, Top
  <2>5. Installed => Installed'
    <3>1. \A a, section : Listed(a, section)' = Listed(a, section)
      BY <2>1 DEF Listed, Manifests
    <3>2. Named' = Named /\ Lists' = Lists
      BY <2>1 DEF Named, Lists, Arguments
    <3>3. Roots' = Roots
      BY <2>1, <3>1, <3>2 DEF Roots, Developed, AnyListed
    <3>4. QED
      BY <2>1, <3>3 DEF Installed, Good, Whole, Joined, Sources
  <2>6. QED
    BY <2>1, <2>2, <2>3, <2>4, <2>5 DEF CleanInv
<1>5. QED
  BY <1>1, <1>2, <1>3, <1>4 DEF Next

(* What is needed, directly or through others, is among what was marked.   *)
LEMMA NeededIsVisited ==
    ASSUME Installed
    PROVE  Needed \subseteq visited
<1> DEFINE DependsOn(p) == Range(Pkg[p].deps)
           First == Roots \cap Packages
           Level(w) == w = [n \in Nat |->
               IF n = 0 THEN First
               ELSE w[n - 1] \cup (Packages \cap UNION {DependsOn(p) : p \in w[n - 1]})]
           S == SUBSET visited
           step == [X \in S |-> X \cup (Packages \cap UNION {DependsOn(p) : p \in X})]
<1>1. First \in S /\ \A p \in visited : DependsOn(p) \subseteq visited
  BY DEF Installed
<1>2. step \in [S -> S]
  <2>1. ASSUME NEW X \in S
        PROVE  X \cup (Packages \cap UNION {DependsOn(p) : p \in X}) \in S
    BY <1>1
  <2>2. QED
    BY <2>1
<1>3. PICK f \in [Nat -> S] : f[0] = First /\ \A n \in Nat : f[n + 1] = step[f[n]]
  <2> HIDE DEF S, step
  <2>1. PICK T, a, g : T = S /\ a = First /\ g = step
    OBVIOUS
  <2>2. a \in T /\ g \in [T -> T]
    BY <1>1, <1>2, <2>1
  <2>3. \E f \in [Nat -> T] : f[0] = a /\ \A n \in Nat : f[n + 1] = g[f[n]]
    BY ONLY <2>2, Iteration, SMTT(60)
  <2>4. QED
    BY <2>1, <2>3
<1>4. \A n \in Nat : f[n + 1] = f[n] \cup (Packages \cap UNION {DependsOn(p) : p \in f[n]})
  BY <1>3
<1>5. Level(f)
  <2>1. ASSUME NEW n \in Nat
        PROVE  f[n] = IF n = 0 THEN First ELSE f[n - 1] \cup (Packages \cap UNION {DependsOn(p) : p \in f[n - 1]})
    <3>1. CASE n = 0
      BY <1>3, <3>1
    <3>2. CASE n # 0
      <4>1. n - 1 \in Nat /\ (n - 1) + 1 = n
        BY <3>2
      <4>2. QED
        BY <1>4, <3>2, <4>1
    <3>3. QED
      BY <3>1, <3>2
  <2>2. f = [n \in Nat |-> f[n]]
    BY <1>3
  <2>3. QED
    BY <2>1, <2>2
<1>6. PICK w : w = CHOOSE x : Level(x)
  OBVIOUS
<1>7. Level(w)
  <2> HIDE DEF Level
  <2>1. QED
    BY <1>5, <1>6
<1>8. Needed = w[Cardinality(Packages)]
  BY <1>6 DEF Needed, Below
<1>9. w[0] = First /\ \A n \in Nat : n # 0 => w[n] = w[n - 1] \cup (Packages \cap UNION {DependsOn(p) : p \in w[n - 1]})
  BY <1>7
<1>10. \A n \in Nat : w[n] \subseteq visited
  <2> DEFINE Out == {n \in Nat : ~(w[n] \subseteq visited)}
  <2> SUFFICES ASSUME Out # {}
               PROVE  FALSE
    OBVIOUS
  <2>1. PICK n \in Out : \A m \in Out : n <= m
    <3>1. Out \subseteq Nat
      OBVIOUS
    <3> HIDE DEF Out
    <3>2. QED
      BY <3>1, LeastNumber
  <2>2. n \in Nat /\ n # 0
    BY <1>1, <1>9, <2>1
  <2>3. n - 1 \in Nat /\ ~(n <= n - 1)
    BY <2>2
  <2>4. w[n - 1] \subseteq visited
    BY <2>1, <2>3
  <2>5. w[n] = w[n - 1] \cup (Packages \cap UNION {DependsOn(p) : p \in w[n - 1]})
    BY <1>9, <2>2
  <2>6. QED
    BY <1>1, <2>1, <2>4, <2>5
<1>11. Cardinality(Packages) \in Nat
  BY CInstallManifests, FS_CardinalityType
<1>12. QED
  BY <1>8, <1>10, <1>11

(* clib-install and clib-update do what they promise: when they exit with  *)
(* zero and nothing went wrong, everything that the arguments or the local *)
(* manifests need, at any depth, is on the disk in whole, whatever was     *)
(* marked before, came from the cache or was unpacked below an executable. *)
(* What is still to be installed is in one of the lists on the stack, and  *)
(* a list is only left when all of it is marked.                           *)
THEOREM CleanInstallsAreWhole == Spec => []CleanInstallIsWhole
<1> DEFINE Inv == InstallInv /\ WindowInv /\ CopyInv /\ CleanInv
<1>1. Init => Inv
  <2>1. Init => CleanInv
    BY DEF Init, CleanInv
  <2>2. QED
    BY <2>1, InitCopies
<1>2. Inv /\ [Next]_vars => Inv'
  <2> SUFFICES ASSUME Inv, [Next]_vars
               PROVE  Inv'
    OBVIOUS
  <2>1. InstallInv' /\ WindowInv' /\ CopyInv'
    BY StepKeepsInstallInv, StepKeepsWindows, StepKeepsCopies
  <2>2. FilesTypeOK'
    BY <2>1 DEF InstallInv, InstallTypeOK
  <2>3. QED
    BY <2>1, <2>2, StepKeepsClean
<1>3. Inv => CleanInstallIsWhole
  <2> SUFFICES ASSUME CleanInv, Unspoilt, exit = "zero", commands > 0, NEW p \in Needed
               PROVE  Good(p)
    BY DEF CleanInstallIsWhole, Good, Unspoilt
  <2>1. Installed
    BY DEF CleanInv
  <2>2. QED
    BY <2>1, NeededIsVisited DEF Installed
<1>4. QED
  <2> HIDE DEF Inv
  <2>1. QED
    BY <1>1, <1>2, <1>3, PTL DEF Spec
=============================================================================
