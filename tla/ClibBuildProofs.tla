--------------------------- MODULE ClibBuildProofs ---------------------------
(***************************************************************************)
(* Proofs about ClibBuild, for any packages and any number of threads.     *)
(***************************************************************************)
EXTENDS ClibBuild, DataLemmas

Ids == Seq(Nat)
Early == {"begin", "check", "read", "run", "running"}   \* before the loop over dependencies
Places == Early \cup {"loop", "join", "done"}
Wheres == {"dir", "slug", "cwd", "here", "relative", "file"}
Arguments == Packages \cup {Dot} \cup DOMAIN Relative \cup DOMAIN Regular
Requests == [p : Packages, where : Wheres \ {"slug"}, k : 1 .. 2]
TaskType ==
    [p : Packages, where : Wheres, k : 1 .. 2, pc : Places, list : {"deps", "dev"},
     next : Nat \ {0}, kids : SUBSET Ids, rc : {0, 1}]

(* The type of the table of threads.                                       *)
BuildTypeOK ==
    /\ cmd \in Commands /\ todo \in Seq(Arguments) /\ calls \in Nat
    /\ DOMAIN tasks \subseteq Ids /\ tasks \in [DOMAIN tasks -> TaskType]

(* What a thread has behind it.                                            *)
TaskInv(t, u) ==
    /\ u.pc \in Early => u.list = "deps" /\ u.next = 1 /\ u.kids = {}
    /\ u.pc = "done" => u.kids = {}
    /\ u.pc \in {"loop", "join"} => Path(u) \in handled
    /\ u.list = "deps" => u.next <= Len(Package[u.p].deps) + 1
    /\ \A c \in u.kids : Len(c) > Len(t)

(* The identifiers: a path has two numbers for every level below main.     *)
IdInv(t) == /\ \E n \in Nat : Len(t) = 2 * n + 1
            /\ t[1] \in 1 .. calls

Below(t, u) == Len(t) < Len(u) /\ \A i \in 1 .. Len(t) : u[i] = t[i]

(* How many threads u has started for its manifest, plus one.              *)
Position(u) == Len(Package[u.p].deps) * (IF u.list = "deps" THEN 0 ELSE 1) + u.next

(* A thread u below the thread t has been started by t, or by another one  *)
(* that t had started, for the manifest name k, which has its mark since.  *)
(* It has looked for that mark if it handles the same package.             *)
StartedBy(t, u) ==
    LET k == u[Len(t) + 1]
        above == tasks[t]
        below == tasks[u]
    IN  /\ k \in 1 .. above.k
        /\ k = above.k => above.pc \notin Early /\ u[Len(t) + 2] < Position(above)
        /\ <<Place(above), above.p, ManifestNames[k]>> \in handled
        /\ below.p = above.p /\ Place(below) = Place(above) =>
              \/ below.k < k
              \/ below.k = k /\ below.pc \in {"begin", "check", "done"}

BuildInv ==
    /\ \A t \in DOMAIN tasks : TaskInv(t, tasks[t]) /\ IdInv(t)
    /\ \A t, u \in DOMAIN tasks : Below(t, u) => StartedBy(t, u)

(* As long as no manifest was missing, every thread is in the window of    *)
(* another one, or is main.                                                *)
Windows ==
    missing = {} => \A t \in DOMAIN tasks : Len(t) = 1 \/ \E u \in DOMAIN tasks : t \in tasks[u].kids

(* The walk over the dependencies.  A package is handled at a place when   *)
(* one of its manifests has a mark there, and in hand while a thread is    *)
(* busy with it.  A dependency is asked for below opts.dir.                *)
Dependency(q) == [p |-> q, where |-> "dir", k |-> 1]
InHand(r) ==
    \E t \in DOMAIN tasks :
        /\ tasks[t].p = r.p /\ tasks[t].where = r.where /\ tasks[t].pc # "done"
        /\ r.where = "file" => tasks[t].k = r.k
Ahead(u, q) ==
    /\ u.pc \in {"loop", "join"}
    /\ \/ \E i \in u.next .. Len(List(u)) : List(u)[i] = q
       \/ u.list = "deps" /\ "dev" \in cmd.options /\ q \in Range(Package[u.p].dev)

(* A package whose manifest is there is not given up.                      *)
NamesInv ==
    \A t \in DOMAIN tasks : tasks[t].where # "slug" /\ Found(tasks[t]) =>
        /\ tasks[t].k = 2 /\ tasks[t].where # "file" =>
              ManifestNames[1] \notin FilesAt(tasks[t].p, tasks[t].where)
        /\ tasks[t].pc = "done" => HandledAt(tasks[t])
(* What a handled package depends on is handled, in hand, or still ahead   *)
(* of the thread that set the mark.                                        *)
MarksInv ==
    \A mark \in handled : \A q \in DependsOn(mark[2]) : Found(Dependency(q)) =>
        \/ HandledAt(Dependency(q)) \/ InHand(Dependency(q))
        \/ \E t \in DOMAIN tasks : Path(tasks[t]) = mark /\ Ahead(tasks[t], q)
(* So is what the user has asked for, or main has not come to it.          *)
RootsInv ==
    IF calls = 0 THEN todo = cmd.args
    ELSE \A r \in Roots : Found(r) =>
            \/ HandledAt(r) \/ InHand(r)
            \/ todo # <<>> /\ \E a \in Range(Tail(todo)) : r = Begins(a)
WalkInv ==
    /\ missing = {} => NamesInv /\ MarksInv /\ RootsInv
    /\ \A t \in DOMAIN tasks : Len(t) = 1 => t = <<calls>>
    /\ exit = "zero" => /\ <<calls>> \in DOMAIN tasks /\ tasks[<<calls>>].pc = "done" /\ Len(todo) <= 1

-----------------------------------------------------------------------------
(* The steps of a thread.                                                  *)

(* t goes on with its package, having joined S: forward through its lists  *)
(* under one manifest name, or to the check of the next name.              *)
Moves(t, S, v) ==
    LET u == tasks[t]
    IN  /\ tasks' = Without(S, t, v)
        /\ S = {} \/ (S = u.kids /\ Joined(t))
        /\ v \in TaskType /\ v.p = u.p /\ v.where = u.where
        /\ \/ /\ v.k = u.k /\ Position(v) >= Position(u)
              /\ u.pc \notin Early => v.pc \notin Early
           \/ v.k = u.k + 1 /\ v.pc = "check" /\ u.pc \notin {"begin", "check"}
        /\ u.pc # "done"
        /\ u.pc = "begin" => v.pc = "check"
        /\ u.pc = "check" /\ Path(u) \in handled => v.pc = "done"
        /\ missing' = {} => v.kids = u.kids \ S

(* Why it goes on.                                                         *)
Progress(t, v) ==
    LET u == tasks[t]
    IN  missing' = {} =>
            /\ v.pc = "done" =>
                  Path(u) \in handled \/ ((u.k = 2 \/ u.where = "file") /\ ~Readable(u))
            /\ v.k # u.k => u.k = 1 /\ u.where # "file" /\ ~Readable(u)
            /\ \A q : Ahead(u, q) => Ahead(v, q)
            /\ handled' # handled => /\ handled' = handled \cup {Path(u)}
                                     /\ v.k = u.k /\ v.pc = "loop" /\ v.next = 1 /\ v.list = "deps"
GoesOn(t) == \E S, v : Moves(t, S, v) /\ TaskInv(t, v)' /\ Progress(t, v)

(* A position in a list of dependencies is a natural number, and so are the*)
(* lengths it is compared with.                                            *)
LEMMA PositionType ==
    ASSUME NEW u \in TaskType
    PROVE  Position(u) \in Nat /\ Len(Package[u.p].deps) \in Nat /\ Len(List(u)) \in Nat
<1>1. Package[u.p].deps \in Seq(Packages) /\ Package[u.p].dev \in Seq(Packages)
  BY CBuildPackages DEF TaskType, Packages
<1>2. Len(Package[u.p].deps) \in Nat /\ Len(Package[u.p].dev) \in Nat /\ u.next \in Nat
  BY <1>1 DEF TaskType
<1>3. Len(Package[u.p].deps) * 0 = 0 /\ Len(Package[u.p].deps) * 1 = Len(Package[u.p].deps)
  BY <1>2
<1>4. CASE u.list = "deps"
  BY <1>1, <1>2, <1>3, <1>4 DEF Position, List
<1>5. CASE u.list = "dev"
  BY <1>1, <1>2, <1>3, <1>5 DEF Position, List
<1>6. QED
  BY <1>4, <1>5 DEF TaskType

(* A task that stays at its dependency keeps its position.                 *)
LEMMA SamePosition ==
    ASSUME NEW u \in TaskType, NEW v, v.p = u.p, v.list = u.list, v.next = u.next
    PROVE  Position(v) >= Position(u)
<1>1. Position(v) = Position(u)
  BY DEF Position
<1>2. Position(u) \in Nat
  BY PositionType
<1>3. QED
  BY <1>1, <1>2

(* Setting the record of t removes nothing.                                *)
LEMMA SetIsWithout ==
    ASSUME BuildTypeOK, NEW t \in DOMAIN tasks, NEW v, Set(t, v)
    PROVE  tasks' = Without({}, t, v)
BY DEF BuildTypeOK, Set, Without

(* A package that cannot be handled under this name is tried under the     *)
(* next one, or given up.                                                  *)
LEMMA FailsMoves ==
    ASSUME BuildTypeOK, BuildInv, NEW t \in DOMAIN tasks, Fails(t), tasks[t].pc \notin {"begin", "check", "done"},
           (tasks[t].pc = "read" /\ ~Readable(tasks[t])) \/ (missing' # {} /\ tasks[t].pc = "loop"),
           UNCHANGED handled
    PROVE  GoesOn(t)
<1> DEFINE u == tasks[t]
<1>1. u \in TaskType /\ TaskInv(t, u)
  BY DEF BuildTypeOK, BuildInv
<1>2. Position(u) \in Nat /\ Len(Package[u.p].deps) \in Nat
  BY <1>1, PositionType
<1>3. CASE u.k < Len(ManifestNames) /\ u.where # "file"
  <2>0. PICK v : v = [u EXCEPT !.k = @ + 1, !.pc = "check", !.kids = {}, !.list = "deps", !.next = 1]
    OBVIOUS
  <2>1. u.k = 1
    BY <1>1, <1>3 DEF TaskType, ManifestNames
  <2>2. v \in TaskType /\ v.p = u.p /\ v.where = u.where /\ v.k = u.k + 1 /\ v.pc = "check" /\ v.kids = {}
        /\ v.list = "deps" /\ v.next = 1
    <3>1. {} \in SUBSET Ids
      OBVIOUS
    <3>2. 1 + 1 \in 1 .. 2 /\ 1 \in Nat \ {0} /\ "check" \in Places /\ "deps" \in {"deps", "dev"}
      BY DEF Places, Early
    <3>3. QED
      BY <1>1, <2>0, <2>1, <3>1, <3>2 DEF TaskType
  <2>3. tasks' = Without({}, t, v)
    BY <1>3, <2>0, SetIsWithout DEF Fails
  <2>4. TaskInv(t, v)'
    BY <1>2, <2>2 DEF TaskInv
  <2>5. u.kids = {} \/ missing' # {}
    BY <1>1 DEF TaskInv, Early
  <2>6. Progress(t, v)
    BY <1>3, <2>1, <2>2 DEF Progress, Ahead
  <2>7. Moves(t, {}, v)
    BY <1>1, <2>2, <2>3, <2>5 DEF Moves
  <2>8. QED
    BY <2>4, <2>6, <2>7 DEF GoesOn
<1>4. CASE ~(u.k < Len(ManifestNames) /\ u.where # "file")
  <2>0. PICK v : v = [u EXCEPT !.pc = "done", !.rc = 1, !.kids = {}]
    OBVIOUS
  <2>1. v \in TaskType /\ v.p = u.p /\ v.where = u.where /\ v.k = u.k /\ v.pc = "done" /\ v.kids = {}
        /\ v.list = u.list /\ v.next = u.next
    BY <1>1, <2>0 DEF TaskType, Places
  <2>2. tasks' = Without({}, t, v)
    BY <1>4, <2>0, SetIsWithout DEF Fails
  <2>3. TaskInv(t, v)'
    BY <1>1, <2>1 DEF TaskInv, Early
  <2>4. Position(v) = Position(u)
    BY <2>1 DEF Position
  <2>5. Position(v) >= Position(u)
    BY <1>2, <2>4
  <2>6. u.kids = {} \/ missing' # {}
    BY <1>1 DEF TaskInv, Early
  <2>7. u.k = 2 \/ u.where = "file"
    BY <1>1, <1>4 DEF TaskType, ManifestNames
  <2>8. Progress(t, v)
    BY <2>1, <2>7 DEF Progress, Ahead
  <2>9. Moves(t, {}, v)
    BY <2>1, <2>2, <2>5, <2>6 DEF Moves, Early
  <2>10. QED
    BY <2>3, <2>8, <2>9 DEF GoesOn
<1>5. QED
  BY <1>3, <1>4

(* The steps of one thread, each of them with what it leaves alone.        *)
LEMMA TaskSteps ==
    ASSUME BuildTypeOK, BuildInv, NEW t \in DOMAIN tasks,
           BuildPackage(t) \/ ConfigurePackage(t)
    PROVE  /\ Kept /\ handled \subseteq handled' /\ missing \subseteq missing'
           /\ exit = "running" /\ exit' # "zero"
           /\ UNCHANGED <<tasks, handled>> \/ Spawn(t) \/ GoesOn(t)
<1> DEFINE u == tasks[t]
           Goal == /\ Kept /\ handled \subseteq handled' /\ missing \subseteq missing'
                   /\ UNCHANGED <<tasks, handled>> \/ Spawn(t) \/ GoesOn(t)
<1>0. exit = "running" /\ exit' # "zero"
  BY DEF BuildPackage, ConfigurePackage, BuildReads, ConfigureReads, BuildWaits, ConfigureWaits,
         ConfigureMarks, ConfigureEnds, BuildRun, ConfigureRun, RunOrMark, Begin, Check, Read, Mark, Spawn,
         Join, BuildLoses, ConfigureLoses, NoManifest, ListEnds, AtNext, At, Crash
<1> SUFFICES Goal
  BY <1>0
<1>1. u \in TaskType /\ TaskInv(t, u)
  BY DEF BuildTypeOK, BuildInv
<1>2. Position(u) \in Nat /\ Len(Package[u.p].deps) \in Nat /\ Len(List(u)) \in Nat
  BY <1>1, PositionType
<1>3. ASSUME NEW pc \in Places, Goto(t, pc), u.pc # "done", pc # "join", pc # "done",
             u.pc = "begin" => pc = "check",
             u.pc = "check" => Path(u) \notin handled /\ pc \in Early,
             u.pc \notin Early => pc \notin Early,
             pc = "loop" => Path(u) \in handled', handled \subseteq handled', u.pc \in Early,
             handled' = handled \/ (handled' = handled \cup {Path(u)} /\ pc = "loop")
      PROVE  GoesOn(t)
  <2>0. PICK v : v = [u EXCEPT !.pc = pc]
    OBVIOUS
  <2>1. v \in TaskType /\ v.p = u.p /\ v.where = u.where /\ v.k = u.k /\ v.pc = pc /\ v.kids = u.kids
        /\ v.list = u.list /\ v.next = u.next
    BY <1>1, <2>0 DEF TaskType
  <2>2. tasks' = Without({}, t, v)
    BY <1>3, <2>0, SetIsWithout DEF Goto
  <2>3. Position(v) >= Position(u)
    BY <1>1, <2>1, SamePosition
  <2>4. Path(v)' = Path(u)
    BY <2>1 DEF Path, Place
  <2>5. TaskInv(t, v)'
    BY <1>1, <1>3, <2>1, <2>4 DEF TaskInv, Places, Early
  <2>6. Moves(t, {}, v)
    BY <1>3, <2>1, <2>2, <2>3 DEF Moves
  <2>7. Progress(t, v)
    BY <1>1, <1>3, <2>1 DEF Progress, Ahead, TaskInv, Early
  <2>8. QED
    BY <2>5, <2>6, <2>7 DEF GoesOn
<1>4. CASE Begin(t)
  <2>1. CASE Goto(t, "check")
    <3>1. GoesOn(t)
      BY <1>3, <1>4, <2>1 DEF Begin, At, Places, Early
    <3>2. QED
      BY <1>4, <3>1 DEF Begin
  <2>2. QED
    BY <1>4, <2>1 DEF Begin, Crash
<1>5. CASE Check(t)
  <2>1. CASE Path(u) \in handled
    <3>0. PICK v : v = [u EXCEPT !.pc = "done", !.rc = 0]
      OBVIOUS
    <3>1. v \in TaskType /\ v.p = u.p /\ v.where = u.where /\ v.k = u.k /\ v.pc = "done" /\ v.kids = u.kids
          /\ v.list = u.list /\ v.next = u.next
      BY <1>1, <3>0 DEF TaskType, Places
    <3>2. tasks' = Without({}, t, v)
      BY <1>5, <2>1, <3>0, SetIsWithout DEF Check, Succeeds
    <3>3. Position(v) >= Position(u)
      BY <1>1, <3>1, SamePosition
    <3>4. TaskInv(t, v)'
      BY <1>1, <1>5, <3>1 DEF TaskInv, Early, Check, At
    <3>5. Moves(t, {}, v)
      BY <1>1, <1>5, <3>1, <3>2, <3>3 DEF Moves, Check, At, Early
    <3>6. Progress(t, v)
      BY <1>5, <2>1, <3>1 DEF Progress, Ahead, Check, At
    <3>7. QED
      BY <1>5, <3>4, <3>5, <3>6 DEF Check, GoesOn
  <2>2. CASE Path(u) \notin handled
    <3>1. GoesOn(t)
      BY <1>3, <1>5, <2>2 DEF Check, At, Places, Early
    <3>2. QED
      BY <1>5, <3>1 DEF Check
  <2>3. QED
    BY <2>1, <2>2
<1>6. CASE Read(t)
  <2>1. CASE Readable(u)
    <3>1. GoesOn(t)
      BY <1>3, <1>6, <2>1 DEF Read, At, Places, Early
    <3>2. QED
      BY <1>6, <3>1 DEF Read
  <2>2. CASE ~Readable(u)
    <3>1. GoesOn(t)
      BY <1>6, <2>2, FailsMoves DEF Read, At
    <3>2. QED
      BY <1>6, <3>1 DEF Read
  <2>3. QED
    BY <2>1, <2>2
<1>7. ASSUME NEW runs, RunOrMark(t, runs)
      PROVE  Goal
  <2>1. handled \subseteq handled'
    BY <1>7 DEF RunOrMark, Marked
  <2>2. u.pc = "run"
    BY <1>7 DEF RunOrMark, At
  <2>3. CASE Goto(t, "running") /\ UNCHANGED handled
    <3>1. GoesOn(t)
      BY <1>3, <2>1, <2>2, <2>3 DEF Places, Early
    <3>2. QED
      BY <1>7, <2>1, <3>1 DEF RunOrMark
  <2>4. CASE Marked(t) /\ Goto(t, "loop")
    <3>1. GoesOn(t)
      BY <1>3, <2>1, <2>2, <2>4 DEF Places, Early, Marked
    <3>2. QED
      BY <1>7, <2>1, <3>1 DEF RunOrMark
  <2>5. QED
    BY <1>7, <2>3, <2>4 DEF RunOrMark
<1>8. CASE Mark(t)
  <2>1. GoesOn(t)
    BY <1>3, <1>8 DEF Mark, At, Places, Early, Marked
  <2>2. QED
    BY <1>8, <2>1 DEF Mark, Marked
<1>9. CASE Spawn(t)
  BY <1>9 DEF Spawn
<1>10. CASE Join(t)
  <2>0. PICK v : v = [u EXCEPT !.kids = {}, !.pc = "loop"]
    OBVIOUS
  <2>1. v \in TaskType /\ v.p = u.p /\ v.where = u.where /\ v.k = u.k /\ v.pc = "loop" /\ v.kids = {}
        /\ v.list = u.list /\ v.next = u.next
    BY <1>1, <2>0 DEF TaskType, Places
  <2>2. tasks' = Without(u.kids, t, v) /\ Joined(t) /\ u.pc = "join"
    BY <1>10, <2>0 DEF Join, At
  <2>3. Position(v) >= Position(u)
    BY <1>1, <2>1, SamePosition
  <2>4. Path(v)' = Path(u)
    BY <2>1 DEF Path, Place
  <2>5. TaskInv(t, v)'
    BY <1>1, <1>10, <2>1, <2>2, <2>4 DEF TaskInv, Early, Join
  <2>6. Moves(t, u.kids, v)
    BY <2>1, <2>2, <2>3 DEF Moves, Early
  <2>7. List(v) = List(u)
    BY <2>1 DEF List
  <2>8. Progress(t, v)
    BY <1>10, <2>1, <2>7 DEF Progress, Ahead, Join
  <2>9. QED
    BY <1>10, <2>5, <2>6, <2>8 DEF Join, GoesOn
<1>11. CASE BuildLoses(t)
  <2>1. CASE u.list = "deps"
    <3>1. u.pc = "loop" /\ missing' # {} /\ Fails(t) /\ UNCHANGED handled
      BY <1>11, <2>1 DEF BuildLoses, NoManifest, AtNext, At
    <3>2. GoesOn(t)
      BY <3>1, FailsMoves
    <3>3. QED
      BY <1>11, <3>2 DEF BuildLoses, NoManifest
  <2>2. QED
    BY <1>11, <2>1 DEF BuildLoses, NoManifest, Crash
<1>12. CASE ConfigureLoses(t)
  BY <1>12 DEF ConfigureLoses, NoManifest, Crash
<1>13. CASE ListEnds(t)
  <2>1. u.pc = "loop" /\ Joined(t) /\ u.next > Len(List(u)) /\ Kept /\ UNCHANGED <<handled, missing>>
    BY <1>13 DEF ListEnds, At
  <2>2. PICK w : w = [u EXCEPT !.kids = {}]
    OBVIOUS
  <2>3. w \in TaskType /\ w.p = u.p /\ w.where = u.where /\ w.k = u.k /\ w.pc = "loop" /\ w.kids = {}
        /\ w.list = u.list /\ w.next = u.next
    BY <1>1, <2>1, <2>2 DEF TaskType
  <2>4. CASE "dev" \in cmd.options /\ u.list = "deps"
    <3>0. PICK v : v = [w EXCEPT !.list = "dev", !.next = 1]
      OBVIOUS
    <3>1. v \in TaskType /\ v.p = u.p /\ v.where = u.where /\ v.k = u.k /\ v.pc = "loop" /\ v.kids = {}
          /\ v.list = "dev" /\ v.next = 1
      <4>1. "dev" \in {"deps", "dev"} /\ 1 \in Nat \ {0}
        OBVIOUS
      <4>2. QED
        BY <2>3, <3>0, <4>1 DEF TaskType
    <3>2. tasks' = Without(u.kids, t, v)
      BY <1>13, <2>2, <2>3, <2>4, <3>0 DEF ListEnds
    <3>3. Position(v) = Len(Package[u.p].deps) + 1 /\ Position(u) = u.next
      BY <1>1, <1>2, <2>4, <3>1 DEF Position, TaskType
    <3>4. Position(v) >= Position(u)
      BY <1>1, <1>2, <2>4, <3>3 DEF TaskInv
    <3>5. Path(v)' = Path(u)
      BY <3>1 DEF Path, Place
    <3>6. TaskInv(t, v)'
      BY <1>1, <2>1, <3>1, <3>5 DEF TaskInv, Early
    <3>7. Moves(t, u.kids, v)
      BY <2>1, <3>1, <3>2, <3>4 DEF Moves, Early
    <3>8. ASSUME NEW q, Ahead(u, q)
          PROVE  Ahead(v, q)
      <4>1. Package[u.p].dev \in Seq(Packages)
        BY <1>1, CBuildPackages DEF TaskType, Packages
      <4>2. q \in Range(Package[u.p].dev)
        BY <1>1, <1>2, <2>1, <3>8 DEF Ahead, TaskType
      <4>3. PICK i \in 1 .. Len(Package[u.p].dev) : q = Package[u.p].dev[i]
        BY <4>1, <4>2 DEF Range
      <4>4. QED
        BY <3>1, <4>3 DEF Ahead, List
    <3>9. Progress(t, v)
      BY <2>1, <3>1, <3>8 DEF Progress
    <3>10. QED
      BY <2>1, <3>6, <3>7, <3>9 DEF GoesOn
  <2>5. CASE ~("dev" \in cmd.options /\ u.list = "deps")
    <3>0. PICK v : v = [w EXCEPT !.pc = "done", !.rc = 0]
      OBVIOUS
    <3>1. v \in TaskType /\ v.p = u.p /\ v.where = u.where /\ v.k = u.k /\ v.pc = "done" /\ v.kids = {}
          /\ v.list = u.list /\ v.next = u.next
      BY <2>3, <3>0 DEF TaskType, Places
    <3>2. tasks' = Without(u.kids, t, v)
      BY <1>13, <2>2, <2>3, <2>5, <3>0 DEF ListEnds
    <3>3. Position(v) >= Position(u)
      BY <1>1, <3>1, SamePosition
    <3>4. TaskInv(t, v)'
      BY <1>1, <2>1, <3>1 DEF TaskInv, Early
    <3>5. Moves(t, u.kids, v)
      BY <2>1, <3>1, <3>2, <3>3 DEF Moves, Early
    <3>6. ASSUME NEW q
          PROVE  ~Ahead(u, q)
      BY <1>1, <1>2, <2>1, <2>5 DEF Ahead, TaskType
    <3>7. Path(u) \in handled
      BY <1>1, <2>1 DEF TaskInv
    <3>8. Progress(t, v)
      BY <2>1, <3>1, <3>6, <3>7 DEF Progress
    <3>9. QED
      BY <2>1, <3>4, <3>5, <3>8 DEF GoesOn
  <2>6. QED
    BY <2>4, <2>5
<1>14. QED
  BY <1>4, <1>5, <1>6, <1>7, <1>8, <1>9, <1>10, <1>11, <1>12, <1>13
     DEF BuildPackage, ConfigurePackage, BuildReads, ConfigureReads, BuildWaits, ConfigureWaits,
         ConfigureMarks, ConfigureEnds, BuildRun, ConfigureRun

-----------------------------------------------------------------------------
(* The invariant, step by step.                                            *)
(* The identifiers of two threads, one below the other.                    *)
LEMMA IdTail ==
    ASSUME NEW a \in Seq(Nat), NEW b \in Seq(Nat), Below(a, b), IdInv(a), IdInv(b)
    PROVE  /\ Len(a) + 2 <= Len(b) /\ Len(a) \in Nat /\ Len(a) # 0
           /\ b[Len(a) + 1] \in Nat /\ b[Len(a) + 2] \in Nat
<1>1. PICK m \in Nat : Len(a) = 2 * m + 1
  BY DEF IdInv
<1>2. PICK n \in Nat : Len(b) = 2 * n + 1
  BY DEF IdInv
<1>3. Len(a) < Len(b)
  BY DEF Below
<1>4. Len(a) + 2 <= Len(b) /\ Len(a) \in Nat /\ Len(a) # 0
  BY <1>1, <1>2, <1>3
<1>5. QED
  BY <1>4

(* A thread that goes on keeps what is known of those above and below it.  *)
LEMMA MovesStep ==
    ASSUME BuildTypeOK, BuildInv, NEW t \in DOMAIN tasks, NEW S, NEW v, Moves(t, S, v),
           TaskInv(t, v)', handled \subseteq handled', Kept
    PROVE  DOMAIN tasks' \subseteq DOMAIN tasks /\ tasks' \in [DOMAIN tasks' -> TaskType] /\ BuildInv'
<1> DEFINE u == tasks[t]
<1>1. /\ DOMAIN tasks' = DOMAIN tasks \ S
      /\ \A i \in DOMAIN tasks' : tasks'[i] = IF i = t THEN v ELSE tasks[i]
      /\ tasks' \in [DOMAIN tasks' -> TaskType]
  BY DEF Moves, Without, BuildTypeOK
<1>2. u \in TaskType /\ v \in TaskType /\ v.p = u.p /\ v.where = u.where /\ u.k \in 1 .. 2 /\ v.k \in 1 .. 2
  BY DEF BuildTypeOK, Moves, TaskType
<1>2a. Place(v) = Place(u)
  BY <1>2 DEF Place
<1>3. Position(u) \in Nat /\ Position(v) \in Nat
  BY <1>2, PositionType
<1>4. Position(v)' = Position(v) /\ \A i : Position(tasks[i])' = Position(tasks'[i])
  BY DEF Position
<1>5. ASSUME NEW x \in DOMAIN tasks'
      PROVE  TaskInv(x, tasks[x])' /\ IdInv(x)'
  <2>1. x \in DOMAIN tasks /\ TaskInv(x, tasks[x]) /\ IdInv(x)
    BY <1>1 DEF BuildInv
  <2>2. CASE x = t
    BY <1>1, <2>1, <2>2 DEF IdInv, Kept
  <2>3. CASE x # t
    BY <1>1, <2>1, <2>3 DEF IdInv, Kept, TaskInv, Path, Place
  <2>4. QED
    BY <2>2, <2>3
<1>6. ASSUME NEW a \in DOMAIN tasks', NEW b \in DOMAIN tasks', Below(a, b)
      PROVE  StartedBy(a, b)'
  <2>0. a \in DOMAIN tasks /\ b \in DOMAIN tasks /\ StartedBy(a, b)
    BY <1>1, <1>6 DEF BuildInv
  <2> DEFINE k == b[Len(a) + 1]
  <2>1. a \in Seq(Nat) /\ b \in Seq(Nat) /\ Len(a) \in Nat /\ a # b
    BY <2>0, <1>6 DEF BuildTypeOK, Ids, Below
  <2>2. CASE a = t
    <3>1. tasks'[a] = v /\ tasks'[b] = tasks[b]
      BY <1>1, <2>1, <2>2
    <3>2. k \in 1 .. u.k /\ <<Place(u), u.p, ManifestNames[k]>> \in handled
      BY <2>0, <2>2 DEF StartedBy
    <3>3. v.k = u.k \/ v.k = u.k + 1
      BY DEF Moves
    <3>4. k \in 1 .. v.k
      BY <1>2, <3>2, <3>3
    <3>5. ASSUME k = v.k
          PROVE  v.pc \notin Early /\ b[Len(a) + 2] < Position(v)
      <4>1. v.k = u.k
        BY <1>2, <3>2, <3>3, <3>5
      <4>2. u.pc \notin Early /\ b[Len(a) + 2] < Position(u)
        BY <2>0, <2>2, <3>5, <4>1 DEF StartedBy
      <4>3. v.pc \notin Early /\ Position(v) >= Position(u)
        BY <1>2, <4>1, <4>2 DEF Moves
      <4>4. b[Len(a) + 2] \in Nat
        BY <1>6, <2>0, <2>1, <4>2, IdTail DEF BuildInv
      <4>5. QED
        BY <1>3, <4>2, <4>3, <4>4
    <3>6. QED
      BY <1>2, <1>2a, <1>4, <2>0, <2>2, <3>1, <3>2, <3>4, <3>5 DEF StartedBy
  <2>3. CASE b = t
    <3>1. tasks'[b] = v /\ tasks'[a] = tasks[a]
      BY <1>1, <2>1, <2>3
    <3>2. ASSUME tasks[a].p = v.p, Place(tasks[a]) = Place(v)
          PROVE  v.k < k \/ (v.k = k /\ v.pc \in {"begin", "check", "done"})
      <4>1. /\ u.k < k \/ (u.k = k /\ u.pc \in {"begin", "check", "done"})
            /\ <<Place(u), u.p, ManifestNames[k]>> \in handled
            /\ k \in Nat
        BY <1>2, <1>2a, <2>0, <2>3, <3>2 DEF StartedBy
      <4>2. CASE u.k < k
        <5>1. v.k = u.k \/ (v.k = u.k + 1 /\ v.pc = "check")
          BY DEF Moves
        <5>2. v.k \in Int /\ u.k \in Int /\ k \in Int
          BY <1>2, <4>1
        <5> HIDE DEF k, u
        <5>3. CASE v.k = u.k
          BY <4>2, <5>3
        <5>4. CASE v.k = u.k + 1 /\ v.pc = "check"
          <6>1. v.k < k \/ v.k = k
            BY <4>2, <5>2, <5>4
          <6>2. QED
            BY <5>4, <6>1
        <5>5. QED
          BY <5>1, <5>3, <5>4
      <4>3. CASE u.k = k /\ u.pc \in {"begin", "check", "done"}
        BY <1>2, <4>1, <4>3 DEF Moves, Path
      <4>4. QED
        BY <4>1, <4>2, <4>3
    <3>3. QED
      BY <1>2, <1>2a, <1>4, <2>0, <2>3, <3>1, <3>2 DEF StartedBy
  <2>4. CASE a # t /\ b # t
    BY <1>1, <1>4, <2>0, <2>4 DEF StartedBy
  <2>5. QED
    BY <2>2, <2>3, <2>4
<1>7. QED
  BY <1>1, <1>5, <1>6 DEF BuildInv, Below

(* The identifier of a thread that t starts.                               *)
LEMMA Extended ==
    ASSUME NEW t \in Seq(Nat), NEW a \in Nat, NEW b \in Nat
    PROVE  LET e == t \o <<a, b>>
           IN  /\ e \in Seq(Nat) /\ Len(e) = Len(t) + 2 /\ Len(t) \in Nat
               /\ \A i \in 1 .. Len(t) : e[i] = t[i]
               /\ e[Len(t) + 1] = a /\ e[Len(t) + 2] = b
OBVIOUS

(* What Spawn does to the table.                                           *)
LEMMA SpawnTable ==
    ASSUME BuildTypeOK, BuildInv, NEW t \in DOMAIN tasks, Spawn(t)
    PROVE  LET u == tasks[t]
           IN  \E id \in Ids \ DOMAIN tasks :
               /\ id = t \o <<u.k, Position(u)>> /\ DOMAIN tasks' = DOMAIN tasks \cup {id}
               /\ tasks' \in [DOMAIN tasks' -> TaskType]
               /\ \A i \in DOMAIN tasks : i # t => tasks'[i] = tasks[i]
               /\ tasks'[id].k = 1 /\ tasks'[id].pc = "begin" /\ TaskInv(id, tasks[id])'
               /\ tasks'[id].p = List(u)[u.next] /\ tasks'[id].where = "dir"
               /\ tasks'[t].p = u.p /\ tasks'[t].where = u.where /\ tasks'[t].k = u.k
               /\ tasks'[t].list = u.list /\ tasks'[t].next = u.next + 1 /\ Len(id) # 1
               /\ tasks'[t].kids = u.kids \cup {id}
               /\ u.pc = "loop" /\ tasks'[t].pc \in {"loop", "join"} /\ TaskInv(t, tasks[t])'
               /\ Position(tasks'[t]) = Position(u) + 1
<1> DEFINE u == tasks[t]
<1>0. PICK id : id = t \o <<u.k, Position(u)>>
  OBVIOUS
<1> DEFINE v == [u EXCEPT !.next = @ + 1, !.kids = @ \union {id}]
<1>1. u \in TaskType /\ TaskInv(t, u) /\ u.k \in Nat /\ t \in Seq(Nat) /\ u.pc = "loop" /\ u.next \in Nat
  BY DEF BuildTypeOK, BuildInv, TaskType, Ids, Spawn, AtNext, At
<1>2. Position(u) \in Nat /\ Len(Package[u.p].deps) \in Nat /\ Len(List(u)) \in Nat /\ u.next <= Len(List(u))
  BY <1>1, PositionType DEF Spawn, AtNext
<1>3. id \in Ids /\ Len(id) = Len(t) + 2 /\ Len(t) \in Nat /\ id # t
      /\ \A i \in 1 .. Len(t) : id[i] = t[i]
  BY <1>0, <1>1, <1>2, Extended DEF Ids
<1>4. id[Len(t) + 1] = u.k /\ id[Len(t) + 2] = Position(u)
  BY <1>0, <1>1, <1>2, Extended
<1>5. PICK w : w = Task(List(u)[u.next], "dir", 1, "begin")
  OBVIOUS
<1>6. PICK x : x = [v EXCEPT !.pc = IF Full(v) THEN "join" ELSE "loop"]
  OBVIOUS
<1>7. tasks' = [i \in DOMAIN tasks \union {id} |->
                    CASE i = id -> w
                      [] i = t -> x
                      [] OTHER -> tasks[i]]
  BY <1>0, <1>5, <1>6 DEF Spawn, Position
<1>8. /\ w \in TaskType /\ w.k = 1 /\ w.pc = "begin" /\ w.list = "deps" /\ w.next = 1 /\ w.kids = {}
      /\ w.p = List(u)[u.next] /\ w.where = "dir"
  <2>1. Package[u.p].deps \in Seq(Packages) /\ Package[u.p].dev \in Seq(Packages)
    BY <1>1, CBuildPackages DEF TaskType, Packages
  <2>2. List(u)[u.next] \in Packages
    BY <1>1, <1>2, <2>1 DEF List, TaskType
  <2>3. {} \in SUBSET Ids /\ "begin" \in Places /\ 1 \in Nat \ {0} /\ 1 \in 1 .. 2 /\ 0 \in {0, 1}
    BY DEF Places, Early
  <2>4. QED
    BY <1>5, <2>2, <2>3 DEF TaskType, Task, Wheres
<1>9. /\ x \in TaskType /\ x.p = u.p /\ x.where = u.where /\ x.k = u.k /\ x.list = u.list
      /\ x.next = u.next + 1 /\ x.kids = u.kids \cup {id} /\ x.pc \in {"loop", "join"}
  <2>0. PICK pc : pc = IF Full(v) THEN "join" ELSE "loop"
    OBVIOUS
  <2>1. PICK y : y = v
    OBVIOUS
  <2>2. y \in TaskType /\ y.p = u.p /\ y.where = u.where /\ y.k = u.k /\ y.list = u.list
        /\ y.next = u.next + 1 /\ y.kids = u.kids \cup {id}
    <3>1. u.kids \in SUBSET Ids
      BY <1>1 DEF TaskType
    <3>2. u.kids \cup {id} \in SUBSET Ids
      BY <1>3, <3>1
    <3>3. u.next + 1 \in Nat \ {0}
      BY <1>1
    <3>4. QED
      BY <1>1, <2>1, <3>2, <3>3 DEF TaskType
  <2>3. pc \in Places /\ pc \in {"loop", "join"} /\ x = [y EXCEPT !.pc = pc]
    BY <1>6, <2>0, <2>1 DEF Places
  <2>4. QED
    BY <2>2, <2>3 DEF TaskType
<1>10. id \notin DOMAIN tasks
  <2>1. SUFFICES ASSUME id \in DOMAIN tasks
                 PROVE  FALSE
    OBVIOUS
  <2>2. Below(t, id)
    BY <1>3 DEF Below
  <2>3. StartedBy(t, id)
    BY <2>1, <2>2 DEF BuildInv
  <2>4. Position(u) < Position(u)
    BY <1>4, <2>3 DEF StartedBy
  <2>5. QED
    BY <1>2, <2>4
<1> HIDE DEF v
<1>11. Position(x) = Position(u) + 1
  <2>1. x.p = u.p /\ x.list = u.list /\ x.next = u.next + 1
    BY <1>9
  <2>2. u.list \in {"deps", "dev"}
    BY <1>1 DEF TaskType
  <2>3. CASE u.list = "deps"
    BY <1>1, <1>2, <2>1, <2>3 DEF Position
  <2>4. CASE u.list = "dev"
    <3>1. Len(Package[u.p].deps) * 1 = Len(Package[u.p].deps)
      BY <1>2
    <3>2. Position(u) = Len(Package[u.p].deps) + u.next
      BY <2>4, <3>1 DEF Position
    <3>3. Position(x) = Len(Package[u.p].deps) + (u.next + 1)
      BY <2>1, <2>4, <3>1 DEF Position
    <3>4. PICK L \in Nat, n \in Nat : L = Len(Package[u.p].deps) /\ n = u.next
      BY <1>1, <1>2
    <3>5. QED
      BY <3>2, <3>3, <3>4
  <2>5. QED
    BY <2>2, <2>3, <2>4
<1>12. /\ DOMAIN tasks' = DOMAIN tasks \cup {id} /\ tasks'[id] = w /\ tasks'[t] = x
       /\ \A i \in DOMAIN tasks : i # t => tasks'[i] = tasks[i]
  BY <1>3, <1>7, <1>10
<1>13. tasks' \in [DOMAIN tasks' -> TaskType]
  BY <1>7, <1>8, <1>9, <1>12 DEF BuildTypeOK
<1>14. TaskInv(id, tasks[id])'
  <2>1. Len(Package[w.p].deps) \in Nat
    BY <1>8, PositionType
  <2>2. 1 <= Len(Package[w.p].deps) + 1
    BY <2>1
  <2>3. w.pc \notin {"done", "loop", "join"}
    BY <1>8
  <2>4. tasks'[id] = w
    BY <1>12
  <2>5. QED
    BY <1>8, <2>2, <2>3, <2>4 DEF TaskInv
<1>15. TaskInv(t, tasks[t])'
  <2>1. Path(x) = Path(u) /\ Path(u) \in handled /\ handled' = handled
    BY <1>1, <1>9 DEF Path, Place, TaskInv, Spawn
  <2>2. Path(tasks[t])' = Path(x)
    BY <1>12 DEF Path, Place
  <2>3. x.list = "deps" => x.next <= Len(Package[x.p].deps) + 1
    BY <1>1, <1>2, <1>9 DEF List
  <2>4. \A c \in x.kids : Len(c) > Len(t)
    BY <1>1, <1>3, <1>9 DEF TaskInv
  <2>5. QED
    BY <1>9, <1>12, <2>1, <2>2, <2>3, <2>4 DEF TaskInv, Early
<1>16. QED
  <2>1. tasks'[t].p = u.p /\ tasks'[t].where = u.where /\ tasks'[t].k = u.k /\ tasks'[t].kids = u.kids \cup {id}
        /\ tasks'[t].pc \in {"loop", "join"} /\ Position(tasks'[t]) = Position(u) + 1
        /\ tasks'[t].list = u.list /\ tasks'[t].next = u.next + 1
    BY <1>9, <1>11, <1>12
  <2>2. Len(id) # 1
    BY <1>3
  <2>3. QED
    BY <1>0, <1>1, <1>3, <1>8, <1>10, <1>12, <1>13, <1>14, <1>15, <2>1, <2>2

(* A thread that starts another one: the new one is below those that its   *)
(* parent is below, and nothing is below the new one.                      *)
LEMMA SpawnStep ==
    ASSUME BuildTypeOK, BuildInv, NEW t \in DOMAIN tasks, Spawn(t)
    PROVE  BuildInv'
<1> DEFINE u == tasks[t]
<1>0. PICK id \in Ids \ DOMAIN tasks :
         /\ id = t \o <<u.k, Position(u)>> /\ DOMAIN tasks' = DOMAIN tasks \cup {id}
         /\ tasks' \in [DOMAIN tasks' -> TaskType]
         /\ \A i \in DOMAIN tasks : i # t => tasks'[i] = tasks[i]
         /\ tasks'[id].k = 1 /\ tasks'[id].pc = "begin" /\ TaskInv(id, tasks[id])'
         /\ tasks'[t].p = u.p /\ tasks'[t].where = u.where /\ tasks'[t].k = u.k
         /\ tasks'[t].kids = u.kids \cup {id}
         /\ u.pc = "loop" /\ tasks'[t].pc \in {"loop", "join"} /\ TaskInv(t, tasks[t])'
         /\ Position(tasks'[t]) = Position(u) + 1
  BY SpawnTable
<1>1. u \in TaskType /\ TaskInv(t, u) /\ IdInv(t) /\ t \in Seq(Nat) /\ u.k \in 1 .. 2 /\ u.k \in Nat
  BY DEF BuildTypeOK, BuildInv, TaskType, Ids
<1>2. Position(u) \in Nat
  BY <1>1, PositionType
<1>3. /\ id \in Seq(Nat) /\ Len(id) = Len(t) + 2 /\ Len(t) \in Nat /\ \A i \in 1 .. Len(t) : id[i] = t[i]
      /\ id[Len(t) + 1] = u.k /\ id[Len(t) + 2] = Position(u)
  BY <1>0, <1>1, <1>2, Extended
<1>4. Kept /\ handled' = handled /\ DOMAIN tasks \subseteq Seq(Nat)
  BY DEF Spawn, BuildTypeOK, Ids
<1>5. \A x : Position(tasks[x])' = Position(tasks'[x])
  BY DEF Position
<1>5a. Place(tasks'[t]) = Place(u) /\ \A x : Place(tasks[x])' = Place(tasks'[x])
  BY <1>0 DEF Place
<1>6. IdInv(id)
  <2>1. PICK n \in Nat : Len(t) = 2 * n + 1
    BY <1>1 DEF IdInv
  <2>2. Len(id) = 2 * (n + 1) + 1 /\ n + 1 \in Nat
    BY <1>3, <2>1
  <2>3. id[1] = t[1] /\ t[1] \in 1 .. calls
    BY <1>1, <1>3, <2>1 DEF IdInv
  <2>4. QED
    BY <2>2, <2>3 DEF IdInv
<1>7. ASSUME NEW x \in DOMAIN tasks'
      PROVE  TaskInv(x, tasks[x])' /\ IdInv(x)'
  <2>1. CASE x = id
    BY <1>0, <1>4, <1>6, <2>1 DEF IdInv, Kept
  <2>2. CASE x = t
    BY <1>0, <1>1, <1>4, <2>2 DEF IdInv, Kept
  <2>3. CASE x # t /\ x # id
    <3>1. x \in DOMAIN tasks /\ tasks'[x] = tasks[x] /\ TaskInv(x, tasks[x]) /\ IdInv(x)
      BY <1>0, <2>3 DEF BuildInv
    <3>2. QED
      BY <1>4, <3>1 DEF IdInv, Kept, TaskInv, Path, Place
  <2>4. QED
    BY <2>1, <2>2, <2>3
<1>8. ASSUME NEW a \in DOMAIN tasks', NEW b \in DOMAIN tasks', Below(a, b)
      PROVE  StartedBy(a, b)'
  <2>1. a \in Seq(Nat) /\ b \in Seq(Nat) /\ IdInv(a) /\ IdInv(b) /\ a # b
    <3>1. ASSUME NEW x \in DOMAIN tasks'
          PROVE  x \in Seq(Nat) /\ IdInv(x)
      BY <1>0, <1>3, <1>4, <1>6 DEF BuildInv
    <3>2. a # b
      BY <1>8, <3>1 DEF Below
    <3>3. QED
      BY <3>1, <3>2
  <2>2. CASE a = t /\ b = id
    <3>1. <<Place(u), u.p, ManifestNames[u.k]>> \in handled
      BY <1>0, <1>1 DEF TaskInv, Path
    <3>2. u.k = 1 \/ 1 < u.k
      BY <1>1
    <3>3. Position(u) < Position(u) + 1
      BY <1>2
    <3>4. u.k \in 1 .. u.k
      BY <1>1
    <3>5. tasks'[t].pc \notin Early
      BY <1>0 DEF Early
    <3>6. QED
      BY <1>0, <1>3, <1>4, <1>5, <1>5a, <2>2, <3>1, <3>2, <3>3, <3>4, <3>5 DEF StartedBy
  <2>3. CASE a # t /\ a # id /\ b = id
    <3>1. Len(a) + 2 <= Len(t) + 2 /\ Len(a) \in Nat
      BY <1>3, <1>6, <1>8, <2>1, <2>3, IdTail
    <3>2. \A i \in 1 .. Len(a) : t[i] = a[i]
      BY <1>3, <1>8, <2>3, <3>1 DEF Below
    <3>3. Len(a) # Len(t)
      <4>1. SUFFICES ASSUME Len(a) = Len(t)
                     PROVE  FALSE
        OBVIOUS
      <4>2. a = t
        BY <1>1, <2>1, <3>2, <4>1, SeqEqual
      <4>3. QED
        BY <2>3, <4>2
    <3>4. Below(a, t)
      BY <1>3, <3>1, <3>2, <3>3 DEF Below
    <3>5. StartedBy(a, t) /\ a \in DOMAIN tasks /\ tasks'[a] = tasks[a]
      BY <1>0, <2>3, <3>4 DEF BuildInv
    <3>6. Len(a) + 2 <= Len(t) /\ t[Len(a) + 1] \in Nat
      BY <1>1, <2>1, <3>4, IdTail
    <3>7. id[Len(a) + 1] = t[Len(a) + 1] /\ id[Len(a) + 2] = t[Len(a) + 2]
      <4>1. Len(a) + 1 \in 1 .. Len(t) /\ Len(a) + 2 \in 1 .. Len(t)
        BY ONLY <1>3, <3>1, <3>6
      <4>2. \A i \in 1 .. Len(t) : id[i] = t[i]
        BY <1>3
      <4>3. QED
        BY ONLY <4>1, <4>2
    <3>8. t[Len(a) + 1] = 1 \/ 1 < t[Len(a) + 1]
      BY <3>5, <3>6 DEF StartedBy
    <3>9. QED
      BY <1>0, <1>4, <1>5, <1>5a, <2>3, <3>5, <3>7, <3>8 DEF StartedBy
  <2>4. CASE a = id
    <3>1. b \in DOMAIN tasks
      BY <1>0, <2>1, <2>4
    <3>2. Len(id) < Len(b) /\ \A i \in 1 .. Len(id) : b[i] = id[i]
      BY <1>8, <2>4 DEF Below
    <3>3. Len(t) < Len(b) /\ \A i \in 1 .. Len(t) : b[i] = t[i]
      BY <1>3, <2>1, <3>2
    <3>4. b[Len(t) + 1] = u.k /\ b[Len(t) + 2] = Position(u)
      <4>1. Len(t) + 1 \in 1 .. Len(id) /\ Len(t) + 2 \in 1 .. Len(id)
        BY ONLY <1>3
      <4>2. \A i \in 1 .. Len(id) : b[i] = id[i]
        BY <3>2
      <4>3. id[Len(t) + 1] = u.k /\ id[Len(t) + 2] = Position(u)
        BY <1>3
      <4>4. QED
        BY ONLY <4>1, <4>2, <4>3
    <3>5. StartedBy(t, b)
      BY <3>1, <3>3 DEF BuildInv, Below
    <3>6. Position(u) < Position(u)
      BY <3>4, <3>5 DEF StartedBy
    <3>7. QED
      BY <1>2, <3>6
  <2>5. CASE a \in DOMAIN tasks /\ b \in DOMAIN tasks
    <3>0. StartedBy(a, b)
      BY <1>8, <2>5 DEF BuildInv
    <3>1. CASE a = t
      <4>1. tasks'[b] = tasks[b] /\ tasks'[t].pc \notin Early
        BY <1>0, <2>1, <2>5, <3>1 DEF Early
      <4>2. b[Len(t) + 2] \in Nat
        BY <1>1, <1>8, <2>1, <3>1, IdTail
      <4>3. b[Len(t) + 2] < Position(u) => b[Len(t) + 2] < Position(u) + 1
        BY <1>2, <4>2
      <4>4. QED
        BY <1>0, <1>4, <1>5, <1>5a, <3>0, <3>1, <4>1, <4>3 DEF StartedBy
    <3>2. CASE b = t
      <4>1. tasks'[a] = tasks[a]
        BY <1>0, <2>1, <2>5, <3>2
      <4>2. tasks[a].p = u.p /\ Place(tasks[a]) = Place(u) => u.k < t[Len(a) + 1]
        BY <1>0, <3>0, <3>2 DEF StartedBy
      <4>3. QED
        BY <1>0, <1>4, <1>5, <1>5a, <3>0, <3>2, <4>1, <4>2 DEF StartedBy
    <3>3. CASE a # t /\ b # t
      BY <1>0, <1>4, <1>5, <1>5a, <2>5, <3>0, <3>3 DEF StartedBy
    <3>4. QED
      BY <3>1, <3>2, <3>3
  <2>6. QED
    BY <1>0, <2>1, <2>2, <2>3, <2>4, <2>5
<1>9. QED
  BY <1>7, <1>8 DEF BuildInv, Below

(* The next call of main: the threads of the last one are not below it.    *)
LEMMA CallStep ==
    ASSUME BuildTypeOK, BuildInv, NEW p \in Packages, NEW where \in Wheres, NEW k \in 1 .. 2,
           Call(p, where, k), UNCHANGED handled
    PROVE  /\ BuildInv' /\ calls' = calls + 1
           /\ DOMAIN tasks' = (DOMAIN tasks \ {<<calls>>}) \cup {<<calls + 1>>}
           /\ tasks' \in [DOMAIN tasks' -> TaskType] /\ DOMAIN tasks' \subseteq Ids
           /\ \A i \in DOMAIN tasks \ {<<calls>>} : tasks'[i] = tasks[i]
           /\ tasks'[<<calls + 1>>] = Task(p, where, k, "check") /\ <<calls + 1>> \notin DOMAIN tasks
           /\ Len(<<calls + 1>>) = 1
<1>0. PICK id : id = <<calls + 1>>
  OBVIOUS
<1>1. PICK w : w = Task(p, where, k, "check")
  OBVIOUS
<1>2. calls \in Nat /\ calls' = calls + 1 /\ id \in Seq(Nat) /\ Len(id) = 1 /\ id[1] = calls + 1
  BY <1>0 DEF Call, BuildTypeOK
<1>2a. Len(id) \in Nat /\ Len(id) # 0 /\ Len(id) = 1 /\ 1 \in 1 .. Len(id) /\ id[1] = calls + 1
  BY <1>2
<1>3. tasks' = [i \in (DOMAIN tasks \ {<<calls>>}) \cup {id} |-> IF i = id THEN w ELSE tasks[i]]
  BY <1>0, <1>1 DEF Call
<1>4. w \in TaskType /\ w.pc = "check" /\ w.list = "deps" /\ w.next = 1 /\ w.kids = {} /\ w.p \in Packages
  <2>1. {} \in SUBSET Ids /\ "check" \in Places /\ 1 \in Nat \ {0} /\ 0 \in {0, 1}
    BY DEF Places, Early
  <2>2. QED
    BY <1>1, <2>1 DEF TaskType, Task
<1>5. ASSUME NEW t \in DOMAIN tasks
      PROVE  /\ TaskInv(t, tasks[t]) /\ IdInv(t) /\ t[1] \in 1 .. calls /\ Len(t) # 0 /\ t \in Seq(Nat)
             /\ t # id
  <2>1. TaskInv(t, tasks[t]) /\ IdInv(t) /\ t[1] \in 1 .. calls /\ t \in Seq(Nat)
    BY DEF BuildInv, IdInv, BuildTypeOK, Ids
  <2>2. PICK n \in Nat : Len(t) = 2 * n + 1
    BY <2>1 DEF IdInv
  <2>3. QED
    BY <1>2, <2>1, <2>2
<1>6. /\ DOMAIN tasks' = (DOMAIN tasks \ {<<calls>>}) \cup {id}
      /\ tasks'[id] = w /\ \A i \in DOMAIN tasks \ {<<calls>>} : tasks'[i] = tasks[i]
  BY <1>3, <1>5
<1>7. tasks' \in [DOMAIN tasks' -> TaskType] /\ DOMAIN tasks' \subseteq Ids
  BY <1>2, <1>3, <1>4, <1>5, <1>6 DEF BuildTypeOK, Ids
<1>8. ASSUME NEW x \in DOMAIN tasks'
      PROVE  TaskInv(x, tasks[x])' /\ IdInv(x)'
  <2>1. CASE x = id
    <3>1. Len(Package[w.p].deps) \in Nat
      BY <1>4, PositionType
    <3>2. 1 <= Len(Package[w.p].deps) + 1
      BY <3>1
    <3>3. TaskInv(x, tasks[x])'
      BY <1>4, <1>6, <2>1, <3>2 DEF TaskInv, Early
    <3>4. Len(id) = 2 * 0 + 1 /\ id[1] \in 1 .. calls'
      BY <1>2
    <3>5. QED
      BY <2>1, <3>3, <3>4 DEF IdInv
  <2>2. CASE x # id
    <3>1. x \in DOMAIN tasks /\ tasks'[x] = tasks[x]
      BY <1>6, <2>2
    <3>2. TaskInv(x, tasks[x])'
      BY <1>5, <3>1 DEF TaskInv, Path, Place
    <3>3. x[1] \in 1 .. calls'
      BY <1>2, <1>5, <3>1
    <3>4. QED
      BY <1>5, <3>1, <3>2, <3>3 DEF IdInv
  <2>3. QED
    BY <2>1, <2>2
<1>9. ASSUME NEW a \in DOMAIN tasks', NEW b \in DOMAIN tasks', Below(a, b)
      PROVE  StartedBy(a, b)'
  <2>0. Len(a) \in Nat /\ Len(b) \in Nat /\ Len(a) # 0 /\ Len(a) < Len(b) /\ \A i \in 1 .. Len(a) : b[i] = a[i]
    <3>1. ASSUME NEW x \in DOMAIN tasks'
          PROVE  Len(x) \in Nat /\ Len(x) # 0
      <4>1. CASE x = id
        BY <1>2a, <4>1
      <4>2. CASE x # id
        BY <1>5, <1>6, <4>2
      <4>3. QED
        BY <4>1, <4>2
    <3>2. QED
      BY <1>9, <3>1 DEF Below
  <2>1. a # id
    <3>1. SUFFICES ASSUME a = id
                   PROVE  FALSE
      OBVIOUS
    <3>2. Len(a) = 1 /\ 1 \in 1 .. Len(a) /\ a[1] = calls + 1
      BY <1>2a, <3>1
    <3>3. b[1] = calls + 1
      BY <2>0, <3>2
    <3>4. b # id
      BY <2>0, <3>1
    <3>5. b \in DOMAIN tasks
      BY <1>6, <3>4
    <3>6. b[1] \in 1 .. calls
      BY <1>5, <3>5
    <3>7. QED
      BY <1>2, <3>3, <3>6
  <2>2. b # id
    <3>1. SUFFICES ASSUME b = id
                   PROVE  FALSE
      OBVIOUS
    <3>2. Len(b) = 1
      BY <1>2, <3>1
    <3>3. QED
      BY <2>0, <3>2
  <2>3. a \in DOMAIN tasks /\ b \in DOMAIN tasks /\ tasks'[a] = tasks[a] /\ tasks'[b] = tasks[b]
    BY <1>6, <2>1, <2>2
  <2>4. StartedBy(a, b)
    BY <1>9, <2>3 DEF BuildInv
  <2>5. Position(tasks[a])' = Position(tasks[a])
    BY <2>3 DEF Position
  <2>6. Place(tasks[a])' = Place(tasks[a]) /\ Place(tasks[b])' = Place(tasks[b])
    BY <2>3 DEF Place
  <2>7. QED
    BY <2>3, <2>4, <2>5, <2>6 DEF StartedBy
<1>10. QED
  BY <1>0, <1>1, <1>2, <1>5, <1>6, <1>7, <1>8, <1>9 DEF BuildInv, Below

(* What an argument asks for.                                              *)
LEMMA BeginsType ==
    ASSUME NEW a \in Arguments
    PROVE  Begins(a) \in Requests
<1>1. CASE a = Dot
  <2>1. Begins(a) = [p |-> Cwd, where |-> "cwd", k |-> 1] /\ Cwd \in Packages
    BY <1>1, CBuildPackages, CBuildArguments DEF Begins, Packages
  <2>2. QED
    BY <2>1 DEF Requests, Wheres
<1>2. CASE a # Dot /\ a \in DOMAIN Relative
  <2>1. Begins(a) = [p |-> Relative[a], where |-> "relative", k |-> 1] /\ Relative[a] \in Packages
    BY <1>2, CBuildArguments DEF Begins, Packages
  <2>2. QED
    BY <2>1 DEF Requests, Wheres
<1>3. CASE a # Dot /\ a \notin DOMAIN Relative /\ a \in DOMAIN Regular
  <2>1. Regular[a] \in [p : Packages, k : 1 .. 2]
    BY <1>3, CBuildArguments DEF Packages
  <2>2. Begins(a) = [p |-> Regular[a].p, where |-> "file", k |-> Regular[a].k]
    BY <1>3 DEF Begins
  <2>3. QED
    BY <2>1, <2>2 DEF Requests, Wheres
<1>4. CASE a # Dot /\ a \notin DOMAIN Relative /\ a \notin DOMAIN Regular
  BY <1>4 DEF Begins, Requests, Wheres, Arguments
<1>5. QED
  BY <1>1, <1>2, <1>3, <1>4

(* The argument that main begins with.                                     *)
LEMMA FirstArgument ==
    ASSUME todo \in Seq(Arguments)
    PROVE  (IF todo = <<>> THEN Dot ELSE Head(todo)) \in Arguments
BY DEF Arguments

(* The steps of main.                                                      *)
LEMMA MainSteps ==
    ASSUME BuildTypeOK, BuildInv, BuildMain \/ ConfigureMain
    PROVE  /\ UNCHANGED <<cmd, handled, missing>> /\ todo' \in Seq(Arguments)
           /\ \/ UNCHANGED <<tasks, calls>>
              \/ /\ \E p \in Packages, where \in Wheres, k \in 1 .. 2 : Call(p, where, k)
                 /\ calls = 0 \/ tasks[<<calls>>].pc = "done"
<1>0. todo \in Seq(Arguments)
  BY DEF BuildTypeOK
<1>1. CASE MainStarts
  <2>1. PICK r : r = Begins(IF todo = <<>> THEN Dot ELSE Head(todo))
    OBVIOUS
  <2>2. r \in Requests
    BY <1>0, <2>1, FirstArgument, BeginsType
  <2>3. Call(r.p, r.where, r.k) /\ calls = 0 /\ UNCHANGED <<cmd, todo, handled, missing>>
    BY <1>1, <2>1 DEF MainStarts, CallFor
  <2>4. QED
    BY <1>0, <2>2, <2>3 DEF Requests
<1>2. CASE MainRetries
  <2>1. Outcome.p \in Packages /\ Outcome.pc = "done"
    BY <1>2 DEF MainRetries, Returned, Outcome, BuildTypeOK, TaskType
  <2>2. Retried(Outcome.where) \in Wheres /\ 1 \in 1 .. 2
    BY DEF Retried, Wheres
  <2>3. Call(Outcome.p, Retried(Outcome.where), 1) /\ UNCHANGED <<cmd, todo, handled, missing>>
    BY <1>2 DEF MainRetries
  <2>4. QED
    BY <1>0, <2>1, <2>2, <2>3 DEF Outcome
<1>3. CASE MainGoesOn
  <2>1. Tail(todo) \in Seq(Arguments) /\ Head(Tail(todo)) \in Arguments
    BY <1>0, <1>3 DEF MainGoesOn
  <2>2. PICK r : r = Begins(Head(Tail(todo)))
    OBVIOUS
  <2>3. r \in Requests
    BY <2>1, <2>2, BeginsType
  <2>4. Call(r.p, r.where, r.k) /\ todo' = Tail(todo) /\ UNCHANGED <<cmd, handled, missing>>
        /\ tasks[<<calls>>].pc = "done"
    BY <1>3, <2>2 DEF MainGoesOn, CallFor, Returned
  <2>5. QED
    BY <2>1, <2>3, <2>4 DEF Requests
<1>4. CASE MainEnds
  BY <1>0, <1>4 DEF MainEnds
<1>5. QED
  BY <1>1, <1>2, <1>3, <1>4 DEF BuildMain, ConfigureMain

(* The invariant holds before the first command.                           *)
LEMMA InitialTable ==
    ASSUME Init
    PROVE  BuildTypeOK /\ BuildInv
<1>1. cmd \in Commands /\ todo = cmd.args /\ calls = 0 /\ tasks = <<>>
  BY DEF Init, BuildInit, ConfigureInit, Parsed
<1>2. todo \in Seq(Arguments)
  BY <1>1, CBuildArguments DEF Packages, Arguments
<1>3. DOMAIN tasks = {} /\ tasks = [i \in {} |-> i]
  BY <1>1
<1>4. QED
  BY <1>1, <1>2, <1>3 DEF BuildTypeOK, BuildInv

(* A step that leaves the tasks, the calls and the table of handled paths  *)
(* alone keeps the invariant.                                              *)
LEMMA TableUnchanged ==
    ASSUME BuildTypeOK, BuildInv, UNCHANGED <<cmd, tasks, calls, handled>>, todo' \in Seq(Arguments)
    PROVE  BuildTypeOK' /\ BuildInv'
<1>1. BuildTypeOK'
  BY DEF BuildTypeOK
<1>2. ASSUME NEW t \in DOMAIN tasks'
      PROVE  TaskInv(t, tasks[t])' /\ IdInv(t)'
  BY DEF BuildInv, TaskInv, IdInv, Path, Place
<1>3. ASSUME NEW t \in DOMAIN tasks', NEW u \in DOMAIN tasks', Below(t, u)
      PROVE  StartedBy(t, u)'
  <2>1. StartedBy(t, u)
    BY <1>3 DEF BuildInv
  <2>2. Position(tasks[t])' = Position(tasks[t])
    BY DEF Position
  <2>3. Place(tasks[t])' = Place(tasks[t]) /\ Place(tasks[u])' = Place(tasks[u])
    BY DEF Place
  <2>4. QED
    BY <2>1, <2>2, <2>3 DEF StartedBy
<1>4. QED
  BY <1>1, <1>2, <1>3 DEF BuildInv, Below

(* Every step of the program keeps the invariant.                          *)
LEMMA BuildStep ==
    ASSUME BuildTypeOK, BuildInv, [Next]_vars
    PROVE  BuildTypeOK' /\ BuildInv'
<1>1. CASE UNCHANGED vars
  BY <1>1, TableUnchanged DEF vars, BuildTypeOK
<1>2. CASE BuildMain \/ ConfigureMain
  <2>1. /\ UNCHANGED <<cmd, handled>> /\ todo' \in Seq(Arguments)
        /\ \/ UNCHANGED <<tasks, calls>>
           \/ \E p \in Packages, where \in Wheres, k \in 1 .. 2 : Call(p, where, k)
    BY <1>2, MainSteps
  <2>2. CASE UNCHANGED <<tasks, calls>>
    BY <2>1, <2>2, TableUnchanged
  <2>3. CASE \E p \in Packages, where \in Wheres, k \in 1 .. 2 : Call(p, where, k)
    <3>1. /\ BuildInv' /\ calls' = calls + 1 /\ tasks' \in [DOMAIN tasks' -> TaskType]
          /\ DOMAIN tasks' \subseteq Ids
      BY <2>1, <2>3, CallStep
    <3>2. QED
      BY <2>1, <3>1 DEF BuildTypeOK
  <2>4. QED
    BY <2>1, <2>2, <2>3
<1>3. CASE \E t \in DOMAIN tasks : BuildPackage(t) \/ ConfigurePackage(t)
  <2>1. PICK t \in DOMAIN tasks : BuildPackage(t) \/ ConfigurePackage(t)
    BY <1>3
  <2>2. /\ Kept /\ handled \subseteq handled'
        /\ UNCHANGED <<tasks, handled>> \/ Spawn(t) \/ GoesOn(t)
    BY <2>1, TaskSteps
  <2>3. CASE UNCHANGED <<tasks, handled>>
    BY <2>2, <2>3, TableUnchanged DEF BuildTypeOK, Kept
  <2>4. CASE Spawn(t)
    <3>0. DOMAIN tasks \subseteq Ids
      BY DEF BuildTypeOK
    <3>1. tasks' \in [DOMAIN tasks' -> TaskType] /\ DOMAIN tasks' \subseteq Ids
      <4>1. PICK id \in Ids \ DOMAIN tasks :
              DOMAIN tasks' = DOMAIN tasks \cup {id} /\ tasks' \in [DOMAIN tasks' -> TaskType]
        BY <2>4, SpawnTable
      <4>2. QED
        BY <3>0, <4>1
    <3>2. QED
      BY <2>2, <2>4, <3>1, SpawnStep DEF BuildTypeOK, Kept
  <2>5. CASE GoesOn(t)
    <3>1. DOMAIN tasks' \subseteq DOMAIN tasks /\ tasks' \in [DOMAIN tasks' -> TaskType] /\ BuildInv'
      BY <2>2, <2>5, MovesStep DEF GoesOn
    <3>2. QED
      BY <2>2, <3>1 DEF BuildTypeOK, Kept
  <2>6. QED
    BY <2>2, <2>3, <2>4, <2>5
<1>4. QED
  BY <1>1, <1>2, <1>3 DEF Next

-----------------------------------------------------------------------------
(* In every state the threads have the identifiers and the state that the  *)
(* walk over the dependencies gives them: a thread below another one was   *)
(* started for a manifest name whose mark had been set.                    *)
THEOREM BuildInvariant == Spec => [](BuildTypeOK /\ BuildInv)
<1>1. Init => BuildTypeOK /\ BuildInv
  BY InitialTable
<1>2. BuildTypeOK /\ BuildInv /\ [Next]_vars => (BuildTypeOK /\ BuildInv)'
  BY BuildStep
<1>3. QED
  BY <1>1, <1>2, PTL DEF Spec

(* However deep the dependencies go, and whether or not they lead back to  *)
(* a package: its command does not run below itself.                       *)
THEOREM NoneIsBuiltBelowItself == Spec => []NotBelowItself
<1>1. BuildTypeOK /\ BuildInv => NotBelowItself
  <2>1. SUFFICES ASSUME BuildTypeOK, BuildInv, NEW t \in DOMAIN tasks, NEW u \in DOMAIN tasks,
                        IsStrictPrefix(t, u), tasks[u].pc \in {"run", "running"},
                        Path(tasks[t]) = Path(tasks[u])
                 PROVE  FALSE
    BY DEF NotBelowItself
  <2>2. tasks[t].k \in 1 .. 2 /\ tasks[u].k \in 1 .. 2 /\ t \in Seq(Nat) /\ u \in Seq(Nat)
    BY <2>1 DEF BuildTypeOK, TaskType, Ids
  <2>3. Below(t, u)
    <3>1. IsPrefix(t, u) /\ t # u
      BY <2>1 DEF IsStrictPrefix
    <3>2. Len(t) <= Len(u) /\ \A i \in 1 .. Len(t) : u[i] = t[i]
      BY <2>2, <3>1 DEF IsPrefix
    <3>3. Len(t) # Len(u)
      BY <2>2, <3>1, <3>2, SeqEqual
    <3>4. QED
      BY <2>2, <3>2, <3>3 DEF Below
  <2>4. StartedBy(t, u)
    BY <2>1, <2>3 DEF BuildInv
  <2>5. tasks[t].k = tasks[u].k /\ tasks[t].p = tasks[u].p /\ Place(tasks[t]) = Place(tasks[u])
    BY <2>1, <2>2 DEF Path, ManifestNames
  <2>6. QED
    BY <2>1, <2>2, <2>4, <2>5 DEF StartedBy
<1>2. QED
  BY <1>1, BuildInvariant, PTL

(* Every step keeps what the windows of threads say of the tasks.          *)
LEMMA WindowsStep ==
    ASSUME BuildTypeOK, BuildInv, Windows, [Next]_vars
    PROVE  Windows'
<1> SUFFICES ASSUME missing' = {}, NEW x \in DOMAIN tasks', Len(x) # 1
             PROVE  \E u \in DOMAIN tasks' : x \in tasks'[u].kids
  BY DEF Windows
<1>1. CASE UNCHANGED <<tasks, missing>>
  BY <1>1 DEF Windows
<1>2. CASE BuildMain \/ ConfigureMain
  <2>1. UNCHANGED missing
    BY <1>2, MainSteps
  <2>2. CASE UNCHANGED tasks
    BY <1>1, <2>1, <2>2
  <2>3. CASE /\ \E p \in Packages, where \in Wheres, k \in 1 .. 2 : Call(p, where, k)
             /\ calls = 0 \/ tasks[<<calls>>].pc = "done"
    <3>1. /\ DOMAIN tasks' = (DOMAIN tasks \ {<<calls>>}) \cup {<<calls + 1>>}
          /\ \A i \in DOMAIN tasks \ {<<calls>>} : tasks'[i] = tasks[i]
          /\ Len(<<calls + 1>>) = 1
      BY <1>2, <2>3, CallStep, MainSteps
    <3>2. x \in DOMAIN tasks
      BY <3>1
    <3>3. PICK u \in DOMAIN tasks : x \in tasks[u].kids
      BY <2>1, <3>2 DEF Windows
    <3>4. u # <<calls>>
      <4>1. SUFFICES ASSUME u = <<calls>>
                     PROVE  FALSE
        OBVIOUS
      <4>2. TaskInv(u, tasks[u]) /\ u[1] \in 1 .. calls
        BY DEF BuildInv, IdInv
      <4>3. tasks[u].pc # "done"
        BY <3>3, <4>2 DEF TaskInv
      <4>4. calls = 0
        BY <2>3, <4>1, <4>3
      <4>5. QED
        BY <4>2, <4>4
    <3>5. QED
      BY <3>1, <3>3, <3>4
  <2>4. QED
    BY <1>2, <2>2, <2>3, MainSteps
<1>3. CASE \E t \in DOMAIN tasks : BuildPackage(t) \/ ConfigurePackage(t)
  <2>1. PICK t \in DOMAIN tasks : BuildPackage(t) \/ ConfigurePackage(t)
    BY <1>3
  <2>2. missing = {} /\ (UNCHANGED tasks \/ Spawn(t) \/ GoesOn(t))
    BY <2>1, TaskSteps
  <2>3. CASE UNCHANGED tasks
    BY <1>1, <2>2, <2>3
  <2>4. CASE Spawn(t)
    <3>1. PICK id \in Ids \ DOMAIN tasks :
            /\ DOMAIN tasks' = DOMAIN tasks \cup {id} /\ \A i \in DOMAIN tasks : i # t => tasks'[i] = tasks[i]
            /\ tasks'[t].kids = tasks[t].kids \cup {id}
      BY <2>4, SpawnTable
    <3>2. CASE x = id
      BY <3>1, <3>2
    <3>3. CASE x # id
      <4>1. PICK u \in DOMAIN tasks : x \in tasks[u].kids
        BY <2>2, <3>1, <3>3 DEF Windows
      <4>2. QED
        BY <3>1, <4>1
    <3>4. QED
      BY <3>2, <3>3
  <2>5. CASE GoesOn(t)
    <3>1. PICK S, v : Moves(t, S, v)
      BY <2>5 DEF GoesOn
    <3>2. /\ DOMAIN tasks' = DOMAIN tasks \ S
          /\ \A i \in DOMAIN tasks' : tasks'[i] = IF i = t THEN v ELSE tasks[i]
          /\ S = {} \/ (S = tasks[t].kids /\ Joined(t))
          /\ v.kids = tasks[t].kids \ S
      BY <3>1 DEF Moves, Without
    <3>3. x \in DOMAIN tasks \ S
      BY <3>2
    <3>4. PICK u \in DOMAIN tasks : x \in tasks[u].kids
      BY <2>2, <3>3 DEF Windows
    <3>5. u \notin S
      <4>1. SUFFICES ASSUME u \in S
                     PROVE  FALSE
        OBVIOUS
      <4>2. tasks[u].pc = "done"
        BY <3>2, <4>1 DEF Joined
      <4>3. TaskInv(u, tasks[u])
        BY DEF BuildInv
      <4>4. QED
        BY <3>4, <4>2, <4>3 DEF TaskInv
    <3>6. QED
      BY <3>2, <3>3, <3>4, <3>5
  <2>6. QED
    BY <2>2, <2>3, <2>4, <2>5
<1>4. QED
  BY <1>1, <1>2, <1>3 DEF Next, vars

(* Unless a manifest was missing, a thread that main did not call itself   *)
(* always has another one that waits for it and keeps its arguments: the   *)
(* join of a window leaves nothing out, and nothing is joined before its   *)
(* own window is.                                                          *)
THEOREM ThreadsAreJoined == Spec => []NoOrphans
<1>1. Init => Windows
  BY DEF Init, BuildInit, ConfigureInit, Parsed, Windows
<1>2. BuildTypeOK /\ BuildInv /\ Windows /\ [Next]_vars => Windows'
  BY WindowsStep
<1>3. BuildTypeOK /\ BuildInv /\ Windows => NoOrphans
  <2> SUFFICES ASSUME BuildTypeOK, BuildInv, Windows, missing = {}, NEW t \in DOMAIN tasks, Len(t) # 1
               PROVE  \E u \in DOMAIN tasks : t \in tasks[u].kids /\ tasks[u].pc \in {"loop", "join"}
    BY DEF NoOrphans
  <2>1. PICK u \in DOMAIN tasks : t \in tasks[u].kids
    BY DEF Windows
  <2>2. TaskInv(u, tasks[u]) /\ tasks[u].pc \in Places
    BY DEF BuildTypeOK, BuildInv, TaskType
  <2>3. QED
    BY <2>1, <2>2 DEF TaskInv, Places
<1>4. QED
  BY <1>1, <1>2, <1>3, BuildInvariant, PTL DEF Spec

-----------------------------------------------------------------------------
(* The walk over the dependencies.                                         *)
LEMMA PackageType ==
    ASSUME NEW p \in Packages
    PROVE  /\ Package[p].deps \in Seq(Packages) /\ Package[p].dev \in Seq(Packages)
           /\ DependsOn(p) \subseteq Packages
<1>1. Package[p].deps \in Seq(Packages) /\ Package[p].dev \in Seq(Packages)
  BY CBuildPackages DEF Packages
<1>2. Range(Package[p].deps) \subseteq Packages /\ Range(Package[p].dev) \subseteq Packages
  BY <1>1 DEF Range
<1>3. QED
  BY <1>1, <1>2 DEF DependsOn

(* What the user asks for.                                                 *)
LEMMA RootsType ==
    ASSUME cmd \in Commands
    PROVE  Roots \subseteq Requests
<1>1. cmd.args \in Seq(Arguments)
  BY CBuildArguments DEF Packages, Arguments
<1>2. Range(cmd.args) \subseteq Arguments /\ Dot \in Arguments
  BY <1>1 DEF Range, Arguments
<1>3. QED
  BY <1>2, BeginsType DEF Roots

(* What a request asks for is found under one of the two names.            *)
LEMMA FilesType ==
    ASSUME NEW p \in Packages, NEW where
    PROVE  FilesAt(p, where) \subseteq {ManifestNames[1], ManifestNames[2]}
BY CBuildPackages DEF FilesAt, ManifestNames, Packages

(* The names of a manifest are the two that the code tries.                *)
LEMMA NameRange == Range(ManifestNames) = {ManifestNames[1], ManifestNames[2]}
BY DEF Range, ManifestNames

(* A thread whose path has a mark, or a thread that handles the package of *)
(* a request at its place, speaks for that request.                        *)
LEMMA MarkedIsHandled ==
    ASSUME NEW u \in TaskType, Path(u) \in handled
    PROVE  HandledAt(u)
<1>1. ManifestNames[u.k] \in Range(ManifestNames)
  BY NameRange DEF TaskType
<1>2. QED
  BY <1>1 DEF HandledAt, Path
LEMMA SameRequest ==
    ASSUME NEW r, NEW u, u.p = r.p, u.where = r.where, r.where = "file" => u.k = r.k
    PROVE  (Found(u) <=> Found(r)) /\ (HandledAt(u) <=> HandledAt(r)) /\ (HandledAt(u)' <=> HandledAt(r)')
BY DEF Found, HandledAt, Place

(* A thread that goes on.                                                  *)
LEMMA WalkGoesOn ==
    ASSUME BuildTypeOK, BuildInv, NamesInv, MarksInv, RootsInv, NEW t \in DOMAIN tasks, GoesOn(t),
           Kept, handled \subseteq handled', missing' = {}
    PROVE  NamesInv' /\ MarksInv' /\ RootsInv'
<1> DEFINE u == tasks[t]
<1>0. PICK S, v : Moves(t, S, v) /\ TaskInv(t, v)' /\ Progress(t, v)
  BY DEF GoesOn
<1>1. /\ DOMAIN tasks' = DOMAIN tasks \ S
      /\ \A i \in DOMAIN tasks' : tasks'[i] = IF i = t THEN v ELSE tasks[i]
      /\ \A i \in S : tasks[i].pc = "done"
      /\ u.pc # "done" /\ t \in DOMAIN tasks'
  BY <1>0 DEF Moves, Without, Joined
<1>2. u \in TaskType /\ v \in TaskType /\ v.p = u.p /\ v.where = u.where /\ u.p \in Packages
      /\ u.k \in 1 .. 2 /\ v.k \in 1 .. 2
  BY <1>0 DEF BuildTypeOK, Moves, TaskType
<1>3. ASSUME NEW r, HandledAt(r)
      PROVE  HandledAt(r)'
  BY <1>3 DEF HandledAt, Place
<1>4. ASSUME u.where # "slug", Found(u), v.pc = "done"
      PROVE  HandledAt(u)
  <2>1. CASE Path(u) \in handled
    BY <1>2, <2>1, MarkedIsHandled
  <2>2. CASE u.where = "file" /\ ~Readable(u)
    BY <1>4, <2>2 DEF Found, Readable, FilesAt
  <2>3. CASE u.k = 2 /\ u.where # "file" /\ ~Readable(u)
    <3>1. ManifestNames[1] \notin FilesAt(u.p, u.where)
      BY <1>4, <2>3 DEF NamesInv
    <3>2. ManifestNames[2] \notin FilesAt(u.p, u.where)
      BY <1>4, <2>3 DEF Readable
    <3>3. QED
      BY <1>2, <1>4, <2>3, <3>1, <3>2, FilesType DEF Found
  <2>4. QED
    BY <1>0, <1>4, <2>1, <2>2, <2>3 DEF Progress
<1>5. ASSUME NEW r, r.where # "slug", Found(r), HandledAt(r) \/ InHand(r)
      PROVE  (HandledAt(r) \/ InHand(r))'
  <2>1. CASE HandledAt(r)
    BY <1>3, <2>1
  <2>2. CASE InHand(r)
    <3>1. PICK x \in DOMAIN tasks : /\ tasks[x].p = r.p /\ tasks[x].where = r.where /\ tasks[x].pc # "done"
                                    /\ r.where = "file" => tasks[x].k = r.k
      BY <2>2 DEF InHand
    <3>2. x \in DOMAIN tasks'
      BY <1>1, <3>1
    <3>3. CASE x # t
      BY <1>1, <3>1, <3>2, <3>3 DEF InHand
    <3>4. CASE x = t /\ v.pc # "done"
      <4>1. u.where = "file" => v.k = u.k
        BY <1>0 DEF Progress
      <4>2. QED
        BY <1>1, <1>2, <3>1, <3>2, <3>4, <4>1 DEF InHand
    <3>5. CASE x = t /\ v.pc = "done"
      <4>1. HandledAt(u)
        BY <1>4, <1>5, <3>1, <3>5, SameRequest
      <4>2. QED
        BY <1>3, <3>1, <3>5, <4>1, SameRequest
    <3>6. QED
      BY <3>3, <3>4, <3>5
  <2>3. QED
    BY <1>5, <2>1, <2>2
<1>6. NamesInv'
  <2> SUFFICES ASSUME NEW x \in DOMAIN tasks', tasks'[x].where # "slug", Found(tasks'[x])
               PROVE  /\ tasks'[x].k = 2 /\ tasks'[x].where # "file" =>
                            ManifestNames[1] \notin FilesAt(tasks'[x].p, tasks'[x].where)
                      /\ tasks'[x].pc = "done" => HandledAt(tasks[x])'
    BY DEF NamesInv, Found, FilesAt
  <2>1. CASE x # t
    <3>1. x \in DOMAIN tasks /\ tasks'[x] = tasks[x]
      BY <1>1, <2>1
    <3>2. tasks[x].pc = "done" => HandledAt(tasks[x])'
      BY <3>1 DEF NamesInv, HandledAt, Place
    <3>3. QED
      BY <3>1, <3>2 DEF NamesInv
  <2>2. CASE x = t
    <3>1. tasks'[x] = v /\ u.where # "slug"
      BY <1>1, <1>2, <2>2
    <3>2. u.where = "file" => v.k = u.k
      BY <1>0 DEF Progress
    <3>3. Found(u)
      BY <1>2, <3>1, <3>2 DEF Found
    <3>4. v.pc = "done" => HandledAt(tasks[x])'
      <4>1. PICK r : r = u
        OBVIOUS
      <4>2. v.pc = "done" => HandledAt(r)'
        BY <1>3, <1>4, <3>1, <3>3, <4>1
      <4>3. HandledAt(tasks[x])' <=> HandledAt(r)'
        BY <1>2, <3>1, <4>1 DEF HandledAt, Place
      <4>4. QED
        BY <4>2, <4>3
    <3>5. CASE v.k = u.k
      BY <1>2, <3>1, <3>3, <3>4, <3>5 DEF NamesInv
    <3>6. CASE v.k # u.k
      <4>1. u.k = 1 /\ ~Readable(u)
        BY <1>0, <3>6 DEF Progress
      <4>2. ManifestNames[1] \notin FilesAt(u.p, u.where)
        BY <3>1, <4>1 DEF Readable
      <4>3. QED
        BY <1>2, <3>1, <3>4, <4>2
    <3>7. QED
      BY <3>5, <3>6
  <2>3. QED
    BY <2>1, <2>2
<1>7. MarksInv'
  <2> SUFFICES ASSUME NEW mark \in handled', NEW q \in DependsOn(mark[2])', Found(Dependency(q))
               PROVE  \/ (HandledAt(Dependency(q)) \/ InHand(Dependency(q)))'
                      \/ \E x \in DOMAIN tasks' : Path(tasks'[x]) = mark /\ Ahead(tasks[x], q)'
    BY DEF MarksInv, Found, FilesAt, Path, Place, Dependency
  <2>1. q \in DependsOn(mark[2])
    BY DEF DependsOn, Kept
  <2>2. \A x : Ahead(tasks[x], q)' <=> Ahead(tasks'[x], q)
    BY DEF Ahead, Kept, List
  <2>3. CASE mark \in handled
    <3>1. CASE HandledAt(Dependency(q)) \/ InHand(Dependency(q))
      <4>1. Dependency(q).where # "slug"
        BY DEF Dependency
      <4>2. QED
        BY <1>5, <3>1, <4>1
    <3>2. CASE \E x \in DOMAIN tasks : Path(tasks[x]) = mark /\ Ahead(tasks[x], q)
      <4>1. PICK x \in DOMAIN tasks : Path(tasks[x]) = mark /\ Ahead(tasks[x], q)
        BY <3>2
      <4>2. x \in DOMAIN tasks'
        BY <1>1, <4>1 DEF Ahead
      <4>3. CASE x # t
        BY <1>1, <2>2, <4>1, <4>2, <4>3
      <4>4. CASE x = t
        <5>1. Ahead(v, q)
          BY <1>0, <4>1, <4>4 DEF Progress
        <5>2. v.k = u.k
          BY <1>0, <5>1 DEF Moves, Ahead
        <5>3. Path(v) = Path(u)
          BY <1>2, <5>2 DEF Path, Place
        <5>4. QED
          BY <1>1, <2>2, <4>1, <4>2, <4>4, <5>1, <5>3
      <4>5. QED
        BY <4>3, <4>4
    <3>3. QED
      BY <2>1, <2>3, <3>1, <3>2 DEF MarksInv
  <2>4. CASE mark \notin handled
    <3>1. handled' = handled \cup {Path(u)} /\ v.k = u.k /\ v.pc = "loop" /\ v.next = 1 /\ v.list = "deps"
      BY <1>0, <2>4 DEF Progress
    <3>2. Path(u) = mark
      BY <2>4, <3>1
    <3>3. Path(v) = Path(u) /\ u.p = mark[2]
      BY <1>2, <3>1, <3>2 DEF Path, Place
    <3>4. Ahead(v, q)
      <4>1. CASE q \in Range(Package[u.p].deps)
        <5>1. PICK i \in 1 .. Len(Package[u.p].deps) : q = Package[u.p].deps[i]
          BY <1>2, <4>1, PackageType DEF Range
        <5>2. QED
          BY <1>2, <3>1, <5>1 DEF Ahead, List
      <4>2. CASE "dev" \in cmd.options /\ q \in Range(Package[u.p].dev)
        BY <1>2, <3>1, <4>2 DEF Ahead
      <4>3. QED
        BY <2>1, <3>3, <4>1, <4>2 DEF DependsOn
    <3>5. QED
      BY <1>1, <2>2, <3>2, <3>3, <3>4
  <2>5. QED
    BY <2>3, <2>4
<1>8. RootsInv'
  <2>1. CASE calls = 0
    BY <2>1 DEF RootsInv, Kept
  <2>2. CASE calls # 0
    <3>1. ASSUME NEW r \in Roots, Found(r)
          PROVE  (HandledAt(r) \/ InHand(r))' \/ (todo # <<>> /\ \E a \in Range(Tail(todo)) : r = Begins(a))
      <4>1. r.where # "slug"
        BY <3>1, RootsType DEF BuildTypeOK, Requests
      <4>2. QED
        BY <1>5, <2>2, <3>1, <4>1 DEF RootsInv
    <3>2. QED
      BY <2>2, <3>1 DEF RootsInv, Kept, Roots, Found, FilesAt
  <2>3. QED
    BY <2>1, <2>2
<1>9. QED
  BY <1>6, <1>7, <1>8

(* A step that takes no busy thread away, and leaves the marks alone.      *)
LEMMA WalkKeeps ==
    ASSUME BuildTypeOK, BuildInv, NamesInv, MarksInv, UNCHANGED <<cmd, handled>>,
           \A x \in DOMAIN tasks : tasks[x].pc # "done" =>
              /\ x \in DOMAIN tasks' /\ tasks'[x].pc # "done"
              /\ tasks'[x].p = tasks[x].p /\ tasks'[x].where = tasks[x].where /\ tasks'[x].k = tasks[x].k,
           \A x \in DOMAIN tasks : \A q : Ahead(tasks[x], q) => Ahead(tasks'[x], q) \/ InHand(Dependency(q))'
    PROVE  /\ \A r : InHand(r) => InHand(r)'
           /\ \A r : HandledAt(r)' <=> HandledAt(r)
           /\ MarksInv'
<1>1. ASSUME NEW r, InHand(r)
      PROVE  InHand(r)'
  BY <1>1 DEF InHand
<1>2. \A r : HandledAt(r)' <=> HandledAt(r)
  BY DEF HandledAt, Place
<1>3. MarksInv'
  <2> SUFFICES ASSUME NEW mark \in handled, NEW q \in DependsOn(mark[2])', Found(Dependency(q))
               PROVE  \/ HandledAt(Dependency(q))' \/ InHand(Dependency(q))'
                      \/ \E x \in DOMAIN tasks' : Path(tasks'[x]) = mark /\ Ahead(tasks[x], q)'
    BY DEF MarksInv, Found, FilesAt, Path, Place, Dependency
  <2>1. q \in DependsOn(mark[2])
    BY DEF DependsOn
  <2>2. \A x : Ahead(tasks[x], q)' <=> Ahead(tasks'[x], q)
    BY DEF Ahead, List
  <2>3. CASE HandledAt(Dependency(q)) \/ InHand(Dependency(q))
    BY <1>1, <1>2, <2>3
  <2>4. CASE \E x \in DOMAIN tasks : Path(tasks[x]) = mark /\ Ahead(tasks[x], q)
    <3>1. PICK x \in DOMAIN tasks : Path(tasks[x]) = mark /\ Ahead(tasks[x], q)
      BY <2>4
    <3>2. x \in DOMAIN tasks' /\ Path(tasks'[x]) = mark
      BY <3>1 DEF Ahead, Path, Place
    <3>3. InHand(Dependency(q))' \/ Ahead(tasks'[x], q)
      BY <3>1
    <3>4. QED
      BY <2>2, <3>2, <3>3
  <2>5. QED
    BY <2>1, <2>3, <2>4 DEF MarksInv
<1>4. QED
  BY <1>1, <1>2, <1>3

(* A thread that starts one for the next name of its list.                 *)
LEMMA WalkSpawns ==
    ASSUME BuildTypeOK, BuildInv, NamesInv, MarksInv, RootsInv, NEW t \in DOMAIN tasks, Spawn(t)
    PROVE  NamesInv' /\ MarksInv' /\ RootsInv'
<1> DEFINE u == tasks[t]
<1> PICK late : late = List(u)[u.next]
  OBVIOUS
<1>0. PICK id \in Ids \ DOMAIN tasks :
         /\ DOMAIN tasks' = DOMAIN tasks \cup {id}
         /\ \A i \in DOMAIN tasks : i # t => tasks'[i] = tasks[i]
         /\ tasks'[id].k = 1 /\ tasks'[id].pc = "begin"
         /\ tasks'[id].p = late /\ tasks'[id].where = "dir"
         /\ tasks'[t].p = u.p /\ tasks'[t].where = u.where /\ tasks'[t].k = u.k
         /\ tasks'[t].list = u.list /\ tasks'[t].next = u.next + 1
         /\ u.pc = "loop" /\ tasks'[t].pc \in {"loop", "join"}
  BY SpawnTable
<1>1. u \in TaskType /\ u.p \in Packages /\ u.next \in Nat /\ u.next # 0 /\ Kept /\ handled' = handled
  BY DEF BuildTypeOK, TaskType, Spawn
<1>2. u.next <= Len(List(u)) /\ Len(List(u)) \in Nat
  BY <1>1, PositionType DEF Spawn, AtNext
<1>3. InHand(Dependency(late))'
  BY <1>0 DEF InHand, Dependency
<1>4. ASSUME NEW q, q # late, Ahead(u, q)
      PROVE  Ahead(tasks'[t], q)
  <2>1. List(tasks'[t]) = List(u)
    BY <1>0 DEF List
  <2>2. CASE \E i \in u.next .. Len(List(u)) : List(u)[i] = q
    <3>1. PICK i \in u.next .. Len(List(u)) : List(u)[i] = q
      BY <2>2
    <3>2. i \in u.next + 1 .. Len(List(u))
      BY <1>1, <1>2, <1>4, <3>1
    <3>3. QED
      BY <1>0, <2>1, <3>1, <3>2 DEF Ahead
  <2>3. CASE u.list = "deps" /\ "dev" \in cmd.options /\ q \in Range(Package[u.p].dev)
    BY <1>0, <2>3 DEF Ahead
  <2>4. QED
    BY <1>4, <2>2, <2>3 DEF Ahead
<1>5. \A x \in DOMAIN tasks : \A q : Ahead(tasks[x], q) => Ahead(tasks'[x], q) \/ InHand(Dependency(q))'
  <2> SUFFICES ASSUME NEW x \in DOMAIN tasks, NEW q, Ahead(tasks[x], q)
               PROVE  Ahead(tasks'[x], q) \/ InHand(Dependency(q))'
    OBVIOUS
  <2>1. CASE x = t
    BY <1>3, <1>4, <2>1
  <2>2. CASE x # t
    BY <1>0, <2>2
  <2>3. QED
    BY <2>1, <2>2
<1>6. \A x \in DOMAIN tasks : tasks[x].pc # "done" =>
              /\ x \in DOMAIN tasks' /\ tasks'[x].pc # "done"
              /\ tasks'[x].p = tasks[x].p /\ tasks'[x].where = tasks[x].where /\ tasks'[x].k = tasks[x].k
  <2> SUFFICES ASSUME NEW x \in DOMAIN tasks, tasks[x].pc # "done"
               PROVE  /\ x \in DOMAIN tasks' /\ tasks'[x].pc # "done"
                      /\ tasks'[x].p = tasks[x].p /\ tasks'[x].where = tasks[x].where
                      /\ tasks'[x].k = tasks[x].k
    OBVIOUS
  <2>1. CASE x = t
    BY <1>0, <2>1
  <2>2. CASE x # t
    BY <1>0, <2>2
  <2>3. QED
    BY <2>1, <2>2
<1>7. MarksInv' /\ (\A r : InHand(r) => InHand(r)') /\ (\A r : HandledAt(r)' <=> HandledAt(r))
  <2>1. UNCHANGED <<cmd, handled>>
    BY <1>1 DEF Kept
  <2>2. QED
    BY <1>5, <1>6, <2>1, WalkKeeps
<1>8. NamesInv'
  <2> SUFFICES ASSUME NEW x \in DOMAIN tasks', tasks'[x].where # "slug", Found(tasks'[x])
               PROVE  /\ tasks'[x].k = 2 /\ tasks'[x].where # "file" =>
                            ManifestNames[1] \notin FilesAt(tasks'[x].p, tasks'[x].where)
                      /\ tasks'[x].pc = "done" => HandledAt(tasks[x])'
    BY DEF NamesInv, Found, FilesAt
  <2>1. CASE x = id
    BY <1>0, <2>1
  <2>2. CASE x = t
    <3>1. u.where # "slug" /\ Found(u)
      BY <1>0, <2>2 DEF Found
    <3>2. QED
      BY <1>0, <2>2, <3>1 DEF NamesInv
  <2>3. CASE x # t /\ x # id
    <3>1. x \in DOMAIN tasks /\ tasks'[x] = tasks[x]
      BY <1>0, <2>3
    <3>2. HandledAt(tasks[x]) => HandledAt(tasks[x])'
      BY <1>1, <3>1 DEF HandledAt, Place
    <3>3. QED
      BY <3>1, <3>2 DEF NamesInv
  <2>4. QED
    BY <2>1, <2>2, <2>3
<1>9. RootsInv'
  <2>1. ASSUME NEW r, HandledAt(r) \/ InHand(r)
        PROVE  HandledAt(r)' \/ InHand(r)'
    BY <1>7, <2>1
  <2>2. QED
    BY <1>1, <2>1 DEF RootsInv, Kept, Roots, Found, FilesAt
<1>10. QED
  BY <1>7, <1>8, <1>9

(* An element of a sequence is its head or in its tail.                    *)
LEMMA HeadOrTail ==
    ASSUME NEW S, NEW s \in Seq(S), NEW q \in Range(s)
    PROVE  s # <<>> /\ (q = Head(s) \/ q \in Range(Tail(s)))
<1>1. PICK i \in 1 .. Len(s) : q = s[i]
  BY DEF Range
<1>2. s # <<>>
  BY <1>1
<1>3. CASE i = 1
  BY <1>1, <1>2, <1>3
<1>4. CASE i # 1
  <2>1. Tail(s) \in Seq(S) /\ Len(Tail(s)) = Len(s) - 1 /\ \A j \in 1 .. Len(s) - 1 : Tail(s)[j] = s[j + 1]
    BY <1>2
  <2>2. i - 1 \in 1 .. Len(Tail(s)) /\ Tail(s)[i - 1] = q
    BY <1>1, <1>4, <2>1
  <2>3. i - 1 \in DOMAIN Tail(s)
    BY <2>1, <2>2
  <2>4. q \in Range(Tail(s))
    BY <2>2, <2>3, Zenon DEF Range
  <2>5. QED
    BY <1>2, <2>4
<1>5. QED
  BY <1>3, <1>4

(* A step that changes none of what the walk is about.                     *)
LEMMA SameWalk ==
    ASSUME NamesInv, MarksInv, RootsInv, UNCHANGED <<cmd, todo, calls, tasks, handled>>
    PROVE  NamesInv' /\ MarksInv' /\ RootsInv'
<1>1. /\ \A r : (Found(r)' <=> Found(r)) /\ (HandledAt(r)' <=> HandledAt(r)) /\ (InHand(r)' <=> InHand(r))
      /\ \A p, where : FilesAt(p, where)' = FilesAt(p, where)
  BY DEF Found, FilesAt, HandledAt, Place, InHand
<1>2. NamesInv'
  BY DEF NamesInv, Found, FilesAt, HandledAt, Place
<1>3. MarksInv'
  <2>1. /\ \A p : DependsOn(p)' = DependsOn(p)
        /\ \A t : Path(tasks[t])' = Path(tasks[t]) /\ \A q : Ahead(tasks[t], q)' <=> Ahead(tasks[t], q)
        /\ \A q : Dependency(q)' = Dependency(q)
    BY DEF DependsOn, Path, Place, Ahead, List, Dependency
  <2>2. QED
    BY <1>1, <2>1 DEF MarksInv
<1>4. RootsInv'
  BY <1>1 DEF RootsInv, Roots
<1>5. QED
  BY <1>2, <1>3, <1>4

(* A call of main.                                                         *)
LEMMA WalkCalls ==
    ASSUME BuildTypeOK, BuildInv, NamesInv, MarksInv,
           NEW p \in Packages, NEW where \in Wheres, NEW k \in 1 .. 2, where # "file" => k = 1,
           Call(p, where, k), UNCHANGED <<cmd, handled>>, calls = 0 \/ tasks[<<calls>>].pc = "done"
    PROVE  /\ NamesInv' /\ MarksInv'
           /\ \A r : r.p = p /\ r.where = where /\ r.k = k => InHand(r)'
           /\ calls' \in Nat /\ calls' # 0
           /\ \A r : HandledAt(r) \/ InHand(r) => HandledAt(r)' \/ InHand(r)'
<1>0. PICK id, w : id = <<calls + 1>> /\ w = Task(p, where, k, "check")
  OBVIOUS
<1>1. /\ calls' = calls + 1 /\ DOMAIN tasks' = (DOMAIN tasks \ {<<calls>>}) \cup {id}
      /\ \A i \in DOMAIN tasks \ {<<calls>>} : tasks'[i] = tasks[i]
      /\ tasks'[id] = w /\ id \notin DOMAIN tasks
  BY <1>0, CallStep
<1>2. w.p = p /\ w.where = where /\ w.k = k /\ w.pc = "check"
  BY <1>0 DEF Task
<1>3. ASSUME NEW x \in DOMAIN tasks, tasks[x].pc # "done"
      PROVE  x \in DOMAIN tasks' /\ tasks'[x] = tasks[x]
  <2>1. x[1] \in 1 .. calls
    BY DEF BuildInv, IdInv
  <2>2. x # <<calls>>
    BY <1>3, <2>1
  <2>3. QED
    BY <1>1, <2>2
<1>4. \A x \in DOMAIN tasks : \A q : Ahead(tasks[x], q) => Ahead(tasks'[x], q)
  BY <1>3 DEF Ahead
<1>5. MarksInv' /\ (\A r : InHand(r) => InHand(r)') /\ (\A r : HandledAt(r)' <=> HandledAt(r))
  BY <1>3, <1>4, WalkKeeps
<1>6. NamesInv'
  <2> SUFFICES ASSUME NEW x \in DOMAIN tasks', tasks'[x].where # "slug", Found(tasks'[x])
               PROVE  /\ tasks'[x].k = 2 /\ tasks'[x].where # "file" =>
                            ManifestNames[1] \notin FilesAt(tasks'[x].p, tasks'[x].where)
                      /\ tasks'[x].pc = "done" => HandledAt(tasks[x])'
    BY DEF NamesInv, Found, FilesAt
  <2>1. CASE x = id
    BY <1>1, <1>2, <2>1
  <2>2. CASE x # id
    <3>1. x \in DOMAIN tasks /\ tasks'[x] = tasks[x]
      BY <1>1, <2>2
    <3>2. HandledAt(tasks[x]) => HandledAt(tasks[x])'
      BY <3>1 DEF HandledAt, Place
    <3>3. QED
      BY <3>1, <3>2 DEF NamesInv
  <2>3. QED
    BY <2>1, <2>2
<1>7. \A r : r.p = p /\ r.where = where /\ r.k = k => InHand(r)'
  BY <1>1, <1>2 DEF InHand
<1>8. calls' \in Nat /\ calls' # 0
  BY <1>1 DEF BuildTypeOK
<1>9. QED
  BY <1>5, <1>6, <1>7, <1>8

(* Only a file is asked for by its second name.                            *)
LEMMA BeginsName ==
    ASSUME NEW a, Begins(a).where # "file"
    PROVE  Begins(a).k = 1
BY DEF Begins

(* The main thread starts the walk of a command line.                      *)
LEMMA WalkMain ==
    ASSUME BuildTypeOK, BuildInv, WalkInv, BuildMain \/ ConfigureMain, missing = {}
    PROVE  NamesInv' /\ MarksInv' /\ RootsInv'
<1> DEFINE Ends(r) == todo' # <<>> /\ \E a \in Range(Tail(todo')) : r = Begins(a)
<1>1. NamesInv /\ MarksInv /\ RootsInv /\ todo \in Seq(Arguments) /\ UNCHANGED <<cmd, handled>>
  BY MainSteps DEF WalkInv, BuildTypeOK
<1>2. ASSUME calls' # 0, \A r \in Roots : Found(r) => HandledAt(r)' \/ InHand(r)' \/ Ends(r)
      PROVE  RootsInv'
  BY <1>1, <1>2 DEF Roots, RootsInv, Found, FilesAt
<1>3. Returned => calls # 0
  <2> SUFFICES ASSUME <<calls>> \in DOMAIN tasks, calls = 0
               PROVE  FALSE
    BY DEF Returned
  <2>1. <<calls>>[1] \in 1 .. calls
    BY DEF BuildInv, IdInv
  <2>2. QED
    BY <2>1
<1>4. CASE MainStarts
  <2>1. PICK a, s : a = (IF todo = <<>> THEN Dot ELSE Head(todo)) /\ s = Begins(a)
    OBVIOUS
  <2>2. s \in Requests /\ (s.where # "file" => s.k = 1)
    BY <1>1, <2>1, FirstArgument, BeginsType, BeginsName
  <2>3. /\ Call(s.p, s.where, s.k) /\ calls = 0 /\ s.p \in Packages /\ s.where \in Wheres /\ s.k \in 1 .. 2
        /\ todo' = todo
    BY <1>4, <2>1, <2>2 DEF MainStarts, CallFor, Requests
  <2>4. NamesInv' /\ MarksInv' /\ InHand(s)' /\ calls' # 0
    BY <1>1, <2>2, <2>3, WalkCalls
  <2>5. todo = cmd.args
    BY <1>1, <2>3 DEF RootsInv
  <2>6. ASSUME NEW r \in Roots
        PROVE  r = s \/ Ends(r)
    <3>1. CASE todo = <<>>
      BY <2>1, <2>5, <2>6, <3>1 DEF Roots
    <3>2. CASE todo # <<>>
      <4>1. PICK b \in Range(todo) : r = Begins(b)
        BY <2>5, <2>6, <3>2 DEF Roots
      <4>2. b = Head(todo) \/ b \in Range(Tail(todo))
        BY <1>1, <4>1, HeadOrTail
      <4>3. QED
        BY <2>1, <2>3, <3>2, <4>1, <4>2
    <3>3. QED
      BY <3>1, <3>2
  <2>7. RootsInv'
    BY <1>2, <2>4, <2>6
  <2>8. QED
    BY <2>4, <2>7
<1>5. CASE MainRetries
  <2>1. PICK s : s = tasks[<<calls>>]
    OBVIOUS
  <2>2. PICK where : where = Retried(s.where)
    OBVIOUS
  <2>3. Call(s.p, where, 1) /\ calls # 0 /\ s.pc = "done" /\ todo' = todo
    BY <1>3, <1>5, <2>1, <2>2 DEF MainRetries, Returned, Outcome
  <2>4. s.p \in Packages /\ where \in Wheres /\ 1 \in 1 .. 2
    BY <1>5, <2>1, <2>2 DEF MainRetries, Returned, BuildTypeOK, TaskType, Retried, Wheres
  <2>5. /\ NamesInv' /\ MarksInv' /\ calls' # 0
        /\ \A r : HandledAt(r) \/ InHand(r) => HandledAt(r)' \/ InHand(r)'
    BY <1>1, <2>1, <2>3, <2>4, WalkCalls
  <2>6. ASSUME NEW r \in Roots, Found(r)
        PROVE  HandledAt(r)' \/ InHand(r)' \/ Ends(r)
    BY <1>1, <2>3, <2>5, <2>6 DEF RootsInv
  <2>7. RootsInv'
    BY <1>2, <2>5, <2>6
  <2>8. QED
    BY <2>5, <2>7
<1>6. CASE MainGoesOn
  <2>1. PICK l, s : l = Tail(todo) /\ s = Begins(Head(l))
    OBVIOUS
  <2>2. l \in Seq(Arguments) /\ l # <<>> /\ Head(l) \in Arguments /\ todo' = l
    <3>1. todo' = Tail(todo) /\ Len(todo) > 1
      BY <1>6 DEF MainGoesOn
    <3>2. Tail(todo) \in Seq(Arguments) /\ Len(Tail(todo)) = Len(todo) - 1 /\ Len(todo) \in Nat
      BY <1>1, <3>1
    <3>3. l \in Seq(Arguments) /\ Len(l) # 0
      BY <2>1, <3>1, <3>2
    <3>4. todo' = l
      BY <2>1, <3>1
    <3>5. l # <<>> /\ Head(l) \in Arguments
      <4> HIDE DEF Arguments
      <4>1. QED
        BY ONLY <3>3
    <3>6. QED
      BY <3>3, <3>4, <3>5
  <2>3. s \in Requests /\ (s.where # "file" => s.k = 1)
    BY <2>1, <2>2, BeginsType, BeginsName
  <2>4. /\ Call(s.p, s.where, s.k) /\ calls # 0 /\ tasks[<<calls>>].pc = "done"
        /\ s.p \in Packages /\ s.where \in Wheres /\ s.k \in 1 .. 2
    BY <1>3, <1>6, <2>1, <2>2, <2>3 DEF MainGoesOn, CallFor, Returned, Requests
  <2>5. /\ NamesInv' /\ MarksInv' /\ InHand(s)' /\ calls' # 0
        /\ \A r : HandledAt(r) \/ InHand(r) => HandledAt(r)' \/ InHand(r)'
    BY <1>1, <2>3, <2>4, WalkCalls
  <2>6. ASSUME NEW r \in Roots, Found(r)
        PROVE  HandledAt(r)' \/ InHand(r)' \/ Ends(r)
    <3>1. CASE HandledAt(r) \/ InHand(r)
      BY <2>5, <3>1
    <3>2. CASE \E a \in Range(l) : r = Begins(a)
      <4>1. PICK a \in Range(l) : r = Begins(a)
        BY <3>2
      <4>2. a = Head(l) \/ a \in Range(Tail(l))
        BY <2>2, <4>1, HeadOrTail
      <4>3. QED
        BY <2>1, <2>2, <2>5, <4>1, <4>2
    <3>3. QED
      BY <1>1, <2>1, <2>4, <2>6, <3>1, <3>2 DEF RootsInv
  <2>7. RootsInv'
    BY <1>2, <2>5, <2>6
  <2>8. QED
    BY <2>5, <2>7
<1>7. CASE MainEnds
  <2>1. UNCHANGED <<cmd, todo, calls, tasks, handled, missing>>
    BY <1>7 DEF MainEnds
  <2>2. QED
    BY <1>1, <2>1, SameWalk
<1>8. QED
  BY <1>4, <1>5, <1>6, <1>7 DEF BuildMain, ConfigureMain

(* A step that leaves the tasks alone keeps the invariant of the walk.     *)
LEMMA WalkUnchanged ==
    ASSUME WalkInv, UNCHANGED <<cmd, todo, calls, tasks, handled>>, missing \subseteq missing'
    PROVE  missing' = {} => NamesInv' /\ MarksInv' /\ RootsInv'
<1> SUFFICES ASSUME missing' = {}
             PROVE  NamesInv' /\ MarksInv' /\ RootsInv'
  OBVIOUS
<1>1. NamesInv /\ MarksInv /\ RootsInv
  BY DEF WalkInv
<1>2. QED
  BY <1>1, SameWalk

(* Every step keeps the invariant of the walk.                             *)
LEMMA WalkStep ==
    ASSUME BuildTypeOK, BuildInv, WalkInv, [Next]_vars
    PROVE  WalkInv'
<1>1. CASE UNCHANGED vars
  <2>1. missing' = {} => NamesInv' /\ MarksInv' /\ RootsInv'
    BY <1>1, WalkUnchanged DEF vars
  <2>2. QED
    BY <1>1, <2>1 DEF WalkInv, vars
<1>2. CASE BuildMain \/ ConfigureMain
  <2>1. /\ UNCHANGED <<cmd, handled, missing>>
        /\ \/ UNCHANGED <<tasks, calls>>
           \/ \E p \in Packages, where \in Wheres, k \in 1 .. 2 : Call(p, where, k)
    BY <1>2, MainSteps
  <2>2. missing' = {} => NamesInv' /\ MarksInv' /\ RootsInv'
    BY <1>2, <2>1, WalkMain
  <2>3. ASSUME NEW t \in DOMAIN tasks', Len(t) = 1
        PROVE  t = <<calls'>>
    <3>1. CASE UNCHANGED <<tasks, calls>>
      BY <2>3, <3>1 DEF WalkInv
    <3>2. CASE \E p \in Packages, where \in Wheres, k \in 1 .. 2 : Call(p, where, k)
      <4>1. DOMAIN tasks' = (DOMAIN tasks \ {<<calls>>}) \cup {<<calls + 1>>} /\ calls' = calls + 1
        BY <2>1, <3>2, CallStep
      <4>2. QED
        BY <2>3, <4>1 DEF WalkInv
    <3>3. QED
      BY <2>1, <3>1, <3>2
  <2>4. ASSUME exit' = "zero"
        PROVE  <<calls'>> \in DOMAIN tasks' /\ tasks'[<<calls'>>].pc = "done" /\ Len(todo') <= 1
    <3>1. CASE MainEnds
      BY <3>1 DEF MainEnds, Returned
    <3>2. CASE MainStarts \/ MainRetries \/ MainGoesOn
      BY <2>4, <3>2 DEF MainStarts, MainRetries, MainGoesOn, Returned, CallFor, Call
    <3>3. QED
      BY <1>2, <3>1, <3>2 DEF BuildMain, ConfigureMain
  <2>5. QED
    BY <2>2, <2>3, <2>4 DEF WalkInv
<1>3. CASE \E t \in DOMAIN tasks : BuildPackage(t) \/ ConfigurePackage(t)
  <2>1. PICK t \in DOMAIN tasks : BuildPackage(t) \/ ConfigurePackage(t)
    BY <1>3
  <2>2. /\ Kept /\ handled \subseteq handled' /\ missing \subseteq missing' /\ exit' # "zero"
        /\ UNCHANGED <<tasks, handled>> \/ Spawn(t) \/ GoesOn(t)
    BY <2>1, TaskSteps
  <2>3. missing' = {} => NamesInv' /\ MarksInv' /\ RootsInv'
    <3> SUFFICES ASSUME missing' = {}
                 PROVE  NamesInv' /\ MarksInv' /\ RootsInv'
      OBVIOUS
    <3>1. NamesInv /\ MarksInv /\ RootsInv
      BY <2>2 DEF WalkInv
    <3>2. CASE UNCHANGED <<tasks, handled>>
      BY <2>2, <3>2, WalkUnchanged DEF Kept
    <3>3. CASE Spawn(t)
      BY <3>1, <3>3, WalkSpawns
    <3>4. CASE GoesOn(t)
      BY <2>2, <3>1, <3>4, WalkGoesOn
    <3>5. QED
      BY <2>2, <3>2, <3>3, <3>4
  <2>4. ASSUME NEW x \in DOMAIN tasks', Len(x) = 1
        PROVE  x = <<calls'>>
    <3>1. x \in DOMAIN tasks
      <4>1. CASE UNCHANGED tasks
        BY <4>1
      <4>2. CASE Spawn(t)
        <5>1. PICK id \in Ids \ DOMAIN tasks : DOMAIN tasks' = DOMAIN tasks \cup {id} /\ Len(id) # 1
          BY <4>2, SpawnTable
        <5>2. QED
          BY <2>4, <5>1
      <4>3. CASE GoesOn(t)
        BY <4>3 DEF GoesOn, Moves, Without
      <4>4. QED
        BY <2>2, <4>1, <4>2, <4>3
    <3>2. QED
      BY <2>2, <2>4, <3>1 DEF WalkInv, Kept
  <2>5. QED
    BY <2>2, <2>3, <2>4 DEF WalkInv
<1>4. QED
  BY <1>1, <1>2, <1>3 DEF Next

(* The invariant of the walk holds before the first command.               *)
LEMMA WalkStarts ==
    ASSUME Init
    PROVE  WalkInv
<1>1. DOMAIN tasks = {} /\ handled = {} /\ calls = 0 /\ todo = cmd.args /\ exit = "running"
  BY DEF Init, BuildInit, ConfigureInit, Parsed
<1>2. QED
  BY <1>1 DEF WalkInv, NamesInv, MarksInv, RootsInv

(* When the program has ended in success, no thread is left but the last   *)
(* one that main called.                                                   *)
LEMMA NoneLeft ==
    ASSUME BuildTypeOK, BuildInv, Windows, WalkInv, exit = "zero", missing = {}
    PROVE  \A t \in DOMAIN tasks : tasks[t].pc = "done"
<1> DEFINE Left == {t \in DOMAIN tasks : t # <<calls>>}
           Lengths == {Len(t) : t \in Left}
<1>1. tasks[<<calls>>].pc = "done"
  BY DEF WalkInv
<1>2. SUFFICES ASSUME Left # {}
               PROVE  FALSE
  BY <1>1
<1>3. Lengths \subseteq Nat /\ Lengths # {}
  <2>1. ASSUME NEW t \in Left
        PROVE  Len(t) \in Nat
    BY DEF BuildTypeOK, Ids
  <2>2. QED
    BY <1>2, <2>1
<1> HIDE DEF Lengths
<1>4. PICK m \in Lengths : \A n \in Lengths : m <= n
  BY <1>3, LeastNumber
<1>5. PICK t \in Left : m = Len(t)
  BY <1>4 DEF Lengths
<1>6. Len(t) # 1
  BY <1>5 DEF WalkInv
<1>7. PICK u \in DOMAIN tasks : t \in tasks[u].kids
  BY <1>6 DEF Windows
<1>8. TaskInv(u, tasks[u])
  BY DEF BuildInv
<1>9. u \in Left /\ Len(t) > Len(u)
  BY <1>1, <1>7, <1>8 DEF TaskInv
<1>10. Len(u) \in Lengths /\ Len(u) \in Nat /\ Len(t) \in Nat
  BY <1>9 DEF Lengths, BuildTypeOK, Ids
<1>11. QED
  BY <1>4, <1>5, <1>9, <1>10

(* What the packages of the command line depend on.                        *)
First == UNION {DependsOn(r.p) : r \in Roots}

(* The recursion of Needed, level by level.                                *)
LEMMA NeededLevels ==
    ASSUME cmd \in Commands
    PROVE  \E w : /\ Needed = w[Cardinality(Packages)] /\ w[0] = First
                  /\ \A n \in Nat : /\ w[n] \subseteq Packages
                                    /\ w[n + 1] = w[n] \cup UNION {DependsOn(p) : p \in w[n]}
<1> DEFINE Level(w) == w = [n \in Nat |-> IF n = 0 THEN First
                                          ELSE w[n - 1] \cup UNION {DependsOn(p) : p \in w[n - 1]}]
           S == SUBSET Packages
           step == [X \in S |-> X \cup UNION {DependsOn(p) : p \in X}]
<1>1. First \in S
  BY RootsType, PackageType DEF First, Requests
<1>2. step \in [S -> S]
  <2>1. ASSUME NEW X \in S
        PROVE  X \cup UNION {DependsOn(p) : p \in X} \in S
    BY PackageType
  <2>2. QED
    BY <2>1
<1>3. PICK f \in [Nat -> S] : f[0] = First /\ \A n \in Nat : f[n + 1] = step[f[n]]
  <2> HIDE DEF S, step
  <2>1. PICK T, a, g : T = S /\ a = First /\ g = step
    OBVIOUS
  <2>2. a \in T /\ g \in [T -> T]
    BY <1>1, <1>2, <2>1
  <2>3. \E f \in [Nat -> T] : f[0] = a /\ \A n \in Nat : f[n + 1] = g[f[n]]
    BY ONLY <2>2, Iteration, SMTT(60)
  <2>4. QED
    BY <2>1, <2>3
<1>4. \A n \in Nat : f[n] \in S /\ f[n + 1] = f[n] \cup UNION {DependsOn(p) : p \in f[n]}
  BY <1>3
<1>5. Level(f)
  <2>1. ASSUME NEW n \in Nat
        PROVE  f[n] = IF n = 0 THEN First ELSE f[n - 1] \cup UNION {DependsOn(p) : p \in f[n - 1]}
    <3>1. CASE n = 0
      BY <1>3, <3>1
    <3>2. CASE n # 0
      <4>1. n - 1 \in Nat /\ (n - 1) + 1 = n
        BY <3>2
      <4>2. QED
        BY <1>4, <3>2, <4>1
    <3>3. QED
      BY <3>1, <3>2
  <2>2. f = [n \in Nat |-> f[n]]
    BY <1>3
  <2>3. QED
    BY <2>1, <2>2
<1>6. PICK w : w = CHOOSE x : Level(x)
  OBVIOUS
<1>7. Level(w)
  <2> HIDE DEF Level
  <2>1. QED
    BY <1>5, <1>6
<1>8. Needed = w[Cardinality(Packages)]
  BY <1>6 DEF Needed, First
<1>9. w[0] = First /\ \A n \in Nat : w[n + 1] = w[n] \cup UNION {DependsOn(p) : p \in w[n]}
  <2>1. ASSUME NEW n \in Nat
        PROVE  w[n + 1] = w[n] \cup UNION {DependsOn(p) : p \in w[n]}
    <3>1. n + 1 \in Nat /\ n + 1 # 0 /\ (n + 1) - 1 = n
      OBVIOUS
    <3>2. QED
      BY <1>7, <3>1
  <2>2. w[0] = First
    BY <1>7
  <2>3. QED
    BY <2>1, <2>2
<1>10. \A n \in Nat : w[n] \subseteq Packages
  <2> DEFINE Out == {n \in Nat : ~(w[n] \subseteq Packages)}
  <2> SUFFICES ASSUME Out # {}
               PROVE  FALSE
    OBVIOUS
  <2>1. PICK n \in Out : \A m \in Out : n <= m
    <3>1. Out \subseteq Nat
      OBVIOUS
    <3> HIDE DEF Out
    <3>2. QED
      BY <3>1, LeastNumber
  <2>2. n # 0
    BY <1>1, <1>9, <2>1
  <2>3. n - 1 \in Nat /\ ~(n <= n - 1) /\ (n - 1) + 1 = n
    BY <2>2
  <2>4. w[n - 1] \subseteq Packages
    BY <2>1, <2>3
  <2>5. w[n] = w[n - 1] \cup UNION {DependsOn(p) : p \in w[n - 1]}
    BY <1>9, <2>3
  <2>6. QED
    BY <2>1, <2>4, <2>5, PackageType
<1>11. QED
  BY <1>8, <1>9, <1>10

(* Success means that the walk was complete: whatever the packages, the    *)
(* arguments, the size of the windows and the order of the threads, every  *)
(* package that is needed, at any depth, has been handled.                 *)
THEOREM EverythingIsHandled == Spec => []AllAreHandled
<1>1. ASSUME BuildTypeOK, BuildInv, Windows, WalkInv
      PROVE  AllAreHandled
  <2> DEFINE There(q) == Found(Dependency(q))
             IsHandled(q) == HandledAt(Dependency(q))
  <2> SUFFICES ASSUME exit = "zero", missing = {}, \A r \in Roots : Found(r), \A q \in Needed : There(q)
               PROVE  (\A r \in Roots : HandledAt(r)) /\ \A q \in Needed : IsHandled(q)
    BY DEF AllAreHandled, Found, FilesAt, Dependency, HandledAt, Place
  <2>1. PICK w : /\ Needed = w[Cardinality(Packages)] /\ w[0] = First
                 /\ \A n \in Nat : /\ w[n] \subseteq Packages
                                   /\ w[n + 1] = w[n] \cup UNION {DependsOn(q) : q \in w[n]}
    BY <1>1, NeededLevels DEF BuildTypeOK
  <2>2. PICK N \in Nat : N = Cardinality(Packages)
    BY CBuildPackages, FS_CardinalityType DEF Packages
  <2>3. \A t \in DOMAIN tasks : tasks[t].pc = "done"
    BY <1>1, NoneLeft
  <2>4. ASSUME NEW r \in Roots
        PROVE  HandledAt(r)
    <3>1. calls # 0
      <4>1. <<calls>> \in DOMAIN tasks /\ IdInv(<<calls>>)
        BY <1>1 DEF WalkInv, BuildInv
      <4>2. <<calls>>[1] \in 1 .. calls
        BY <4>1 DEF IdInv
      <4>3. QED
        BY <4>2
    <3>2. Len(todo) <= 1 /\ todo \in Seq(Arguments)
      BY <1>1 DEF WalkInv, BuildTypeOK
    <3>3. todo # <<>> => Range(Tail(todo)) = {}
      <4> SUFFICES ASSUME todo # <<>>
                   PROVE  Range(Tail(todo)) = {}
        OBVIOUS
      <4>1. Tail(todo) \in Seq(Arguments) /\ Len(Tail(todo)) = Len(todo) - 1 /\ Len(todo) \in Nat
        BY <3>2
      <4>2. DOMAIN Tail(todo) = {}
        BY <3>2, <4>1
      <4>3. QED
        BY <4>2, Zenon DEF Range
    <3>4. QED
      BY <1>1, <2>3, <2>4, <3>1, <3>3 DEF WalkInv, RootsInv, InHand
  <2>5. ASSUME NEW mark \in handled, NEW q \in DependsOn(mark[2]), There(q)
        PROVE  IsHandled(q)
    BY <1>1, <2>3, <2>5 DEF WalkInv, MarksInv, InHand, Ahead
  <2>5b. ASSUME NEW r, HandledAt(r), NEW q \in DependsOn(r.p), There(q)
         PROVE  IsHandled(q)
    <3>1. PICK name \in Range(ManifestNames) : <<Place(r), r.p, name>> \in handled
      BY <2>5b DEF HandledAt
    <3>2. <<Place(r), r.p, name>>[2] = r.p
      OBVIOUS
    <3>3. QED
      BY <2>5, <2>5b, <3>1, <3>2
  <2>6. ASSUME NEW n \in Nat, NEW m \in Nat, n <= m
        PROVE  w[n] \subseteq w[m]
    <3> DEFINE Smaller == {l \in Nat : n <= l /\ ~(w[n] \subseteq w[l])}
    <3> SUFFICES ASSUME Smaller # {}
                 PROVE  FALSE
      BY <2>6
    <3>1. PICK l \in Smaller : \A k \in Smaller : l <= k
      <4>1. Smaller \subseteq Nat
        OBVIOUS
      <4> HIDE DEF Smaller
      <4>2. QED
        BY <4>1, LeastNumber
    <3>2. l # n /\ l \in Nat /\ n <= l
      BY <3>1
    <3>3. l - 1 \in Nat /\ n <= l - 1 /\ ~(l <= l - 1) /\ (l - 1) + 1 = l
      BY <3>2
    <3>4. w[n] \subseteq w[l - 1]
      BY <3>1, <3>3
    <3>5. w[l] = w[l - 1] \cup UNION {DependsOn(q) : q \in w[l - 1]}
      BY <2>1, <3>3
    <3>6. QED
      BY <3>1, <3>4, <3>5
  <2>7. \A n \in Nat : n <= N => \A q \in w[n] : IsHandled(q)
    <3> DEFINE Open == {n \in Nat : n <= N /\ \E q \in w[n] : ~IsHandled(q)}
    <3> SUFFICES ASSUME Open # {}
                 PROVE  FALSE
      OBVIOUS
    <3>1. PICK n \in Open : \A m \in Open : n <= m
      <4>1. Open \subseteq Nat
        OBVIOUS
      <4> HIDE DEF Open
      <4>2. QED
        BY <4>1, LeastNumber
    <3>2. PICK q \in w[n] : ~IsHandled(q)
      BY <3>1
    <3>3. There(q)
      BY <2>1, <2>2, <2>6, <3>1, <3>2
    <3>4. n # 0
      <4>1. SUFFICES ASSUME n = 0
                     PROVE  FALSE
        OBVIOUS
      <4>2. PICK r \in Roots : q \in DependsOn(r.p)
        BY <2>1, <3>2, <4>1 DEF First
      <4>3. QED
        BY <2>4, <2>5b, <3>2, <3>3, <4>2
    <3>5. n - 1 \in Nat /\ n - 1 <= N /\ ~(n <= n - 1) /\ (n - 1) + 1 = n
      BY <2>2, <3>1, <3>4
    <3>6. \A x \in w[n - 1] : IsHandled(x)
      BY <3>1, <3>5
    <3>7. w[n] = w[n - 1] \cup UNION {DependsOn(x) : x \in w[n - 1]} /\ w[n - 1] \subseteq Packages
      BY <2>1, <3>5
    <3>8. PICK x \in w[n - 1] : q \in DependsOn(x)
      BY <3>2, <3>6, <3>7
    <3>9. IsHandled(x) /\ Dependency(x).p = x
      BY <3>6, <3>8 DEF Dependency
    <3>10. QED
      BY <2>5b, <3>2, <3>3, <3>8, <3>9
  <2>8. QED
    BY <2>1, <2>2, <2>4, <2>7
<1>2. Init => Windows
  BY DEF Init, BuildInit, ConfigureInit, Parsed, Windows
<1>3. BuildTypeOK /\ BuildInv /\ Windows /\ [Next]_vars => Windows'
  BY WindowsStep
<1>4. Init => WalkInv
  BY WalkStarts
<1>5. BuildTypeOK /\ BuildInv /\ WalkInv /\ [Next]_vars => WalkInv'
  BY WalkStep
<1>6. QED
  BY <1>1, <1>2, <1>3, <1>4, <1>5, BuildInvariant, PTL DEF Spec
=============================================================================
