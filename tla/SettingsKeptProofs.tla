-------------------------- MODULE SettingsKeptProofs --------------------------
(***************************************************************************)
(* Proofs about SettingsStore, for every set of values, of threads and of  *)
(* requests, while no writer has overtaken another: what is stored in      *)
(* settings.yaml stays stored, and the memory, config.yaml and Mihomo      *)
(* follow it.                                                              *)
(***************************************************************************)
EXTENDS SettingsStoreProofs

(***************************************************************************)
(* What a task and settings.yaml say of each other.                        *)
(***************************************************************************)
\* A whole settings.yaml, and what it says of a field.
WholeFile == {NoFile, Empty} \cup SettingsData
Of(b, k) == IF b \in {NoFile, Empty} THEN None ELSE b[k]

\* The fields that the save under way decides.
Decided(r) ==
  IF r.mode # None THEN {"mode"}
  ELSE IF r.op \in {"ports", "tun"} THEN {r.field, "api_host", "api_port", "service_port"}
  ELSE {r.field}

\* The settings a task is about to write agree with the file, but for what the
\* task decides; before the merge they may leave a field open.
Agrees(b, r) ==
  /\ \A f \in Fields \ Decided(r) :
       r.data[f] = Of(b, f) \/ (Head(r.todo) = "merge" /\ r.data[f] = None)
  /\ r.mode # None => r.data["mode"] = r.mode
  /\ r.mode = None /\ r.op \in Replying /\ r.field \in Fields /\ r.value # None =>
       r.data[r.field] = r.value
  /\ r.mode = None /\ r.op \in {"ports", "tun"} =>
       r.data["api_port"] # None /\ Of(b, "api_port") \in {None, r.data["api_port"]}

\* So does what the client keeps, but for what it drops and sets itself.
ClientAgrees(b, r) ==
  /\ \A f \in ClientDrops : r.client[f] = None
  /\ \A f \in Fields \ ClientDrops :
       \/ r.client[f] = Of(b, f)
       \/ f = "tun" /\ Of(b, f) = None
       \/ f = "mode" /\ r.op = "cli_mode"

\* What a task has saved, or will.
SavedOk(b, r) ==
  /\ r.op \in Replying /\ r.field \in Fields /\ r.value # None =>
       Of(b, r.field) = r.value \/ (r.mode = None /\ Unsaved(r.todo))
  /\ r.mode # None => \/ Of(b, "mode") = r.mode
                      \/ r.op \notin Starters /\ Unsaved(r.todo)

\* What a task that was not overtaken holds of the file, at the step s.
Fresh(b, r, s) ==
  /\ s \in {"merge", "truncate", "write", "rename"} => Agrees(b, r)
  /\ r.client # None => ClientAgrees(b, r)
  /\ s = "store" => r.data = b

TaskOk(b, r) ==
  LET s == Head(r.todo) IN
  /\ ~r.stale => Fresh(b, r, s)
  /\ s = "merge" /\ r.op = "dns" => \A f \in Fields \ {"dns"} : r.data[f] = None
  /\ s = "finish" => r.value = Of(b, "auto")
  /\ SavedOk(b, r)

(***************************************************************************)
(* The invariant.  There is a whole file b that says what was promised: it *)
(* is the file, or what the file was before somebody truncated it.         *)
(***************************************************************************)
Writing == \E u \in Active : Head(task[u].todo) \in {"write", "cli_write"}

\* The memory may differ from the file while a writer has not loaded it yet.
Loading(k) ==
  \E u \in Active : k \in Touches(task[u].op, task[u].field) /\ Head(task[u].todo) \in {"load", "store"}

FileIs(b) == settings \in {b, Empty} /\ (settings = b \/ Writing)
Promised(b) == \A f \in Fields : promise[f] # None => Of(b, f) = promise[f]
Remembered(b) ==
  phase # "down" =>
    \A k \in {"api_port", "auto"} : Of(b, k) # None /\ ~Loading(k) => memory[k] = Of(b, k)
TasksOk(b) == \A t \in Active : TaskOk(b, task[t])

\* Nobody is promised what a task is about to decide.
PromisesOwn ==
  \A t \in Active :
    LET r == task[t] IN
    /\ r.op \in Replying => \A f \in Resets(r.op, r.field) \cap Fields : promise[f] = None
    /\ r.op \in SetsMode => promise["mode"] \in {None, r.value}

Apart ==
  \A t, u \in Active : t # u =>
    Touches(task[t].op, task[t].field) \cap Touches(task[u].op, task[u].field) = {}

Held(b) == FileIs(b) /\ Promised(b) /\ Remembered(b) /\ TasksOk(b) /\ PromisesOwn /\ Apart

OrderedInv == \A t \in Active : Ordered(task[t])
FileInv == phase # "down" => settings # NoFile

Sound == OrderedInv /\ FileInv /\ (calm => \E b \in WholeFile : Held(b))

-----------------------------------------------------------------------------
(***************************************************************************)
(* What a task says of a file, after it has taken a step that does not     *)
(* concern settings.yaml, after another one has overtaken it, or when its  *)
(* operation is cut short.                                                 *)
(***************************************************************************)
LEMMA SavedTail ==
  ASSUME NEW b, NEW q \in Task, Fits(q), SavedOk(b, q),
         Head(q.todo) \notin {"reply", "finish", "write", "rename"},
         NEW n, Kin(n, q), n.mode = q.mode, n.todo = Tail(q.todo)
  PROVE  SavedOk(b, n)
<1>1. Unsaved(q.todo) => Unsaved(n.todo)
  BY UnsavedTail DEF Fits
<1> QED BY <1>1 DEF SavedOk, Kin, Replying

LEMMA SavedStop ==
  ASSUME NEW b, NEW q \in Task, Fits(q), SavedOk(b, q), Head(q.todo) \in Stops
  PROVE  /\ q.op \in Replying /\ q.field \in Fields /\ q.value # None => Of(b, q.field) = q.value
         /\ q.mode # None => Of(b, "mode") = q.mode
<1>1. ~Unsaved(q.todo)
  BY SavedAt DEF Fits
<1> QED BY <1>1 DEF SavedOk

\* Steps that neither read nor write settings.yaml for a save, nor change the mode.
Aside == {"read_config", "cut_config", "write_config", "rename_config", "overrides", "truncate",
          "cli_truncate", "spawn", "record", "resume", "select", "patch_mode", "store"}

LEMMA AsideOk ==
  ASSUME NEW b, NEW q \in Task, Fits(q), TaskOk(b, q), Head(q.todo) \in Aside,
         NEW n, Kin(n, q), n.mode = q.mode, n.client = q.client, n.todo = Tail(q.todo),
         ~n.stale /\ q.stale => n.client = None /\ Head(q.todo) # "truncate",
         Head(q.todo) = "truncate" => n.data = q.data
  PROVE  TaskOk(b, n)
<1> DEFINE s == Head(q.todo)
           z == Head(n.todo)
<1>1. z \in Successors(s) /\ s \notin {"reply", "finish", "write", "rename"}
  BY TailIs DEF Fits, Aside
<1>2. SavedOk(b, n)
  BY <1>1, SavedTail DEF TaskOk
<1>3. z \notin {"merge", "truncate", "rename", "store", "finish"} /\ (z = "write" => s = "truncate")
  BY <1>1 DEF Successors, Aside
<1> HIDE DEF s, z
<1>4. ASSUME ~n.stale, z = "write" PROVE Agrees(b, n)
  <2>1. ~q.stale /\ s = "truncate" /\ n.data = q.data
    BY <1>3, <1>4 DEF s
  <2>2. Agrees(b, q)
    BY <2>1 DEF TaskOk, Fresh, s
  <2> QED BY <1>4, <2>1, <2>2 DEF Agrees, Kin, Decided, Replying, s, z
<1>5. ASSUME ~n.stale, n.client # None PROVE ClientAgrees(b, n)
  <2>1. ~q.stale /\ q.client # None
    BY <1>5
  <2>2. ClientAgrees(b, q)
    BY <2>1 DEF TaskOk, Fresh
  <2> QED BY <2>2 DEF ClientAgrees, Kin
<1>6. ~n.stale => Fresh(b, n, z)
  BY <1>3, <1>4, <1>5 DEF Fresh
<1> QED BY <1>2, <1>3, <1>6 DEF TaskOk, z

\* The same task, but for the mark that it was overtaken.
Marked(n, q, passed) ==
  /\ Kin(n, q) /\ n.value = q.value /\ n.mode = q.mode /\ n.todo = q.todo /\ n.data = q.data /\ n.client = q.client
  /\ q.stale \/ passed => n.stale

LEMMA MarkedOk ==
  ASSUME NEW q, NEW n, NEW p, Marked(n, q, p)
  PROVE  /\ Ordered(q) => Ordered(n)
         /\ \A b : TaskOk(b, q) => TaskOk(b, n)
<1>1. Ordered(q) => Ordered(n)
  BY DEF Marked, Kin, Ordered, ModeToCome
<1>2. ASSUME NEW b, TaskOk(b, q) PROVE TaskOk(b, n)
  <2>1. SavedOk(b, n)
    BY <1>2 DEF Marked, Kin, TaskOk, SavedOk
  <2>2. ~n.stale => ~q.stale
    BY DEF Marked
  <2>3. Agrees(b, q) => Agrees(b, n)
    BY DEF Marked, Kin, Agrees, Decided
  <2>4. n.client # None /\ ClientAgrees(b, q) => ClientAgrees(b, n)
    BY DEF Marked, Kin, ClientAgrees
  <2>5. ~n.stale => Fresh(b, n, Head(n.todo))
    BY <1>2, <2>2, <2>3, <2>4 DEF Marked, TaskOk, Fresh
  <2> QED BY <1>2, <2>1, <2>5 DEF TaskOk, Marked, Kin
<1> QED BY <1>1, <1>2

\* An error in a start leaves the rest of it.
LEMMA CutOk ==
  ASSUME NEW q \in Task, Fits(q), Ordered(q), Head(q.todo) \notin {"reply", "finish"},
         "allow_lan" \in ToSet(q.todo), "restore" \notin ToSet(Tail(q.todo)),
         NEW n, n = [q EXCEPT !.todo = <<"allow_lan", "reply">>]
  PROVE  Ordered(n) /\ Kin(n, q) /\ \A b : TaskOk(b, q) => TaskOk(b, n)
<1>1. q.op \in Starters /\ q.op \notin ClientOps /\ q.op # "test"
  BY DEF Ordered, Orderly, Starters, ClientOps
<1>2. Ordered(n) /\ Kin(n, q) /\ n.mode = q.mode /\ n.client = q.client /\ n.stale = q.stale
  BY <1>1, OrderedCut
<1>3. Head(n.todo) = "allow_lan"
  <2>1. n.todo = <<"allow_lan", "reply">>
    BY DEF Task
  <2> QED BY <2>1
<1>4. n.client = None
  BY <1>1, <1>2 DEF Ordered, Kin
<1>5. ASSUME NEW b, TaskOk(b, q) PROVE TaskOk(b, n)
  <2>1. CASE q.mode = None
    <3>1. Head(q.todo) \in {"allow_lan", "restore"}
      <4>1. ToSet(q.todo) \subseteq {Head(q.todo)} \cup ToSet(Tail(q.todo))
        BY TailSet DEF Fits
      <4>2. Head(q.todo) = "allow_lan" \/ "restore" \in ToSet(q.todo)
        BY <2>1 DEF Ordered, ModeToCome
      <4> QED BY <4>1, <4>2
    <3>2. q.op \in Replying /\ q.field \in Fields /\ q.value # None => Of(b, q.field) = q.value
      BY <1>5, <3>1, SavedStop DEF TaskOk, Stops
    <3>3. SavedOk(b, n)
      BY <1>2, <2>1, <3>2 DEF SavedOk, Kin
    <3> QED BY <1>3, <1>4, <3>3 DEF TaskOk, Fresh
  <2>2. CASE q.mode # None
    <3>1. /\ q.op \in Replying /\ q.field \in Fields /\ q.value # None => Of(b, q.field) = q.value
          /\ Of(b, "mode") = q.mode
      BY <1>1, <1>5, <2>2 DEF TaskOk, SavedOk
    <3>2. SavedOk(b, n)
      BY <1>2, <3>1 DEF SavedOk, Kin
    <3> QED BY <1>3, <1>4, <3>2 DEF TaskOk, Fresh
  <2> QED BY <2>1, <2>2
<1> QED BY <1>2, <1>5

\* So does a start that finds Mihomo running.
LEMMA SkipOk ==
  ASSUME NEW q \in Task, Fits(q), Ordered(q), Head(q.todo) = "spawn",
         NEW n, n = [q EXCEPT !.todo = <<"reply">>]
  PROVE  Ordered(n) /\ Kin(n, q) /\ \A b : TaskOk(b, q) => TaskOk(b, n)
<1>1. q.op # "test"
  <2>1. "spawn" \in ToSet(q.todo)
    BY TailSet DEF Fits
  <2> QED BY <2>1 DEF Ordered, Orderly
<1>2. Ordered(n) /\ Kin(n, q) /\ n.mode = q.mode /\ n.client = q.client /\ n.stale = q.stale
  BY <1>1, OrderedCut
<1>3. Head(n.todo) = "reply"
  <2>1. n.todo = <<"reply">>
    BY DEF Task
  <2> QED BY <2>1
<1>4. ASSUME NEW b, TaskOk(b, q) PROVE TaskOk(b, n)
  <2>1. /\ q.op \in Replying /\ q.field \in Fields /\ q.value # None => Of(b, q.field) = q.value
        /\ q.mode # None => Of(b, "mode") = q.mode
    BY <1>4, SavedStop DEF TaskOk, Stops
  <2>2. SavedOk(b, n)
    BY <1>2, <2>1 DEF SavedOk, Kin
  <2>3. ~n.stale => Fresh(b, n, "reply")
    BY <1>2, <1>4 DEF TaskOk, Fresh, ClientAgrees, Kin
  <2> QED BY <1>3, <2>2, <2>3 DEF TaskOk
<1> QED BY <1>2, <1>4

-----------------------------------------------------------------------------
(***************************************************************************)
(* One task goes on to n; those of `passed` are marked as overtaken.       *)
(***************************************************************************)
Moves(t, n, passed) ==
  /\ passed \in SUBSET Active /\ n \in Task \cup {Idle}
  /\ task' = [u \in Tasks |-> IF u = t THEN n
                              ELSE IF u \in passed THEN [task[u] EXCEPT !.stale = TRUE]
                              ELSE task[u]]

LEMMA AdvanceMoves ==
  ASSUME NEW t, NEW r, After(r) \in Task, NEW passed \in SUBSET Active, Advance(t, r, passed)
  PROVE  Moves(t, After(r), passed)
BY DEF Advance, After, Moves

LEMMA StepMoves ==
  ASSUME NEW t, NEW r, After(r) \in Task, Step(t, r)
  PROVE  Moves(t, After(r), {})
BY AdvanceMoves DEF Step

LEMMA ExceptMoves ==
  ASSUME Typed, NEW t \in Tasks, NEW n \in Task \cup {Idle}, task' = [task EXCEPT ![t] = n]
  PROVE  Moves(t, n, {})
<1>1. task \in [Tasks -> Task \cup {Idle}]
  BY DEF Typed, TypeOK
<1>2. task' = [u \in Tasks |-> IF u = t THEN n
                               ELSE IF u \in {} THEN [task[u] EXCEPT !.stale = TRUE]
                               ELSE task[u]]
  BY <1>1
<1> QED BY <1>2 DEF Moves

LEMMA Moved ==
  ASSUME Typed, NEW t \in Tasks, NEW n, NEW passed, Moves(t, n, passed)
  PROVE  /\ task'[t] = n
         /\ t \in Active' <=> n # Idle
         /\ \A u \in Tasks \ {t} : /\ u \in Active' <=> u \in Active
                                   /\ u \in Active => Marked(task'[u], task[u], u \in passed)
<1>1. task'[t] = n
  BY DEF Moves
<1>2. t \in Active' <=> n # Idle
  BY <1>1 DEF Active
<1>3. ASSUME NEW u \in Tasks \ {t}, u \in passed
      PROVE  u \in Active /\ u \in Active' /\ Marked(task'[u], task[u], u \in passed)
  <2> DEFINE q == task[u]
             m == [q EXCEPT !.stale = TRUE]
  <2>1. u \in Active /\ q \in Task
    BY <1>3, ActiveTask DEF Moves
  <2>2. task'[u] = m
    BY <1>3 DEF Moves
  <2> HIDE DEF q
  <2>3. /\ m \in Task /\ m.todo = q.todo /\ m.op = q.op /\ m.field = q.field /\ m.value = q.value
        /\ m.mode = q.mode /\ m.data = q.data /\ m.client = q.client /\ m.stale = TRUE
    BY <2>1 DEF Task
  <2> HIDE DEF m
  <2>4. u \in Active'
    BY <1>3, <2>2, <2>3, IdleAssumption DEF Active
  <2>5. Marked(m, q, u \in passed)
    BY <2>3 DEF Marked, Kin
  <2> QED BY <2>1, <2>2, <2>4, <2>5 DEF q
<1>4. ASSUME NEW u \in Tasks \ {t}, u \notin passed
      PROVE  (u \in Active' <=> u \in Active) /\ Marked(task'[u], task[u], u \in passed)
  <2>1. task'[u] = task[u]
    BY <1>4 DEF Moves
  <2> QED BY <1>4, <2>1 DEF Active, Marked, Kin
<1> QED BY <1>1, <1>2, <1>3, <1>4

LEMMA OrderedMoved ==
  ASSUME Typed, OrderedInv, NEW t \in Tasks, NEW n, NEW passed, Moves(t, n, passed),
         n = Idle \/ Ordered(n)
  PROVE  OrderedInv'
<1>1. ASSUME NEW u \in Active' PROVE Ordered(task'[u])
  <2>1. CASE u = t
    BY <1>1, <2>1, Moved
  <2>2. CASE u # t
    <3>1. u \in Tasks \ {t}
      BY <1>1, <2>2 DEF Active
    <3>2. u \in Active /\ Marked(task'[u], task[u], u \in passed)
      BY <1>1, <3>1, Moved
    <3>3. Ordered(task[u])
      BY <3>2 DEF OrderedInv
    <3> QED BY <3>2, <3>3, MarkedOk
  <2> QED BY <2>1, <2>2
<1> QED BY <1>1 DEF OrderedInv

\* The tasks other than t say of c what they said of b.
OthersOk(c, t) == \A u \in Active \ {t} : TaskOk(c, task[u])

LEMMA TasksMoved ==
  ASSUME Typed, NEW b, NEW t \in Tasks, OthersOk(b, t), NEW n, NEW passed,
         Moves(t, n, passed), n = Idle \/ TaskOk(b, n)
  PROVE  TasksOk(b)'
<1>1. ASSUME NEW u \in Active' PROVE TaskOk(b, task'[u])
  <2>1. CASE u = t
    BY <1>1, <2>1, Moved
  <2>2. CASE u # t
    <3>1. u \in Tasks \ {t}
      BY <1>1, <2>2 DEF Active
    <3>2. u \in Active /\ Marked(task'[u], task[u], u \in passed)
      BY <1>1, <3>1, Moved
    <3>3. TaskOk(b, task[u])
      BY <2>2, <3>2 DEF OthersOk
    <3> QED BY <3>2, <3>3, MarkedOk
  <2> QED BY <2>1, <2>2
<1> QED BY <1>1 DEF TasksOk

\* Who is active was, with the same request.
LEMMA KinMoved ==
  ASSUME Typed, NEW t \in Active, NEW n, NEW passed, Moves(t, n, passed),
         n = Idle \/ Kin(n, task[t]), NEW u \in Active'
  PROVE  u \in Active /\ Kin(task'[u], task[u])
<1>1. t \in Tasks
  BY DEF Active
<1>2. CASE u = t
  BY <1>1, <1>2, Moved
<1>3. CASE u # t
  <2>1. u \in Tasks \ {t}
    BY <1>3 DEF Active
  <2> QED BY <1>1, <2>1, Moved DEF Marked
<1> QED BY <1>2, <1>3

LEMMA ApartMoved ==
  ASSUME Typed, Apart, NEW t \in Active, NEW n, NEW passed, Moves(t, n, passed),
         n = Idle \/ Kin(n, task[t])
  PROVE  Apart'
<1>1. \A u \in Active' : u \in Active /\ task'[u].op = task[u].op /\ task'[u].field = task[u].field
  BY KinMoved DEF Kin
<1>2. ASSUME NEW u \in Active', NEW v \in Active', u # v
      PROVE  Touches(task'[u].op, task'[u].field) \cap Touches(task'[v].op, task'[v].field) = {}
  BY <1>1, <1>2 DEF Apart
<1> QED BY <1>2 DEF Apart

LEMMA OwnMoved ==
  ASSUME Typed, PromisesOwn, NEW t \in Active, NEW n, NEW passed, Moves(t, n, passed),
         n = Idle \/ Kin(n, task[t]), \A f \in Fields : promise'[f] \in {promise[f], None}
  PROVE  PromisesOwn'
<1>1. "mode" \in Fields /\ "test" \notin SetsMode
  BY DEF Fields, SetsMode
<1>2. \A u \in Active' : u \in Active /\ Kin(task'[u], task[u])
  BY KinMoved
<1>3. ASSUME NEW u \in Active'
      PROVE  /\ task'[u].op \in Replying =>
                  \A f \in Resets(task'[u].op, task'[u].field) \cap Fields : promise'[f] = None
             /\ task'[u].op \in SetsMode => promise'["mode"] \in {None, task'[u].value}
  BY <1>1, <1>2, <1>3 DEF PromisesOwn, Kin
<1> QED BY <1>3 DEF PromisesOwn

LEMMA WritingMoved ==
  ASSUME Typed, NEW t \in Tasks, NEW n, NEW passed, Moves(t, n, passed), Writing,
         t \in Active => Head(task[t].todo) \notin {"write", "cli_write"}
  PROVE  Writing'
<1>1. PICK u \in Active : Head(task[u].todo) \in {"write", "cli_write"}
  BY DEF Writing
<1>2. u \in Tasks \ {t}
  BY <1>1 DEF Active
<1>3. u \in Active' /\ task'[u].todo = task[u].todo
  BY <1>2, Moved DEF Marked
<1> QED BY <1>1, <1>3 DEF Writing

LEMMA LoadingMoved ==
  ASSUME Typed, NEW t \in Tasks, NEW n, NEW passed, Moves(t, n, passed), NEW k, Loading(k),
         \/ t \notin Active
         \/ k \notin Touches(task[t].op, task[t].field)
         \/ Head(task[t].todo) \notin {"load", "store"}
         \/ n # Idle /\ Kin(n, task[t]) /\ Head(n.todo) = "store"
  PROVE  Loading(k)'
<1>1. PICK u \in Active : /\ k \in Touches(task[u].op, task[u].field)
                          /\ Head(task[u].todo) \in {"load", "store"}
  BY DEF Loading
<1>2. CASE u = t
  <2>1. u \in Active' /\ Kin(task'[u], task[u]) /\ Head(task'[u].todo) = "store"
    BY <1>1, <1>2, Moved
  <2> QED BY <1>1, <2>1 DEF Loading, Kin
<1>3. CASE u # t
  <2>1. u \in Tasks \ {t}
    BY <1>1, <1>3 DEF Active
  <2>2. u \in Active' /\ Marked(task'[u], task[u], u \in passed)
    BY <1>1, <2>1, Moved
  <2> QED BY <1>1, <2>2 DEF Loading, Marked, Kin
<1> QED BY <1>2, <1>3

\* The memory is told what the file says, or left alone.
MemoryOk(b, t) ==
  \A k \in {"api_port", "auto"} :
    \/ Of(b, k) = None
    \/ memory'[k] = Of(b, k)
    \/ memory'[k] = memory[k] /\ Head(task[t].todo) # "store"

\* A step of a task that leaves settings.yaml as it is.
LEMMA AsideFile ==
  ASSUME Typed, NEW b, Held(b), NEW t \in Active, NEW n, NEW passed, Moves(t, n, passed),
         settings' = settings, MemoryOk(b, t), phase' = phase \/ phase' = "up",
         Head(task[t].todo) \notin {"write", "cli_write"},
         Head(task[t].todo) = "load" => n # Idle /\ Head(n.todo) = "store",
         n = Idle \/ (Kin(n, task[t]) /\ TaskOk(b, n))
  PROVE  FileIs(b)' /\ Remembered(b)' /\ TasksOk(b)' /\ Apart'
<1>1. t \in Tasks /\ phase # "down"
  BY ActiveTask
<1>2. FileIs(b)'
  <2>1. Writing => Writing'
    BY <1>1, WritingMoved
  <2> QED BY <2>1 DEF Held, FileIs
<1>3. Remembered(b)'
  <2>1. ASSUME NEW k \in {"api_port", "auto"}, Of(b, k) # None, ~Loading(k)'
        PROVE  memory'[k] = Of(b, k)
    <3>1. CASE memory'[k] = memory[k] /\ Head(task[t].todo) # "store"
      <4>1. ~Loading(k)
        BY <1>1, <2>1, <3>1, LoadingMoved
      <4> QED BY <1>1, <2>1, <3>1, <4>1 DEF Held, Remembered
    <3> QED BY <2>1, <3>1 DEF MemoryOk
  <2> QED BY <2>1 DEF Remembered
<1>4. OthersOk(b, t)
  BY DEF Held, TasksOk, OthersOk
<1>5. TasksOk(b)'
  BY <1>1, <1>4, TasksMoved
<1>6. Apart'
  BY ApartMoved DEF Held
<1> QED BY <1>2, <1>3, <1>5, <1>6

\* It leaves what was promised as it is, too.
LEMMA AsideHeld ==
  ASSUME Typed, NEW b, Held(b), NEW t \in Active, NEW n, NEW passed, Moves(t, n, passed),
         settings' = settings, promise' = promise, MemoryOk(b, t), phase' = phase \/ phase' = "up",
         Head(task[t].todo) \notin {"write", "cli_write"},
         Head(task[t].todo) = "load" => n # Idle /\ Head(n.todo) = "store",
         n = Idle \/ (Kin(n, task[t]) /\ TaskOk(b, n))
  PROVE  Held(b)'
<1>1. FileIs(b)' /\ Remembered(b)' /\ TasksOk(b)' /\ Apart'
  BY AsideFile
<1>2. Promised(b)'
  BY DEF Held, Promised
<1>3. PromisesOwn'
  BY OwnMoved DEF Held
<1> QED BY <1>1, <1>2, <1>3 DEF Held

LEMMA AsideSound ==
  ASSUME Typed, Sound, NEW t \in Active, NEW n, NEW passed, Moves(t, n, passed),
         UNCHANGED <<settings, memory, promise>>, phase' = phase \/ phase' = "up",
         calm' => calm,
         Head(task[t].todo) \notin {"write", "cli_write", "store"},
         Head(task[t].todo) = "load" => n # Idle /\ Head(n.todo) = "store",
         \/ n = Idle
         \/ /\ Kin(n, task[t]) /\ Ordered(n)
            /\ \A b \in WholeFile : Held(b) => TaskOk(b, n)
  PROVE  Sound'
<1>1. t \in Tasks /\ phase # "down"
  BY ActiveTask
<1>2. OrderedInv'
  BY <1>1, OrderedMoved DEF Sound
<1>3. FileInv'
  BY <1>1 DEF Sound, FileInv
<1>4. ASSUME calm' PROVE \E b \in WholeFile : Held(b)'
  <2>1. PICK b \in WholeFile : Held(b)
    BY <1>4 DEF Sound
  <2>2. MemoryOk(b, t)
    BY DEF MemoryOk
  <2>3. Held(b)'
    BY <2>1, <2>2, AsideHeld
  <2> QED BY <2>3
<1> QED BY <1>2, <1>3, <1>4 DEF Sound

-----------------------------------------------------------------------------
(***************************************************************************)
(* Steps on config.yaml and on Mihomo.                                     *)
(***************************************************************************)
LEMMA AfterIs ==
  ASSUME NEW r \in Task, Whole(r.todo), Head(r.todo) \notin {"reply", "finish"}
  PROVE  LET n == After(r) IN
         /\ n \in Task /\ Kin(n, r) /\ n.mode = r.mode /\ n.client = r.client
         /\ n.data = r.data /\ n.stale = r.stale /\ n.todo = Tail(r.todo)
<1>1. Tail(r.todo) \in Seq(Steps)
  BY TailIs
<1> QED BY <1>1 DEF After, Task, Kin

\* The same task with other data.
Alike(r, q) ==
  /\ r \in Task /\ Kin(r, q) /\ r.mode = q.mode /\ r.client = q.client /\ r.todo = q.todo

LEMMA TakenSound ==
  ASSUME Typed, Sound, NEW t \in Active, Head(task[t].todo) \in Aside \ {"store"},
         NEW r, Alike(r, task[t]),
         ~r.stale /\ task[t].stale => r.client = None /\ Head(task[t].todo) # "truncate",
         Head(task[t].todo) = "truncate" => r.data = task[t].data,
         NEW passed \in SUBSET Active, Advance(t, r, passed),
         UNCHANGED <<settings, memory, promise>>, phase' = phase, calm' => calm
  PROVE  Sound'
<1> DEFINE q == task[t]
           n == After(r)
<1>1. q \in Task /\ Fits(q) /\ Ordered(q)
  BY ActiveTask DEF Sound, OrderedInv
<1>2. r \in Task /\ Whole(r.todo) /\ Head(r.todo) \notin {"reply", "finish"} /\ Kin(r, q)
      /\ r.mode = q.mode /\ r.client = q.client /\ r.todo = q.todo
  BY <1>1 DEF Alike, Fits, Aside
<1>3. /\ n \in Task /\ Kin(n, r) /\ n.mode = r.mode /\ n.client = r.client
      /\ n.data = r.data /\ n.stale = r.stale /\ n.todo = Tail(r.todo)
  BY <1>2, AfterIs
<1>4. Moves(t, n, passed)
  BY <1>3, AdvanceMoves
<1> HIDE DEF n
<1>5. Kin(n, q) /\ n.todo = Tail(q.todo) /\ n.mode = q.mode /\ n.client = q.client
  BY <1>2, <1>3 DEF Kin
<1>6. Ordered(n)
  BY <1>1, <1>5, OrderedTail DEF Aside
<1>7. ASSUME NEW b, Held(b) PROVE TaskOk(b, n)
  <2>1. TaskOk(b, q)
    BY <1>7 DEF Held, TasksOk
  <2> QED BY <1>1, <1>3, <1>5, <2>1, AsideOk
<1>8. Head(q.todo) \notin {"write", "cli_write", "store", "load"}
  BY DEF Aside
<1> QED BY <1>4, <1>5, <1>6, <1>7, <1>8, AsideSound

LEMMA StepSound ==
  ASSUME Typed, Sound, NEW t \in Active, Head(task[t].todo) \in Aside \ {"store"},
         Step(t, task[t]),
         UNCHANGED <<settings, memory, promise>>, phase' = phase, calm' => calm
  PROVE  Sound'
<1>1. Alike(task[t], task[t])
  BY ActiveTask DEF Alike, Kin
<1>2. {} \in SUBSET Active
  OBVIOUS
<1> QED BY <1>1, <1>2, TakenSound DEF Step

LEMMA FailIs ==
  ASSUME Typed, OrderedInv, NEW t \in Active, Fail(t), Head(task[t].todo) \notin {"reply", "finish"}
  PROVE  \E n : /\ Moves(t, n, {})
                /\ \/ n = Idle
                   \/ /\ Kin(n, task[t]) /\ Ordered(n)
                      /\ \A b : TaskOk(b, task[t]) => TaskOk(b, n)
<1> DEFINE q == task[t]
<1>1. t \in Tasks /\ q \in Task /\ Fits(q) /\ Ordered(q)
  BY ActiveTask DEF OrderedInv
<1>2. CASE "allow_lan" \in ToSet(q.todo) /\ "restore" \notin ToSet(Tail(q.todo))
  <2> DEFINE n == [q EXCEPT !.todo = <<"allow_lan", "reply">>]
  <2>1. task' = [task EXCEPT ![t] = n]
    BY <1>2 DEF Fail
  <2>2. n \in Task
    BY <1>1, CutShort
  <2>3. Kin(n, q) /\ Ordered(n) /\ \A b : TaskOk(b, q) => TaskOk(b, n)
    BY <1>1, <1>2, CutOk
  <2> HIDE DEF n
  <2>4. Moves(t, n, {})
    BY <1>1, <2>1, <2>2, ExceptMoves
  <2> QED BY <2>3, <2>4
<1>3. CASE ~("allow_lan" \in ToSet(q.todo) /\ "restore" \notin ToSet(Tail(q.todo)))
  <2>1. task' = [task EXCEPT ![t] = Idle]
    BY <1>3 DEF Fail
  <2>2. Moves(t, Idle, {})
    BY <1>1, <2>1, ExceptMoves
  <2> QED BY <2>2
<1> QED BY <1>2, <1>3

LEMMA FailSound ==
  ASSUME Typed, Sound, NEW t \in Active, Fail(t),
         Head(task[t].todo) \notin {"reply", "finish", "write", "cli_write", "store", "load"},
         UNCHANGED <<settings, memory, promise>>, phase' = phase, calm' => calm
  PROVE  Sound'
<1>1. PICK n : /\ Moves(t, n, {})
               /\ \/ n = Idle
                  \/ /\ Kin(n, task[t]) /\ Ordered(n)
                     /\ \A b : TaskOk(b, task[t]) => TaskOk(b, n)
  BY FailIs DEF Sound
<1>2. \A b : Held(b) => TaskOk(b, task[t])
  BY DEF Held, TasksOk
<1> QED BY <1>1, <1>2, AsideSound

LEMMA ReadConfigSound ==
  ASSUME Typed, Sound, NEW t \in Tasks, ReadConfig(t)
  PROVE  Sound'
<1> DEFINE q == task[t]
<1>1. t \in Active /\ q \in Task /\ Fits(q) /\ Head(q.todo) = "read_config" /\ TypeOK
  BY ActiveTask DEF ReadConfig, At, Typed
<1>2. UNCHANGED <<settings, memory, promise, phase, calm>>
  BY DEF ReadConfig, daemon, history
<1>3. CASE Fail(t)
  BY <1>1, <1>2, <1>3, FailSound
<1>4. CASE ~(config = NoFile /\ ~Switching(t))
  <2> DEFINE d == IF Switching(t) THEN Replaced(q.data) ELSE Edited(q)
             r == Reads(t, d, ConfigTorn(t))
  <2>1. d \in {Empty} \cup ConfigData
    <3>1. CASE Switching(t)
      <4>1. q.data \in SettingsData
        BY <1>1, <3>1 DEF Fits, Ready, Switching
      <4>2. Replaced(q.data) \in ConfigData
        BY <1>1, <4>1, ReplacedType
      <4> QED BY <3>1, <4>2
    <3>2. CASE ~Switching(t)
      BY <1>1, <1>4, <3>2, EditedType
    <3> QED BY <3>1, <3>2
  <2>2. Advance(t, r, {})
    BY <1>4 DEF ReadConfig, Step
  <2> HIDE DEF d
  <2>3. Alike(r, q) /\ (~r.stale /\ q.stale => r.client = None)
    <3>1. (ConfigTorn(t) \/ (q.stale /\ (q.client # None \/ Switching(t)))) \in BOOLEAN
      BY <1>1 DEF ConfigTorn, Switching, Task
    <3> QED BY <1>1, <2>1, <3>1 DEF Reads, Task, ConfigData, Alike, Kin
  <2> HIDE DEF r
  <2>4. {} \in SUBSET Active /\ "read_config" \in Aside \ {"store"}
    BY DEF Aside
  <2> QED BY <1>1, <1>2, <2>2, <2>3, <2>4, TakenSound
<1> QED BY <1>3, <1>4 DEF ReadConfig

LEMMA CutConfigSound ==
  ASSUME Typed, Sound, NEW t \in Tasks, CutConfig(t)
  PROVE  Sound'
<1>1. t \in Active /\ Head(task[t].todo) \in Aside \ {"store"} /\ Step(t, task[t])
  BY DEF CutConfig, At, Aside
<1>2. UNCHANGED <<settings, memory, promise, phase, calm>>
  BY DEF CutConfig, daemon, history
<1> QED BY <1>1, <1>2, StepSound

LEMMA WriteConfigSound ==
  ASSUME Typed, Sound, NEW t \in Tasks, WriteConfig(t)
  PROVE  Sound'
<1>1. t \in Active /\ Head(task[t].todo) \in Aside \ {"store", "truncate"}
      /\ Advance(t, task[t], HoldsConfig \ {t})
  BY DEF WriteConfig, At, Aside
<1>2. UNCHANGED <<settings, memory, promise, phase>> /\ (calm' => calm)
  BY DEF WriteConfig, daemon, Overtaken
<1>3. Alike(task[t], task[t])
  BY <1>1, ActiveTask DEF Alike, Kin
<1>4. HoldsConfig \ {t} \in SUBSET Active
  BY DEF HoldsConfig
<1> QED BY <1>1, <1>2, <1>3, <1>4, TakenSound

LEMMA SpawnSound ==
  ASSUME Typed, Sound, NEW t \in Tasks, Spawn(t)
  PROVE  Sound'
<1> DEFINE q == task[t]
<1>1. t \in Active /\ q \in Task /\ Fits(q) /\ Head(q.todo) = "spawn" /\ Ordered(q)
  BY ActiveTask DEF Spawn, At, Sound, OrderedInv
<1>2. UNCHANGED <<settings, memory, promise, phase>> /\ (calm' => calm)
  BY DEF Spawn
<1>3. CASE task' = [task EXCEPT ![t].todo = <<"reply">>]
  <2> DEFINE n == [q EXCEPT !.todo = <<"reply">>]
  <2>1. task \in [Tasks -> Task \cup {Idle}]
    BY DEF Typed, TypeOK
  <2>2. task' = [task EXCEPT ![t] = n]
    BY <1>3, <2>1
  <2>3. n \in Task
    BY <1>1, CutShort
  <2>4. Ordered(n) /\ Kin(n, q) /\ \A b : TaskOk(b, q) => TaskOk(b, n)
    BY <1>1, SkipOk
  <2> HIDE DEF n
  <2>5. Moves(t, n, {})
    BY <2>2, <2>3, ExceptMoves
  <2>6. \A b : Held(b) => TaskOk(b, q)
    BY <1>1 DEF Held, TasksOk
  <2> QED BY <1>1, <1>2, <2>4, <2>5, <2>6, AsideSound
<1>4. CASE Step(t, q)
  BY <1>1, <1>2, <1>4, StepSound DEF Aside
<1>5. CASE Fail(t)
  BY <1>1, <1>2, <1>5, FailSound
<1> QED BY <1>3, <1>4, <1>5 DEF Spawn

LEMMA RecordPathSound ==
  ASSUME Typed, Sound, NEW t \in Tasks, RecordPath(t)
  PROVE  Sound'
<1>1. t \in Active /\ Head(task[t].todo) \in Aside \ {"store"} /\ Step(t, task[t])
  BY DEF RecordPath, At, Aside
<1>2. UNCHANGED <<settings, memory, promise, phase, calm>>
  BY DEF RecordPath, history
<1> QED BY <1>1, <1>2, StepSound

LEMMA SelectProxySound ==
  ASSUME Typed, Sound, NEW t \in Tasks, SelectProxy(t)
  PROVE  Sound'
<1>1. t \in Active /\ Head(task[t].todo) \in {"resume", "select"}
  BY DEF SelectProxy, At
<1>2. UNCHANGED <<settings, memory, promise, phase, calm>>
  BY DEF SelectProxy, daemon, history
<1>3. CASE Step(t, task[t])
  BY <1>1, <1>2, <1>3, StepSound DEF Aside
<1>4. CASE Fail(t)
  BY <1>1, <1>2, <1>4, FailSound
<1> QED BY <1>3, <1>4 DEF SelectProxy

\* What settings.yaml says, when it says something.
LEMMA FileSays ==
  ASSUME Sound, NEW b, Held(b), settings \notin {NoFile, Empty}
  PROVE  b = settings /\ \A k : Of(b, k) = settings[k]
<1>1. b = settings
  BY DEF Held, FileIs
<1> QED BY <1>1 DEF Of

LEMMA RestoreModeSound ==
  ASSUME Typed, Sound, NEW t \in Tasks, RestoreMode(t)
  PROVE  Sound'
<1> DEFINE q == task[t]
           v == settings["mode"]
           r == [q EXCEPT !.mode = v]
           n == After(r)
<1>1. t \in Active /\ q \in Task /\ Fits(q) /\ Head(q.todo) = "restore" /\ Ordered(q)
  BY ActiveTask DEF RestoreMode, At, Sound, OrderedInv
<1>2. UNCHANGED <<settings, memory, promise, phase, calm>>
  BY DEF RestoreMode, daemon
<1>3. CASE Fail(t)
  BY <1>1, <1>2, <1>3, FailSound
<1>4. CASE ~(settings \in {NoFile, Empty} \/ get_settings["mode"] = None)
  <2>1. settings \in SettingsData /\ get_settings = [settings EXCEPT !["selected"] = None]
    BY <1>4 DEF Typed, TypeOK, SettingsData, get_settings
  <2>2. v \in Options /\ v # None
    BY <1>4, <2>1 DEF SettingsData, Keys, Fields
  <2>3. Step(t, r)
    BY <1>4 DEF RestoreMode
  <2>4. r \in Task /\ Kin(r, q) /\ r.todo = q.todo /\ r.mode = v /\ r.client = q.client
        /\ r.data = q.data /\ r.stale = q.stale
    BY <1>1, <2>2 DEF Task, Kin
  <2> HIDE DEF v, r
  <2>5. /\ n \in Task /\ Kin(n, r) /\ n.mode = v /\ n.client = q.client
        /\ n.stale = q.stale /\ n.todo = Tail(q.todo)
    BY <1>1, <2>4, AfterIs DEF Fits
  <2>6. Moves(t, n, {})
    BY <2>3, <2>5, StepMoves
  <2> HIDE DEF n
  <2>7. Kin(n, q)
    BY <2>4, <2>5 DEF Kin
  <2>8. Ordered(n)
    BY <1>1, <2>2, <2>5, <2>7, OrderedTail
  <2>9. Head(n.todo) = "read_config"
    <3>1. Successors("restore") = {"read_config"}
      BY DEF Successors
    <3> QED BY <1>1, <2>5, <3>1, TailIs DEF Fits
  <2>10. ASSUME NEW b \in WholeFile, Held(b) PROVE TaskOk(b, n)
    <3>1. TaskOk(b, q)
      BY <1>1, <2>10 DEF Held, TasksOk
    <3>2. q.op \in Replying /\ q.field \in Fields /\ q.value # None => Of(b, q.field) = q.value
      BY <1>1, <3>1, SavedStop DEF TaskOk, Stops
    <3>3. Of(b, "mode") = v
      BY <1>4, <2>10, FileSays DEF v
    <3>4. SavedOk(b, n)
      BY <2>5, <2>7, <3>2, <3>3 DEF SavedOk, Kin, Replying
    <3>5. ~n.stale => Fresh(b, n, "read_config")
      BY <2>5, <2>7, <3>1 DEF TaskOk, Fresh, ClientAgrees, Kin
    <3> QED BY <2>9, <3>4, <3>5 DEF TaskOk
  <2> QED BY <1>1, <1>2, <2>6, <2>7, <2>8, <2>10, AsideSound
<1> QED BY <1>3, <1>4 DEF RestoreMode

LEMMA PatchLanSound ==
  ASSUME Typed, Sound, NEW t \in Tasks, PatchLan(t)
  PROVE  Sound'
<1> DEFINE q == task[t]
           r == [q EXCEPT !.mode = None, !.data = None]
           n == After(r)
<1>1. t \in Active /\ q \in Task /\ Fits(q) /\ Head(q.todo) = "allow_lan" /\ Ordered(q)
  BY ActiveTask DEF PatchLan, At, Sound, OrderedInv
<1>2. UNCHANGED <<settings, memory, promise, phase, calm>> /\ Step(t, r)
  BY DEF PatchLan, daemon, history
<1>3. r \in Task /\ Kin(r, q) /\ r.todo = q.todo /\ r.mode = None /\ r.client = q.client
      /\ r.stale = q.stale
  BY <1>1 DEF Task, Kin, Options
<1> HIDE DEF r
<1>4. /\ n \in Task /\ Kin(n, r) /\ n.mode = None /\ n.client = q.client
      /\ n.stale = q.stale /\ n.todo = Tail(q.todo)
  BY <1>1, <1>3, AfterIs DEF Fits
<1>5. Moves(t, n, {})
  BY <1>2, <1>4, StepMoves
<1> HIDE DEF n
<1>6. Kin(n, q)
  BY <1>3, <1>4 DEF Kin
<1>7. Ordered(n)
  BY <1>1, <1>4, <1>6, OrderedTail
<1>8. Head(n.todo) = "reply"
  <2>1. Successors("allow_lan") = {"reply"}
    BY DEF Successors
  <2> QED BY <1>1, <1>4, <2>1, TailIs DEF Fits
<1>9. ASSUME NEW b, Held(b) PROVE TaskOk(b, n)
  <2>1. TaskOk(b, q)
    BY <1>1, <1>9 DEF Held, TasksOk
  <2>2. q.op \in Replying /\ q.field \in Fields /\ q.value # None => Of(b, q.field) = q.value
    BY <1>1, <2>1, SavedStop DEF TaskOk, Stops
  <2>3. SavedOk(b, n)
    BY <1>4, <1>6, <2>2 DEF SavedOk, Kin, Replying
  <2>4. ~n.stale => Fresh(b, n, "reply")
    BY <1>4, <1>6, <2>1 DEF TaskOk, Fresh, ClientAgrees, Kin
  <2> QED BY <1>8, <2>3, <2>4 DEF TaskOk
<1> QED BY <1>1, <1>2, <1>5, <1>6, <1>7, <1>9, AsideSound

-----------------------------------------------------------------------------
(***************************************************************************)
(* What is promised, and the operations that begin and end.                *)
(***************************************************************************)
\* An operation decides what it resets, what it saves and the mode it sets.
LEMMA TouchesIs ==
  ASSUME NEW op, NEW field, Named(op, field)
  PROVE  /\ op \in Replying => /\ Resets(op, field) \subseteq Touches(op, field)
                               /\ field \in Touches(op, field)
         /\ op \in Starters \cup SetsMode => "mode" \in Touches(op, field)
         /\ op \in {"ports", "tun"} => "mode" \notin Resets(op, field)
<1>1. op \in {"put", "auth", "dns", "rules", "provider"} =>
        Touches(op, field) = {field} /\ Resets(op, field) = {field}
  BY DEF Touches, Resets
<1>2. op = "ports" => /\ Touches(op, field) = {"ports", "api_host", "api_port", "service_port", "mode"}
                      /\ Resets(op, field) = {"ports", "api_host", "service_port"} /\ field = "ports"
  BY DEF Touches, Resets, Named
<1>3. op = "tun" => /\ Touches(op, field) = {"tun", "api_host", "api_port", "service_port", "auto", "mode"}
                    /\ Resets(op, field) = {"tun", "api_host", "service_port"} /\ field = "tun"
  BY DEF Touches, Resets, Named
<1>4. op \in {"activate", "start", "boot", "cli_mode"} => "mode" \in Touches(op, field)
  BY DEF Touches
<1>5. op = "mode" => "mode" \in Touches(op, field)
  BY DEF Touches, Named, SetsMode
<1> QED BY <1>1, <1>2, <1>3, <1>4, <1>5 DEF Replying, Starters, SetsMode

LEMMA PatchModeSound ==
  ASSUME Typed, Sound, NEW t \in Tasks, PatchMode(t)
  PROVE  Sound'
<1> DEFINE q == task[t]
           n == After(q)
<1>1. t \in Active /\ q \in Task /\ Fits(q) /\ Head(q.todo) = "patch_mode" /\ Ordered(q)
  BY ActiveTask DEF PatchMode, At, Sound, OrderedInv
<1>2. UNCHANGED <<settings, memory, phase, calm>>
  BY DEF PatchMode, daemon
<1>3. CASE Fail(t) /\ promise' = promise
  BY <1>1, <1>2, <1>3, FailSound
<1>4. CASE Step(t, q) /\ promise' = [promise EXCEPT !["mode"] = q.mode]
  <2>1. /\ n \in Task /\ Kin(n, q) /\ n.mode = q.mode /\ n.client = q.client
        /\ n.data = q.data /\ n.stale = q.stale /\ n.todo = Tail(q.todo)
    BY <1>1, AfterIs DEF Fits
  <2>2. Moves(t, n, {})
    BY <1>4, <2>1, StepMoves
  <2> HIDE DEF n
  <2>3. Ordered(n)
    BY <1>1, <2>1, OrderedTail
  <2>4. OrderedInv' /\ FileInv'
    BY <1>2, <2>2, <2>3, OrderedMoved DEF Sound, FileInv
  <2>5. q.op \in Starters \cup SetsMode
    <3>1. "patch_mode" \in ToSet(q.todo)
      BY <1>1, TailSet DEF Fits
    <3> QED BY <1>1, <3>1 DEF Ordered, Orderly
  <2>6. ASSUME NEW b \in WholeFile, Held(b) PROVE Held(b)'
    <3>1. TaskOk(b, q)
      BY <1>1, <2>6 DEF Held, TasksOk
    <3>2. TaskOk(b, n)
      BY <1>1, <2>1, <3>1, AsideOk DEF Aside
    <3>3. MemoryOk(b, t)
      BY <1>1, <1>2 DEF MemoryOk
    <3>4. FileIs(b)' /\ Remembered(b)' /\ TasksOk(b)' /\ Apart'
      BY <1>1, <1>2, <2>1, <2>2, <2>6, <3>2, <3>3, AsideFile
    <3>5. promise \in [Fields -> Options]
      BY DEF Typed, TypeOK
    <3>6. Promised(b)'
      <4>1. q.mode # None => Of(b, "mode") = q.mode
        BY <1>1, <3>1, SavedStop DEF TaskOk, Stops
      <4>2. ASSUME NEW f \in Fields, promise'[f] # None PROVE Of(b, f) = promise'[f]
        BY <1>4, <2>6, <3>5, <4>1, <4>2 DEF Held, Promised
      <4> QED BY <4>2 DEF Promised
    <3>7. PromisesOwn'
      <4>1. ASSUME NEW u \in Active'
            PROVE  /\ task'[u].op \in Replying =>
                        \A f \in Resets(task'[u].op, task'[u].field) \cap Fields : promise'[f] = None
                   /\ task'[u].op \in SetsMode => promise'["mode"] \in {None, task'[u].value}
        <5>1. u \in Active /\ Kin(task'[u], task[u])
          BY <1>1, <2>1, <2>2, KinMoved
        <5>2. Ordered(task[u])
          BY <5>1 DEF Sound, OrderedInv
        <5>3. /\ task[u].op \in Replying => \A f \in Resets(task[u].op, task[u].field) \cap Fields : promise[f] = None
              /\ task[u].op \in SetsMode => promise["mode"] \in {None, task[u].value}
          BY <2>6, <5>1 DEF Held, PromisesOwn
        <5>4. CASE u = t
          <6>1. q.op \in Replying => "mode" \notin Resets(q.op, q.field)
            BY <1>1, <2>5, TouchesIs DEF Ordered, Replying, Starters, SetsMode
          <6>2. q.op \in SetsMode => q.mode = q.value /\ q.op # "test"
            BY <1>1 DEF Ordered, SetsMode
          <6> QED BY <1>4, <3>5, <5>1, <5>3, <5>4, <6>1, <6>2 DEF Kin, Fields
        <5>5. CASE u # t
          <6>1. "mode" \in Touches(q.op, q.field)
            BY <1>1, <2>5, TouchesIs DEF Ordered
          <6>2. "mode" \notin Touches(task[u].op, task[u].field)
            BY <1>1, <2>6, <5>1, <5>5, <6>1 DEF Held, Apart
          <6>3. task[u].op \notin SetsMode
            BY <5>2, <6>2, TouchesIs DEF Ordered
          <6>4. task[u].op \in Replying => "mode" \notin Resets(task[u].op, task[u].field)
            BY <5>2, <6>2, TouchesIs DEF Ordered
          <6> QED BY <1>4, <3>5, <5>1, <5>3, <6>3, <6>4 DEF Kin
        <5> QED BY <5>4, <5>5
      <4> QED BY <4>1 DEF PromisesOwn
    <3> QED BY <3>4, <3>6, <3>7 DEF Held
  <2> QED BY <1>2, <2>4, <2>6 DEF Sound
<1> QED BY <1>3, <1>4 DEF PatchMode

LEMMA ReplySound ==
  ASSUME Typed, Sound, NEW t \in Tasks, Reply(t)
  PROVE  Sound'
<1> DEFINE q == task[t]
<1>1. t \in Active /\ q \in Task /\ Fits(q) /\ Head(q.todo) = "reply" /\ Ordered(q) /\ phase # "down"
  BY ActiveTask DEF Reply, At, Sound, OrderedInv
<1>2. UNCHANGED <<settings, memory, calm>> /\ phase' = "up"
  BY DEF Reply
<1>3. Moves(t, Idle, {})
  BY ExceptMoves DEF Reply
<1>4. CASE q.op \notin Replying
  <2>1. promise' = promise
    BY <1>4 DEF Reply, Replying
  <2> QED BY <1>1, <1>2, <1>3, <2>1, AsideSound
<1>5. CASE q.op \in Replying
  <2>1. promise' = [promise EXCEPT ![q.field] = q.value]
    BY <1>5 DEF Reply, Replying
  <2>2. OrderedInv' /\ FileInv'
    BY <1>1, <1>2, <1>3, OrderedMoved DEF Sound, FileInv
  <2>3. promise \in [Fields -> Options]
    BY DEF Typed, TypeOK
  <2>4. ASSUME NEW b \in WholeFile, Held(b) PROVE Held(b)'
    <3>1. MemoryOk(b, t)
      BY <1>1, <1>2 DEF MemoryOk
    <3>2. FileIs(b)' /\ Remembered(b)' /\ TasksOk(b)' /\ Apart'
      BY <1>1, <1>2, <1>3, <2>4, <3>1, AsideFile
    <3>3. Promised(b)'
      <4>1. TaskOk(b, q)
        BY <1>1, <2>4 DEF Held, TasksOk
      <4>2. q.field \in Fields /\ q.value # None => Of(b, q.field) = q.value
        BY <1>1, <1>5, <4>1, SavedStop DEF TaskOk, Stops
      <4>3. ASSUME NEW f \in Fields, promise'[f] # None PROVE Of(b, f) = promise'[f]
        BY <2>1, <2>3, <2>4, <4>2, <4>3 DEF Held, Promised
      <4> QED BY <4>3 DEF Promised
    <3>4. PromisesOwn'
      <4>1. ASSUME NEW u \in Active'
            PROVE  /\ task'[u].op \in Replying =>
                        \A f \in Resets(task'[u].op, task'[u].field) \cap Fields : promise'[f] = None
                   /\ task'[u].op \in SetsMode => promise'["mode"] \in {None, task'[u].value}
        <5>1. u \in Active /\ Kin(task'[u], task[u]) /\ u # t
          BY <1>1, <1>3, <4>1, KinMoved, Moved
        <5>2. Ordered(task[u])
          BY <5>1 DEF Sound, OrderedInv
        <5>3. /\ task[u].op \in Replying => \A f \in Resets(task[u].op, task[u].field) \cap Fields : promise[f] = None
              /\ task[u].op \in SetsMode => promise["mode"] \in {None, task[u].value} /\ task[u].op # "test"
          BY <2>4, <5>1 DEF Held, PromisesOwn, SetsMode
        <5>4. q.field \in Touches(q.op, q.field)
          BY <1>1, <1>5, TouchesIs DEF Ordered
        <5>5. q.field \notin Touches(task[u].op, task[u].field)
          BY <1>1, <2>4, <5>1, <5>4 DEF Held, Apart
        <5>6. /\ task[u].op \in Replying => q.field \notin Resets(task[u].op, task[u].field)
              /\ task[u].op \in SetsMode => q.field # "mode"
          BY <5>2, <5>5, TouchesIs DEF Ordered
        <5> QED BY <2>1, <2>3, <5>1, <5>3, <5>6 DEF Kin
      <4> QED BY <4>1 DEF PromisesOwn
    <3> QED BY <3>2, <3>3, <3>4 DEF Held
  <2> QED BY <1>2, <2>2, <2>4 DEF Sound
<1> QED BY <1>4, <1>5

LEMMA RunAutoTestSound ==
  ASSUME Typed, Sound, NEW t \in Tasks, RunAutoTest(t)
  PROVE  Sound'
<1> DEFINE q == task[t]
<1>1. t \in Active /\ q \in Task /\ Fits(q) /\ Head(q.todo) \in {"snapshot", "finish"} /\ Ordered(q)
      /\ phase # "down"
  BY ActiveTask DEF RunAutoTest, At, Sound, OrderedInv
<1>2. UNCHANGED <<settings, phase, promise, calm>>
  BY DEF RunAutoTest, history
<1>3. CASE Head(q.todo) = "snapshot"
  <2> DEFINE v == get_settings["auto"]
             r == [q EXCEPT !.value = v]
             n == After(r)
  <2>1. /\ IF v \in {None, Default} \/ mihomo = Down
             THEN task' = [task EXCEPT ![t] = Idle]
             ELSE Step(t, r)
        /\ UNCHANGED memory
    BY <1>3 DEF RunAutoTest, At
  <2>2. CASE task' = [task EXCEPT ![t] = Idle]
    <3>1. Moves(t, Idle, {})
      BY <2>2, ExceptMoves
    <3> QED BY <1>1, <1>2, <1>3, <2>1, <3>1, AsideSound
  <2>3. CASE Step(t, r) /\ v # None
    <3>1. v \in Options
      BY ReadTypes DEF Typed, SettingsData, Keys, Fields
    <3>2. q.op = "test"
      <4>1. "snapshot" \in ToSet(q.todo)
        BY <1>1, <1>3, TailSet DEF Fits
      <4> QED BY <1>1, <4>1 DEF Ordered, Orderly
    <3>v. settings \notin {NoFile, Empty} /\ v = settings["auto"]
      <4>1. settings # NoFile
        BY <1>1 DEF Sound, FileInv
      <4>2. "auto" \in Keys /\ "auto" # "selected"
        BY DEF Keys, Fields
      <4>3. settings # Empty
        BY <2>3, <4>1, <4>2 DEF get_settings, Nothing
      <4>4. get_settings = [settings EXCEPT !["selected"] = None] /\ settings \in SettingsData
        BY <4>1, <4>3 DEF get_settings, Typed, TypeOK, SettingsData
      <4> QED BY <4>1, <4>2, <4>3, <4>4 DEF SettingsData
    <3> HIDE DEF v
    <3>3. r \in Task /\ Kin(r, q) /\ r.todo = q.todo /\ r.mode = q.mode /\ r.client = q.client
          /\ r.stale = q.stale /\ r.value = v
      BY <1>1, <3>1, <3>2 DEF Task, Kin
    <3> HIDE DEF r
    <3>4. /\ n \in Task /\ n.op = q.op /\ n.field = q.field /\ n.mode = q.mode /\ n.client = q.client
          /\ n.stale = q.stale /\ n.todo = Tail(q.todo)
      BY <1>1, <1>3, <3>3, AfterIs DEF Fits, Kin
    <3>5. n.value = v
      <4>1. Tail(r.todo) \in Seq(Steps)
        BY <1>1, <1>3, <3>3, TailIs DEF Fits
      <4> QED BY <3>3, <4>1 DEF After, Task
    <3>6. Moves(t, n, {})
      BY <2>3, <3>4, StepMoves
    <3> HIDE DEF n
    <3>7. Kin(n, q) /\ Ordered(n)
      <4>1. Kin(n, q)
        BY <3>2, <3>4 DEF Kin
      <4> QED BY <1>1, <1>3, <3>4, <4>1, OrderedTail
    <3>8. Head(n.todo) = "finish"
      <4>1. Successors("snapshot") = {"finish"}
        BY DEF Successors
      <4> QED BY <1>1, <1>3, <3>4, <4>1, TailIs DEF Fits
    <3>9. ASSUME NEW b \in WholeFile, Held(b) PROVE TaskOk(b, n)
      <4>1. v = Of(b, "auto")
        BY <3>v, <3>9, FileSays
      <4>2. "test" \notin Replying \cup Starters \cup SetsMode \cup ClientOps
        BY DEF Replying, Starters, SetsMode, ClientOps
      <4>3. n.mode = None /\ n.client = None
        BY <3>2, <3>4, <3>7, <4>2 DEF Ordered
      <4>4. SavedOk(b, n)
        BY <3>2, <3>4, <4>2, <4>3 DEF SavedOk
      <4> QED BY <3>5, <3>8, <4>1, <4>3, <4>4 DEF TaskOk, Fresh
    <3> QED BY <1>1, <1>2, <1>3, <2>1, <3>6, <3>7, <3>9, AsideSound
  <2> QED BY <2>1, <2>2, <2>3
<1>4. CASE Head(q.todo) = "finish"
  <2>1. /\ memory' \in {memory, [memory EXCEPT !["auto"] = q.value]}
        /\ task' = [task EXCEPT ![t] = Idle]
    BY <1>4 DEF RunAutoTest, At
  <2>2. Moves(t, Idle, {})
    BY <2>1, ExceptMoves
  <2>3. OrderedInv' /\ FileInv'
    BY <1>1, <1>2, <2>2, OrderedMoved DEF Sound, FileInv
  <2>4. ASSUME NEW b \in WholeFile, Held(b) PROVE Held(b)'
    <3>1. q.value = Of(b, "auto")
      BY <1>1, <1>4, <2>4 DEF Held, TasksOk, TaskOk
    <3>2. memory \in [{"api_port", "auto"} -> Values]
      BY DEF Typed, TypeOK
    <3>3. \A k \in {"api_port", "auto"} : memory'[k] = memory[k] \/ memory'[k] = Of(b, k)
      BY <2>1, <3>1, <3>2
    <3>4. MemoryOk(b, t)
      BY <1>4, <3>3 DEF MemoryOk
    <3> QED BY <1>1, <1>2, <1>4, <2>2, <2>4, <3>4, AsideHeld
  <2> QED BY <1>2, <2>3, <2>4 DEF Sound
<1> QED BY <1>1, <1>3, <1>4

\* A task that begins.
LEMMA NewIs ==
  ASSUME NEW op, NEW field, NEW value, MayBegin(op, field, value), Named(op, field)
  PROVE  LET n == New(op, field, value) IN
         /\ n \in Task /\ n.op = op /\ n.field = field /\ n.value = value
         /\ Ordered(n) /\ \A b : TaskOk(b, n)
<1> DEFINE n == New(op, field, value)
<1>1. n \in Task
  BY NewFits
<1>2. op \in Operations \cup {"boot", "test"}
  BY DEF MayBegin
<1>3. /\ n.op = op /\ n.field = field /\ n.value = value /\ n.todo = Plan(op) /\ n.client = None
      /\ n.mode = IF op \in SetsMode THEN value ELSE None
  BY DEF New, SetsMode
<1>4. /\ Orderly(op, n.todo)
      /\ op \in Starters => Has(n.todo, "restore")
      /\ op \in Replying \cup SetsMode => Unsaved(n.todo)
  BY <1>2, <1>3, PlanOrderly DEF Unsaved
<1>5. Head(n.todo) \in {"request", "read_config", "overrides", "spawn", "resume", "snapshot", "cli_read"}
  BY <1>2, <1>3, PlanWhole DEF First
<1>6. n.todo \in Seq(Steps)
  BY <1>1 DEF Task
<1> HIDE DEF n
<1>7. ModeToCome(n)
  BY <1>3, <1>4, <1>6, InSet DEF ModeToCome, Orderly
<1>8. Ordered(n)
  BY <1>3, <1>4, <1>7 DEF Ordered
<1>9. ASSUME NEW b PROVE TaskOk(b, n)
  <2>1. SavedOk(b, n)
    BY <1>3, <1>4 DEF SavedOk, Replying, SetsMode, Starters
  <2>2. Fresh(b, n, Head(n.todo))
    BY <1>3, <1>5 DEF Fresh
  <2> QED BY <1>5, <2>1, <2>2 DEF TaskOk
<1> QED BY <1>1, <1>3, <1>8, <1>9 DEF n

LEMMA NewSound ==
  ASSUME Typed, Sound, NEW t \in Tasks, task[t] = Idle, phase # "down",
         NEW op, NEW field, NEW value, MayBegin(op, field, value), Named(op, field),
         task' = [task EXCEPT ![t] = New(op, field, value)],
         UNCHANGED <<settings, memory, phase>>, calm' = (calm /\ Alone(op, field)),
         \A f \in Fields : promise'[f] \in {promise[f], None},
         op \in Replying => \A f \in Resets(op, field) \cap Fields : promise'[f] = None,
         op \in SetsMode => promise'["mode"] \in {None, value}
  PROVE  Sound'
<1> DEFINE n == New(op, field, value)
<1>1. /\ n \in Task /\ n.op = op /\ n.field = field /\ n.value = value
      /\ Ordered(n) /\ \A b : TaskOk(b, n)
  BY NewIs
<1> HIDE DEF n
<1>2. Moves(t, n, {})
  BY <1>1, ExceptMoves DEF n
<1>3. t \notin Active
  BY DEF Active
<1>4. OrderedInv' /\ FileInv'
  BY <1>1, <1>2, OrderedMoved DEF Sound, FileInv
<1>5. \A u \in Active' : \/ u = t /\ task'[u] = n
                         \/ u # t /\ u \in Active /\ Marked(task'[u], task[u], FALSE)
  <2>1. ASSUME NEW u \in Active', u # t PROVE u \in Active /\ Marked(task'[u], task[u], FALSE)
    <3>1. u \in Tasks \ {t}
      BY <2>1 DEF Active
    <3>2. u \in Active /\ Marked(task'[u], task[u], u \in {})
      BY <1>2, <3>1, Moved
    <3> QED BY <3>2 DEF Marked
  <2>2. task'[t] = n
    BY <1>2, Moved
  <2> QED BY <2>1, <2>2
<1>6. ASSUME calm', NEW b \in WholeFile, Held(b) PROVE Held(b)'
  <2>1. Alone(op, field)
    BY <1>6
  <2>2. FileIs(b)'
    <3>1. Writing => Writing'
      BY <1>2, <1>3, WritingMoved
    <3> QED BY <1>6, <3>1 DEF Held, FileIs
  <2>3. Promised(b)'
    BY <1>6 DEF Held, Promised
  <2>4. Remembered(b)'
    <3>1. \A k : Loading(k) => Loading(k)'
      BY <1>2, <1>3, LoadingMoved
    <3> QED BY <1>6, <3>1 DEF Held, Remembered
  <2>5. TasksOk(b)'
    <3>1. OthersOk(b, t)
      BY <1>6 DEF Held, TasksOk, OthersOk
    <3> QED BY <1>1, <1>2, <3>1, TasksMoved
  <2>6. PromisesOwn'
    <3>1. ASSUME NEW u \in Active'
          PROVE  /\ task'[u].op \in Replying =>
                      \A f \in Resets(task'[u].op, task'[u].field) \cap Fields : promise'[f] = None
                 /\ task'[u].op \in SetsMode => promise'["mode"] \in {None, task'[u].value}
      <4>1. CASE u = t
        BY <1>1, <1>5, <4>1
      <4>2. CASE u # t
        <5>1. u \in Active /\ task'[u].op = task[u].op /\ task'[u].field = task[u].field
              /\ task'[u].value = task[u].value /\ "mode" \in Fields
          BY <1>5, <4>2 DEF Marked, Kin, Fields
        <5> QED BY <1>6, <5>1 DEF Held, PromisesOwn
      <4> QED BY <4>1, <4>2
    <3> QED BY <3>1 DEF PromisesOwn
  <2>7. Apart'
    <3>1. ASSUME NEW u \in Active', NEW v \in Active', u # v
          PROVE  Touches(task'[u].op, task'[u].field) \cap Touches(task'[v].op, task'[v].field) = {}
      <4>1. ASSUME NEW w \in Active', w # t
            PROVE w \in Active /\ task'[w].op = task[w].op /\ task'[w].field = task[w].field
        BY <1>5, <4>1 DEF Marked, Kin
      <4>2. task'[t].op = op /\ task'[t].field = field
        BY <1>1, <1>2, Moved
      <4>3. ASSUME NEW w \in Active', w # t
            PROVE  Touches(task'[w].op, task'[w].field) \cap Touches(op, field) = {}
        BY <2>1, <4>1, <4>3 DEF Alone
      <4>4. CASE u = t
        BY <3>1, <4>2, <4>3, <4>4
      <4>5. CASE v = t
        BY <3>1, <4>2, <4>3, <4>5
      <4>6. CASE u # t /\ v # t
        <5>1. u \in Active /\ v \in Active
          BY <4>1, <4>6
        <5>2. Touches(task[u].op, task[u].field) \cap Touches(task[v].op, task[v].field) = {}
          BY <1>6, <3>1, <5>1 DEF Held, Apart
        <5> QED BY <4>1, <4>6, <5>2
      <4> QED BY <4>4, <4>5, <4>6
    <3> QED BY <3>1 DEF Apart
  <2> QED BY <2>2, <2>3, <2>4, <2>5, <2>6, <2>7 DEF Held
<1> QED BY <1>4, <1>6 DEF Sound

LEMMA AutoTestDueSound ==
  ASSUME Typed, Sound, NEW t \in Tasks, AutoTestDue(t)
  PROVE  Sound'
<1>1. MayBegin("test", "auto", None) /\ Named("test", "auto")
  BY DEF MayBegin, Named, Keys, Fields, Options, SetsMode
<1>2. "test" \notin Replying \cup SetsMode
  BY DEF Replying, SetsMode
<1>3. /\ task[t] = Idle /\ phase # "down" /\ task' = [task EXCEPT ![t] = New("test", "auto", None)]
      /\ UNCHANGED <<settings, memory, phase, promise>> /\ calm' = (calm /\ Alone("test", "auto"))
  BY DEF AutoTestDue
<1> QED BY <1>1, <1>2, <1>3, NewSound

\* A request names what its operation says.
LEMMA RequestNamed ==
  ASSUME NEW r \in Requests
  PROVE  MayBegin(r.op, r.field, r.value) /\ Named(r.op, r.field)
<1>1. r.op \in Operations /\ r.field \in Keys \cup {"none"} /\ r.value \in Values \cup {None}
  BY SettingsAssumption
<1>2. /\ r.op \in {"dns", "ports", "tun"} => r.field = r.op
      /\ r.op \in {"mode", "cli_mode"} => r.field = "mode"
      /\ r.op \in {"rules", "provider"} => r.field = "rules"
      /\ r.op = "cli_select" => r.field = "selected"
      /\ r.op \in {"activate", "start"} => r.field = "none"
  BY SettingsAssumption
<1>3. r.op \notin {"test", "boot"}
  BY <1>1 DEF Operations
<1> QED BY <1>1, <1>2, <1>3 DEF MayBegin, Named, Options, SetsMode

LEMMA BeginSound ==
  ASSUME Typed, Sound, NEW t \in Tasks, NEW r \in Requests, Begin(t, r)
  PROVE  Sound'
<1>1. MayBegin(r.op, r.field, r.value) /\ Named(r.op, r.field)
  BY RequestNamed
<1>2. /\ task[t] = Idle /\ phase # "down" /\ task' = [task EXCEPT ![t] = New(r.op, r.field, r.value)]
      /\ UNCHANGED <<settings, memory, phase>> /\ calm' = (calm /\ Alone(r.op, r.field))
      /\ promise' = [f \in Fields |-> IF f \in Resets(r.op, r.field) THEN None ELSE promise[f]]
  BY DEF Begin, daemon
<1>3. /\ \A f \in Fields : promise'[f] \in {promise[f], None}
      /\ \A f \in Resets(r.op, r.field) \cap Fields : promise'[f] = None
  BY <1>2
<1>4. r.op \in SetsMode => promise'["mode"] = None
  <2>1. r.op \in SetsMode => "mode" \in Resets(r.op, r.field) \cap Fields
    BY <1>1 DEF Named, Resets, SetsMode, Fields
  <2> QED BY <1>3, <2>1
<1> QED BY <1>1, <1>2, <1>3, <1>4, NewSound

-----------------------------------------------------------------------------
(***************************************************************************)
(* Reads of settings.yaml, the merge and the truncation.                   *)
(***************************************************************************)
\* Nobody else is writing: the file is whole.
LEMMA NotTorn ==
  ASSUME Typed, NEW b, Held(b), NEW t \in Active,
         Head(task[t].todo) \notin {"write", "cli_write"}, ~SettingsTorn(t)
  PROVE  settings = b
<1>1. ~Writing
  BY DEF SettingsTorn, At, Writing
<1> QED BY <1>1 DEF Held, FileIs

LEMMA Got ==
  ASSUME Typed, settings # NoFile
  PROVE  \A f \in Fields : get_settings[f] = Of(settings, f)
<1>1. Fields \subseteq Keys /\ "selected" \notin Fields
  BY DEF Keys, Fields
<1>2. CASE settings = Empty
  BY <1>1, <1>2, SettingsAssumption DEF get_settings, Nothing, Of
<1>3. CASE settings # Empty
  <2>1. settings \in SettingsData /\ get_settings = [settings EXCEPT !["selected"] = None]
    BY <1>3 DEF Typed, TypeOK, SettingsData, get_settings
  <2> QED BY <1>1, <1>3, <2>1 DEF SettingsData, Of
<1> QED BY <1>2, <1>3

\* The settings that are requested agree with the file they were read from.
LEMMA RequestAgrees ==
  ASSUME Typed, FileInv, NEW t \in Active, Ordered(task[t]), Held(settings),
         Head(task[t].todo) = "request",
         NEW n, Kin(n, task[t]), n.mode = task[t].mode, n.data = Request(task[t]),
         n.op \notin {"rules", "activate"} => Head(n.todo) = "merge"
  PROVE  Agrees(settings, n)
<1> DEFINE q == task[t]
           b == settings
           g == get_settings
           M == Head(n.todo) = "merge"
<1>1. q \in Task /\ phase # "down" /\ settings # NoFile /\ Fields \subseteq Keys
  BY ActiveTask DEF FileInv, Keys, Fields
<1>2. g \in SettingsData /\ \A f \in Fields : g[f] = Of(b, f)
  BY <1>1, Got, ReadTypes DEF Typed
<1>3. n.op = q.op /\ n.field = q.field /\ Named(q.op, q.field) /\ (n.value = q.value \/ q.op = "test")
  BY DEF Kin, Ordered
<1>4. CASE q.mode # None
  <2>1. n.data = [g EXCEPT !["mode"] = q.mode]
    BY <1>4 DEF Request, save_mode
  <2>2. Decided(n) = {"mode"}
    BY <1>4 DEF Decided
  <2>3. n.data["mode"] = q.mode
    BY <1>1, <1>2, <2>1 DEF SettingsData, Fields
  <2>4. \A f \in Fields \ {"mode"} : n.data[f] = Of(b, f)
    BY <1>1, <1>2, <2>1 DEF SettingsData
  <2> QED BY <1>4, <2>2, <2>3, <2>4 DEF Agrees
<1>5. CASE q.mode = None /\ q.op = "put"
  <2>1. n.data = put_settings(q.field, q.value)
    BY <1>5 DEF Request
  <2>2. Decided(n) = {q.field}
    BY <1>3, <1>5 DEF Decided
  <2>3. \A f \in Fields \ {q.field} : n.data[f] = Of(b, f) \/ n.data[f] = None
    BY <1>1, <1>2, <2>1 DEF put_settings
  <2>4. q.field \in Fields => n.data[q.field] = q.value
    BY <1>1, <2>1 DEF put_settings
  <2> QED BY <1>3, <1>5, <2>2, <2>3, <2>4 DEF Agrees
<1>6. CASE q.mode = None /\ q.op = "dns"
  <2>1. n.data = put_dns_settings(q.value) /\ q.field = "dns"
    BY <1>3, <1>6 DEF Request, Named
  <2>2. Decided(n) = {"dns"}
    BY <1>3, <1>6, <2>1 DEF Decided
  <2>3. \A f \in Fields : n.data[f] = IF f = "dns" THEN q.value ELSE None
    BY <1>1, <2>1 DEF put_dns_settings, Nothing
  <2> QED BY <1>3, <1>6, <2>1, <2>2, <2>3 DEF Agrees
<1>7. CASE q.mode = None /\ q.op \in {"ports", "tun"}
  <2>1. memory["api_port"] \in Values /\ memory["api_port"] # None
    BY SettingsAssumption DEF Typed, TypeOK
  <2>2. Of(b, "api_port") \in {None, memory["api_port"]}
    <3>1. "api_port" \in Touches(q.op, q.field)
      BY <1>7 DEF Touches
    <3>2. ~Loading("api_port")
      <4>1. SUFFICES ASSUME NEW u \in Active, "api_port" \in Touches(task[u].op, task[u].field),
                            Head(task[u].todo) \in {"load", "store"}
                     PROVE  FALSE
        BY DEF Loading
      <4>2. u # t
        BY <4>1
      <4> QED BY <3>1, <4>1, <4>2 DEF Held, Apart
    <3> QED BY <1>1, <3>2 DEF Held, Remembered
  <2>3. Decided(n) = {q.field, "api_host", "api_port", "service_port"} /\ q.field = q.op
    BY <1>3, <1>7 DEF Decided, Named
  <2>4. CASE q.op = "ports"
    <3>1. n.data = apply_port_settings(q.value)
      BY <1>7, <2>4 DEF Request
    <3>2. /\ n.data["api_port"] = memory["api_port"] /\ n.data["ports"] = q.value
          /\ \A f \in {"mode", "lan", "auto", "auth"} : n.data[f] = None
          /\ \A f \in {"tun", "dns", "rules"} : n.data[f] = Of(b, f)
      BY <1>1, <1>2, <3>1 DEF apply_port_settings, SettingsData, Fields
    <3>3. Fields \ Decided(n) = {"mode", "lan", "auto", "auth", "tun", "dns", "rules"}
      BY <2>3, <2>4 DEF Fields
    <3> QED BY <1>3, <1>7, <2>1, <2>2, <2>3, <2>4, <3>2, <3>3 DEF Agrees
  <2>5. CASE q.op = "tun"
    <3>1. n.data = apply_tun_settings(q.value)
      BY <1>7, <2>5 DEF Request
    <3>2. /\ n.data["api_port"] = memory["api_port"] /\ n.data["tun"] = q.value
          /\ \A f \in {"lan", "auth"} : n.data[f] = None
          /\ \A f \in {"ports", "mode", "auto", "dns", "rules"} : n.data[f] = Of(b, f)
      BY <1>1, <1>2, <3>1 DEF apply_tun_settings, SettingsData, Fields
    <3>3. Fields \ Decided(n) = {"lan", "auth", "ports", "mode", "auto", "dns", "rules"}
      BY <2>3, <2>5 DEF Fields
    <3> QED BY <1>3, <1>7, <2>1, <2>2, <2>3, <2>5, <3>2, <3>3 DEF Agrees
  <2> QED BY <1>7, <2>4, <2>5
<1>8. CASE q.mode = None /\ q.op \notin {"put", "dns", "ports", "tun"}
  <2>1. n.data = with(q.field, q.value)
    BY <1>8 DEF Request
  <2>2. Decided(n) = {q.field}
    BY <1>3, <1>8 DEF Decided
  <2>3. \A f \in Fields \ {q.field} : n.data[f] = Of(b, f)
    BY <1>1, <1>2, <2>1 DEF with, SettingsData
  <2>4. q.field \in Fields => n.data[q.field] = q.value
    BY <1>1, <1>2, <2>1 DEF with, SettingsData
  <2> QED BY <1>3, <1>8, <2>2, <2>3, <2>4 DEF Agrees, Replying
<1> QED BY <1>4, <1>5, <1>6, <1>7, <1>8

LEMMA ClientReads ==
  ASSUME Typed, NEW n, n.client = Client
  PROVE  ClientAgrees(settings, n)
<1>1. Fields \subseteq Keys /\ ClientDrops \subseteq Keys
  BY DEF Keys, Fields, ClientDrops
<1>2. \A f \in ClientDrops : n.client[f] = None
  BY <1>1 DEF Client, ClientDrops
<1>3. ASSUME NEW f \in Fields \ ClientDrops
      PROVE n.client[f] = Of(settings, f) \/ (f = "tun" /\ Of(settings, f) = None)
  BY <1>1 DEF Client, Of
<1> QED BY <1>2, <1>3 DEF ClientAgrees

LEMMA ReadSettingsSound ==
  ASSUME Typed, Sound, NEW t \in Tasks, ReadSettings(t)
  PROVE  Sound'
<1> DEFINE q == task[t]
<1>1. t \in Active /\ q \in Task /\ Fits(q) /\ Ordered(q) /\ TypeOK /\ FileInv
      /\ Head(q.todo) \in {"request", "overrides", "cli_read"}
  BY ActiveTask DEF ReadSettings, At, Sound, OrderedInv, Typed
<1>2. UNCHANGED <<settings, memory, promise, phase, calm>>
  BY DEF ReadSettings, daemon, history
<1>3. SettingsTorn(t) \in BOOLEAN
      /\ (SettingsTorn(t) \/ (q.stale /\ (q.client # None \/ Switching(t)))) \in BOOLEAN
  BY <1>1 DEF SettingsTorn, Switching, Task
<1>4. get_settings \in SettingsData /\ Client \in SettingsData /\ Request(q) \in SettingsData
  BY <1>1, ReadTypes, RequestType
<1>5. CASE Head(q.todo) = "overrides"
  <2> DEFINE r == Reads(t, get_settings, SettingsTorn(t))
  <2>1. Advance(t, r, {})
    BY <1>5 DEF ReadSettings, At, Step
  <2>2. Alike(r, q) /\ (~r.stale /\ q.stale => r.client = None)
    BY <1>1, <1>3, <1>4 DEF Reads, Task, SettingsData, Alike, Kin
  <2> HIDE DEF r
  <2>3. {} \in SUBSET Active /\ "overrides" \in Aside \ {"store"}
    BY DEF Aside
  <2> QED BY <1>1, <1>2, <1>5, <2>1, <2>2, <2>3, TakenSound
<1>6. CASE Head(q.todo) = "request"
  <2> DEFINE d == Request(q)
             r == Reads(t, d, SettingsTorn(t))
             n == After(r)
  <2>1. Step(t, r)
    BY <1>6 DEF ReadSettings, At
  <2> HIDE DEF d
  <2>2. /\ r \in Task /\ Kin(r, q) /\ r.todo = q.todo /\ r.mode = q.mode /\ r.client = q.client
        /\ r.data = d
        /\ r.stale = (SettingsTorn(t) \/ (q.stale /\ (q.client # None \/ Switching(t))))
    BY <1>1, <1>3, <1>4 DEF Reads, Task, SettingsData, Kin, d
  <2> HIDE DEF r
  <2>3. /\ n \in Task /\ Kin(n, r) /\ n.mode = q.mode /\ n.client = q.client /\ n.data = d
        /\ n.stale = r.stale /\ n.todo = Tail(q.todo)
    BY <1>1, <1>6, <2>2, AfterIs DEF Fits
  <2>4. Moves(t, n, {})
    BY <2>1, <2>3, StepMoves
  <2> HIDE DEF n
  <2>5. Kin(n, q)
    BY <2>2, <2>3 DEF Kin
  <2>6. Ordered(n)
    BY <1>1, <1>6, <2>3, <2>5, OrderedTail
  <2>7. Head(n.todo) \in {"merge", "rename"}
    <3>1. Successors("request") = {"merge", "rename"}
      BY DEF Successors
    <3> QED BY <1>1, <1>6, <2>3, <3>1, TailIs DEF Fits
  <2>8. n.op \notin {"rules", "activate"} => Head(n.todo) = "merge"
    <3>1. Head(n.todo) \in ToSet(q.todo)
      <4>1. ToSet(n.todo) \subseteq ToSet(q.todo)
        BY <1>1, <1>6, <2>3, TailSet DEF Fits
      <4>2. Whole(n.todo)
        BY <1>1, <1>6, <2>3, TailIs DEF Fits
      <4>3. n.todo \in Seq(Steps) /\ 1 \in 1..Len(n.todo) /\ Head(n.todo) = n.todo[1]
        BY <4>2 DEF Whole, Chain
      <4>4. Head(n.todo) \in ToSet(n.todo)
        BY <4>3, InSet DEF Has
      <4> QED BY <4>1, <4>4
    <3> QED BY <1>1, <2>5, <2>7, <3>1 DEF Ordered, Orderly, Kin
  <2>9. ASSUME NEW b \in WholeFile, Held(b) PROVE TaskOk(b, n)
    <3>1. TaskOk(b, q)
      BY <1>1, <2>9 DEF Held, TasksOk
    <3>2. SavedOk(b, n)
      BY <1>1, <1>6, <2>3, <2>5, <3>1, SavedTail DEF TaskOk
    <3>3. ASSUME ~n.stale PROVE Agrees(b, n)
      <4>1. settings = b
        BY <1>1, <1>6, <2>2, <2>3, <2>9, <3>3, NotTorn
      <4> QED BY <1>1, <1>6, <2>3, <2>5, <2>8, <2>9, <4>1, RequestAgrees DEF d
    <3>4. ASSUME ~n.stale, n.client # None PROVE ClientAgrees(b, n)
      <4>1. ~q.stale
        BY <2>2, <2>3, <3>4
      <4>2. ClientAgrees(b, q)
        BY <2>3, <3>1, <3>4, <4>1 DEF TaskOk, Fresh
      <4> QED BY <2>3, <2>5, <4>2 DEF ClientAgrees, Kin
    <3>5. ~n.stale => Fresh(b, n, Head(n.todo))
      BY <2>7, <3>3, <3>4 DEF Fresh
    <3>6. n.op = "dns" => \A f \in Fields \ {"dns"} : n.data[f] = None
      <4>1. q.op = "dns" => q.mode = None
        BY <1>1 DEF Ordered, Starters, SetsMode
      <4>2. q.op = "dns" => d = put_dns_settings(q.value)
        BY <4>1 DEF d, Request
      <4> QED BY <2>3, <2>5, <4>2 DEF put_dns_settings, Nothing, Keys, Fields, Kin
    <3> QED BY <2>7, <3>2, <3>5, <3>6 DEF TaskOk
  <2> QED BY <1>1, <1>2, <1>6, <2>4, <2>5, <2>6, <2>9, AsideSound
<1>7. CASE Head(q.todo) = "cli_read"
  <2> DEFINE r == [q EXCEPT !.client = Client, !.stale = SettingsTorn(t)]
             n == After(r)
  <2>1. Step(t, r)
    BY <1>7 DEF ReadSettings, At
  <2>2. /\ r \in Task /\ Kin(r, q) /\ r.todo = q.todo /\ r.mode = q.mode /\ r.client = Client
        /\ r.stale = SettingsTorn(t)
    BY <1>1, <1>3, <1>4 DEF Task, SettingsData, Kin
  <2> HIDE DEF r
  <2>3. /\ n \in Task /\ Kin(n, r) /\ n.mode = q.mode /\ n.client = Client
        /\ n.stale = r.stale /\ n.todo = Tail(q.todo)
    BY <1>1, <1>7, <2>2, AfterIs DEF Fits
  <2>4. Moves(t, n, {})
    BY <2>1, <2>3, StepMoves
  <2> HIDE DEF n
  <2>5. Kin(n, q)
    BY <2>2, <2>3 DEF Kin
  <2>6. Ordered(n)
    BY <1>1, <1>7, <2>3, <2>5, OrderedTail
  <2>7. Head(n.todo) \in {"read_config", "select"}
    <3>1. Successors("cli_read") = {"read_config", "select"}
      BY DEF Successors
    <3> QED BY <1>1, <1>7, <2>3, <3>1, TailIs DEF Fits
  <2>8. ASSUME NEW b \in WholeFile, Held(b) PROVE TaskOk(b, n)
    <3>1. TaskOk(b, q)
      BY <1>1, <2>8 DEF Held, TasksOk
    <3>2. SavedOk(b, n)
      BY <1>1, <1>7, <2>3, <2>5, <3>1, SavedTail DEF TaskOk
    <3>3. ASSUME ~n.stale PROVE ClientAgrees(b, n)
      <4>1. settings = b
        BY <1>1, <1>7, <2>2, <2>3, <2>8, <3>3, NotTorn
      <4> QED BY <2>3, <4>1, ClientReads
    <3> QED BY <2>7, <3>2, <3>3 DEF TaskOk, Fresh
  <2> QED BY <1>1, <1>2, <1>7, <2>4, <2>5, <2>6, <2>8, AsideSound
<1> QED BY <1>1, <1>5, <1>6, <1>7

LEMMA MergeSettingsSound ==
  ASSUME Typed, Sound, NEW t \in Tasks, MergeSettings(t)
  PROVE  Sound'
<1> DEFINE q == task[t]
           d == merged(q.data, get_settings)
           r == [q EXCEPT !.data = d, !.stale = @ \/ SettingsTorn(t)]
           n == After(r)
<1>1. t \in Active /\ q \in Task /\ Fits(q) /\ Head(q.todo) = "merge" /\ TypeOK /\ Ordered(q)
      /\ settings # NoFile
  BY ActiveTask DEF MergeSettings, At, Typed, Sound, OrderedInv, FileInv
<1>2. UNCHANGED <<settings, memory, promise, phase, calm>> /\ Step(t, r)
  BY DEF MergeSettings, daemon, history
<1>3. q.data \in SettingsData /\ get_settings \in SettingsData /\ Fields \subseteq Keys
  BY <1>1, ReadTypes DEF Fits, Ready, Keys, Fields
<1>4. d \in SettingsData
  BY <1>3, MergedType
<1>5. \A f \in Fields : d[f] = IF q.data[f] # None THEN q.data[f] ELSE Of(settings, f)
  <2>1. \A f \in Fields : get_settings[f] = Of(settings, f)
    BY <1>1, Got
  <2> QED BY <1>3, <2>1 DEF merged
<1> HIDE DEF d
<1>6. /\ r \in Task /\ Kin(r, q) /\ r.todo = q.todo /\ r.mode = q.mode /\ r.client = q.client
      /\ r.data = d /\ r.stale = (q.stale \/ SettingsTorn(t)) /\ r.value = q.value
  BY <1>1, <1>4 DEF Task, SettingsData, SettingsTorn, Kin
<1> HIDE DEF r
<1>7. /\ n \in Task /\ Kin(n, r) /\ n.mode = q.mode /\ n.client = q.client /\ n.data = d
      /\ n.stale = r.stale /\ n.todo = Tail(q.todo)
  BY <1>1, <1>6, AfterIs DEF Fits
<1>8. Moves(t, n, {})
  BY <1>2, <1>7, StepMoves
<1> HIDE DEF n
<1>9. Kin(n, q)
  BY <1>6, <1>7 DEF Kin
<1>10. Ordered(n)
  BY <1>1, <1>7, <1>9, OrderedTail
<1>11. Head(n.todo) = "truncate"
  <2>1. Successors("merge") = {"truncate"}
    BY DEF Successors
  <2> QED BY <1>1, <1>7, <2>1, TailIs DEF Fits
<1>12. ASSUME NEW b \in WholeFile, Held(b) PROVE TaskOk(b, n)
  <2>1. TaskOk(b, q)
    BY <1>1, <1>12 DEF Held, TasksOk
  <2>2. SavedOk(b, n)
    BY <1>1, <1>7, <1>9, <2>1, SavedTail DEF TaskOk
  <2>3. ASSUME ~n.stale PROVE Fresh(b, n, "truncate")
    <3>1. settings = b /\ ~q.stale
      BY <1>1, <1>6, <1>7, <1>12, <2>3, NotTorn
    <3>2. Agrees(b, q)
      BY <1>1, <2>1, <3>1 DEF TaskOk, Fresh
    <3>3. Decided(n) = Decided(q)
      BY <1>7, <1>9 DEF Decided, Kin
    <3>4. \A f \in Fields \ Decided(n) : n.data[f] = Of(b, f)
      BY <1>5, <1>7, <3>1, <3>2, <3>3 DEF Agrees
    <3>5. q.mode # None => n.data["mode"] = q.mode
      BY <1>5, <1>7, <3>2 DEF Agrees, Fields
    <3>6. q.mode = None /\ q.op \in Replying /\ q.field \in Fields /\ q.value # None =>
            n.data[q.field] = q.value
      BY <1>5, <1>7, <3>2 DEF Agrees
    <3>7. q.mode = None /\ q.op \in {"ports", "tun"} =>
            n.data["api_port"] # None /\ Of(b, "api_port") \in {None, n.data["api_port"]}
      BY <1>5, <1>7, <3>2 DEF Agrees, Fields
    <3>8. Agrees(b, n)
      BY <1>7, <1>9, <3>4, <3>5, <3>6, <3>7 DEF Agrees, Kin, Replying
    <3>9. n.client # None => ClientAgrees(b, n)
      BY <1>7, <1>9, <2>1, <3>1 DEF TaskOk, Fresh, ClientAgrees, Kin
    <3> QED BY <3>8, <3>9 DEF Fresh
  <2> QED BY <1>11, <2>2, <2>3 DEF TaskOk
<1> QED BY <1>1, <1>2, <1>8, <1>9, <1>10, <1>12, AsideSound

LEMMA TruncateSettingsSound ==
  ASSUME Typed, Sound, NEW t \in Tasks, TruncateSettings(t)
  PROVE  Sound'
<1> DEFINE q == task[t]
           n == After(q)
<1>1. t \in Active /\ q \in Task /\ Fits(q) /\ Head(q.todo) \in {"truncate", "cli_truncate"}
      /\ Ordered(q)
  BY ActiveTask DEF TruncateSettings, At, Sound, OrderedInv
<1>2. UNCHANGED <<memory, promise, phase, calm>> /\ settings' = Empty /\ Step(t, q)
  BY DEF TruncateSettings, daemon, history
<1>3. /\ n \in Task /\ Kin(n, q) /\ n.mode = q.mode /\ n.client = q.client
      /\ n.data = q.data /\ n.stale = q.stale /\ n.todo = Tail(q.todo)
  BY <1>1, AfterIs DEF Fits
<1>4. Moves(t, n, {})
  BY <1>2, <1>3, StepMoves
<1> HIDE DEF n
<1>5. Ordered(n)
  BY <1>1, <1>3, OrderedTail
<1>6. OrderedInv' /\ FileInv'
  BY <1>2, <1>4, <1>5, OrderedMoved, SettingsAssumption DEF Sound, FileInv
<1>7. Head(n.todo) \in {"write", "cli_write"}
  <2>1. Successors("truncate") = {"write"} /\ Successors("cli_truncate") = {"cli_write"}
    BY DEF Successors
  <2> QED BY <1>1, <1>3, <2>1, TailIs DEF Fits
<1>8. ASSUME NEW b \in WholeFile, Held(b) PROVE Held(b)'
  <2>1. FileIs(b)'
    <3>1. t \in Active' /\ task'[t] = n
      BY <1>3, <1>4, Moved, IdleAssumption
    <3>2. Writing'
      BY <1>7, <3>1 DEF Writing
    <3> QED BY <1>2, <3>2 DEF FileIs
  <2>2. Promised(b)'
    BY <1>2, <1>8 DEF Held, Promised
  <2>3. Remembered(b)'
    <3>1. \A k : Loading(k) => Loading(k)'
      BY <1>1, <1>4, LoadingMoved
    <3> QED BY <1>2, <1>8, <3>1 DEF Held, Remembered
  <2>4. TasksOk(b)'
    <3>1. TaskOk(b, q) /\ OthersOk(b, t)
      BY <1>1, <1>8 DEF Held, TasksOk, OthersOk
    <3>2. TaskOk(b, n)
      BY <1>1, <1>3, <3>1, AsideOk DEF Aside
    <3> QED BY <1>4, <3>1, <3>2, TasksMoved
  <2>5. PromisesOwn' /\ Apart'
    BY <1>1, <1>2, <1>3, <1>4, <1>8, ApartMoved, OwnMoved DEF Held
  <2> QED BY <2>1, <2>2, <2>3, <2>4, <2>5 DEF Held
<1> QED BY <1>2, <1>6, <1>8 DEF Sound

LEMMA LoadSettingsSound ==
  ASSUME Typed, Sound, NEW t \in Tasks, LoadSettings(t)
  PROVE  Sound'
<1> DEFINE q == task[t]
<1>1. t \in Active /\ q \in Task /\ Fits(q) /\ Head(q.todo) \in {"load", "store"} /\ TypeOK
      /\ Ordered(q)
  BY ActiveTask DEF LoadSettings, At, Typed, Sound, OrderedInv
<1>2. UNCHANGED <<settings, promise, phase>> /\ (calm' => calm)
  <2>1. UNCHANGED <<settings, promise, phase>>
    BY DEF LoadSettings
  <2>2. calm' => calm
    <3>1. calm' = calm \/ calm' = (calm /\ ~q.stale)
      BY DEF LoadSettings, Overtaken
    <3> QED BY <3>1
  <2> QED BY <2>1, <2>2
<1>3. CASE Head(q.todo) = "load"
  <2> DEFINE r == Reads(t, settings, SettingsTorn(t))
             n == After(r)
  <2>1. Step(t, r) /\ UNCHANGED memory
    BY <1>3 DEF LoadSettings, At
  <2>2. (SettingsTorn(t) \/ (q.stale /\ (q.client # None \/ Switching(t)))) \in BOOLEAN
    BY <1>1 DEF SettingsTorn, Switching, Task
  <2>3. /\ r \in Task /\ Kin(r, q) /\ r.todo = q.todo /\ r.mode = q.mode /\ r.client = q.client
        /\ r.data = settings
        /\ r.stale = (SettingsTorn(t) \/ (q.stale /\ (q.client # None \/ Switching(t))))
    BY <1>1, <2>2 DEF Reads, Task, TypeOK, Kin
  <2> HIDE DEF r
  <2>4. /\ n \in Task /\ Kin(n, r) /\ n.mode = q.mode /\ n.client = q.client /\ n.data = settings
        /\ n.stale = r.stale /\ n.todo = Tail(q.todo)
    BY <1>1, <1>3, <2>3, AfterIs DEF Fits
  <2>5. Moves(t, n, {})
    BY <2>1, <2>4, StepMoves
  <2> HIDE DEF n
  <2>6. Kin(n, q) /\ n # Idle
    BY <2>3, <2>4, IdleAssumption DEF Kin
  <2>7. Ordered(n)
    BY <1>1, <1>3, <2>4, <2>6, OrderedTail
  <2>8. Head(n.todo) = "store"
    <3>1. Successors("load") = {"store"}
      BY DEF Successors
    <3> QED BY <1>1, <1>3, <2>4, <3>1, TailIs DEF Fits
  <2>9. ASSUME NEW b \in WholeFile, Held(b) PROVE TaskOk(b, n)
    <3>1. TaskOk(b, q)
      BY <1>1, <2>9 DEF Held, TasksOk
    <3>2. SavedOk(b, n)
      BY <1>1, <1>3, <2>4, <2>6, <3>1, SavedTail DEF TaskOk
    <3>3. ASSUME ~n.stale PROVE n.data = b
      BY <1>1, <1>3, <2>3, <2>4, <2>9, <3>3, NotTorn
    <3>4. ASSUME ~n.stale, n.client # None PROVE ClientAgrees(b, n)
      <4>1. ~q.stale
        BY <2>3, <2>4, <3>4
      <4>2. ClientAgrees(b, q)
        BY <2>4, <3>1, <3>4, <4>1 DEF TaskOk, Fresh
      <4> QED BY <2>4, <2>6, <4>2 DEF ClientAgrees, Kin
    <3> QED BY <2>8, <3>2, <3>3, <3>4 DEF TaskOk, Fresh
  <2> QED BY <1>1, <1>2, <1>3, <2>1, <2>5, <2>6, <2>7, <2>8, <2>9, AsideSound
<1>4. CASE Head(q.todo) = "store"
  <2> DEFINE r == [q EXCEPT !.data = None]
             n == After(r)
  <2>1. /\ memory' = loaded(q.data, memory) /\ Step(t, r) /\ calm' = (calm /\ ~q.stale)
    BY <1>4 DEF LoadSettings, At, Overtaken
  <2>2. /\ r \in Task /\ Kin(r, q) /\ r.todo = q.todo /\ r.mode = q.mode /\ r.client = q.client
        /\ r.stale = q.stale
    BY <1>1 DEF Task, Kin
  <2> HIDE DEF r
  <2>3. /\ n \in Task /\ Kin(n, r) /\ n.mode = q.mode /\ n.client = q.client
        /\ n.stale = q.stale /\ n.todo = Tail(q.todo)
    BY <1>1, <1>4, <2>2, AfterIs DEF Fits
  <2>4. Moves(t, n, {})
    BY <2>1, <2>3, StepMoves
  <2> HIDE DEF n
  <2>5. Kin(n, q)
    BY <2>2, <2>3 DEF Kin
  <2>6. Ordered(n)
    BY <1>1, <1>4, <2>3, <2>5, OrderedTail
  <2>7. OrderedInv' /\ FileInv'
    BY <1>2, <2>4, <2>6, OrderedMoved DEF Sound, FileInv
  <2>8. ASSUME calm', NEW b \in WholeFile, Held(b) PROVE Held(b)'
    <3>1. TaskOk(b, q) /\ ~q.stale
      BY <1>1, <2>1, <2>8 DEF Held, TasksOk
    <3>2. q.data = b
      BY <1>4, <3>1 DEF TaskOk, Fresh
    <3>3. MemoryOk(b, t)
      <4>1. memory \in [{"api_port", "auto"} -> Values]
        BY <1>1 DEF TypeOK
      <4> QED BY <2>1, <3>2, <4>1 DEF MemoryOk, loaded, Of
    <3>4. TaskOk(b, n)
      BY <1>1, <1>4, <2>3, <2>5, <3>1, AsideOk DEF Aside
    <3> QED BY <1>1, <1>2, <1>4, <2>4, <2>5, <2>8, <3>3, <3>4, AsideHeld
  <2> QED BY <1>2, <2>7, <2>8 DEF Sound
<1> QED BY <1>1, <1>3, <1>4

-----------------------------------------------------------------------------
(***************************************************************************)
(* Writes of settings.yaml.                                                *)
(***************************************************************************)
\* What becomes of the file that the task q knows, when it is c instead of b.
Keeps(b, c, q) ==
  \A f \in Fields \cap Touches(q.op, q.field) : Of(c, f) = Of(b, f) \/ Of(b, f) = None

Holds(q) ==
  \/ q.client # None
  \/ Head(q.todo) \in {"truncate", "write", "rename", "store"}
  \/ Head(q.todo) = "merge" /\ q.op # "dns"

LEMMA OtherOk ==
  ASSUME NEW q \in Task, Fits(q), Ordered(q), NEW b, TaskOk(b, q),
         NEW n, NEW p, Marked(n, q, p), Holds(q) => n.stale,
         NEW c, Keeps(b, c, q)
  PROVE  TaskOk(c, n)
<1> DEFINE s == Head(q.todo)
<1>1. /\ n.op = q.op /\ n.field = q.field /\ n.value = q.value /\ n.mode = q.mode
      /\ n.todo = q.todo /\ n.data = q.data /\ n.client = q.client /\ (q.stale => n.stale)
  <2>1. n.op = q.op /\ n.field = q.field
    BY DEF Marked, Kin
  <2> QED BY <2>1 DEF Marked
<1>2. SavedOk(c, n)
  <2>1. ASSUME q.op \in Replying, q.field \in Fields, q.value # None
        PROVE  Of(c, q.field) = q.value \/ (q.mode = None /\ Unsaved(q.todo))
    <3>1. q.field \in Touches(q.op, q.field)
      BY <2>1, TouchesIs DEF Ordered
    <3>2. Of(b, q.field) = q.value \/ (q.mode = None /\ Unsaved(q.todo))
      BY <2>1 DEF TaskOk, SavedOk
    <3> QED BY <2>1, <3>1, <3>2 DEF Keeps
  <2>2. ASSUME q.mode # None
        PROVE  Of(c, "mode") = q.mode \/ (q.op \notin Starters /\ Unsaved(q.todo))
    <3>1. "mode" \in Touches(q.op, q.field) /\ "mode" \in Fields
      BY <2>2, TouchesIs DEF Ordered, Fields
    <3>2. Of(b, "mode") = q.mode \/ (q.op \notin Starters /\ Unsaved(q.todo))
      BY <2>2 DEF TaskOk, SavedOk
    <3> QED BY <2>2, <3>1, <3>2 DEF Keeps
  <2> QED BY <1>1, <2>1, <2>2 DEF SavedOk
<1>3. ASSUME ~n.stale PROVE Fresh(c, n, s)
  <2>1. ~q.stale /\ ~Holds(q)
    BY <1>1, <1>3
  <2>2. n.client = None /\ s \notin {"truncate", "write", "rename", "store"}
    BY <1>1, <2>1 DEF Holds
  <2>3. ASSUME s = "merge" PROVE Agrees(c, n)
    <3>1. q.op = "dns"
      BY <2>1, <2>3 DEF Holds
    <3>2. q.mode = None /\ q.field = "dns"
      BY <3>1 DEF Ordered, Named, Starters, SetsMode
    <3>3. \A f \in Fields \ {"dns"} : q.data[f] = None
      BY <2>3, <3>1 DEF TaskOk
    <3>4. Agrees(b, q)
      BY <2>1, <2>3 DEF TaskOk, Fresh
    <3>5. Decided(n) = {"dns"}
      BY <1>1, <3>1, <3>2 DEF Decided
    <3>6. \A f \in Fields \ Decided(n) : Head(n.todo) = "merge" /\ n.data[f] = None
      BY <1>1, <2>3, <3>3, <3>5
    <3>7. q.field \in Fields /\ q.value # None /\ q.op \in Replying => n.data[q.field] = q.value
      BY <1>1, <3>2, <3>4 DEF Agrees
    <3> QED BY <1>1, <3>1, <3>2, <3>6, <3>7 DEF Agrees
  <2> QED BY <2>2, <2>3 DEF Fresh
<1>4. s = "finish" => q.value = Of(c, "auto")
  <2>1. SUFFICES ASSUME s = "finish" PROVE q.value = Of(c, "auto")
    OBVIOUS
  <2>2. q.value \in Values /\ q.value # None /\ q.value = Of(b, "auto")
    BY <2>1, SettingsAssumption DEF Fits, Ready, TaskOk
  <2>3. q.op = "test"
    <3>1. Has(q.todo, "finish")
      <4>1. q.todo \in Seq(Steps) /\ Len(q.todo) \in Nat /\ Len(q.todo) >= 1 /\ s = q.todo[1]
        BY DEF Fits, Whole, Chain
      <4> QED BY <2>1, <4>1 DEF Has
    <3>2. "finish" \in ToSet(q.todo)
      BY <3>1, InSet DEF Task
    <3> QED BY <3>2 DEF Ordered, Orderly
  <2>4. "auto" \in Fields \cap Touches(q.op, q.field)
    BY <2>3 DEF Touches, Fields
  <2> QED BY <2>2, <2>4 DEF Keeps
<1>5. s = "merge" /\ q.op = "dns" => \A f \in Fields \ {"dns"} : q.data[f] = None
  BY DEF TaskOk
<1> QED BY <1>1, <1>2, <1>3, <1>4, <1>5 DEF TaskOk

\* The task t has written c, and has changed nothing that is not its own.
LEMMA WriteSound ==
  ASSUME Typed, Sound, NEW b \in WholeFile, Held(b), NEW t \in Active,
         NEW n \in Task, Kin(n, task[t]), Moves(t, n, HoldsSettings \ {t}),
         NEW c, settings' = c, UNCHANGED <<memory, phase>>,
         Head(task[t].todo) \notin {"load", "store"},
         \A f \in Fields : \/ f \in Touches(task[t].op, task[t].field)
                           \/ Of(c, f) = Of(b, f) \/ Of(b, f) = None,
         \A f \in Fields : promise'[f] \in {promise[f], None},
         \A f \in Fields : promise'[f] # None => Of(c, f) = promise'[f],
         \A k \in {"api_port", "auto"} :
           \/ Of(c, k) \in {None, Of(b, k)}
           \/ k \in Touches(task[t].op, task[t].field) /\ Head(n.todo) = "load",
         TaskOk(c, n)
  PROVE  Held(c)'
<1>1. t \in Tasks /\ n # Idle /\ phase # "down"
  BY ActiveTask, IdleAssumption
<1>2. FileIs(c)' /\ Promised(c)'
  BY DEF FileIs, Promised
<1>3. PromisesOwn' /\ Apart'
  BY ApartMoved, OwnMoved DEF Held
<1>4. Remembered(c)'
  <2>1. ASSUME NEW k \in {"api_port", "auto"}, Of(c, k) # None, ~Loading(k)'
        PROVE  memory'[k] = Of(c, k)
    <3>1. CASE k \in Touches(task[t].op, task[t].field) /\ Head(n.todo) = "load"
      <4>1. t \in Active' /\ task'[t] = n
        BY <1>1, Moved
      <4>2. Loading(k)'
        BY <3>1, <4>1 DEF Loading, Kin
      <4> QED BY <2>1, <4>2
    <3>2. CASE Of(c, k) = Of(b, k)
      <4>1. ~Loading(k)
        BY <1>1, <2>1, LoadingMoved
      <4> QED BY <1>1, <2>1, <3>2, <4>1 DEF Held, Remembered
    <3> QED BY <2>1, <3>1, <3>2
  <2> QED BY <2>1 DEF Remembered
<1>5. TasksOk(c)'
  <2>1. ASSUME NEW u \in Active' PROVE TaskOk(c, task'[u])
    <3>1. CASE u = t
      BY <1>1, <3>1, Moved
    <3>2. CASE u # t
      <4>1. u \in Tasks \ {t}
        BY <2>1, <3>2 DEF Active
      <4>2. u \in Active /\ Marked(task'[u], task[u], u \in HoldsSettings \ {t})
        BY <1>1, <2>1, <4>1, Moved
      <4>3. task[u] \in Task /\ Fits(task[u]) /\ Ordered(task[u]) /\ TaskOk(b, task[u])
        BY <4>2, ActiveTask DEF Sound, OrderedInv, Held, TasksOk
      <4>4. Holds(task[u]) => task'[u].stale
        <5>1. Holds(task[u]) => u \in HoldsSettings \ {t}
          BY <3>2, <4>2 DEF Holds, HoldsSettings, At
        <5> QED BY <4>2, <5>1 DEF Marked
      <4>5. Keeps(b, c, task[u])
        <5>1. Touches(task[t].op, task[t].field) \cap Touches(task[u].op, task[u].field) = {}
          BY <3>2, <4>2 DEF Held, Apart
        <5> QED BY <5>1 DEF Keeps
      <4> QED BY <4>2, <4>3, <4>4, <4>5, OtherOk
    <3> QED BY <3>1, <3>2
  <2> QED BY <2>1 DEF TasksOk
<1> QED BY <1>2, <1>3, <1>4, <1>5 DEF Held

\* A save decides only what its operation touches.
LEMMA DecidedTouched ==
  ASSUME NEW q, Ordered(q), q.op # "test", q.op \in Operations \cup {"boot", "test"}
  PROVE  Decided(q) \cap Fields \subseteq Touches(q.op, q.field)
<1>1. Named(q.op, q.field)
  BY DEF Ordered
<1>2. CASE q.mode # None
  <2>1. "mode" \in Touches(q.op, q.field)
    BY <1>1, <1>2, TouchesIs DEF Ordered
  <2> QED BY <1>2, <2>1 DEF Decided
<1>3. CASE q.mode = None /\ q.op \in {"ports", "tun"}
  <2>1. Decided(q) = {q.field, "api_host", "api_port", "service_port"} /\ q.field = q.op
    BY <1>1, <1>3 DEF Decided, Named
  <2> QED BY <1>3, <2>1 DEF Touches
<1>4. CASE q.mode = None /\ q.op \notin {"ports", "tun"}
  <2>1. Decided(q) = {q.field}
    BY <1>4 DEF Decided
  <2>2. CASE q.op \in Replying
    BY <1>1, <2>1, <2>2, TouchesIs
  <2>3. CASE q.op \in SetsMode
    <3>1. q.field = "mode" /\ "mode" \in Touches(q.op, q.field)
      BY <1>1, <2>3, TouchesIs DEF Named
    <3> QED BY <2>1, <3>1
  <2>4. CASE q.op \in {"activate", "start", "boot", "cli_select"}
    <3>1. q.field \notin Fields
      BY <1>1, <2>4 DEF Named, Fields
    <3> QED BY <2>1, <3>1
  <2> QED BY <2>2, <2>3, <2>4 DEF Operations, Replying, SetsMode
<1> QED BY <1>2, <1>3, <1>4

\* What is promised of the fields that a save decides, it keeps.
LEMMA DecidedKept ==
  ASSUME NEW q \in Task, Fits(q), Ordered(q), q.op # "test", NEW b, Agrees(b, q),
         Promised(b), NEW f \in Decided(q) \cap Fields, promise[f] # None,
         q.op \in Replying => \A g \in Resets(q.op, q.field) \cap Fields : promise[g] = None,
         q.op \in SetsMode => promise["mode"] \in {None, q.value},
         q.mode # None => Of(b, "mode") = q.mode \/ q.op \notin Starters
  PROVE  q.data[f] = promise[f]
<1>1. Named(q.op, q.field) /\ q.op \in Operations \cup {"boot"}
  BY DEF Ordered, Task
<1>2. CASE q.mode # None
  <2>1. f = "mode" /\ q.data["mode"] = q.mode
    BY <1>2 DEF Decided, Agrees
  <2>2. CASE q.op \in SetsMode
    BY <2>1, <2>2 DEF Ordered
  <2>3. CASE q.op \notin SetsMode
    <3>1. Of(b, "mode") = q.mode
      BY <1>2, <2>3 DEF Ordered
    <3> QED BY <2>1, <3>1 DEF Promised
  <2> QED BY <2>2, <2>3
<1>3. CASE q.mode = None /\ q.op \in {"ports", "tun"}
  <2>1. f \in {q.field, "api_host", "api_port", "service_port"}
    BY <1>3 DEF Decided
  <2>2. Resets(q.op, q.field) = {q.field, "api_host", "service_port"} /\ q.op \in Replying
    BY <1>3 DEF Resets, Replying
  <2>3. f = "api_port"
    BY <2>1, <2>2
  <2>4. Of(b, "api_port") \in {None, q.data["api_port"]}
    BY <1>3 DEF Agrees
  <2> QED BY <2>3, <2>4 DEF Promised
<1>4. CASE q.mode = None /\ q.op \notin {"ports", "tun"}
  <2>1. f = q.field
    BY <1>4 DEF Decided
  <2>2. CASE q.op \in Replying
    <3>1. q.field \in Resets(q.op, q.field)
      BY <1>4, <2>2 DEF Resets, Replying
    <3> QED BY <2>1, <2>2, <3>1
  <2>3. CASE q.op \in SetsMode
    <3>1. f = "mode" /\ q.value = None
      BY <1>1, <1>4, <2>1, <2>3 DEF Named, Ordered
    <3> QED BY <2>3, <3>1
  <2>4. CASE q.op \in {"activate", "start", "boot", "cli_select"}
    BY <1>1, <2>1, <2>4 DEF Named, Fields
  <2> QED BY <1>1, <2>2, <2>3, <2>4 DEF Operations, Replying, SetsMode
<1> QED BY <1>2, <1>3, <1>4

LEMMA WriteSettingsSound ==
  ASSUME Typed, Sound, NEW t \in Tasks, WriteSettings(t)
  PROVE  Sound'
<1> DEFINE q == task[t]
           n == After(q)
           s == Head(q.todo)
<1>1. t \in Active /\ q \in Task /\ Fits(q) /\ s \in {"write", "rename"} /\ Ordered(q)
  BY ActiveTask DEF WriteSettings, At, Sound, OrderedInv
<1>2. /\ settings' = q.data /\ calm' = (calm /\ ~q.stale) /\ UNCHANGED <<memory, phase, promise>>
      /\ Advance(t, q, HoldsSettings \ {t})
  BY DEF WriteSettings, Overtaken, daemon
<1>3. /\ n \in Task /\ Kin(n, q) /\ n.mode = q.mode /\ n.client = q.client
      /\ n.data = q.data /\ n.stale = q.stale /\ n.todo = Tail(q.todo)
  BY <1>1, AfterIs DEF Fits
<1>4. Moves(t, n, HoldsSettings \ {t})
  <2>1. HoldsSettings \ {t} \in SUBSET Active
    BY DEF HoldsSettings
  <2> QED BY <1>2, <1>3, <2>1, AdvanceMoves
<1> HIDE DEF n
<1>5. q.data \in SettingsData
  BY <1>1 DEF Fits, Ready
<1>6. Ordered(n)
  BY <1>1, <1>3, OrderedTail
<1>7. OrderedInv'
  BY <1>1, <1>4, <1>6, OrderedMoved DEF Sound
<1>8. FileInv'
  BY <1>2, <1>5, SettingsAssumption DEF FileInv, SettingsData, Options
<1>9. Has(q.todo, s) /\ s \in ToSet(q.todo)
  BY <1>1, TailSet, InSet DEF Fits, Task
<1>10. q.op # "test"
  BY <1>1, <1>9 DEF Ordered, Orderly
<1>11. Head(n.todo) \in {"load", "spawn", "reply"} /\ (s = "write" /\ q.op # "provider" => Head(n.todo) = "load")
  <2>1. Successors("write") = {"load", "reply"} /\ Successors("rename") = {"spawn", "reply"}
    BY DEF Successors
  <2>2. Head(n.todo) \in {"load", "spawn", "reply"}
    BY <1>1, <1>3, <2>1, TailIs DEF Fits
  <2>3. s = "write" /\ q.op # "provider" => Head(n.todo) = "load"
    <3>1. Whole(q.todo) /\ Orderly(q.op, q.todo) /\ Head(q.todo) \notin {"reply", "finish"}
      BY <1>1 DEF Fits, Ordered
    <3>2. s = "write" /\ q.op # "provider" => Head(Tail(q.todo)) = "load"
      BY <3>1, TailOrderly
    <3> QED BY <1>3, <3>2
  <2> QED BY <2>2, <2>3
<1>12. ASSUME calm' PROVE \E c \in WholeFile : Held(c)'
  <2>1. PICK b \in WholeFile : Held(b)
    BY <1>2, <1>12 DEF Sound
  <2>2. PICK c \in SettingsData : c = settings'
    BY <1>2, <1>5
  <2>3. c = q.data /\ c \in WholeFile /\ \A k : Of(c, k) = c[k]
    BY <1>2, <2>2, SettingsAssumption DEF WholeFile, Of, SettingsData, Options
  <2>4. TaskOk(b, q) /\ ~q.stale
    BY <1>1, <1>2, <1>12, <2>1 DEF Held, TasksOk
  <2>5. Agrees(b, q)
    BY <1>1, <2>4 DEF TaskOk, Fresh
  <2>6. \A f \in Fields \ Decided(q) : Of(c, f) = Of(b, f)
    BY <1>1, <2>3, <2>5 DEF Agrees
  <2>7. q.mode # None => Of(b, "mode") = q.mode \/ q.op \notin Starters
    BY <2>4 DEF TaskOk, SavedOk
  <2>8. \A f \in Decided(q) \cap Fields : f \in Touches(q.op, q.field)
    BY <1>1, <1>10, DecidedTouched DEF Task
  <2>9. ASSUME NEW f \in Fields, promise'[f] # None PROVE Of(c, f) = promise'[f]
    <3>1. CASE f \in Decided(q)
      <4>1. q.data[f] = promise[f]
        BY <1>1, <1>2, <1>10, <2>1, <2>5, <2>7, <2>9, <3>1, DecidedKept DEF Held, PromisesOwn
      <4> QED BY <1>2, <2>3, <4>1
    <3>2. CASE f \notin Decided(q)
      BY <1>2, <2>1, <2>6, <2>9, <3>2 DEF Held, Promised
    <3> QED BY <3>1, <3>2
  <2>10. ASSUME NEW k \in {"api_port", "auto"}
         PROVE  \/ Of(c, k) \in {None, Of(b, k)}
                \/ k \in Touches(q.op, q.field) /\ Head(n.todo) = "load"
    <3>1. k \in Fields
      BY DEF Fields
    <3>2. CASE k \notin Decided(q)
      BY <2>6, <3>1, <3>2
    <3>3. CASE k \in Decided(q)
      <4>1. q.op \notin {"provider", "rules", "activate"}
        <5>1. q.mode = None
          BY <3>3 DEF Decided
        <5>2. q.op \in {"provider", "rules", "activate"} => Decided(q) = {q.field} /\ q.field \in {"rules", "none"}
          BY <1>1, <5>1 DEF Decided, Ordered, Named
        <5> QED BY <3>3, <5>2
      <4>2. s = "write"
        BY <1>1, <1>9, <4>1 DEF Ordered, Orderly
      <4> QED BY <1>11, <2>8, <3>1, <3>3, <4>1, <4>2
    <3> QED BY <3>2, <3>3
  <2>11. TaskOk(c, n)
    <3>1. ASSUME n.client # None PROVE ClientAgrees(c, n)
      <4>1. ClientAgrees(b, q) /\ q.op \in ClientOps
        BY <1>1, <1>3, <2>4, <3>1 DEF TaskOk, Fresh, Ordered
      <4>2. \A f \in Fields : f \in Decided(q) => f = "mode" /\ q.op = "cli_mode"
        <5>1. q.op \in {"cli_mode", "cli_select"} /\ Named(q.op, q.field)
          BY <1>1, <4>1 DEF ClientOps, Ordered
        <5>2. q.op = "cli_mode" => Decided(q) = {"mode"}
          BY <5>1 DEF Decided, Named, SetsMode
        <5>3. q.op = "cli_select" => Decided(q) = {"selected"}
          BY <1>1, <5>1 DEF Decided, Named, Ordered, Starters, SetsMode
        <5> QED BY <5>1, <5>2, <5>3 DEF Fields
      <4> QED BY <1>3, <2>6, <4>1, <4>2 DEF ClientAgrees, Kin
    <3>2. ASSUME q.op \in Replying, q.field \in Fields, q.value # None PROVE Of(c, q.field) = q.value
      <4>1. CASE q.mode = None
        BY <2>3, <2>5, <3>2, <4>1 DEF Agrees
      <4>2. CASE q.mode # None
        <5>1. Of(b, q.field) = q.value
          BY <2>4, <3>2, <4>2 DEF TaskOk, SavedOk
        <5>2. q.op \in {"ports", "tun"}
          BY <1>1, <3>2, <4>2 DEF Ordered, Replying, Starters, SetsMode
        <5>3. q.field \notin Decided(q)
          BY <1>1, <4>2, <5>2 DEF Ordered, Named, Decided
        <5> QED BY <2>6, <3>2, <5>1, <5>3
      <4> QED BY <4>1, <4>2
    <3>3. q.mode # None => Of(c, "mode") = q.mode
      BY <2>3, <2>5 DEF Agrees
    <3>4. SavedOk(c, n)
      BY <1>3, <1>10, <3>2, <3>3 DEF SavedOk, Kin
    <3> QED BY <1>11, <3>1, <3>4 DEF TaskOk, Fresh
  <2>12. Held(c)'
    <3>1. \A f \in Fields : \/ f \in Touches(q.op, q.field)
                           \/ Of(c, f) = Of(b, f) \/ Of(b, f) = None
      BY <2>6, <2>8
    <3>2. /\ \A f \in Fields : promise'[f] \in {promise[f], None}
          /\ s \notin {"load", "store"} /\ UNCHANGED <<memory, phase>>
      BY <1>1, <1>2
    <3>3. \A k \in {"api_port", "auto"} :
             \/ Of(c, k) \in {None, Of(b, k)}
             \/ k \in Touches(q.op, q.field) /\ Head(n.todo) = "load"
      BY <2>10
    <3>4. \A f \in Fields : promise'[f] # None => Of(c, f) = promise'[f]
      BY <2>9
    <3> QED BY <1>1, <1>3, <1>4, <2>1, <2>2, <2>11, <3>1, <3>2, <3>3, <3>4, WriteSound
  <2> QED BY <2>3, <2>12
<1> QED BY <1>7, <1>8, <1>12 DEF Sound

LEMMA WriteClientSound ==
  ASSUME Typed, Sound, NEW t \in Tasks, WriteClient(t)
  PROVE  Sound'
<1> DEFINE q == task[t]
           r == [q EXCEPT !.client = None]
           n == After(r)
           d == IF q.op = "cli_mode" THEN [q.client EXCEPT !["mode"] = q.value]
                                     ELSE [q.client EXCEPT !["selected"] = q.value]
<1>1. t \in Active /\ q \in Task /\ Fits(q) /\ Head(q.todo) = "cli_write" /\ Ordered(q)
  BY ActiveTask DEF WriteClient, At, Sound, OrderedInv
<1>2. /\ settings' = d /\ calm' = (calm /\ ~q.stale) /\ UNCHANGED <<memory, phase>>
      /\ promise' = [f \in Fields |-> IF f \in ClientDrops THEN None ELSE promise[f]]
      /\ Advance(t, r, HoldsSettings \ {t})
  BY DEF WriteClient, Overtaken, daemon
<1>3. Has(q.todo, "cli_write") /\ "cli_write" \in ToSet(q.todo)
  BY <1>1, TailSet, InSet DEF Fits, Task
<1>4. q.op \in ClientOps
  BY <1>1, <1>3 DEF Ordered, Orderly
<1>5. q.client \in SettingsData /\ q.client # None
  <2>1. ~Unwritten(q.todo)
    BY <1>3 DEF Has, Unwritten
  <2> QED BY <1>1, <2>1, SettingsAssumption DEF Fits, SettingsData, Options
<1>6. d \in SettingsData /\ \A f \in Fields : d[f] = IF f = "mode" /\ q.op = "cli_mode" THEN q.value ELSE q.client[f]
  BY <1>1, <1>5 DEF Task, SettingsData, Keys, Fields
<1> HIDE DEF d
<1>7. r \in Task /\ Kin(r, q) /\ r.todo = q.todo /\ r.mode = q.mode /\ r.client = None
  BY <1>1 DEF Task, Kin
<1> HIDE DEF r
<1>8. n \in Task /\ Kin(n, r) /\ n.mode = q.mode /\ n.client = None /\ n.todo = Tail(q.todo)
  BY <1>1, <1>7, AfterIs DEF Fits
<1>9. Moves(t, n, HoldsSettings \ {t})
  <2>1. HoldsSettings \ {t} \in SUBSET Active
    BY DEF HoldsSettings
  <2> QED BY <1>2, <1>8, <2>1, AdvanceMoves
<1> HIDE DEF n
<1>10. Kin(n, q)
  BY <1>7, <1>8 DEF Kin
<1>11. Ordered(n)
  BY <1>1, <1>8, <1>10, OrderedTail
<1>12. OrderedInv'
  BY <1>1, <1>9, <1>11, OrderedMoved DEF Sound
<1>13. FileInv'
  BY <1>2, <1>6, SettingsAssumption DEF FileInv, SettingsData, Options
<1>14. ASSUME calm' PROVE \E c \in WholeFile : Held(c)'
  <2>1. PICK b \in WholeFile : Held(b)
    BY <1>2, <1>14 DEF Sound
  <2>2. PICK c \in SettingsData : c = settings'
    BY <1>2, <1>6
  <2>3. c = d /\ c \in WholeFile /\ \A k : Of(c, k) = c[k]
    BY <1>2, <2>2, SettingsAssumption DEF WholeFile, Of, SettingsData, Options
  <2>4. ClientAgrees(b, q)
    BY <1>1, <1>2, <1>5, <1>14, <2>1 DEF Held, TasksOk, TaskOk, Fresh
  <2>5. Touches(q.op, q.field) = ClientDrops \cup {"mode"}
    BY <1>4 DEF Touches, ClientOps
  <2>6. \A f \in ClientDrops : f \in Fields /\ f # "mode" /\ Of(c, f) = None
    BY <1>6, <2>3, <2>4 DEF ClientAgrees, ClientDrops, Fields
  <2>7. ASSUME NEW f \in Fields \ ClientDrops
        PROVE \/ Of(c, f) = Of(b, f)
              \/ Of(b, f) = None /\ f = "tun"
              \/ f = "mode" /\ q.op = "cli_mode" /\ Of(c, f) = q.value
    BY <1>6, <2>3, <2>4 DEF ClientAgrees
  <2>8. ASSUME NEW f \in Fields, promise'[f] # None PROVE Of(c, f) = promise'[f]
    <3>1. f \notin ClientDrops /\ promise'[f] = promise[f] /\ Of(b, f) = promise[f]
      BY <1>2, <2>1, <2>8 DEF Held, Promised
    <3>2. CASE f = "mode" /\ q.op = "cli_mode" /\ Of(c, f) = q.value
      <4>1. promise["mode"] \in {None, q.value}
        BY <1>1, <2>1, <3>2 DEF Held, PromisesOwn, SetsMode
      <4> QED BY <2>8, <3>1, <3>2, <4>1
    <3> QED BY <2>7, <2>8, <3>1, <3>2
  <2>9. \A f \in Fields : promise'[f] \in {promise[f], None}
    BY <1>2
  <2>10. \A k \in {"api_port", "auto"} : Of(c, k) \in {None, Of(b, k)}
    <3>1. "auto" \in ClientDrops /\ "api_port" \in Fields \ ClientDrops
      BY DEF ClientDrops, Fields
    <3> QED BY <2>6, <2>7, <3>1
  <2>11. \A f \in Fields : \/ f \in Touches(q.op, q.field)
                           \/ Of(c, f) = Of(b, f) \/ Of(b, f) = None
    BY <2>5, <2>7
  <2>12. TaskOk(c, n)
    <3>1. Head(n.todo) \in {"read_config", "reply"}
      <4>1. Successors("cli_write") = {"read_config", "reply"}
        BY DEF Successors
      <4> QED BY <1>1, <1>8, <4>1, TailIs DEF Fits
    <3>2. n.op = q.op /\ q.op \notin Replying
      BY <1>4, <1>10 DEF Kin, ClientOps, Replying
    <3>3. q.mode # None => Of(c, "mode") = q.mode
      <4>1. q.mode # None => q.op = "cli_mode" /\ q.mode = q.value
        BY <1>1, <1>4 DEF Ordered, ClientOps, Starters, SetsMode
      <4> QED BY <1>6, <2>3, <4>1 DEF Fields
    <3>4. SavedOk(c, n)
      BY <1>8, <3>2, <3>3 DEF SavedOk
    <3> QED BY <1>8, <3>1, <3>4 DEF TaskOk, Fresh
  <2>13. Held(c)'
    <3>1. \A f \in Fields : promise'[f] # None => Of(c, f) = promise'[f]
      BY <2>8
    <3>2. Head(q.todo) \notin {"load", "store"} /\ UNCHANGED <<memory, phase>>
      BY <1>1, <1>2
    <3> QED BY <1>1, <1>8, <1>9, <1>10, <2>1, <2>2, <2>9, <2>10, <2>11, <2>12, <3>1, <3>2, WriteSound
  <2> QED BY <2>3, <2>13
<1> QED BY <1>12, <1>13, <1>14 DEF Sound

-----------------------------------------------------------------------------
(***************************************************************************)
(* The daemon starts and ends; the client is alone.                        *)
(***************************************************************************)
LEMMA DownIdle ==
  ASSUME Typed, phase = "down"
  PROVE  Active = {} /\ ~Writing
BY DEF Typed, TypeOK, Active, Writing

\* Without a task under way, the whole file is the one that is there.
LEMMA RestFile ==
  ASSUME NEW b, Held(b), ~Writing
  PROVE  settings = b /\ Promised(settings)
BY DEF Held, FileIs

LEMMA FileType ==
  ASSUME NEW c \in SettingsData
  PROVE  c \in WholeFile /\ c # NoFile /\ \A k : Of(c, k) = c[k]
BY SettingsAssumption DEF WholeFile, SettingsData, Options, Of

LEMMA BootSound ==
  ASSUME Typed, Sound, NEW t \in Tasks, Boot(t)
  PROVE  Sound'
<1> DEFINE n == New("boot", "none", None)
<1>1. phase = "down" /\ settings' = ensured /\ UNCHANGED <<promise, calm>>
      /\ phase' # "down"
  BY DEF Boot, history
<1>2. Active = {} /\ ~Writing /\ TypeOK
  BY <1>1, DownIdle DEF Typed
<1>3. /\ n \in Task /\ n.op = "boot" /\ Ordered(n) /\ \A b : TaskOk(b, n)
  <2>1. MayBegin("boot", "none", None) /\ Named("boot", "none")
    BY DEF MayBegin, Named, Options, SetsMode
  <2> QED BY <2>1, NewIs
<1>4. task' = [task EXCEPT ![t] = n] \/ task' = task
  BY DEF Boot
<1> HIDE DEF n
<1>5. \A u \in Active' : u = t /\ task'[u] = n
  BY <1>2, <1>4 DEF Active, TypeOK
<1>6. OrderedInv'
  BY <1>3, <1>5 DEF OrderedInv
<1>7. ensured \in {Empty} \cup SettingsData
  BY <1>2, ReadTypes
<1>8. FileInv'
  BY <1>1, <1>7, FileType, SettingsAssumption DEF FileInv
<1>9. ASSUME calm' PROVE \E c \in WholeFile : Held(c)'
  <2>1. PICK b \in WholeFile : Held(b)
    BY <1>1, <1>9 DEF Sound
  <2>2. PICK c \in {Empty} \cup SettingsData : c = settings'
    BY <1>1, <1>7
  <2>3. c \in WholeFile
    BY <2>2 DEF WholeFile
  <2>4. FileIs(c)'
    BY <2>2 DEF FileIs
  <2>5. Promised(c)'
    <3>1. settings = b /\ Promised(b)
      BY <1>2, <2>1, RestFile DEF Held
    <3>2. b # NoFile => c = b
      BY <1>1, <2>2, <3>1 DEF ensured
    <3>3. b = NoFile => \A f : Of(b, f) = None
      BY DEF Of
    <3> QED BY <1>1, <3>1, <3>2, <3>3 DEF Promised
  <2>6. Remembered(c)'
    <3>1. memory' = loaded(ensured, [api_port |-> Default, auto |-> Default])
      BY DEF Boot
    <3>2. \A k \in {"api_port", "auto"} : Of(c, k) # None => memory'[k] = Of(c, k)
      BY <1>1, <2>2, <3>1 DEF loaded, Of
    <3> QED BY <3>2 DEF Remembered
  <2>7. TasksOk(c)' /\ Apart'
    BY <1>3, <1>5 DEF TasksOk, Apart
  <2>8. PromisesOwn'
    <3>1. "boot" \notin Replying /\ "boot" \notin SetsMode
      BY DEF Replying, SetsMode
    <3> QED BY <1>3, <1>5, <3>1 DEF PromisesOwn
  <2> QED BY <2>3, <2>4, <2>5, <2>6, <2>7, <2>8 DEF Held
<1> QED BY <1>6, <1>8, <1>9 DEF Sound

\* What holds when nothing runs.
LEMMA DownSound ==
  ASSUME Active' = {}, phase' = "down",
         calm' => settings' \in WholeFile /\ \A f \in Fields : promise'[f] # None => Of(settings', f) = promise'[f]
  PROVE  Sound'
<1>1. OrderedInv' /\ FileInv'
  BY DEF OrderedInv, FileInv
<1>2. ASSUME calm' PROVE \E c \in WholeFile : Held(c)'
  <2>1. PICK c \in WholeFile : c = settings'
    BY <1>2
  <2>2. FileIs(c)' /\ Remembered(c)'
    BY <2>1 DEF FileIs, Remembered
  <2>3. Promised(c)'
    BY <1>2, <2>1 DEF Promised
  <2>4. TasksOk(c)' /\ PromisesOwn' /\ Apart'
    BY DEF TasksOk, PromisesOwn, Apart
  <2> QED BY <2>2, <2>3, <2>4 DEF Held
<1> QED BY <1>1, <1>2 DEF Sound

LEMMA CrashSound ==
  ASSUME Typed, Sound, Crash
  PROVE  Sound'
<1>1. Active' = {} /\ phase' = "down" /\ UNCHANGED <<settings, calm>>
  BY DEF Crash, Active
<1>2. \A f \in Fields : promise'[f] # None => settings # Empty /\ promise'[f] = promise[f]
  BY DEF Crash
<1>3. settings \in WholeFile
  BY DEF Typed, TypeOK, WholeFile, SettingsData
<1>4. ASSUME calm', NEW f \in Fields, promise'[f] # None PROVE Of(settings', f) = promise'[f]
  <2>1. PICK b \in WholeFile : Held(b)
    BY <1>1, <1>4 DEF Sound
  <2>2. settings = b
    BY <1>2, <1>4, <2>1 DEF Held, FileIs
  <2> QED BY <1>1, <1>2, <1>4, <2>1, <2>2 DEF Held, Promised
<1> QED BY <1>1, <1>3, <1>4, DownSound

LEMMA ClientAloneSound ==
  ASSUME Typed, Sound, NEW v \in Values, ClientAlone(v)
  PROVE  Sound'
<1>1. /\ phase = "down" /\ UNCHANGED <<phase, task, calm>>
      /\ settings' = [Client EXCEPT !["mode"] = v]
      /\ promise' = [f \in Fields |-> CASE f = "mode" -> v
                                         [] f \in ClientDrops -> None
                                         [] OTHER -> promise[f]]
  BY DEF ClientAlone, daemon
<1>2. Active = {} /\ Active' = {} /\ ~Writing
  BY <1>1, DownIdle DEF Active
<1>3. Client \in SettingsData /\ v \in Options
  BY ReadTypes DEF Typed, Options
<1>4. settings' \in SettingsData
  BY <1>1, <1>3 DEF SettingsData
<1>5. settings' \in WholeFile /\ \A k : Of(settings', k) = settings'[k]
  BY <1>4, FileType
<1>6. ASSUME calm', NEW f \in Fields, promise'[f] # None PROVE settings'[f] = promise'[f]
  <2>1. PICK b \in WholeFile : Held(b)
    BY <1>1, <1>6 DEF Sound
  <2>2. settings = b /\ Promised(b)
    BY <1>2, <2>1, RestFile
  <2>3. Fields \subseteq Keys
    BY DEF Keys
  <2>4. CASE f = "mode"
    BY <1>1, <1>3, <1>6, <2>3, <2>4 DEF SettingsData
  <2>5. CASE f # "mode"
    <3>1. f \notin ClientDrops /\ promise'[f] = promise[f] /\ promise[f] # None
      BY <1>1, <1>6, <2>5 DEF ClientDrops
    <3>2. Of(b, f) = promise[f]
      BY <2>2, <3>1 DEF Promised
    <3>3. b \notin {NoFile, Empty} /\ b[f] = promise[f]
      BY <3>1, <3>2 DEF Of
    <3>4. Client[f] = promise[f]
      BY <2>2, <2>3, <3>1, <3>3 DEF Client
    <3> QED BY <1>1, <1>3, <2>3, <2>5, <3>1, <3>4 DEF SettingsData
  <2> QED BY <2>4, <2>5
<1> QED BY <1>1, <1>2, <1>5, <1>6, DownSound

\* What the invariant speaks of.
subject == <<settings, memory, phase, task, promise, calm>>

LEMMA StutterSound ==
  ASSUME Sound, UNCHANGED subject
  PROVE  Sound'
<1>1. Active' = Active
  BY DEF subject, Active
<1>2. OrderedInv' /\ FileInv'
  BY <1>1 DEF subject, Sound, OrderedInv, FileInv
<1>3. ASSUME calm' PROVE \E b \in WholeFile : Held(b)'
  <2>1. PICK b \in WholeFile : Held(b)
    BY <1>3 DEF subject, Sound
  <2>2. (Writing' <=> Writing) /\ \A k : Loading(k)' <=> Loading(k)
    BY <1>1 DEF subject, Writing, Loading
  <2>3. FileIs(b)' /\ Promised(b)' /\ Remembered(b)'
    BY <2>1, <2>2 DEF subject, Held, FileIs, Promised, Remembered
  <2>4. TasksOk(b)' /\ PromisesOwn' /\ Apart'
    BY <1>1, <2>1 DEF subject, Held, TasksOk, PromisesOwn, Apart
  <2> QED BY <2>3, <2>4 DEF Held
<1> QED BY <1>2, <1>3 DEF Sound

LEMMA InitSound ==
  ASSUME Init
  PROVE  Sound
<1>1. Active = {} /\ phase = "down" /\ settings = NoFile
  BY DEF Init, Active
<1>2. OrderedInv /\ FileInv
  BY <1>1 DEF OrderedInv, FileInv
<1>3. Held(NoFile)
  <2>1. FileIs(NoFile) /\ Remembered(NoFile)
    BY <1>1 DEF FileIs, Remembered
  <2>2. Promised(NoFile)
    BY DEF Init, Promised
  <2>3. TasksOk(NoFile) /\ PromisesOwn /\ Apart
    BY <1>1 DEF TasksOk, PromisesOwn, Apart
  <2> QED BY <2>1, <2>2, <2>3 DEF Held
<1> QED BY <1>2, <1>3 DEF Sound, WholeFile

-----------------------------------------------------------------------------
(***************************************************************************)
(* The theorems.                                                           *)
(***************************************************************************)
LEMMA NextSound ==
  ASSUME Typed, Sound, [Next]_vars
  PROVE  Sound'
<1>1. ASSUME NEW t \in Tasks, ConfigStep(t) PROVE Sound'
  BY <1>1, ReadConfigSound, CutConfigSound, WriteConfigSound DEF ConfigStep
<1>2. ASSUME NEW t \in Tasks, SettingsStep(t) PROVE Sound'
  BY <1>2, ReadSettingsSound, MergeSettingsSound, TruncateSettingsSound, WriteSettingsSound,
     WriteClientSound, LoadSettingsSound DEF SettingsStep
<1>3. ASSUME NEW t \in Tasks, MihomoStep(t) PROVE Sound'
  BY <1>3, SpawnSound, RecordPathSound, SelectProxySound, RestoreModeSound, PatchModeSound,
     PatchLanSound DEF MihomoStep
<1>4. ASSUME NEW t \in Tasks, Reply(t) PROVE Sound'
  BY <1>4, ReplySound
<1>5. ASSUME NEW t \in Tasks, AutoTestDue(t) PROVE Sound'
  BY <1>5, AutoTestDueSound
<1>6. ASSUME NEW t \in Tasks, RunAutoTest(t) PROVE Sound'
  BY <1>6, RunAutoTestSound
<1>7. ASSUME NEW t \in Tasks, Boot(t) PROVE Sound'
  BY <1>7, BootSound
<1>8. ASSUME NEW t \in Tasks, NEW r \in Requests, Begin(t, r) PROVE Sound'
  BY <1>8, BeginSound
<1>9. CASE Crash
  BY <1>9, CrashSound
<1>10. CASE MihomoExits
  BY <1>10, StutterSound DEF MihomoExits, daemon, history, subject
<1>11. ASSUME NEW v \in Values, ClientAlone(v) PROVE Sound'
  BY <1>11, ClientAloneSound
<1>12. CASE UNCHANGED vars
  BY <1>12, StutterSound DEF vars, daemon, history, subject
<1> QED BY <1>1, <1>2, <1>3, <1>4, <1>5, <1>6, <1>7, <1>8, <1>9, <1>10, <1>11, <1>12 DEF Next

LEMMA SoundAlways == Spec => [](Typed /\ Sound)
<1>1. Init => Sound
  BY InitSound
<1>2. Typed /\ Sound /\ [Next]_vars => Sound'
  BY NextSound
<1> QED BY <1>1, <1>2, TypedAlways, PTL DEF Spec

\* Whatever handlers save after each other or at the same time, as long as no
\* writer has overtaken another between its read and its write, a setting that a
\* reply acknowledged is in settings.yaml (save_settings and everything that
\* writes the file past it).
THEOREM SettingsKeptAlways == Spec => []SettingsKept
<1>1. Typed /\ Sound => SettingsKept
  <2>1. SUFFICES ASSUME Sound, AtRest, NEW f \in Fields, promise[f] # None
                 PROVE  settings \notin {NoFile, Empty} /\ settings[f] = promise[f]
    BY DEF SettingsKept
  <2>2. PICK b \in WholeFile : Held(b)
    BY <2>1 DEF Sound, AtRest
  <2>3. settings = b /\ Promised(b)
    BY <2>1, <2>2, RestFile DEF AtRest, Writing
  <2>4. Of(b, f) = promise[f]
    BY <2>1, <2>3 DEF Promised
  <2> QED BY <2>1, <2>3, <2>4 DEF Of
<1> QED BY <1>1, SoundAlways, PTL

\* Under the same condition the port at which the daemon calls Mihomo and the
\* switch of the automatic test, which load_settings and the end of a test put
\* into memory, are the ones of settings.yaml.
THEOREM MemoryFollowsFileAlways == Spec => []MemoryFollowsFile
<1>1. Typed /\ Sound => MemoryFollowsFile
  <2>1. SUFFICES ASSUME Typed, Sound, AtRest, phase = "up", settings # Empty,
                        NEW k \in DOMAIN memory, settings[k] # None
                 PROVE  memory[k] = settings[k]
    BY DEF MemoryFollowsFile
  <2>2. PICK b \in WholeFile : Held(b)
    BY <2>1 DEF Sound, AtRest
  <2>3. settings = b
    BY <2>1, <2>2, RestFile DEF AtRest, Writing
  <2>4. settings # NoFile
    BY <2>1 DEF Sound, FileInv
  <2>5. Of(b, k) = settings[k]
    BY <2>1, <2>3, <2>4 DEF Of
  <2>6. ~Loading(k)
    BY <2>1 DEF AtRest, Loading
  <2>7. k \in {"api_port", "auto"}
    BY <2>1 DEF Typed, TypeOK
  <2> QED BY <2>1, <2>2, <2>5, <2>6, <2>7 DEF Held, Remembered
<1> QED BY <1>1, SoundAlways, PTL

-----------------------------------------------------------------------------
(***************************************************************************)
(* What a task and config.yaml say of each other.                          *)
(***************************************************************************)
WholeConfig == {NoFile, Empty} \cup ConfigData

\* The key of config.yaml that a task sets, and what it sets it to.
Key(r) == IF r.mode # None THEN "mode" ELSE r.field
KeyValue(r) == IF r.mode # None THEN r.mode ELSE Section(r.field, r.value)

\* An activation that has not started Mihomo yet replaces the file.
Switches(r) == r.op = "activate" /\ r.mode = None

\* The file d is c with that key set; update_config_ports sets the controller, too.
Sets(c, d, r) ==
  /\ c # NoFile
  /\ c = Empty => d = Empty
  /\ c \in ConfigData =>
       /\ d \in ConfigData
       /\ \A k \in ConfigKeys : k = Key(r) \/ (k = "api" /\ Key(r) = "ports") \/ d[k] = c[k]
       /\ Key(r) \in ConfigKeys => d[Key(r)] = KeyValue(r)

\* The file d is the profile with what survives of c, and the ports that were promised.
Replaces(c, d, p) ==
  /\ d \in ConfigData
  /\ p["ports"] # None => d["ports"] = p["ports"]
  /\ c \in ConfigData =>
       \A k \in {"mode", "tun", "dns"} : d[k] = IF c[k] # None THEN c[k] ELSE Profile[k]

Editing == {"cut_config", "write_config", "rename_config"}

\* What a task that was not overtaken is about to write, at the step s, agrees with c.
EditFresh(c, p, r, s) ==
  /\ s \in Editing => IF Switches(r) THEN Replaces(c, r.data, p) ELSE Sets(c, r.data, r)
  /\ s = "read_config" /\ Switches(r) /\ p["ports"] # None => r.data["ports"] = p["ports"]

\* A value that was to be set in c is there, unless c is no mapping.
SetIn(c, k, v) == c # NoFile /\ (c = Empty \/ c[k] = v)

\* What a task has set is in c.
EditedOk(c, r, s) ==
  /\ r.op \in {"dns", "ports", "tun"} /\ (r.mode # None \/ s \notin {"read_config"} \cup Editing) =>
       SetIn(c, r.field, Section(r.field, r.value))
  /\ r.mode # None /\ s \in {"request", "merge", "truncate", "write", "load", "store", "patch_mode"} =>
       SetIn(c, "mode", r.mode)

\* Mihomo m has what a task has set, once it was started anew.
Runs(c, m, r) ==
  r.op \in {"ports", "tun"} /\ "spawn" \notin ToSet(r.todo) =>
    m = Down \/ c = Empty \/ m[r.field] = Section(r.field, r.value)

\* A field that a task is about to set counts as applied only with the value it sets.
Own(p, a, r) ==
  /\ r.op \in Replying => r.field \notin a
  /\ r.op \in SetsMode \/ r.mode # None => "mode" \notin a \/ p["mode"] = r.mode

\* What holds of a task r when p is promised and a of it applied.
Applies(c, p, a, m, r) ==
  /\ ~r.stale => EditFresh(c, p, r, Head(r.todo))
  /\ EditedOk(c, r, Head(r.todo))
  /\ Runs(c, m, r)
  /\ Own(p, a, r)

(***************************************************************************)
(* The invariant.  There is a whole file c that has what was applied: it   *)
(* is config.yaml, or what that was before somebody truncated it.          *)
(***************************************************************************)
ConfigIs(c) == config \in {c, Empty} /\ (config = c \/ \E u \in Active : Head(task[u].todo) = "write_config")

AppliedIn(c) ==
  \A f \in applied : promise[f] # None => c \notin {NoFile, Empty} /\ c[f] = Section(f, promise[f])
AppliedRuns ==
  mihomo # Down => \A f \in applied \ {"dns"} : promise[f] # None => mihomo[f] = Section(f, promise[f])
Applying(c) == \A t \in Active : Applies(c, promise, applied, mihomo, task[t])

HeldConfig(c) == ConfigIs(c) /\ AppliedIn(c) /\ AppliedRuns /\ Applying(c)

\* A start by hand records the path right after it: without one recorded, a
\* Mihomo that runs was started by a task that is about to.
RecordsInv == \A t \in Active : Records(task[t].op, task[t].todo)
KnownInv == ~known /\ mihomo # Down => \E u \in Active : Head(task[u].todo) = "record"
DownInv == phase = "down" => mihomo = Down

ConfigSound ==
  /\ RecordsInv /\ KnownInv /\ DownInv
  /\ calm => \E c \in WholeConfig : HeldConfig(c)

-----------------------------------------------------------------------------
(***************************************************************************)
(* The lemmas on a task and on what it says of a whole file.               *)
(***************************************************************************)
\* A value that is not taken away is the one that was there.
Fades(p, a, q, b) ==
  /\ b \subseteq a
  /\ \A f \in Fields : q[f] = p[f] \/ (q[f] = None /\ f \notin b)

\* Mihomo ends, or keeps what is set through config.yaml.
SameRun(m, n) ==
  n = m \/ n = Down \/ (m # Down /\ n # Down /\ \A k \in {"mode", "ports", "tun"} : n[k] = m[k])

LEMMA FadesSame ==
  ASSUME NEW p, NEW a
  PROVE  Fades(p, a, p, a) /\ \A m : SameRun(m, m)
BY DEF Fades, SameRun

\* An operation decides the key of config.yaml that it sets.
LEMMA KeyTouched ==
  ASSUME NEW q \in Task, Ordered(q), Key(q) \in ConfigKeys
  PROVE  Key(q) \in Touches(q.op, q.field) /\ Key(q) # "api"
<1>1. Named(q.op, q.field) /\ q.op \in Operations \cup {"boot", "test"} /\ q.field \in Keys \cup {"none"}
  BY DEF Ordered, Task
<1>2. "api" \notin Keys \cup {"none"} /\ {"none", "auto", "selected"} \cap ConfigKeys = {}
  BY DEF Keys, Fields, ConfigKeys
<1>3. CASE q.mode # None
  <2>1. q.op \in Starters \cup SetsMode
    BY <1>3 DEF Ordered
  <2>2. "mode" \in Touches(q.op, q.field)
    BY <1>1, <2>1, TouchesIs
  <2> QED BY <1>3, <2>2 DEF Key
<1>4. CASE q.mode = None
  <2>1. Key(q) = q.field /\ Key(q) # "api"
    BY <1>1, <1>2, <1>4 DEF Key
  <2>2. q.op \in Replying \cup SetsMode
    BY <1>1, <1>2, <2>1 DEF Named, Operations, Replying, SetsMode
  <2>3. q.field \in Touches(q.op, q.field)
    BY <1>1, <2>2, TouchesIs DEF Named
  <2> QED BY <2>1, <2>3
<1> QED BY <1>3, <1>4

\* The task goes on saying the same when others take steps.
LEMMA AppliesFades ==
  ASSUME NEW q, NEW n, NEW x, Marked(n, q, x), Named(q.op, q.field),
         NEW c, NEW p, NEW a, NEW m, Applies(c, p, a, m, q),
         NEW p2, NEW a2, Fades(p, a, p2, a2), NEW m2, SameRun(m, m2)
  PROVE  Applies(c, p2, a2, m2, n)
<1> DEFINE s == Head(q.todo)
<1>1. /\ n.op = q.op /\ n.field = q.field /\ n.value = q.value /\ n.mode = q.mode
      /\ n.todo = q.todo /\ n.data = q.data /\ (q.stale => n.stale)
  BY DEF Marked, Kin
<1>2. "mode" \in Fields /\ "ports" \in Fields
  BY DEF Fields
<1>3. p2["ports"] # None => p2["ports"] = p["ports"]
  BY <1>2 DEF Fades
<1>4. ASSUME ~n.stale PROVE EditFresh(c, p2, n, s)
  <2>1. EditFresh(c, p, q, s)
    BY <1>1, <1>4 DEF Applies
  <2>2. Switches(n) <=> Switches(q)
    BY <1>1 DEF Switches
  <2>3. Replaces(c, q.data, p) => Replaces(c, q.data, p2)
    BY <1>3 DEF Replaces
  <2>4. Sets(c, q.data, q) => Sets(c, q.data, n)
    <3>1. Key(n) = Key(q) /\ KeyValue(n) = KeyValue(q)
      BY <1>1 DEF Key, KeyValue
    <3> QED BY <3>1 DEF Sets
  <2> QED BY <1>1, <1>3, <2>1, <2>2, <2>3, <2>4 DEF EditFresh
<1>5. EditedOk(c, n, s)
  BY <1>1 DEF Applies, EditedOk
<1>6. Runs(c, m2, n)
  <2>1. Runs(c, m, q)
    BY DEF Applies
  <2>2. q.op \in {"ports", "tun"} => q.field \in {"mode", "ports", "tun"}
    BY DEF Named
  <2> QED BY <1>1, <2>1, <2>2 DEF Runs, SameRun
<1>7. Own(p2, a2, n)
  <2>1. Own(p, a, q)
    BY DEF Applies
  <2>2. "mode" \in a2 => "mode" \in a /\ p2["mode"] = p["mode"]
    BY <1>2 DEF Fades
  <2>3. q.field \in a2 => q.field \in a
    BY DEF Fades
  <2> QED BY <1>1, <2>1, <2>2, <2>3 DEF Own
<1> QED BY <1>1, <1>4, <1>5, <1>6, <1>7 DEF Applies

-----------------------------------------------------------------------------
(***************************************************************************)
(* A task takes a step: what it says of a whole file afterwards.           *)
(***************************************************************************)
\* A step that neither ends a write of config.yaml nor starts Mihomo.
LEMMA StepApplies ==
  ASSUME NEW q \in Task, Fits(q),
         Head(q.todo) \notin {"write_config", "rename_config", "spawn", "reply", "finish"},
         NEW n, Kin(n, q), n.todo = Tail(q.todo),
         n.mode = q.mode \/ Head(q.todo) \in {"restore", "allow_lan"},
         NEW c, NEW p, NEW a, NEW m, Applies(c, p, a, m, q),
         NEW p2, NEW a2, NEW m2, SameRun(m, m2), Named(q.op, q.field),
         ~n.stale => EditFresh(c, p2, n, Head(n.todo)), Own(p2, a2, n)
  PROVE  Applies(c, p2, a2, m2, n)
<1> DEFINE s == Head(q.todo)
           z == Head(n.todo)
<1>1. Whole(q.todo) /\ s \notin {"reply", "finish", "spawn"}
  BY DEF Fits
<1>2. z \in Successors(s) /\ n.op = q.op /\ n.field = q.field /\ (n.value = q.value \/ q.op = "test")
  BY <1>1, TailIs DEF Kin
<1>3. ToSet(q.todo) \subseteq {s} \cup ToSet(n.todo)
  BY <1>1, TailSet
<1>4. /\ z \in {"request", "merge", "truncate", "write", "load", "store", "patch_mode"} =>
           s \in {"request", "merge", "truncate", "write", "load", "store", "patch_mode"}
      /\ s \in {"read_config"} \cup Editing => z \in Editing
      /\ s \in {"restore", "allow_lan"} => z \in {"read_config", "reply"}
      /\ s = "restore" => z = "read_config"
      /\ s = "allow_lan" => z = "reply"
  BY <1>1, <1>2 DEF Successors, Editing
<1> HIDE DEF s, z
<1>5. EditedOk(c, n, z)
  <2>1. EditedOk(c, q, s)
    BY DEF Applies, s
  <2>2. ASSUME q.op \in {"dns", "ports", "tun"}, n.mode # None \/ z \notin {"read_config"} \cup Editing
        PROVE  SetIn(c, q.field, Section(q.field, q.value))
    <3>1. CASE n.mode = q.mode
      <4>1. q.mode # None \/ s \notin {"read_config"} \cup Editing
        BY <1>4, <2>2, <3>1
      <4> QED BY <2>1, <2>2, <4>1 DEF EditedOk
    <3>2. CASE s \in {"restore", "allow_lan"}
      <4>1. s \notin {"read_config"} \cup Editing
        BY <3>2 DEF Editing
      <4> QED BY <2>1, <2>2, <4>1 DEF EditedOk
    <3> QED BY <3>1, <3>2 DEF s
  <2>3. ASSUME n.mode # None, z \in {"request", "merge", "truncate", "write", "load", "store", "patch_mode"}
        PROVE  SetIn(c, "mode", n.mode)
    <3>1. n.mode = q.mode
      BY <1>4, <2>3 DEF s
    <3> QED BY <1>4, <2>1, <2>3, <3>1 DEF EditedOk
  <2>4. q.op \in {"dns", "ports", "tun"} => n.value = q.value
    BY <1>2
  <2> QED BY <1>2, <2>2, <2>3, <2>4 DEF EditedOk
<1>6. Runs(c, m2, n)
  <2>1. Runs(c, m, q)
    BY DEF Applies
  <2>2. q.op \in {"ports", "tun"} => q.field \in {"mode", "ports", "tun"} /\ n.value = q.value
    BY <1>2 DEF Named
  <2>3. "spawn" \notin ToSet(n.todo) => "spawn" \notin ToSet(q.todo)
    BY <1>1, <1>3
  <2> QED BY <1>2, <2>1, <2>2, <2>3 DEF Runs, SameRun
<1> QED BY <1>5, <1>6 DEF Applies, z

\* Nothing that it is promised, or that is applied, is about this task's own.
LEMMA OwnFades ==
  ASSUME NEW q, NEW n, Kin(n, q), n.mode = q.mode, NEW p, NEW a, Own(p, a, q),
         NEW p2, NEW a2, Fades(p, a, p2, a2)
  PROVE  Own(p2, a2, n)
<1>1. "mode" \in a2 => "mode" \in a /\ p2["mode"] = p["mode"]
  BY DEF Fades, Fields
<1>2. q.field \in a2 => q.field \in a
  BY DEF Fades
<1> QED BY <1>1, <1>2 DEF Own, Kin

\* A step at which there is nothing to write to config.yaml next.
LEMMA PlainApplies ==
  ASSUME NEW q \in Task, Fits(q), Ordered(q),
         Head(q.todo) \notin {"write_config", "rename_config", "spawn", "reply", "finish",
                              "read_config", "cut_config", "overrides", "restore"},
         NEW n, Kin(n, q), n.todo = Tail(q.todo), n.mode = q.mode \/ Head(q.todo) = "allow_lan",
         NEW c, NEW p, NEW a, NEW m, Applies(c, p, a, m, q),
         NEW p2, NEW a2, Fades(p, a, p2, a2), NEW m2, SameRun(m, m2), Own(p2, a2, n)
  PROVE  Applies(c, p2, a2, m2, n)
<1> DEFINE s == Head(q.todo)
           z == Head(n.todo)
<1>1. Whole(q.todo) /\ s \notin {"reply", "finish"} /\ Named(q.op, q.field)
  BY DEF Fits, Ordered
<1>2. z \in Successors(s) /\ s \in ToSet(q.todo)
  BY <1>1, TailIs, TailSet
<1>3. z \notin Editing /\ (z = "read_config" => s \in {"cli_read", "cli_write"})
  BY <1>2 DEF Successors, Editing
<1>4. z = "read_config" => ~Switches(n)
  <2>1. s \in {"cli_read", "cli_write"} => q.op \in ClientOps
    BY <1>2 DEF Ordered, Orderly
  <2> QED BY <1>3, <2>1 DEF Switches, Kin, ClientOps
<1>5. EditFresh(c, p2, n, z)
  BY <1>3, <1>4 DEF EditFresh
<1> QED BY <1>1, <1>5, StepApplies

\* An operation that an error cuts short, or that had nothing to start.
LEMMA CutApplies ==
  ASSUME NEW q \in Task, Fits(q), Ordered(q), Head(q.todo) \notin {"reply", "finish"},
         "allow_lan" \in ToSet(q.todo), "restore" \notin ToSet(Tail(q.todo)),
         NEW n, n = [q EXCEPT !.todo = <<"allow_lan", "reply">>],
         NEW c, NEW p, NEW a, NEW m, Applies(c, p, a, m, q),
         NEW p2, NEW a2, Fades(p, a, p2, a2), NEW m2, SameRun(m, m2)
  PROVE  Applies(c, p2, a2, m2, n)
<1> DEFINE e == <<"allow_lan", "reply">>
           s == Head(q.todo)
<1>1. /\ n.todo = e /\ n.op = q.op /\ n.field = q.field /\ n.value = q.value /\ n.mode = q.mode
  BY DEF Task
<1>2. Head(e) = "allow_lan"
  OBVIOUS
<1> HIDE DEF e
<1>3. "spawn" \notin ToSet(q.todo)
  BY SpawnRestores DEF Fits
<1>4. q.mode # None \/ s \in {"allow_lan", "restore"}
  <2>1. ToSet(q.todo) \subseteq {s} \cup ToSet(Tail(q.todo))
    BY TailSet DEF Fits
  <2>2. q.mode = None => s = "allow_lan" \/ "restore" \in ToSet(q.todo)
    BY DEF Ordered, ModeToCome
  <2> QED BY <2>1, <2>2
<1>5. EditedOk(c, n, "allow_lan")
  <2>1. EditedOk(c, q, s)
    BY DEF Applies
  <2>2. q.mode # None \/ s \notin {"read_config"} \cup Editing
    BY <1>4 DEF Editing
  <2> QED BY <1>1, <2>1, <2>2 DEF EditedOk
<1>6. Runs(c, m2, n)
  <2>1. q.op \in {"ports", "tun"} => q.field \in {"mode", "ports", "tun"}
    BY DEF Ordered, Named
  <2> QED BY <1>1, <1>3, <2>1 DEF Applies, Runs, SameRun
<1>7. EditFresh(c, p2, n, "allow_lan")
  BY DEF EditFresh, Editing
<1>8. Own(p2, a2, n)
  BY <1>1, OwnFades DEF Applies, Kin
<1> QED BY <1>1, <1>2, <1>5, <1>6, <1>7, <1>8 DEF Applies

\* An operation that begins.
LEMMA NewApplies ==
  ASSUME NEW op, NEW field, NEW value, MayBegin(op, field, value), Named(op, field),
         NEW c, NEW p, NEW a, NEW m, Resets(op, field) \cap a = {}
  PROVE  LET n == New(op, field, value) IN
         Applies(c, p, a, m, n) /\ Records(n.op, n.todo) /\ Head(n.todo) # "write_config"
<1> DEFINE n == New(op, field, value)
<1>1. op \in Operations \cup {"boot", "test"}
  BY DEF MayBegin
<1>2. /\ n.op = op /\ n.field = field /\ n.value = value /\ n.todo = Plan(op)
      /\ n.mode = IF op \in SetsMode THEN value ELSE None
  BY DEF New, SetsMode
<1>3. Head(n.todo) = First(op) /\ Records(op, n.todo)
  BY <1>1, <1>2, PlanWhole, PlanRecords
<1>4. /\ First(op) \in {"request", "read_config", "overrides", "spawn", "resume", "snapshot", "cli_read"}
      /\ First(op) = "read_config" => op # "activate"
      /\ op \in {"dns", "ports", "tun", "mode"} => First(op) = "read_config"
      /\ op = "cli_mode" => First(op) = "cli_read"
  BY <1>1 DEF First
<1> HIDE DEF n
<1>5. EditFresh(c, p, n, First(op))
  BY <1>2, <1>4 DEF EditFresh, Editing, Switches
<1>6. EditedOk(c, n, First(op))
  BY <1>2, <1>4 DEF EditedOk, SetsMode
<1>7. Runs(c, m, n)
  BY <1>2, PlanRestarts DEF Runs
<1>8. Own(p, a, n)
  <2>1. op \in Replying => field \in Resets(op, field)
    BY DEF Resets, Replying
  <2>2. op \in SetsMode => "mode" \in Resets(op, field)
    BY DEF Resets, SetsMode, Named
  <2> QED BY <1>2, <2>1, <2>2 DEF Own
<1> QED BY <1>2, <1>3, <1>4, <1>5, <1>6, <1>7, <1>8 DEF Applies, n

-----------------------------------------------------------------------------
(***************************************************************************)
(* One task goes on to n, and config.yaml keeps what was applied.          *)
(***************************************************************************)
\* The tasks other than t say of c, with what is promised and applied then.
OthersApply(c, t) ==
  \A u \in Active \ {t} : Applies(c, promise, applied, mihomo, task[u])

LEMMA ApplyingMoved ==
  ASSUME Typed, OrderedInv, NEW c, NEW t \in Tasks, OthersApply(c, t), NEW n, NEW passed,
         Moves(t, n, passed), Fades(promise, applied, promise', applied'), SameRun(mihomo, mihomo'),
         n = Idle \/ Applies(c, promise', applied', mihomo', n)
  PROVE  Applying(c)'
<1>1. ASSUME NEW u \in Active' PROVE Applies(c, promise', applied', mihomo', task'[u])
  <2>1. CASE u = t
    BY <1>1, <2>1, Moved
  <2>2. CASE u # t
    <3>1. u \in Tasks \ {t}
      BY <1>1, <2>2 DEF Active
    <3>2. u \in Active /\ Marked(task'[u], task[u], u \in passed)
      BY <1>1, <3>1, Moved
    <3>3. Applies(c, promise, applied, mihomo, task[u])
      BY <2>2, <3>2 DEF OthersApply
    <3>4. Named(task[u].op, task[u].field)
      BY <3>2 DEF OrderedInv, Ordered
    <3> QED BY <3>2, <3>3, <3>4, AppliesFades
  <2> QED BY <2>1, <2>2
<1> QED BY <1>1 DEF Applying

LEMMA AppliedFades ==
  ASSUME Typed, NEW c, AppliedIn(c), AppliedRuns,
         Fades(promise, applied, promise', applied'), SameRun(mihomo, mihomo')
  PROVE  AppliedIn(c)' /\ AppliedRuns'
<1>1. applied \subseteq {"mode", "ports", "tun", "dns"}
  BY DEF Typed, TypeOK
<1>2. {"mode", "ports", "tun", "dns"} \subseteq Fields
  BY DEF Fields
<1>3. \A f \in applied' : f \in applied /\ (promise'[f] # None => promise'[f] = promise[f])
  BY <1>1, <1>2 DEF Fades
<1>4. AppliedIn(c)'
  BY <1>3 DEF AppliedIn
<1>5. \A f \in applied' \ {"dns"} : f \in {"mode", "ports", "tun"}
  BY <1>1, <1>3
<1>6. AppliedRuns'
  BY <1>3, <1>5 DEF AppliedRuns, SameRun
<1> QED BY <1>4, <1>6

LEMMA RecordsMoved ==
  ASSUME Typed, RecordsInv, NEW t \in Tasks, NEW n, NEW passed, Moves(t, n, passed),
         n = Idle \/ Records(n.op, n.todo)
  PROVE  RecordsInv'
<1>1. ASSUME NEW u \in Active' PROVE Records(task'[u].op, task'[u].todo)
  <2>1. CASE u = t
    BY <1>1, <2>1, Moved
  <2>2. CASE u # t
    <3>1. u \in Tasks \ {t}
      BY <1>1, <2>2 DEF Active
    <3>2. u \in Active /\ Marked(task'[u], task[u], u \in passed)
      BY <1>1, <3>1, Moved
    <3> QED BY <3>2 DEF RecordsInv, Marked, Kin
  <2> QED BY <2>1, <2>2
<1> QED BY <1>1 DEF RecordsInv

\* The others are where they were.
LEMMA AtMoved ==
  ASSUME Typed, NEW t \in Tasks, NEW n, NEW passed, Moves(t, n, passed), NEW s,
         \E u \in Active : Head(task[u].todo) = s,
         t \in Active => Head(task[t].todo) # s
  PROVE  \E u \in Active' : Head(task'[u].todo) = s
<1>1. PICK u \in Active : Head(task[u].todo) = s
  OBVIOUS
<1>2. u \in Tasks \ {t}
  BY <1>1 DEF Active
<1>3. u \in Active' /\ task'[u].todo = task[u].todo
  BY <1>2, Moved DEF Marked
<1> QED BY <1>1, <1>3

\* The step writes config.yaml, if at all, only to truncate it, starts no Mihomo
\* and promises nothing new.
LEMMA AsideConfig ==
  ASSUME Typed, Sound, ConfigSound, NEW t \in Tasks, NEW n, NEW passed, Moves(t, n, passed),
         config' = config \/ (config' = Empty /\ n # Idle /\ Head(n.todo) = "write_config"),
         t \in Active => Head(task[t].todo) # "write_config",
         Fades(promise, applied, promise', applied'), SameRun(mihomo, mihomo'),
         calm' => calm, known => known', phase' # "down",
         known' \/ (t \in Active => Head(task[t].todo) # "record"),
         \/ n = Idle
         \/ /\ Records(n.op, n.todo)
            /\ \A c \in WholeConfig : HeldConfig(c) /\ calm' => Applies(c, promise', applied', mihomo', n)
  PROVE  ConfigSound'
<1>1. RecordsInv'
  BY RecordsMoved DEF ConfigSound
<1>2. KnownInv'
  <2>1. SUFFICES ASSUME ~known', mihomo' # Down
                 PROVE  \E u \in Active' : Head(task'[u].todo) = "record"
    BY DEF KnownInv
  <2>2. ~known /\ mihomo # Down
    BY <2>1 DEF SameRun
  <2>3. \E u \in Active : Head(task[u].todo) = "record"
    BY <2>2 DEF ConfigSound, KnownInv
  <2> QED BY <2>1, <2>3, AtMoved
<1>3. DownInv'
  BY DEF DownInv
<1>4. ASSUME calm', NEW c \in WholeConfig, HeldConfig(c) PROVE HeldConfig(c)'
  <2>1. ConfigIs(c)'
    <3>1. CASE config' = config
      <4>1. config = c \/ \E u \in Active' : Head(task'[u].todo) = "write_config"
        BY <1>4, AtMoved DEF HeldConfig, ConfigIs
      <4> QED BY <1>4, <3>1, <4>1 DEF HeldConfig, ConfigIs
    <3>2. CASE config' = Empty /\ n # Idle /\ Head(n.todo) = "write_config"
      <4>1. t \in Active' /\ task'[t] = n
        BY <3>2, Moved
      <4> QED BY <3>2, <4>1 DEF ConfigIs
    <3> QED BY <3>1, <3>2
  <2>2. AppliedIn(c)' /\ AppliedRuns'
    BY <1>4, AppliedFades DEF HeldConfig
  <2>3. OthersApply(c, t)
    BY <1>4 DEF HeldConfig, Applying, OthersApply
  <2>4. n = Idle \/ Applies(c, promise', applied', mihomo', n)
    BY <1>4
  <2>5. Applying(c)'
    BY <2>3, <2>4, ApplyingMoved DEF Sound
  <2> QED BY <2>1, <2>2, <2>5 DEF HeldConfig
<1> QED BY <1>1, <1>2, <1>3, <1>4 DEF ConfigSound

\* What it takes for a step of a task that is under way.
LEMMA TakenConfig ==
  ASSUME Typed, Sound, ConfigSound, NEW t \in Active,
         Head(task[t].todo) \notin {"write_config", "rename_config", "spawn", "reply", "finish",
                                    "read_config", "cut_config", "overrides", "restore"},
         NEW r \in Task, Kin(r, task[t]), r.todo = task[t].todo,
         r.mode = task[t].mode \/ Head(task[t].todo) = "allow_lan",
         NEW passed \in SUBSET Active, Advance(t, r, passed),
         config' = config, Fades(promise, applied, promise', applied'), SameRun(mihomo, mihomo'),
         r.mode = task[t].mode \/ (r.mode = None /\ r.op \notin SetsMode),
         calm' => calm, phase' # "down", known => known', known' \/ Head(task[t].todo) # "record"
  PROVE  ConfigSound'
<1> DEFINE q == task[t]
           n == After(r)
<1>1. t \in Tasks /\ q \in Task /\ Fits(q) /\ Ordered(q) /\ Records(q.op, q.todo)
  BY ActiveTask DEF Sound, OrderedInv, ConfigSound, RecordsInv
<1>2. Whole(r.todo) /\ Head(r.todo) \notin {"reply", "finish"}
  BY <1>1 DEF Fits
<1>3. /\ n \in Task /\ Kin(n, r) /\ n.mode = r.mode /\ n.todo = Tail(r.todo)
  BY <1>2, AfterIs
<1>4. Moves(t, n, passed)
  BY <1>3, AdvanceMoves
<1> HIDE DEF n
<1>5. Kin(n, q) /\ n.todo = Tail(q.todo) /\ (n.mode = q.mode \/ Head(q.todo) = "allow_lan")
  BY <1>3 DEF Kin
<1>6. Records(n.op, n.todo)
  BY <1>1, <1>2, <1>5, RecordsTail DEF Kin
<1>7. ASSUME NEW c, HeldConfig(c) PROVE Applies(c, promise', applied', mihomo', n)
  <2>1. Applies(c, promise, applied, mihomo, q)
    BY <1>7 DEF HeldConfig, Applying
  <2>2. Own(promise', applied', n)
    <3>1. CASE r.mode = q.mode
      BY <1>3, <1>5, <2>1, <3>1, OwnFades DEF Applies
    <3>2. CASE r.mode = None /\ r.op \notin SetsMode
      <4>1. q.field \in applied' => q.field \in applied
        BY DEF Fades
      <4>2. Own(promise, applied, q)
        BY <2>1 DEF Applies
      <4> QED BY <1>3, <1>5, <3>2, <4>1, <4>2 DEF Own, Kin
    <3> QED BY <3>1, <3>2
  <2> QED BY <1>1, <1>5, <2>1, <2>2, PlainApplies
<1> QED BY <1>1, <1>4, <1>6, <1>7, AsideConfig

\* An error ends the operation, or the rest of a start but for its last step.
LEMMA FailConfig ==
  ASSUME Typed, Sound, ConfigSound, NEW t \in Active, Fail(t),
         Head(task[t].todo) \notin {"write_config", "reply", "finish", "record"},
         config' = config, Fades(promise, applied, promise', applied'), SameRun(mihomo, mihomo'),
         calm' => calm, known => known', phase' # "down"
  PROVE  ConfigSound'
<1> DEFINE q == task[t]
<1>1. t \in Tasks /\ q \in Task /\ Fits(q) /\ Ordered(q)
  BY ActiveTask DEF Sound, OrderedInv
<1>2. CASE "allow_lan" \in ToSet(q.todo) /\ "restore" \notin ToSet(Tail(q.todo))
  <2> DEFINE n == [q EXCEPT !.todo = <<"allow_lan", "reply">>]
  <2>1. task' = [task EXCEPT ![t] = n]
    BY <1>2 DEF Fail
  <2>2. n \in Task
    BY <1>1, CutShort
  <2>3. ASSUME NEW c, HeldConfig(c) PROVE Applies(c, promise', applied', mihomo', n)
    <3>1. Applies(c, promise, applied, mihomo, q)
      BY <2>3 DEF HeldConfig, Applying
    <3> QED BY <1>1, <1>2, <3>1, CutApplies
  <2>4. Records(n.op, n.todo)
    <3>1. n.todo = <<"allow_lan", "reply">>
      BY <1>1 DEF Task
    <3> QED BY <3>1, RecordsCut
  <2> HIDE DEF n
  <2>5. Moves(t, n, {})
    BY <1>1, <2>1, <2>2, ExceptMoves
  <2> QED BY <1>1, <2>3, <2>4, <2>5, AsideConfig
<1>3. CASE ~("allow_lan" \in ToSet(q.todo) /\ "restore" \notin ToSet(Tail(q.todo)))
  <2>1. task' = [task EXCEPT ![t] = Idle]
    BY <1>3 DEF Fail
  <2>2. Moves(t, Idle, {})
    BY <1>1, <2>1, ExceptMoves
  <2> QED BY <1>1, <2>2, AsideConfig
<1> QED BY <1>2, <1>3

-----------------------------------------------------------------------------
(***************************************************************************)
(* The steps that write nothing to config.yaml, or only truncate it.       *)
(***************************************************************************)
LEMMA PatchSame ==
  ASSUME Typed, NEW k, k \notin {"mode", "ports", "tun"}, NEW v, Patch(k, v)
  PROVE  SameRun(mihomo, mihomo')
<1>1. CASE OwnAnswers
  <2>1. mihomo' = [mihomo EXCEPT ![k] = v] /\ mihomo # Down
    BY <1>1 DEF Patch, OwnAnswers
  <2>2. mihomo \in [ConfigKeys \cup {"selected"} -> Options]
    BY <2>1 DEF Typed, TypeOK
  <2>3. \A j \in {"mode", "ports", "tun"} : mihomo'[j] = mihomo[j]
    BY <2>1, <2>2 DEF ConfigKeys
  <2> QED BY <2>1, <2>3 DEF SameRun
<1>2. CASE ~OwnAnswers
  BY <1>2 DEF Patch, SameRun
<1> QED BY <1>1, <1>2

\* Settings are read or written, and nothing more.
LEMMA SettingsConfig ==
  ASSUME Typed, Sound, ConfigSound, NEW t \in Active,
         Head(task[t].todo) \in {"request", "cli_read", "merge", "truncate", "cli_truncate", "write",
                                 "rename", "cli_write", "load", "store"},
         NEW r \in Task, Kin(r, task[t]), r.todo = task[t].todo, r.mode = task[t].mode,
         NEW passed \in SUBSET Active, Advance(t, r, passed),
         UNCHANGED <<config, phase, known>>, Fades(promise, applied, promise', applied'),
         SameRun(mihomo, mihomo'), calm' => calm
  PROVE  ConfigSound'
<1>1. phase' # "down"
  BY ActiveTask
<1> QED BY <1>1, TakenConfig

LEMMA ReadSettingsConfig ==
  ASSUME Typed, Sound, ConfigSound, NEW t \in Tasks, ReadSettings(t)
  PROVE  ConfigSound'
<1> DEFINE q == task[t]
<1>1. t \in Active /\ q \in Task /\ Fits(q) /\ Ordered(q) /\ TypeOK /\ phase # "down"
  BY ActiveTask DEF ReadSettings, At, Typed, Sound, OrderedInv
<1>2. UNCHANGED <<config, phase, known, promise, applied, mihomo, settings, calm>>
  BY DEF ReadSettings, daemon, process, history
<1>3. Fades(promise, applied, promise', applied') /\ SameRun(mihomo, mihomo')
  BY <1>2, FadesSame
<1>4. {} \in SUBSET Active /\ get_settings \in SettingsData /\ Client \in SettingsData
  BY <1>1, ReadTypes
<1>5. ASSUME NEW d \in SettingsData PROVE Reads(t, d, SettingsTorn(t)) \in Task
  <2>1. (SettingsTorn(t) \/ (q.stale /\ (q.client # None \/ Switching(t)))) \in BOOLEAN
    BY <1>1 DEF SettingsTorn, Switching, Task
  <2> QED BY <1>1, <2>1 DEF Reads, Task, SettingsData
<1>6. CASE At(t, "request") /\ Step(t, Reads(t, Request(q), SettingsTorn(t)))
  <2> DEFINE r == Reads(t, Request(q), SettingsTorn(t))
  <2>1. r \in Task
    BY <1>1, <1>5, RequestType
  <2>2. Kin(r, q) /\ r.todo = q.todo /\ r.mode = q.mode
    BY <1>1 DEF Reads, Task, Kin
  <2>3. Advance(t, r, {}) /\ Head(q.todo) = "request"
    BY <1>6 DEF Step, At
  <2> HIDE DEF r
  <2> QED BY <1>1, <1>2, <1>3, <1>4, <2>1, <2>2, <2>3, SettingsConfig
<1>7. CASE At(t, "cli_read") /\ Step(t, [q EXCEPT !.client = Client, !.stale = SettingsTorn(t)])
  <2> DEFINE r == [q EXCEPT !.client = Client, !.stale = SettingsTorn(t)]
  <2>1. SettingsTorn(t) \in BOOLEAN
    BY DEF SettingsTorn
  <2>2. r \in Task /\ Kin(r, q) /\ r.todo = q.todo /\ r.mode = q.mode
    BY <1>1, <1>4, <2>1 DEF Task, Kin, SettingsData
  <2>3. Advance(t, r, {}) /\ Head(q.todo) = "cli_read"
    BY <1>7 DEF Step, At
  <2> HIDE DEF r
  <2> QED BY <1>1, <1>2, <1>3, <1>4, <2>2, <2>3, SettingsConfig
<1>8. CASE At(t, "overrides") /\ Step(t, Reads(t, get_settings, SettingsTorn(t)))
  <2> DEFINE r == Reads(t, get_settings, SettingsTorn(t))
             n == After(r)
  <2>1. r \in Task
    BY <1>4, <1>5
  <2>2. /\ Kin(r, q) /\ r.todo = q.todo /\ r.mode = q.mode /\ r.data = get_settings
        /\ SettingsTorn(t) => r.stale
    BY <1>1 DEF Reads, Task, Kin
  <2>3. Step(t, r) /\ Head(q.todo) = "overrides"
    BY <1>8 DEF At
  <2> HIDE DEF r
  <2>4. /\ n \in Task /\ Kin(n, r) /\ n.mode = r.mode /\ n.todo = Tail(r.todo)
        /\ n.data = r.data /\ n.stale = r.stale
    BY <1>1, <2>1, <2>2, <2>3, AfterIs DEF Fits
  <2>5. Moves(t, n, {})
    BY <2>3, <2>4, StepMoves
  <2> HIDE DEF n
  <2>6. Kin(n, q) /\ n.todo = Tail(q.todo) /\ n.mode = q.mode
    BY <2>2, <2>4 DEF Kin
  <2>7. Records(n.op, n.todo)
    BY <1>1, <2>3, <2>6, RecordsTail DEF Fits, ConfigSound, RecordsInv, Kin
  <2>8. ASSUME NEW c, HeldConfig(c), calm' PROVE Applies(c, promise', applied', mihomo', n)
    <3>1. Applies(c, promise, applied, mihomo, q)
      BY <1>1, <2>8 DEF HeldConfig, Applying
    <3>2. Own(promise', applied', n)
      BY <1>3, <2>6, <3>1, OwnFades DEF Applies
    <3>3. Head(n.todo) = "read_config"
      BY <1>1, <2>3, <2>6, TailIs DEF Fits, Successors
    <3>4. ASSUME ~n.stale PROVE EditFresh(c, promise', n, Head(n.todo))
      <4>1. ~SettingsTorn(t)
        BY <2>2, <2>4, <3>4
      <4>2. PICK b \in WholeFile : Held(b)
        BY <1>2, <2>8 DEF Sound
      <4>3. settings = b /\ settings # NoFile
        BY <1>1, <2>3, <4>1, <4>2, NotTorn DEF Sound, FileInv
      <4>4. promise["ports"] # None => get_settings["ports"] = promise["ports"]
        <5>1. "ports" \in Fields
          BY DEF Fields
        <5> QED BY <4>2, <4>3, <5>1, Got DEF Held, Promised
      <4> QED BY <1>2, <2>2, <2>4, <3>3, <4>4 DEF EditFresh, Editing
    <3>5. Named(q.op, q.field)
      BY <1>1 DEF Ordered
    <3> QED BY <1>1, <1>3, <2>3, <2>6, <3>1, <3>2, <3>4, <3>5, StepApplies
  <2> QED BY <1>1, <1>2, <1>3, <2>3, <2>5, <2>7, <2>8, AsideConfig
<1> QED BY <1>6, <1>7, <1>8 DEF ReadSettings

LEMMA MergeSettingsConfig ==
  ASSUME Typed, Sound, ConfigSound, NEW t \in Tasks, MergeSettings(t)
  PROVE  ConfigSound'
<1> DEFINE q == task[t]
           r == [q EXCEPT !.data = merged(q.data, get_settings), !.stale = @ \/ SettingsTorn(t)]
<1>1. t \in Active /\ q \in Task /\ Fits(q) /\ Head(q.todo) = "merge" /\ TypeOK
  BY ActiveTask DEF MergeSettings, At, Typed
<1>2. UNCHANGED <<config, phase, known, promise, applied, calm>>
  BY DEF MergeSettings, daemon, history
<1>3. Fades(promise, applied, promise', applied')
  BY <1>2, FadesSame
<1>4. SameRun(mihomo, mihomo')
  BY PatchSame DEF MergeSettings, SameRun
<1>5. merged(q.data, get_settings) \in SettingsData
  BY <1>1, ReadTypes, MergedType DEF Fits, Ready
<1>6. Advance(t, r, {}) /\ {} \in SUBSET Active
  BY DEF MergeSettings, Step
<1>7. r \in Task /\ Kin(r, q) /\ r.todo = q.todo /\ r.mode = q.mode
  <2>1. SettingsTorn(t) \in BOOLEAN /\ q.stale \in BOOLEAN
    BY <1>1 DEF SettingsTorn, Task
  <2> QED BY <1>1, <1>5, <2>1 DEF Task, Kin, SettingsData
<1> HIDE DEF r
<1> QED BY <1>1, <1>2, <1>3, <1>4, <1>6, <1>7, SettingsConfig

LEMMA TruncateSettingsConfig ==
  ASSUME Typed, Sound, ConfigSound, NEW t \in Tasks, TruncateSettings(t)
  PROVE  ConfigSound'
<1>1. /\ t \in Active /\ task[t] \in Task /\ Head(task[t].todo) \in {"truncate", "cli_truncate"}
  BY ActiveTask DEF TruncateSettings, At
<1>2. UNCHANGED <<config, phase, known, promise, applied, mihomo, calm>>
  BY DEF TruncateSettings, daemon, process, history
<1>3. Fades(promise, applied, promise', applied') /\ SameRun(mihomo, mihomo')
  BY <1>2, FadesSame
<1>4. Advance(t, task[t], {}) /\ {} \in SUBSET Active /\ Kin(task[t], task[t])
  BY DEF TruncateSettings, Step, Kin
<1> QED BY <1>1, <1>2, <1>3, <1>4, SettingsConfig

LEMMA WriteSettingsConfig ==
  ASSUME Typed, Sound, ConfigSound, NEW t \in Tasks, WriteSettings(t)
  PROVE  ConfigSound'
<1>1. t \in Active /\ task[t] \in Task /\ Head(task[t].todo) \in {"write", "rename"}
  BY ActiveTask DEF WriteSettings, At
<1>2. UNCHANGED <<config, phase, known, promise, applied, mihomo>> /\ (calm' => calm)
  BY DEF WriteSettings, daemon, process, Overtaken
<1>3. Fades(promise, applied, promise', applied') /\ SameRun(mihomo, mihomo')
  BY <1>2, FadesSame
<1>4. /\ Advance(t, task[t], HoldsSettings \ {t}) /\ Kin(task[t], task[t])
      /\ HoldsSettings \ {t} \in SUBSET Active
  BY DEF WriteSettings, Kin, HoldsSettings
<1> QED BY <1>1, <1>2, <1>3, <1>4, SettingsConfig

LEMMA WriteClientConfig ==
  ASSUME Typed, Sound, ConfigSound, NEW t \in Tasks, WriteClient(t)
  PROVE  ConfigSound'
<1> DEFINE q == task[t]
           r == [q EXCEPT !.client = None]
<1>1. t \in Active /\ q \in Task /\ Head(q.todo) = "cli_write"
  BY ActiveTask DEF WriteClient, At
<1>2. UNCHANGED <<config, phase, known, mihomo>> /\ (calm' => calm)
  BY DEF WriteClient, daemon, process, Overtaken
<1>3. Fades(promise, applied, promise', applied')
  BY DEF WriteClient, Fades
<1>4. SameRun(mihomo, mihomo')
  BY <1>2, FadesSame
<1>5. Advance(t, r, HoldsSettings \ {t}) /\ HoldsSettings \ {t} \in SUBSET Active
  BY DEF WriteClient, HoldsSettings
<1>6. r \in Task /\ Kin(r, q) /\ r.todo = q.todo /\ r.mode = q.mode
  BY <1>1 DEF Task, Kin
<1> HIDE DEF r
<1> QED BY <1>1, <1>2, <1>3, <1>4, <1>5, <1>6, SettingsConfig

LEMMA LoadSettingsConfig ==
  ASSUME Typed, Sound, ConfigSound, NEW t \in Tasks, LoadSettings(t)
  PROVE  ConfigSound'
<1> DEFINE q == task[t]
<1>1. t \in Active /\ q \in Task /\ Head(q.todo) \in {"load", "store"} /\ TypeOK
  BY ActiveTask DEF LoadSettings, At, Typed
<1>2. UNCHANGED <<config, phase, known, promise, applied, mihomo>> /\ (calm' => calm)
  <2>1. UNCHANGED <<config, phase, known, promise, applied, mihomo>>
    BY DEF LoadSettings, process
  <2>2. calm' => calm
    BY DEF LoadSettings, Overtaken
  <2> QED BY <2>1, <2>2
<1>3. Fades(promise, applied, promise', applied') /\ SameRun(mihomo, mihomo')
  BY <1>2, FadesSame
<1>4. PICK r : (r = Reads(t, settings, SettingsTorn(t)) \/ r = [q EXCEPT !.data = None]) /\ Step(t, r)
  BY DEF LoadSettings
<1>5. r \in Task /\ Kin(r, q) /\ r.todo = q.todo /\ r.mode = q.mode
  <2>1. (SettingsTorn(t) \/ (q.stale /\ (q.client # None \/ Switching(t)))) \in BOOLEAN
    BY <1>1 DEF SettingsTorn, Switching, Task
  <2>2. settings \in {None, NoFile, Empty} \cup [Keys -> Options]
    BY <1>1 DEF TypeOK
  <2>3. CASE r = Reads(t, settings, SettingsTorn(t))
    BY <1>1, <2>1, <2>2, <2>3 DEF Reads, Task, Kin
  <2>4. CASE r = [q EXCEPT !.data = None]
    BY <1>1, <2>4 DEF Task, Kin
  <2> QED BY <1>4, <2>3, <2>4
<1>6. Advance(t, r, {}) /\ {} \in SUBSET Active
  BY <1>4 DEF Step
<1> QED BY <1>1, <1>2, <1>3, <1>5, <1>6, SettingsConfig

LEMMA RecordPathConfig ==
  ASSUME Typed, Sound, ConfigSound, NEW t \in Tasks, RecordPath(t)
  PROVE  ConfigSound'
<1>1. t \in Active /\ task[t] \in Task /\ Head(task[t].todo) = "record" /\ phase # "down"
  BY ActiveTask DEF RecordPath, At
<1>2. UNCHANGED <<config, phase, promise, applied, mihomo, calm>> /\ known' = TRUE
  BY DEF RecordPath, process, history
<1>3. Fades(promise, applied, promise', applied') /\ SameRun(mihomo, mihomo')
  BY <1>2, FadesSame
<1>4. Advance(t, task[t], {}) /\ {} \in SUBSET Active /\ Kin(task[t], task[t])
  BY DEF RecordPath, Step, Kin
<1> QED BY <1>1, <1>2, <1>3, <1>4, TakenConfig

LEMMA SelectProxyConfig ==
  ASSUME Typed, Sound, ConfigSound, NEW t \in Tasks, SelectProxy(t)
  PROVE  ConfigSound'
<1>1. t \in Active /\ task[t] \in Task /\ Head(task[t].todo) \in {"resume", "select"} /\ phase # "down"
  BY ActiveTask DEF SelectProxy, At
<1>2. UNCHANGED <<config, phase, known, promise, applied, calm>>
  BY DEF SelectProxy, daemon, history
<1>3. Fades(promise, applied, promise', applied')
  BY <1>2, FadesSame
<1>4. SameRun(mihomo, mihomo')
  BY PatchSame DEF SelectProxy, SameRun
<1>5. CASE Step(t, task[t])
  <2>1. Advance(t, task[t], {}) /\ {} \in SUBSET Active /\ Kin(task[t], task[t])
    BY <1>5 DEF Step, Kin
  <2> QED BY <1>1, <1>2, <1>3, <1>4, <2>1, TakenConfig
<1>6. CASE Fail(t)
  BY <1>1, <1>2, <1>3, <1>4, <1>6, FailConfig
<1> QED BY <1>5, <1>6 DEF SelectProxy

\* The stored mode is read: it is not applied before it is set again.
LEMMA RestoreModeConfig ==
  ASSUME Typed, Sound, ConfigSound, NEW t \in Tasks, RestoreMode(t)
  PROVE  ConfigSound'
<1> DEFINE q == task[t]
           r == [q EXCEPT !.mode = settings["mode"]]
           n == After(r)
<1>1. t \in Active /\ q \in Task /\ Fits(q) /\ Ordered(q) /\ Head(q.todo) = "restore" /\ phase # "down"
  BY ActiveTask DEF RestoreMode, At, Sound, OrderedInv
<1>2. UNCHANGED <<config, phase, known, promise, mihomo, calm>> /\ applied' = applied \ {"mode"}
  BY DEF RestoreMode, daemon, process
<1>3. Fades(promise, applied, promise', applied') /\ SameRun(mihomo, mihomo')
  BY <1>2 DEF Fades, SameRun
<1>4. CASE Fail(t)
  BY <1>1, <1>2, <1>3, <1>4, FailConfig
<1>5. CASE ~(settings \in {NoFile, Empty} \/ get_settings["mode"] = None)
  <2>1. settings["mode"] \in Options /\ settings["mode"] # None /\ Step(t, r)
    <3>1. settings \in SettingsData /\ get_settings = [settings EXCEPT !["selected"] = None]
      BY <1>5 DEF Typed, TypeOK, SettingsData, get_settings
    <3>2. "mode" \in Keys /\ "mode" # "selected"
      BY DEF Keys, Fields
    <3> QED BY <1>5, <3>1, <3>2 DEF SettingsData, RestoreMode
  <2>2. r \in Task /\ Kin(r, q) /\ r.todo = q.todo /\ r.mode # None
    BY <1>1, <2>1 DEF Task, Kin
  <2> HIDE DEF r
  <2>3. n \in Task /\ Kin(n, r) /\ n.todo = Tail(r.todo) /\ n.mode = r.mode
    BY <1>1, <2>2, AfterIs DEF Fits
  <2>4. Moves(t, n, {})
    BY <2>1, <2>3, StepMoves
  <2> HIDE DEF n
  <2>5. Kin(n, q) /\ n.todo = Tail(q.todo) /\ n.mode # None
    BY <2>2, <2>3 DEF Kin
  <2>6. Records(n.op, n.todo)
    BY <1>1, <2>5, RecordsTail DEF Fits, ConfigSound, RecordsInv, Kin
  <2>7. ASSUME NEW c, HeldConfig(c) PROVE Applies(c, promise', applied', mihomo', n)
    <3>1. Applies(c, promise, applied, mihomo, q)
      BY <1>1, <2>7 DEF HeldConfig, Applying
    <3>2. Own(promise', applied', n)
      BY <1>2, <2>5, <3>1 DEF Applies, Own, Kin
    <3>3. Head(n.todo) = "read_config"
      BY <1>1, <2>5, TailIs DEF Fits, Successors
    <3>4. EditFresh(c, promise', n, Head(n.todo))
      BY <2>5, <3>3 DEF EditFresh, Editing, Switches
    <3>5. Named(q.op, q.field)
      BY <1>1 DEF Ordered
    <3> QED BY <1>1, <1>3, <2>5, <3>1, <3>2, <3>4, <3>5, StepApplies
  <2> QED BY <1>1, <1>2, <1>3, <2>4, <2>6, <2>7, AsideConfig
<1> QED BY <1>4, <1>5 DEF RestoreMode

LEMMA PatchLanConfig ==
  ASSUME Typed, Sound, ConfigSound, NEW t \in Tasks, PatchLan(t)
  PROVE  ConfigSound'
<1> DEFINE q == task[t]
           r == [q EXCEPT !.mode = None, !.data = None]
<1>1. t \in Active /\ q \in Task /\ Head(q.todo) = "allow_lan" /\ phase # "down"
  BY ActiveTask DEF PatchLan, At
<1>2. UNCHANGED <<config, phase, known, promise, applied, calm>>
  BY DEF PatchLan, daemon, history
<1>3. Fades(promise, applied, promise', applied')
  BY <1>2, FadesSame
<1>4. SameRun(mihomo, mihomo')
  BY PatchSame DEF PatchLan
<1>5. Advance(t, r, {}) /\ {} \in SUBSET Active
  BY DEF PatchLan, Step
<1>6. r \in Task /\ Kin(r, q) /\ r.todo = q.todo /\ r.mode = None
  <2>1. None \in Options
    BY DEF Options
  <2> QED BY <1>1, <2>1 DEF Task, Kin
<1> HIDE DEF r
<1>7. r.op \notin SetsMode
  <2>1. Fits(q) /\ Ordered(q) /\ "allow_lan" \in ToSet(q.todo)
    <3>1. Fits(q) /\ Ordered(q)
      BY <1>1, ActiveTask DEF Sound, OrderedInv
    <3> QED BY <1>1, <3>1, TailSet DEF Fits
  <2>2. q.op \in Starters
    BY <2>1 DEF Ordered, Orderly
  <2> QED BY <1>6, <2>2 DEF Kin, Starters, SetsMode
<1> QED BY <1>1, <1>2, <1>3, <1>4, <1>5, <1>6, <1>7, TakenConfig

LEMMA RunAutoTestConfig ==
  ASSUME Typed, Sound, ConfigSound, NEW t \in Tasks, RunAutoTest(t)
  PROVE  ConfigSound'
<1> DEFINE q == task[t]
           v == get_settings["auto"]
           r == [q EXCEPT !.value = v]
<1>1. t \in Active /\ q \in Task /\ Fits(q) /\ Head(q.todo) \in {"snapshot", "finish"} /\ Ordered(q)
      /\ phase # "down"
  BY ActiveTask DEF RunAutoTest, At, Sound, OrderedInv
<1>2. UNCHANGED <<config, phase, known, promise, applied, mihomo, calm>>
  BY DEF RunAutoTest, process, history
<1>3. Fades(promise, applied, promise', applied') /\ SameRun(mihomo, mihomo')
  BY <1>2, FadesSame
<1>4. CASE task' = [task EXCEPT ![t] = Idle]
  <2>1. Moves(t, Idle, {})
    BY <1>4, ExceptMoves
  <2> QED BY <1>1, <1>2, <1>3, <2>1, AsideConfig
<1>5. CASE Head(q.todo) = "snapshot" /\ Step(t, r)
  <2>1. v \in Options
    BY ReadTypes DEF Typed, SettingsData, Keys, Fields
  <2>2. q.op = "test"
    <3>1. "snapshot" \in ToSet(q.todo)
      BY <1>1, <1>5, TailSet DEF Fits
    <3> QED BY <1>1, <3>1 DEF Ordered, Orderly
  <2> HIDE DEF v
  <2>3. r \in Task /\ Kin(r, q) /\ r.todo = q.todo /\ r.mode = q.mode
    BY <1>1, <2>1, <2>2 DEF Task, Kin
  <2>4. Advance(t, r, {}) /\ {} \in SUBSET Active
    BY <1>5 DEF Step
  <2> HIDE DEF r
  <2> QED BY <1>1, <1>2, <1>3, <1>5, <2>3, <2>4, TakenConfig
<1> QED BY <1>4, <1>5 DEF RunAutoTest, At

\* An operation begins: what it is to change is promised no longer.
LEMMA NewConfig ==
  ASSUME Typed, Sound, ConfigSound, NEW t \in Tasks, task[t] = Idle, phase # "down",
         NEW op, NEW field, NEW value, MayBegin(op, field, value), Named(op, field),
         task' = [task EXCEPT ![t] = New(op, field, value)],
         UNCHANGED <<config, phase, known, mihomo>>, calm' => calm,
         Fades(promise, applied, promise', applied'), Resets(op, field) \cap applied' = {}
  PROVE  ConfigSound'
<1> DEFINE n == New(op, field, value)
<1>1. n \in Task
  BY NewFits
<1>2. Moves(t, n, {})
  BY <1>1, ExceptMoves
<1>3. Records(n.op, n.todo) /\ \A c : Applies(c, promise', applied', mihomo', n)
  BY NewApplies
<1>4. SameRun(mihomo, mihomo') /\ t \notin Active
  BY DEF SameRun, Active
<1> HIDE DEF n
<1> QED BY <1>2, <1>3, <1>4, AsideConfig

LEMMA AutoTestDueConfig ==
  ASSUME Typed, Sound, ConfigSound, NEW t \in Tasks, AutoTestDue(t)
  PROVE  ConfigSound'
<1>1. MayBegin("test", "auto", None) /\ Named("test", "auto")
  BY DEF MayBegin, Named, Keys, Fields, Options, SetsMode
<1>2. /\ task[t] = Idle /\ phase # "down" /\ task' = [task EXCEPT ![t] = New("test", "auto", None)]
      /\ UNCHANGED <<config, phase, known, mihomo, promise, applied>> /\ (calm' => calm)
  BY DEF AutoTestDue, process
<1>3. Fades(promise, applied, promise', applied')
  BY <1>2, FadesSame
<1>4. Resets("test", "auto") \cap applied' = {}
  BY <1>2 DEF Resets, Typed, TypeOK
<1> QED BY <1>1, <1>2, <1>3, <1>4, NewConfig

LEMMA BeginConfig ==
  ASSUME Typed, Sound, ConfigSound, NEW t \in Tasks, NEW r \in Requests, Begin(t, r)
  PROVE  ConfigSound'
<1>1. MayBegin(r.op, r.field, r.value) /\ Named(r.op, r.field)
  BY RequestNamed
<1>2. /\ task[t] = Idle /\ phase # "down" /\ task' = [task EXCEPT ![t] = New(r.op, r.field, r.value)]
      /\ UNCHANGED <<config, phase, known, mihomo>> /\ (calm' => calm)
      /\ promise' = [f \in Fields |-> IF f \in Resets(r.op, r.field) THEN None ELSE promise[f]]
      /\ applied' = applied \ Resets(r.op, r.field)
  BY DEF Begin, daemon, process
<1>3. Fades(promise, applied, promise', applied')
  BY <1>2 DEF Fades
<1>4. Resets(r.op, r.field) \cap applied' = {}
  BY <1>2
<1> QED BY <1>1, <1>2, <1>3, <1>4, NewConfig

-----------------------------------------------------------------------------
(***************************************************************************)
(* config.yaml is read, truncated and written.                             *)
(***************************************************************************)
\* Nobody else is writing: the file is whole.
LEMMA NotCut ==
  ASSUME NEW c, ConfigIs(c), NEW t \in Active, Head(task[t].todo) # "write_config", ~ConfigTorn(t)
  PROVE  config = c
BY DEF ConfigTorn, At, ConfigIs

\* What a task makes of the file.
LEMMA ReplacedFresh ==
  ASSUME TypeOK, NEW s, Replaced(s) \in ConfigData, NEW p, p["ports"] # None => s["ports"] = p["ports"]
  PROVE  Replaces(config, Replaced(s), p)
<1> DEFINE d == Replaced(s)
<1>1. {"ports", "mode", "tun", "dns"} \subseteq ConfigKeys /\ Overrides \subseteq {"mode", "tun", "dns"}
  BY DEF ConfigKeys, Overrides
<1>2. p["ports"] # None => d["ports"] = p["ports"]
  BY <1>1 DEF Replaced
<1>3. \A k \in {"mode", "tun", "dns"} : d[k] = IF k \in Overrides THEN config[k] ELSE Profile[k]
  BY <1>1 DEF Replaced
<1>4. config \in ConfigData => config \notin {NoFile, Empty}
  BY SettingsAssumption DEF ConfigData, Options
<1>5. config \in ConfigData => \A k \in {"mode", "tun", "dns"} : k \in Overrides <=> config[k] # None
  BY <1>4 DEF Overrides
<1> HIDE DEF d
<1>6. config \in ConfigData =>
        \A k \in {"mode", "tun", "dns"} : d[k] = IF config[k] # None THEN config[k] ELSE Profile[k]
  BY <1>3, <1>5
<1>7. d \in ConfigData
  BY DEF d
<1> QED BY <1>2, <1>6, <1>7 DEF Replaces, d

LEMMA EditedSets ==
  ASSUME TypeOK, config # NoFile, NEW q \in Task, Edited(q) \in {Empty} \cup ConfigData
  PROVE  Sets(config, Edited(q), q)
<1> DEFINE d == Edited(q)
<1>1. config = Empty => d = Empty
  BY DEF Edited
<1>2. ASSUME config \in ConfigData
      PROVE  /\ d \in ConfigData
             /\ \A k \in ConfigKeys : k = Key(q) \/ (k = "api" /\ Key(q) = "ports") \/ d[k] = config[k]
             /\ Key(q) \in ConfigKeys => d[Key(q)] = KeyValue(q)
  <2>1. config # Empty
    BY <1>2, SettingsAssumption DEF ConfigData, Options
  <2>2. CASE q.mode # None
    <3>1. d = [config EXCEPT !["mode"] = q.mode]
      BY <2>1, <2>2 DEF Edited, update_config_mode
    <3> QED BY <1>2, <2>1, <2>2, <3>1 DEF ConfigData, Key, KeyValue, ConfigKeys, Options, Task
  <2>3. CASE q.mode = None /\ q.field = "ports"
    <3>1. d = [config EXCEPT !["ports"] = q.value, !["api"] = memory["api_port"]]
      BY <2>1, <2>3 DEF Edited, update_config_ports
    <3>2. q.value \in Options /\ memory["api_port"] \in Options
      BY DEF Task, TypeOK, Options
    <3> QED BY <1>2, <2>1, <2>3, <3>1, <3>2 DEF ConfigData, Key, KeyValue, ConfigKeys, Section
  <2>4. CASE q.mode = None /\ q.field # "ports"
    <3>1. d = [config EXCEPT ![q.field] = Section(q.field, q.value)]
      BY <2>1, <2>4 DEF Edited, update_section
    <3>2. Section(q.field, q.value) \in Options
      BY DEF Task, Section, Options
    <3> QED BY <1>2, <2>1, <2>4, <3>1, <3>2 DEF ConfigData, Key, KeyValue
  <2> QED BY <2>2, <2>3, <2>4
<1> QED BY <1>1, <1>2 DEF Sets

LEMMA ReadConfigConfig ==
  ASSUME Typed, Sound, ConfigSound, NEW t \in Tasks, ReadConfig(t)
  PROVE  ConfigSound'
<1> DEFINE q == task[t]
<1>1. t \in Active /\ q \in Task /\ Fits(q) /\ Ordered(q) /\ Head(q.todo) = "read_config"
      /\ TypeOK /\ phase # "down"
  BY ActiveTask DEF ReadConfig, At, Typed, Sound, OrderedInv
<1>2. UNCHANGED <<config, phase, known, promise, applied, mihomo, calm>>
  BY DEF ReadConfig, daemon, process, history
<1>3. Fades(promise, applied, promise', applied') /\ SameRun(mihomo, mihomo')
  BY <1>2, FadesSame
<1>4. CASE Fail(t)
  BY <1>1, <1>2, <1>3, <1>4, FailConfig
<1>5. CASE ~(config = NoFile /\ ~Switching(t))
  <2> DEFINE d == IF Switching(t) THEN Replaced(q.data) ELSE Edited(q)
             r == Reads(t, d, ConfigTorn(t))
             n == After(r)
  <2>1. d \in {Empty} \cup ConfigData
    <3>1. CASE Switching(t)
      <4>1. q.data \in SettingsData
        BY <1>1, <3>1 DEF Fits, Ready, Switching
      <4>2. Replaced(q.data) \in ConfigData
        BY <1>1, <4>1, ReplacedType
      <4> QED BY <3>1, <4>2
    <3>2. CASE ~Switching(t)
      BY <1>1, <1>5, <3>2, EditedType
    <3> QED BY <3>1, <3>2
  <2>2. Step(t, r)
    BY <1>5 DEF ReadConfig
  <2>3. Switching(t) => Replaced(q.data) \in ConfigData
    BY <1>1, ReplacedType DEF Fits, Ready, Switching
  <2>4. ~Switching(t) => Sets(config, d, q)
    BY <1>1, <1>5, <2>1, EditedSets
  <2>5. Switching(t) => d = Replaced(q.data)
    OBVIOUS
  <2> HIDE DEF d
  <2>6. /\ r \in Task /\ Kin(r, q) /\ r.value = q.value /\ r.todo = q.todo /\ r.mode = q.mode
        /\ r.data = d /\ (~r.stale => ~ConfigTorn(t) /\ (Switching(t) => ~q.stale))
    <3>1. (ConfigTorn(t) \/ (q.stale /\ (q.client # None \/ Switching(t)))) \in BOOLEAN
      BY <1>1 DEF ConfigTorn, Switching, Task
    <3> QED BY <1>1, <2>1, <3>1 DEF Reads, Task, ConfigData, Kin
  <2> HIDE DEF r
  <2>7. /\ n \in Task /\ Kin(n, r) /\ n.mode = r.mode /\ n.todo = Tail(r.todo)
        /\ n.data = r.data /\ n.stale = r.stale
    BY <1>1, <2>6, AfterIs DEF Fits
  <2>8. Moves(t, n, {})
    BY <2>2, <2>7, StepMoves
  <2> HIDE DEF n
  <2>9. Kin(n, q) /\ n.todo = Tail(q.todo) /\ n.mode = q.mode /\ n.value = q.value
    <3>1. q.op # "test"
      <4>1. "read_config" \in ToSet(q.todo)
        BY <1>1, TailSet DEF Fits
      <4> QED BY <1>1, <4>1 DEF Ordered, Orderly
    <3> QED BY <2>6, <2>7, <3>1 DEF Kin
  <2>10. Records(n.op, n.todo)
    BY <1>1, <2>9, RecordsTail DEF Fits, ConfigSound, RecordsInv, Kin
  <2>11. Head(n.todo) \in {"cut_config", "rename_config"}
    BY <1>1, <2>9, TailIs DEF Fits, Successors
  <2>12. ASSUME NEW c \in WholeConfig, HeldConfig(c) PROVE Applies(c, promise', applied', mihomo', n)
    <3>1. Applies(c, promise, applied, mihomo, q)
      BY <1>1, <2>12 DEF HeldConfig, Applying
    <3>2. Own(promise', applied', n)
      BY <1>3, <2>9, <3>1, OwnFades DEF Applies
    <3>3. Switches(n) <=> Switching(t)
      BY <2>9 DEF Switches, Switching, Kin
    <3>4. ASSUME ~n.stale PROVE EditFresh(c, promise', n, Head(n.todo))
      <4>1. ~ConfigTorn(t) /\ (Switching(t) => ~q.stale)
        BY <2>6, <2>7, <3>4
      <4>2. config = c
        BY <1>1, <2>12, <4>1, NotCut DEF HeldConfig
      <4>3. CASE Switching(t)
        <5>1. EditFresh(c, promise, q, "read_config") /\ Switches(q)
          BY <1>1, <3>1, <4>1, <4>3 DEF Applies, Switches, Switching
        <5>2. promise["ports"] # None => q.data["ports"] = promise["ports"]
          BY <5>1 DEF EditFresh
        <5>3. Replaces(config, d, promise)
          BY <1>1, <2>3, <2>5, <4>3, <5>2, ReplacedFresh
        <5> QED BY <1>2, <2>6, <2>7, <2>11, <3>3, <4>2, <4>3, <5>3 DEF EditFresh, Editing
      <4>4. CASE ~Switching(t)
        <5>1. Sets(c, d, q)
          BY <2>4, <4>2, <4>4
        <5>2. Key(n) = Key(q) /\ KeyValue(n) = KeyValue(q)
          BY <2>9 DEF Key, KeyValue, Kin
        <5>3. Sets(c, d, n)
          BY <5>1, <5>2 DEF Sets
        <5> QED BY <2>6, <2>7, <2>11, <3>3, <4>4, <5>3 DEF EditFresh, Editing
      <4> QED BY <4>3, <4>4
    <3>5. Named(q.op, q.field)
      BY <1>1 DEF Ordered
    <3> QED BY <1>1, <1>3, <2>9, <3>1, <3>2, <3>4, <3>5, StepApplies
  <2> QED BY <1>1, <1>2, <1>3, <2>8, <2>10, <2>12, AsideConfig
<1> QED BY <1>4, <1>5 DEF ReadConfig

LEMMA CutConfigConfig ==
  ASSUME Typed, Sound, ConfigSound, NEW t \in Tasks, CutConfig(t)
  PROVE  ConfigSound'
<1> DEFINE q == task[t]
           n == After(q)
<1>1. t \in Active /\ q \in Task /\ Fits(q) /\ Ordered(q) /\ Head(q.todo) = "cut_config" /\ phase # "down"
  BY ActiveTask DEF CutConfig, At, Sound, OrderedInv
<1>2. UNCHANGED <<phase, known, promise, applied, mihomo, calm>> /\ config' = Empty
  BY DEF CutConfig, daemon, process, history
<1>3. Fades(promise, applied, promise', applied') /\ SameRun(mihomo, mihomo')
  BY <1>2, FadesSame
<1>4. /\ n \in Task /\ Kin(n, q) /\ n.mode = q.mode /\ n.todo = Tail(q.todo)
      /\ n.data = q.data /\ n.stale = q.stale
  BY <1>1, AfterIs DEF Fits
<1>5. Moves(t, n, {}) /\ n # Idle
  <2>1. Step(t, q)
    BY DEF CutConfig
  <2> QED BY <1>4, <2>1, StepMoves, IdleAssumption
<1> HIDE DEF n
<1>6. Records(n.op, n.todo)
  BY <1>1, <1>4, RecordsTail DEF Fits, ConfigSound, RecordsInv, Kin
<1>7. Head(n.todo) = "write_config"
  BY <1>1, <1>4, TailIs DEF Fits, Successors
<1>8. ASSUME NEW c, HeldConfig(c) PROVE Applies(c, promise', applied', mihomo', n)
  <2>1. Applies(c, promise, applied, mihomo, q)
    BY <1>1, <1>8 DEF HeldConfig, Applying
  <2>2. Own(promise', applied', n)
    BY <1>3, <1>4, <2>1, OwnFades DEF Applies
  <2>3. ASSUME ~n.stale PROVE EditFresh(c, promise', n, Head(n.todo))
    <3>1. EditFresh(c, promise, q, "cut_config")
      BY <1>1, <1>4, <2>1, <2>3 DEF Applies
    <3>2. q.op # "test"
      <4>1. "cut_config" \in ToSet(q.todo)
        BY <1>1, TailSet DEF Fits
      <4> QED BY <1>1, <4>1 DEF Ordered, Orderly
    <3>3. Switches(n) <=> Switches(q)
      BY <1>4 DEF Switches, Kin
    <3>4. Key(n) = Key(q) /\ KeyValue(n) = KeyValue(q)
      BY <1>4, <3>2 DEF Key, KeyValue, Kin
    <3>5. Sets(c, q.data, q) => Sets(c, q.data, n)
      BY <3>4 DEF Sets
    <3> QED BY <1>2, <1>4, <1>7, <3>1, <3>3, <3>5 DEF EditFresh, Editing
  <2>4. Named(q.op, q.field)
    BY <1>1 DEF Ordered
  <2> QED BY <1>1, <1>3, <1>4, <2>1, <2>2, <2>3, <2>4, StepApplies
<1> QED BY <1>1, <1>2, <1>3, <1>5, <1>6, <1>7, <1>8, AsideConfig

-----------------------------------------------------------------------------
(***************************************************************************)
(* The daemon and Mihomo start and end; the client is alone.               *)
(***************************************************************************)
\* No task takes a step, nor does a Mihomo start.
LEMMA StillConfig ==
  ASSUME Typed, Sound, ConfigSound, UNCHANGED <<task, config>>,
         Fades(promise, applied, promise', applied'), SameRun(mihomo, mihomo'), calm' => calm,
         known' = known \/ mihomo' = Down, phase' = phase \/ mihomo' = Down
  PROVE  ConfigSound'
<1>1. Active' = Active
  BY DEF Active
<1>2. RecordsInv'
  BY <1>1 DEF ConfigSound, RecordsInv
<1>3. KnownInv'
  BY <1>1 DEF ConfigSound, KnownInv, SameRun
<1>4. DownInv'
  BY DEF ConfigSound, DownInv, SameRun
<1>5. ASSUME NEW c \in WholeConfig, HeldConfig(c) PROVE HeldConfig(c)'
  <2>1. ConfigIs(c)'
    BY <1>1, <1>5 DEF HeldConfig, ConfigIs
  <2>2. AppliedIn(c)' /\ AppliedRuns'
    BY <1>5, AppliedFades DEF HeldConfig
  <2>3. ASSUME NEW u \in Active PROVE Applies(c, promise', applied', mihomo', task[u])
    <3>1. Marked(task[u], task[u], FALSE)
      BY DEF Marked, Kin
    <3>2. Named(task[u].op, task[u].field)
      BY DEF Sound, OrderedInv, Ordered
    <3>3. Applies(c, promise, applied, mihomo, task[u])
      BY <1>5 DEF HeldConfig, Applying
    <3> QED BY <3>1, <3>2, <3>3, AppliesFades
  <2>4. Applying(c)'
    BY <1>1, <2>3 DEF Applying
  <2> QED BY <2>1, <2>2, <2>4 DEF HeldConfig
<1> QED BY <1>2, <1>3, <1>4, <1>5 DEF ConfigSound

\* A Mihomo that starts has what is in the file.
LEMMA RanRuns ==
  ASSUME Typed, AppliedIn(config), mihomo' = Ran, UNCHANGED <<promise, applied>>
  PROVE  AppliedRuns'
<1>1. ASSUME NEW f \in applied \ {"dns"}, promise[f] # None PROVE Ran[f] = Section(f, promise[f])
  <2>1. f \in {"mode", "ports", "tun"}
    BY DEF Typed, TypeOK
  <2>2. config \notin {NoFile, Empty} /\ config[f] = Section(f, promise[f])
    BY <1>1 DEF AppliedIn
  <2>3. f \in ConfigKeys \cup {"selected"} /\ f # "selected"
    BY <2>1 DEF ConfigKeys
  <2> QED BY <2>2, <2>3 DEF Ran
<1> QED BY <1>1 DEF AppliedRuns

\* What holds when nothing runs, or one operation has just begun.
LEMMA AloneConfig ==
  ASSUME KnownInv', DownInv', RecordsInv',
         calm' => AppliedRuns' /\ \E c \in WholeConfig : config' = c /\ AppliedIn(c)' /\ Applying(c)'
  PROVE  ConfigSound'
<1>1. ASSUME calm' PROVE \E c \in WholeConfig : HeldConfig(c)'
  <2>1. PICK c \in WholeConfig : config' = c /\ AppliedIn(c)' /\ Applying(c)'
    BY <1>1
  <2>2. ConfigIs(c)'
    BY <2>1 DEF ConfigIs
  <2> QED BY <1>1, <2>1, <2>2 DEF HeldConfig
<1> QED BY <1>1 DEF ConfigSound

LEMMA RestConfig ==
  ASSUME NEW c, HeldConfig(c), \A u \in Active : Head(task[u].todo) # "write_config"
  PROVE  config = c
BY DEF HeldConfig, ConfigIs

LEMMA BootConfig ==
  ASSUME Typed, Sound, ConfigSound, NEW t \in Tasks, Boot(t)
  PROVE  ConfigSound'
<1> DEFINE n == New("boot", "none", None)
<1>1. phase = "down" /\ UNCHANGED <<config, promise, applied, calm>> /\ phase' # "down"
  BY DEF Boot, history
<1>2. Active = {} /\ TypeOK /\ mihomo = Down
  BY <1>1, DownIdle DEF Typed, ConfigSound, DownInv
<1>3. CASE UNCHANGED <<mihomo, task>>
  <2>1. Fades(promise, applied, promise', applied') /\ SameRun(mihomo, mihomo')
    BY <1>1, <1>3, FadesSame
  <2> QED BY <1>1, <1>2, <1>3, <2>1, StillConfig
<1>4. CASE known' = TRUE /\ mihomo' = Ran /\ task' = [task EXCEPT ![t] = n]
  <2>1. MayBegin("boot", "none", None) /\ Named("boot", "none")
    BY DEF MayBegin, Named, Options, SetsMode
  <2>2. Resets("boot", "none") \cap applied = {}
    BY <1>2 DEF Resets, TypeOK
  <2>3. Records(n.op, n.todo) /\ \A c : Applies(c, promise, applied, mihomo', n)
    BY <2>1, <2>2, NewApplies
  <2> HIDE DEF n
  <2>4. \A u \in Active' : task'[u] = n
    BY <1>2, <1>4 DEF Active, TypeOK
  <2>5. RecordsInv' /\ KnownInv' /\ DownInv'
    BY <1>1, <1>4, <2>3, <2>4 DEF RecordsInv, KnownInv, DownInv
  <2>6. ASSUME calm'
        PROVE  AppliedRuns' /\ \E c \in WholeConfig : config' = c /\ AppliedIn(c)' /\ Applying(c)'
    <3>1. PICK c \in WholeConfig : HeldConfig(c)
      BY <1>1, <2>6 DEF ConfigSound
    <3>2. config = c /\ AppliedIn(config)
      BY <1>2, <3>1, RestConfig DEF HeldConfig
    <3>3. AppliedRuns'
      BY <1>1, <1>4, <3>2, RanRuns
    <3>4. AppliedIn(c)'
      BY <1>1, <3>1 DEF HeldConfig, AppliedIn
    <3>5. Applying(c)'
      BY <1>1, <2>3, <2>4 DEF Applying
    <3> QED BY <1>1, <3>2, <3>3, <3>4, <3>5
  <2> QED BY <2>5, <2>6, AloneConfig
<1> QED BY <1>3, <1>4 DEF Boot

LEMMA CrashConfig ==
  ASSUME Typed, Sound, ConfigSound, Crash
  PROVE  ConfigSound'
<1> DEFINE under_way == UNION {Touches(task[t].op, task[t].field) : t \in Active}
<1>1. /\ UNCHANGED <<config, calm>> /\ Active' = {} /\ mihomo' = Down
      /\ promise' = [f \in Fields |-> IF f \in under_way \/ settings = Empty THEN None ELSE promise[f]]
      /\ applied' = IF Empty \in {settings, config} THEN {} ELSE applied \ under_way
  BY DEF Crash, Active
<1>2. RecordsInv' /\ KnownInv' /\ DownInv' /\ AppliedRuns'
  BY <1>1 DEF RecordsInv, KnownInv, DownInv, AppliedRuns
<1> HIDE DEF under_way
<1>3. Fades(promise, applied, promise', applied') /\ SameRun(mihomo, mihomo')
  BY <1>1 DEF Fades, SameRun
<1>4. ASSUME calm' PROVE \E c \in WholeConfig : config' = c /\ AppliedIn(c)' /\ Applying(c)'
  <2>1. PICK c \in WholeConfig : HeldConfig(c)
    BY <1>1, <1>4 DEF ConfigSound
  <2>2. CASE config = c
    <3>1. AppliedIn(c)'
      BY <1>3, <2>1, AppliedFades DEF HeldConfig
    <3>2. Applying(c)'
      BY <1>1 DEF Applying
    <3> QED BY <1>1, <2>2, <3>1, <3>2
  <2>3. CASE config = Empty
    <3>1. PICK d \in WholeConfig : d = Empty
      BY DEF WholeConfig
    <3>2. AppliedIn(d)' /\ Applying(d)'
      BY <1>1, <2>3 DEF AppliedIn, Applying
    <3> QED BY <1>1, <2>3, <3>1, <3>2
  <2> QED BY <2>1, <2>2, <2>3 DEF HeldConfig, ConfigIs
<1> QED BY <1>2, <1>4, AloneConfig

LEMMA MihomoExitsConfig ==
  ASSUME Typed, Sound, ConfigSound, MihomoExits
  PROVE  ConfigSound'
<1>1. UNCHANGED <<config, task, phase, known, promise, applied, calm>> /\ mihomo' \in {mihomo, Down}
  BY DEF MihomoExits, daemon, history
<1>2. Fades(promise, applied, promise', applied') /\ SameRun(mihomo, mihomo')
  BY <1>1 DEF Fades, SameRun
<1> QED BY <1>1, <1>2, StillConfig

\* The client writes the mode to config.yaml itself.
LEMMA ClientAloneConfig ==
  ASSUME Typed, Sound, ConfigSound, NEW v \in Values, ClientAlone(v)
  PROVE  ConfigSound'
<1>1. /\ phase = "down" /\ UNCHANGED <<phase, known, mihomo, task, calm>>
      /\ config' = IF config \in {NoFile, Empty} THEN config ELSE [config EXCEPT !["mode"] = v]
      /\ promise' = [f \in Fields |-> CASE f = "mode" -> v
                                         [] f \in ClientDrops -> None
                                         [] OTHER -> promise[f]]
      /\ applied' = IF config \in {NoFile, Empty} THEN applied \ {"mode", "dns"}
                    ELSE (applied \ ClientDrops) \cup {"mode"}
  BY DEF ClientAlone, daemon, process
<1>2. Active = {} /\ Active' = {} /\ TypeOK /\ mihomo' = Down
  BY <1>1, DownIdle DEF Active, Typed, ConfigSound, DownInv
<1>3. RecordsInv' /\ KnownInv' /\ DownInv' /\ AppliedRuns'
  BY <1>2 DEF RecordsInv, KnownInv, DownInv, AppliedRuns
<1>4. ASSUME calm' PROVE \E c \in WholeConfig : config' = c /\ AppliedIn(c)' /\ Applying(c)'
  <2>1. PICK c \in WholeConfig : HeldConfig(c)
    BY <1>1, <1>4 DEF ConfigSound
  <2>2. config = c /\ AppliedIn(config)
    BY <1>2, <2>1, RestConfig DEF HeldConfig
  <2>3. ASSUME NEW f \in applied', f # "mode"
        PROVE  f \in applied /\ f \in {"ports", "tun"} /\ promise'[f] = promise[f]
    <3>1. f \in applied /\ f # "dns"
      BY <1>1, <2>3 DEF ClientDrops
    <3>2. f \in {"ports", "tun"}
      BY <1>2, <2>3, <3>1 DEF TypeOK
    <3> QED BY <1>1, <3>1, <3>2 DEF Fields, ClientDrops
  <2>4. CASE config \in {NoFile, Empty}
    <3>1. "mode" \notin applied' /\ config' = config
      BY <1>1, <2>4
    <3>2. Applying(c)'
      BY <1>2 DEF Applying
    <3>3. AppliedIn(c)'
      BY <2>2, <2>3, <2>4, <3>1 DEF AppliedIn
    <3> QED BY <2>2, <3>1, <3>2, <3>3
  <2>5. CASE config \notin {NoFile, Empty}
    <3>1. config \in ConfigData /\ v \in Options /\ config' = [config EXCEPT !["mode"] = v]
      BY <1>1, <1>2, <2>5 DEF TypeOK, ConfigData, Options
    <3>2. config' \in ConfigData /\ config'["mode"] = v /\ \A f \in {"ports", "tun"} : config'[f] = config[f]
      BY <3>1 DEF ConfigData, ConfigKeys
    <3>3. config' \notin {NoFile, Empty}
      BY <3>2, SettingsAssumption DEF ConfigData, Options
    <3>4. promise'["mode"] = v
      BY <1>1 DEF Fields, ClientDrops
    <3>5. Section("mode", v) = v
      BY DEF Section
    <3>6. ASSUME NEW f \in applied', promise'[f] # None PROVE config'[f] = Section(f, promise'[f])
      <4>1. CASE f = "mode"
        BY <3>2, <3>4, <3>5, <4>1
      <4>2. CASE f # "mode"
        <5>1. f \in applied /\ f \in {"ports", "tun"} /\ promise'[f] = promise[f]
          BY <2>3, <4>2
        <5>2. config[f] = Section(f, promise[f])
          BY <2>2, <3>6, <5>1 DEF AppliedIn
        <5> QED BY <3>2, <5>1, <5>2
      <4> QED BY <4>1, <4>2
    <3>7. PICK d \in WholeConfig : d = config'
      BY <3>2 DEF WholeConfig
    <3>8. AppliedIn(d)'
      BY <3>3, <3>6, <3>7 DEF AppliedIn
    <3>9. Applying(d)'
      BY <1>2 DEF Applying
    <3> QED BY <3>7, <3>8, <3>9
  <2> QED BY <2>4, <2>5
<1> QED BY <1>3, <1>4, AloneConfig

LEMMA InitConfig ==
  ASSUME Init
  PROVE  ConfigSound
<1>1. Active = {} /\ mihomo = Down /\ applied = {} /\ config \in WholeConfig
  BY SettingsAssumption DEF Init, Active, WholeConfig, ConfigData, Options
<1>2. RecordsInv /\ KnownInv /\ DownInv
  BY <1>1 DEF RecordsInv, KnownInv, DownInv
<1>3. HeldConfig(config)
  BY <1>1 DEF HeldConfig, ConfigIs, AppliedIn, AppliedRuns, Applying
<1> QED BY <1>1, <1>2, <1>3 DEF ConfigSound

-----------------------------------------------------------------------------
(***************************************************************************)
(* The steps that set what Mihomo runs with, or that make a promise.       *)
(***************************************************************************)
\* A task says the same when another sets the field f, which it does not decide.
LEMMA AppliesApart ==
  ASSUME NEW q, Ordered(q), NEW c, NEW p, NEW a, NEW m, Applies(c, p, a, m, q),
         NEW f, f \notin Touches(q.op, q.field), NEW p2, NEW a2, a2 \subseteq a \cup {f},
         \A g \in Fields \ {f} : p2[g] = p[g], NEW m2, m2 = m \/ f = "mode"
  PROVE  Applies(c, p2, a2, m2, q)
<1>1. Named(q.op, q.field) /\ (q.mode # None => q.op \in Starters \cup SetsMode)
  BY DEF Ordered
<1>2. /\ q.op \in Replying => q.field # f
      /\ q.op \in Starters \cup SetsMode => f # "mode"
  BY <1>1, TouchesIs
<1>3. Switches(q) => f # "ports"
  BY DEF Switches, Touches
<1>4. "mode" \in Fields /\ "ports" \in Fields
  BY DEF Fields
<1>5. Own(p2, a2, q)
  <2>1. Own(p, a, q)
    BY DEF Applies
  <2>2. q.op \in Replying => q.field \notin a2
    BY <1>2, <2>1 DEF Own
  <2>3. q.op \in SetsMode \/ q.mode # None => "mode" \notin a2 \/ p2["mode"] = q.mode
    BY <1>1, <1>2, <1>4, <2>1 DEF Own
  <2> QED BY <2>2, <2>3 DEF Own
<1>6. Runs(c, m2, q)
  <2>1. Runs(c, m, q)
    BY DEF Applies
  <2>2. q.op \in {"ports", "tun"} => m2 = m
    BY <1>2 DEF Starters
  <2> QED BY <2>1, <2>2 DEF Runs
<1>7. ~q.stale => EditFresh(c, p2, q, Head(q.todo))
  <2>1. Switches(q) => p2["ports"] = p["ports"]
    BY <1>3, <1>4
  <2> QED BY <2>1 DEF Applies, EditFresh, Replaces
<1> QED BY <1>5, <1>6, <1>7 DEF Applies

LEMMA ApplyingApart ==
  ASSUME Typed, OrderedInv, Apart, NEW c, NEW t \in Active, OthersApply(c, t), NEW n, NEW passed,
         Moves(t, n, passed), NEW f \in Touches(task[t].op, task[t].field),
         applied' \subseteq applied \cup {f}, \A g \in Fields \ {f} : promise'[g] = promise[g],
         mihomo' = mihomo \/ f = "mode", n = Idle \/ Applies(c, promise', applied', mihomo', n)
  PROVE  Applying(c)'
<1>1. ASSUME NEW u \in Active' PROVE Applies(c, promise', applied', mihomo', task'[u])
  <2>1. CASE u = t
    BY <1>1, <2>1, Moved, ActiveTask
  <2>2. CASE u # t
    <3>1. u \in Tasks \ {t} /\ t \in Tasks
      BY <1>1, <2>2 DEF Active
    <3>2. u \in Active /\ Marked(task'[u], task[u], u \in passed)
      BY <1>1, <3>1, Moved
    <3>3. Applies(c, promise, applied, mihomo, task[u])
      BY <2>2, <3>2 DEF OthersApply
    <3>4. Ordered(task[u]) /\ Named(task[u].op, task[u].field)
      BY <3>2 DEF OrderedInv, Ordered
    <3>5. f \notin Touches(task[u].op, task[u].field)
      BY <2>2, <3>2 DEF Apart
    <3>6. Applies(c, promise', applied', mihomo', task[u])
      BY <3>3, <3>4, <3>5, AppliesApart
    <3>7. Fades(promise', applied', promise', applied') /\ SameRun(mihomo', mihomo')
      BY FadesSame
    <3> QED BY <3>2, <3>4, <3>6, <3>7, AppliesFades
  <2> QED BY <2>1, <2>2
<1> QED BY <1>1 DEF Applying

LEMMA KnownMoved ==
  ASSUME Typed, KnownInv, NEW t \in Tasks, NEW n, NEW passed, Moves(t, n, passed),
         t \in Active => Head(task[t].todo) # "record", known' = known, mihomo' # Down => mihomo # Down
  PROVE  KnownInv'
<1>1. SUFFICES ASSUME ~known', mihomo' # Down
               PROVE  \E u \in Active' : Head(task'[u].todo) = "record"
  BY DEF KnownInv
<1>2. \E u \in Active : Head(task[u].todo) = "record"
  BY <1>1 DEF KnownInv
<1> QED BY <1>2, AtMoved

\* What it takes for such a step.
LEMMA SettingConfig ==
  ASSUME Typed, Sound, ConfigSound, NEW t \in Active, Head(task[t].todo) # "write_config",
         NEW n, NEW passed, Moves(t, n, passed), n = Idle \/ Records(n.op, n.todo),
         config' = config, KnownInv', phase' # "down", calm' => calm,
         \A c \in WholeConfig :
           HeldConfig(c) /\ Apart /\ calm' => AppliedIn(c)' /\ AppliedRuns' /\ Applying(c)'
  PROVE  ConfigSound'
<1>1. t \in Tasks
  BY DEF Active
<1>2. RecordsInv' /\ DownInv'
  BY <1>1, RecordsMoved DEF ConfigSound, DownInv
<1>3. ASSUME calm' PROVE \E c \in WholeConfig : HeldConfig(c)'
  <2>1. PICK c \in WholeConfig : HeldConfig(c)
    BY <1>3 DEF ConfigSound
  <2>2. Apart
    BY <1>3 DEF Sound, Held
  <2>3. ConfigIs(c)'
    <3>1. config = c \/ \E u \in Active' : Head(task'[u].todo) = "write_config"
      BY <1>1, <2>1, AtMoved DEF HeldConfig, ConfigIs
    <3> QED BY <2>1, <3>1 DEF HeldConfig, ConfigIs
  <2> QED BY <1>3, <2>1, <2>2, <2>3 DEF HeldConfig
<1> QED BY <1>2, <1>3 DEF ConfigSound

LEMMA SpawnConfig ==
  ASSUME Typed, Sound, ConfigSound, NEW t \in Tasks, Spawn(t)
  PROVE  ConfigSound'
<1> DEFINE q == task[t]
<1>1. t \in Active /\ q \in Task /\ Fits(q) /\ Ordered(q) /\ Head(q.todo) = "spawn"
      /\ Records(q.op, q.todo) /\ TypeOK /\ phase # "down"
  BY ActiveTask DEF Spawn, At, Typed, Sound, OrderedInv, ConfigSound, RecordsInv
<1>2. UNCHANGED <<config, phase, promise, applied>> /\ (calm' => calm)
  BY DEF Spawn
<1>3. Fades(promise, applied, promise', applied')
  BY <1>2, FadesSame
<1>4. "spawn" \notin {"read_config"} \cup Editing
  BY DEF Editing
<1>5. CASE /\ (q.op = "start" /\ mihomo # Down) \/ (q.op \in {"ports", "tun"} /\ ~known)
           /\ task' = [task EXCEPT ![t].todo = <<"reply">>]
           /\ calm' = (calm /\ \A u \in Active : ~At(u, "record"))
           /\ UNCHANGED <<mihomo, known>>
  <2> DEFINE n == [q EXCEPT !.todo = <<"reply">>]
  <2>1. task' = [task EXCEPT ![t] = n]
    BY <1>1, <1>5 DEF TypeOK
  <2>2. n \in Task
    BY <1>1, CutShort
  <2>3. /\ n.op = q.op /\ n.field = q.field /\ n.value = q.value /\ n.mode = q.mode
        /\ n.todo = <<"reply">>
    BY <1>1 DEF Task
  <2> HIDE DEF n
  <2>4. Moves(t, n, {})
    BY <2>1, <2>2, ExceptMoves
  <2>5. Records(n.op, n.todo) /\ Head(n.todo) = "reply"
    BY <2>3, RecordsCut
  <2>6. SameRun(mihomo, mihomo')
    BY <1>5, FadesSame
  <2>7. ASSUME NEW c, HeldConfig(c), calm' PROVE Applies(c, promise', applied', mihomo', n)
    <3>1. Applies(c, promise, applied, mihomo, q)
      BY <1>1, <2>7 DEF HeldConfig, Applying
    <3>2. EditedOk(c, n, "reply")
      BY <1>1, <1>4, <2>3, <3>1 DEF Applies, EditedOk
    <3>3. Runs(c, mihomo', n)
      <4>1. q.op \in {"ports", "tun"} => mihomo = Down
        <5>1. ~\E u \in Active : Head(task[u].todo) = "record"
          BY <1>5, <2>7 DEF At
        <5> QED BY <1>5, <5>1 DEF ConfigSound, KnownInv
      <4> QED BY <1>5, <2>3, <4>1 DEF Runs
    <3>4. Own(promise', applied', n)
      BY <1>3, <2>3, <3>1, OwnFades DEF Applies, Kin
    <3>5. EditFresh(c, promise', n, "reply")
      BY DEF EditFresh, Editing
    <3> QED BY <2>5, <3>2, <3>3, <3>4, <3>5 DEF Applies
  <2> QED BY <1>1, <1>2, <1>3, <1>5, <2>4, <2>5, <2>6, <2>7, AsideConfig
<1>6. CASE mihomo' = Down /\ Fail(t) /\ (known => known')
  <2>1. SameRun(mihomo, mihomo')
    BY <1>6 DEF SameRun
  <2> QED BY <1>1, <1>2, <1>3, <1>6, <2>1, FailConfig
<1>7. CASE /\ ~(q.op \in {"ports", "tun"} /\ ~known) /\ known' = (known \/ q.op = "activate")
           /\ config # NoFile /\ mihomo' = Ran /\ Step(t, q) /\ calm' = (calm /\ ~ConfigTorn(t))
  <2> DEFINE n == After(q)
  <2>1. n \in Task /\ Kin(n, q) /\ n.mode = q.mode /\ n.todo = Tail(q.todo)
    BY <1>1, AfterIs DEF Fits
  <2>2. Moves(t, n, {}) /\ n # Idle
    BY <1>7, <2>1, StepMoves, IdleAssumption
  <2> HIDE DEF n
  <2>3. /\ Records(n.op, n.todo) /\ Head(n.todo) \in {"record", "resume"}
        /\ q.op \notin {"ports", "tun", "activate"} => Head(n.todo) = "record"
    <3>1. Whole(q.todo)
      BY <1>1 DEF Fits
    <3>2. Head(Tail(q.todo)) \in {"record", "resume"}
      BY <1>1, <3>1, TailIs DEF Successors
    <3> QED BY <1>1, <2>1, <3>1, <3>2, RecordsTail DEF Kin
  <2>4. KnownInv'
    <3>1. ASSUME ~known' PROVE \E u \in Active' : Head(task'[u].todo) = "record"
      <4>1. q.op \notin {"ports", "tun", "activate"}
        BY <1>7, <3>1
      <4>2. t \in Active' /\ task'[t] = n
        BY <2>2, Moved
      <4> QED BY <2>3, <4>1, <4>2
    <3> QED BY <3>1 DEF KnownInv
  <2>5. "mode" \in Touches(q.op, q.field)
    <3>1. "spawn" \in ToSet(q.todo)
      BY <1>1, TailSet DEF Fits
    <3>2. q.op \in Starters
      BY <1>1, <3>1, SpawnRestores DEF Fits, Ordered, Orderly
    <3> QED BY <1>1, <3>2, TouchesIs DEF Ordered
  <2>6. ASSUME NEW c \in WholeConfig, HeldConfig(c), Apart, calm'
        PROVE  AppliedIn(c)' /\ AppliedRuns' /\ Applying(c)'
    <3>1. config = c
      BY <1>1, <1>7, <2>6, NotCut DEF HeldConfig
    <3>2. AppliedIn(c)'
      BY <1>2, <2>6 DEF HeldConfig, AppliedIn
    <3>3. AppliedRuns'
      BY <1>2, <1>7, <2>6, <3>1, RanRuns DEF HeldConfig
    <3>4. Applies(c, promise, applied, mihomo, q)
      BY <1>1, <2>6 DEF HeldConfig, Applying
    <3>5. EditedOk(c, n, Head(n.todo))
      <4>1. Head(n.todo) \notin {"request", "merge", "truncate", "write", "load", "store", "patch_mode"}
        BY <2>3
      <4>2. q.op \in {"dns", "ports", "tun"} => n.value = q.value
        BY <2>1 DEF Kin
      <4> QED BY <1>1, <1>4, <2>1, <3>4, <4>1, <4>2 DEF Applies, EditedOk, Kin
    <3>6. Runs(c, mihomo', n)
      <4>1. SUFFICES ASSUME q.op \in {"ports", "tun"}, c # Empty
                     PROVE  Ran[q.field] = Section(q.field, q.value)
        BY <1>7, <2>1 DEF Runs, Kin
      <4>2. q.field \in {"ports", "tun"}
        BY <1>1, <4>1 DEF Ordered, Named
      <4>3. EditedOk(c, q, "spawn")
        BY <1>1, <3>4 DEF Applies
      <4>4. SetIn(c, q.field, Section(q.field, q.value))
        BY <1>4, <4>1, <4>3 DEF EditedOk
      <4>5. c \notin {NoFile, Empty} /\ c[q.field] = Section(q.field, q.value)
        BY <4>1, <4>4 DEF SetIn
      <4>6. q.field \in ConfigKeys \cup {"selected"} /\ q.field # "selected"
        BY <4>2 DEF ConfigKeys
      <4> QED BY <3>1, <4>5, <4>6 DEF Ran
    <3>7. Own(promise', applied', n)
      BY <1>3, <2>1, <3>4, OwnFades DEF Applies
    <3>8. EditFresh(c, promise', n, Head(n.todo))
      BY <2>3 DEF EditFresh, Editing
    <3>9. Applies(c, promise', applied', mihomo', n)
      BY <3>5, <3>6, <3>7, <3>8 DEF Applies
    <3>10. OthersApply(c, t)
      BY <2>6 DEF HeldConfig, Applying, OthersApply
    <3>11. Applying(c)'
      BY <1>1, <1>2, <2>2, <2>5, <2>6, <3>9, <3>10, ApplyingApart DEF Sound
    <3> QED BY <3>2, <3>3, <3>11
  <2> QED BY <1>1, <1>2, <2>2, <2>3, <2>4, <2>6, SettingConfig
<1> QED BY <1>5, <1>6, <1>7 DEF Spawn

\* set_mode has written config.yaml before it patches Mihomo.
LEMMA PatchModeConfig ==
  ASSUME Typed, Sound, ConfigSound, NEW t \in Tasks, PatchMode(t)
  PROVE  ConfigSound'
<1> DEFINE q == task[t]
           n == After(q)
<1>1. t \in Active /\ q \in Task /\ Fits(q) /\ Ordered(q) /\ Head(q.todo) = "patch_mode"
      /\ Records(q.op, q.todo) /\ TypeOK /\ phase # "down"
  BY ActiveTask DEF PatchMode, At, Typed, Sound, OrderedInv, ConfigSound, RecordsInv
<1>2. UNCHANGED <<config, phase, known, calm>>
  BY DEF PatchMode, daemon
<1>3. CASE ~(OrphanAnswers \/ OwnAnswers) /\ Fail(t) /\ UNCHANGED <<promise, applied>>
  <2>1. mihomo' = mihomo
    BY <1>3 DEF PatchMode, Patch
  <2>2. Fades(promise, applied, promise', applied') /\ SameRun(mihomo, mihomo')
    BY <1>3, <2>1, FadesSame
  <2> QED BY <1>1, <1>2, <1>3, <2>2, FailConfig
<1>4. CASE /\ Step(t, q) /\ promise' = [promise EXCEPT !["mode"] = q.mode]
           /\ applied' = IF OwnAnswers /\ config # Empty THEN applied \cup {"mode"} ELSE applied
  <2>1. n \in Task /\ Kin(n, q) /\ n.mode = q.mode /\ n.todo = Tail(q.todo)
    BY <1>1, AfterIs DEF Fits
  <2>2. Moves(t, n, {})
    BY <1>4, <2>1, StepMoves
  <2> HIDE DEF n
  <2>3. Records(n.op, n.todo) /\ Head(n.todo) \in {"allow_lan", "reply", "cli_truncate"}
    <3>1. Whole(q.todo)
      BY <1>1 DEF Fits
    <3>2. Head(Tail(q.todo)) \in {"allow_lan", "reply", "cli_truncate"}
      BY <1>1, <3>1, TailIs DEF Successors
    <3> QED BY <1>1, <2>1, <3>1, <3>2, RecordsTail DEF Kin
  <2>4. q.op \in Starters \cup SetsMode
    <3>1. "patch_mode" \in ToSet(q.todo)
      BY <1>1, TailSet DEF Fits
    <3> QED BY <1>1, <3>1 DEF Ordered, Orderly
  <2>5. "mode" \in Touches(q.op, q.field)
    BY <1>1, <2>4, TouchesIs DEF Ordered
  <2>6. /\ promise'["mode"] = q.mode
        /\ \A g \in Fields \ {"mode"} : promise'[g] = promise[g]
        /\ applied' \subseteq applied \cup {"mode"} /\ applied \subseteq applied'
    BY <1>1, <1>4 DEF TypeOK, Fields
  <2>7. /\ mihomo' # Down => mihomo # Down
        /\ mihomo' # Down => \A k \in {"ports", "tun"} : mihomo'[k] = mihomo[k]
        /\ OwnAnswers => mihomo'["mode"] = q.mode
        /\ ~OwnAnswers => mihomo' = mihomo
    <3>1. CASE OwnAnswers
      <4>1. mihomo' = [mihomo EXCEPT !["mode"] = q.mode] /\ mihomo # Down
        BY <3>1 DEF PatchMode, Patch, OwnAnswers
      <4>2. mihomo \in [ConfigKeys \cup {"selected"} -> Options]
        BY <1>1, <4>1 DEF TypeOK
      <4> QED BY <3>1, <4>1, <4>2 DEF ConfigKeys
    <3>2. CASE ~OwnAnswers
      BY <3>2 DEF PatchMode, Patch
    <3> QED BY <3>1, <3>2
  <2>8. KnownInv'
    BY <1>1, <1>2, <2>2, <2>7, KnownMoved DEF ConfigSound
  <2>9. ASSUME NEW c \in WholeConfig, HeldConfig(c), Apart, calm'
        PROVE  AppliedIn(c)' /\ AppliedRuns' /\ Applying(c)'
    <3>1. Applies(c, promise, applied, mihomo, q)
      BY <1>1, <2>9 DEF HeldConfig, Applying
    <3>2. q.mode # None => SetIn(c, "mode", q.mode)
      BY <1>1, <3>1 DEF Applies, EditedOk
    <3>3. q.mode # None => "mode" \notin applied \/ promise["mode"] = q.mode
      BY <3>1 DEF Applies, Own
    <3>4. applied' \subseteq {"mode", "ports", "tun", "dns"} /\ "mode" \in Fields
          /\ {"ports", "tun", "dns"} \subseteq Fields \ {"mode"}
      BY <1>1, <2>6 DEF TypeOK, Fields
    <3>5. Section("mode", q.mode) = q.mode
      BY DEF Section
    <3>6. ASSUME NEW f \in applied', promise'[f] # None
          PROVE  c \notin {NoFile, Empty} /\ c[f] = Section(f, promise'[f])
      <4>1. CASE f \in applied /\ promise'[f] = promise[f]
        BY <2>9, <3>6, <4>1 DEF HeldConfig, AppliedIn
      <4>2. CASE f = "mode" /\ f \notin applied
        <5>1. config # Empty /\ config = c
          BY <1>4, <2>9, <3>6, <4>2 DEF HeldConfig, ConfigIs
        <5>2. SetIn(c, "mode", q.mode)
          BY <2>6, <3>2, <3>6, <4>2
        <5> QED BY <2>6, <3>5, <4>2, <5>1, <5>2 DEF SetIn
      <4>3. f \in applied => promise'[f] = promise[f]
        <5>1. f = "mode" => promise'[f] = q.mode /\ q.mode # None
          BY <2>6, <3>6
        <5>2. f # "mode" => f \in Fields \ {"mode"}
          BY <3>4, <3>6
        <5> QED BY <2>6, <3>3, <5>1, <5>2
      <4>4. f \in applied \/ f = "mode"
        BY <2>6, <3>6
      <4> QED BY <4>1, <4>2, <4>3, <4>4
    <3>7. AppliedIn(c)'
      BY <3>6 DEF AppliedIn
    <3>8. ASSUME mihomo' # Down, NEW f \in applied' \ {"dns"}, promise'[f] # None
          PROVE  mihomo'[f] = Section(f, promise'[f])
      <4>1. CASE f = "mode" /\ OwnAnswers
        BY <2>6, <2>7, <3>5, <4>1
      <4>2. CASE f = "mode" /\ ~OwnAnswers
        <5>1. f \in applied /\ mihomo' = mihomo
          BY <1>4, <2>7, <3>8, <4>2
        <5>2. promise'[f] = promise[f]
          BY <2>6, <3>3, <3>8, <4>2, <5>1
        <5> QED BY <2>9, <3>8, <5>1, <5>2 DEF HeldConfig, AppliedRuns
      <4>3. CASE f # "mode"
        <5>1. f \in {"ports", "tun"} /\ f \in applied /\ promise'[f] = promise[f]
          BY <2>6, <3>4, <3>8, <4>3
        <5>2. mihomo[f] = Section(f, promise[f])
          BY <2>7, <2>9, <3>8, <5>1 DEF HeldConfig, AppliedRuns
        <5> QED BY <2>7, <3>8, <5>1, <5>2
      <4> QED BY <4>1, <4>2, <4>3
    <3>9. AppliedRuns'
      BY <3>8 DEF AppliedRuns
    <3>10. EditedOk(c, n, Head(n.todo))
      <4>1. Head(n.todo) \notin {"request", "merge", "truncate", "write", "load", "store", "patch_mode"}
        BY <2>3
      <4>2. q.op \in {"dns", "ports", "tun"} => n.value = q.value
        BY <2>1 DEF Kin
      <4>3. "patch_mode" \notin {"read_config"} \cup Editing
        BY DEF Editing
      <4> QED BY <1>1, <2>1, <3>1, <4>1, <4>2, <4>3 DEF Applies, EditedOk, Kin
    <3>11. Runs(c, mihomo', n)
      <4>1. "spawn" \notin ToSet(n.todo) => "spawn" \notin ToSet(q.todo)
        BY <1>1, <2>1, TailSet DEF Fits
      <4>2. q.op \in {"ports", "tun"} => q.field \in {"ports", "tun"} /\ n.value = q.value
        BY <1>1, <2>1 DEF Ordered, Named, Kin
      <4> QED BY <2>1, <2>7, <3>1, <4>1, <4>2 DEF Applies, Runs, Kin
    <3>12. Own(promise', applied', n)
      <4>1. q.op \in Replying => q.field \notin applied /\ q.field # "mode"
        BY <1>1, <2>4, <3>1 DEF Applies, Own, Ordered, Named, Replying, Starters, SetsMode
      <4> QED BY <2>1, <2>6, <4>1 DEF Own, Kin
    <3>13. EditFresh(c, promise', n, Head(n.todo))
      BY <2>3 DEF EditFresh, Editing
    <3>14. Applies(c, promise', applied', mihomo', n)
      BY <3>10, <3>11, <3>12, <3>13 DEF Applies
    <3>15. OthersApply(c, t)
      BY <2>9 DEF HeldConfig, Applying, OthersApply
    <3>16. Applying(c)'
      BY <1>1, <2>2, <2>5, <2>6, <2>9, <3>14, <3>15, ApplyingApart DEF Sound
    <3> QED BY <3>7, <3>9, <3>16
  <2> QED BY <1>1, <1>2, <2>2, <2>3, <2>8, <2>9, SettingConfig
<1> QED BY <1>3, <1>4 DEF PatchMode

\* The request succeeds: what it has set is applied.
LEMMA ReplyConfig ==
  ASSUME Typed, Sound, ConfigSound, NEW t \in Tasks, Reply(t)
  PROVE  ConfigSound'
<1> DEFINE q == task[t]
<1>1. t \in Active /\ q \in Task /\ Fits(q) /\ Ordered(q) /\ Head(q.todo) = "reply" /\ TypeOK
  BY ActiveTask DEF Reply, At, Typed, Sound, OrderedInv
<1>2. UNCHANGED <<config, known, mihomo, calm>> /\ phase' = "up"
  BY DEF Reply, process
<1>3. Moves(t, Idle, {})
  BY ExceptMoves DEF Reply
<1>4. /\ promise' = IF q.op \in Replying THEN [promise EXCEPT ![q.field] = q.value] ELSE promise
      /\ applied' = IF q.op \in {"dns", "ports", "tun"} /\ config # Empty
                     THEN applied \cup {q.field} ELSE applied
  BY DEF Reply, Replying
<1>5. CASE q.op \notin Replying
  <2>1. promise' = promise /\ applied' = applied
    BY <1>4, <1>5 DEF Replying
  <2>2. Fades(promise, applied, promise', applied') /\ SameRun(mihomo, mihomo')
    BY <1>2, <2>1, FadesSame
  <2> QED BY <1>1, <1>2, <1>3, <2>2, AsideConfig
<1>6. CASE q.op \in Replying
  <2>1. q.field \in Touches(q.op, q.field)
    BY <1>1, <1>6, TouchesIs DEF Ordered
  <2>2. /\ \A g \in Fields \ {q.field} : promise'[g] = promise[g]
        /\ q.field \in Fields => promise'[q.field] = q.value
        /\ applied' \subseteq applied \cup {q.field}
    BY <1>1, <1>4, <1>6 DEF TypeOK
  <2>3. KnownInv'
    BY <1>1, <1>2, <1>3, KnownMoved DEF ConfigSound
  <2>4. ASSUME NEW c \in WholeConfig, HeldConfig(c), Apart, calm'
        PROVE  AppliedIn(c)' /\ AppliedRuns' /\ Applying(c)'
    <3>1. Applies(c, promise, applied, mihomo, q)
      BY <1>1, <2>4 DEF HeldConfig, Applying
    <3>2. q.field \notin applied
      BY <1>6, <3>1 DEF Applies, Own
    <3>3. ASSUME NEW f \in applied', promise'[f] # None
          PROVE  \/ f \in applied /\ promise'[f] = promise[f]
                 \/ /\ f = q.field /\ q.op \in {"dns", "ports", "tun"} /\ f = q.op
                    /\ promise'[f] = q.value /\ config # Empty
      <4>1. CASE f = q.field
        <5>1. q.op \in {"dns", "ports", "tun"} /\ config # Empty
          BY <1>4, <3>2, <3>3, <4>1
        <5>2. q.field = q.op
          BY <1>1, <5>1 DEF Ordered, Named
        <5>3. q.field \in Fields
          BY <5>1, <5>2 DEF Fields
        <5> QED BY <2>2, <4>1, <5>1, <5>2, <5>3
      <4>2. CASE f # q.field
        <5>1. f \in applied
          BY <2>2, <3>3, <4>2
        <5>2. f \in Fields \ {q.field}
          BY <1>1, <4>2, <5>1 DEF TypeOK, Fields
        <5> QED BY <2>2, <5>1, <5>2
      <4> QED BY <4>1, <4>2
    <3>4. q.op \in {"dns", "ports", "tun"} => SetIn(c, q.field, Section(q.field, q.value))
      <4>1. EditedOk(c, q, "reply")
        BY <1>1, <3>1 DEF Applies
      <4> QED BY <4>1 DEF EditedOk, Editing
    <3>5. ASSUME NEW f \in applied', promise'[f] # None
          PROVE  c \notin {NoFile, Empty} /\ c[f] = Section(f, promise'[f])
      <4>1. CASE f \in applied /\ promise'[f] = promise[f]
        BY <2>4, <3>5, <4>1 DEF HeldConfig, AppliedIn
      <4>2. CASE /\ f = q.field /\ q.op \in {"dns", "ports", "tun"}
                 /\ promise'[f] = q.value /\ config # Empty
        <5>1. config = c
          BY <2>4, <4>2 DEF HeldConfig, ConfigIs
        <5> QED BY <3>4, <4>2, <5>1 DEF SetIn
      <4> QED BY <3>3, <3>5, <4>1, <4>2
    <3>6. AppliedIn(c)'
      BY <3>5 DEF AppliedIn
    <3>7. ASSUME mihomo # Down, NEW f \in applied' \ {"dns"}, promise'[f] # None
          PROVE  mihomo[f] = Section(f, promise'[f])
      <4>1. CASE f \in applied /\ promise'[f] = promise[f]
        BY <2>4, <3>7, <4>1 DEF HeldConfig, AppliedRuns
      <4>2. CASE /\ f = q.field /\ q.op \in {"dns", "ports", "tun"} /\ f = q.op
                 /\ promise'[f] = q.value /\ config # Empty
        <5>1. q.op \in {"ports", "tun"}
          BY <3>7, <4>2
        <5>2. "spawn" \notin ToSet(q.todo)
          BY <1>1, ReplyLast DEF Fits
        <5>3. c # Empty
          BY <2>4, <4>2 DEF HeldConfig, ConfigIs
        <5>4. Runs(c, mihomo, q)
          BY <3>1 DEF Applies
        <5> QED BY <3>7, <4>2, <5>1, <5>2, <5>3, <5>4 DEF Runs
      <4> QED BY <3>3, <3>7, <4>1, <4>2
    <3>8. AppliedRuns'
      BY <1>2, <3>7 DEF AppliedRuns
    <3>9. OthersApply(c, t)
      BY <2>4 DEF HeldConfig, Applying, OthersApply
    <3>10. Applying(c)'
      BY <1>1, <1>2, <1>3, <2>1, <2>2, <2>4, <3>9, ApplyingApart DEF Sound
    <3> QED BY <3>6, <3>8, <3>10
  <2> QED BY <1>1, <1>2, <1>3, <2>3, <2>4, SettingConfig
<1> QED BY <1>5, <1>6

\* What a task that was not overtaken writes leaves what others have set.
LEMMA WriteKeeps ==
  ASSUME NEW q \in Task, Ordered(q), NEW c \in WholeConfig, NEW p, NEW s \in Editing, EditFresh(c, p, q, s),
         NEW k \in {"mode", "ports", "tun", "dns"}, k \notin Touches(q.op, q.field),
         NEW v, SetIn(c, k, v)
  PROVE  SetIn(q.data, k, v)
<1>1. k \in ConfigKeys /\ k # "api"
  BY DEF ConfigKeys
<1>2. ~Switches(q)
  BY DEF Switches, Touches
<1>3. Sets(c, q.data, q)
  BY <1>2 DEF EditFresh
<1>4. k # Key(q)
  BY <1>1, KeyTouched
<1>5. NoFile # Empty /\ NoFile \notin ConfigData
  BY SettingsAssumption DEF ConfigData, Options
<1>6. CASE c = Empty
  BY <1>3, <1>5, <1>6 DEF Sets, SetIn
<1>7. CASE c \in ConfigData /\ c[k] = v
  BY <1>1, <1>3, <1>4, <1>5, <1>7 DEF Sets, SetIn
<1> QED BY <1>6, <1>7 DEF SetIn, WholeConfig

\* It holds what was applied, but for what a switch of profiles revives.
LEMMA WriteApplied ==
  ASSUME Typed, NEW q \in Task, Ordered(q), NEW c \in WholeConfig, NEW s \in Editing,
         EditFresh(c, promise, q, s), Own(promise, applied, q), AppliedIn(c), config \in {c, Empty},
         NEW f \in applied, promise[f] # None, Switches(q) => f \notin Revived
  PROVE  q.data \notin {NoFile, Empty} /\ q.data[f] = Section(f, promise[f])
<1> DEFINE d == q.data
<1>1. f \in {"mode", "ports", "tun", "dns"} /\ f \in ConfigKeys
  BY DEF Typed, TypeOK, ConfigKeys
<1>2. c \in ConfigData /\ c \notin {NoFile, Empty} /\ c[f] = Section(f, promise[f])
  BY DEF AppliedIn, WholeConfig
<1>3. d \in ConfigData => d \notin {NoFile, Empty}
  BY SettingsAssumption DEF ConfigData, Options
<1> HIDE DEF d
<1>4. CASE Switches(q)
  <2>1. Replaces(c, d, promise)
    BY <1>4 DEF EditFresh, d
  <2>2. CASE f = "ports"
    BY <1>2, <1>3, <2>1, <2>2 DEF Replaces, Section, d
  <2>3. CASE f # "ports"
    <3>1. d[f] = IF c[f] # None THEN c[f] ELSE Profile[f]
      BY <1>1, <1>2, <2>1, <2>3 DEF Replaces
    <3>2. c[f] = None => Profile[f] = None
      <4>1. c[f] = None => f \notin Overrides
        BY DEF Overrides
      <4> QED BY <1>1, <1>4, <2>3, <4>1 DEF Revived
    <3> QED BY <1>2, <1>3, <2>1, <3>1, <3>2 DEF Replaces, d
  <2> QED BY <2>2, <2>3
<1>5. CASE ~Switches(q)
  <2>1. Sets(c, d, q)
    BY <1>5 DEF EditFresh, d
  <2>2. CASE f # Key(q)
    BY <1>1, <1>2, <1>3, <2>1, <2>2 DEF Sets, d
  <2>3. CASE f = Key(q)
    <3>1. q.mode # None
      <4>1. SUFFICES ASSUME q.mode = None PROVE FALSE
        OBVIOUS
      <4>2. q.field = f
        BY <2>3, <4>1 DEF Key
      <4>3. q.op \in Replying \cup SetsMode
        BY <1>1, <4>2 DEF Ordered, Named, Task, Operations, Replying, SetsMode
      <4>4. q.op \in SetsMode => f = "mode"
        BY <4>2 DEF Ordered, Named
      <4> QED BY <4>1, <4>2, <4>3, <4>4 DEF Own
    <3>2. f = "mode" /\ promise[f] = q.mode /\ KeyValue(q) = q.mode
      BY <2>3, <3>1 DEF Key, KeyValue, Own
    <3>3. Section(f, promise[f]) = promise[f]
      BY <3>2 DEF Section
    <3> QED BY <1>1, <1>2, <1>3, <2>1, <2>3, <3>2, <3>3 DEF Sets, d
  <2> QED BY <2>2, <2>3
<1> QED BY <1>4, <1>5

\* The task itself has set its key then.
LEMMA WriteOwn ==
  ASSUME NEW q \in Task, Fits(q), Ordered(q), NEW c \in WholeConfig,
         Head(q.todo) \in {"write_config", "rename_config"}, ~q.stale,
         NEW n, Kin(n, q), n.todo = Tail(q.todo), n.mode = q.mode,
         NEW p, NEW a, NEW m, Applies(c, p, a, m, q), NEW a2 \in SUBSET a
  PROVE  Applies(q.data, p, a2, m, n)
<1> DEFINE d == q.data
           s == Head(q.todo)
           z == Head(n.todo)
<1>1. Whole(q.todo) /\ s \in Editing
  BY DEF Fits, Editing
<1>2. z \in {"request", "reply"}
  BY <1>1, TailIs DEF Successors
<1>3. q.op \in {"dns", "ports", "tun"} => q.op = q.field /\ n.value = q.value
  BY DEF Ordered, Named, Kin
<1>4. EditFresh(c, p, q, s) /\ EditedOk(c, q, s) /\ Runs(c, m, q) /\ Own(p, a, q)
  BY DEF Applies
<1>5. Switches(q) \/ Sets(c, d, q)
  BY <1>1, <1>4 DEF EditFresh
<1>6. NoFile # Empty /\ NoFile \notin ConfigData
  BY SettingsAssumption DEF ConfigData, Options
<1> HIDE DEF d
<1>7. ASSUME Sets(c, d, q), Key(q) \in ConfigKeys PROVE SetIn(d, Key(q), KeyValue(q))
  BY <1>6, <1>7 DEF Sets, SetIn, WholeConfig
<1>8. ASSUME q.op \in {"dns", "ports", "tun"} PROVE SetIn(d, q.field, Section(q.field, q.value))
  <2>1. Sets(c, d, q) /\ q.field \in {"dns", "ports", "tun"} /\ q.field \in ConfigKeys
    BY <1>3, <1>5, <1>8 DEF Switches, ConfigKeys
  <2>2. CASE q.mode = None
    <3>1. Key(q) = q.field /\ KeyValue(q) = Section(q.field, q.value)
      BY <2>2 DEF Key, KeyValue
    <3> QED BY <1>7, <2>1, <3>1
  <2>3. CASE q.mode # None
    <3>1. SetIn(c, q.field, Section(q.field, q.value))
      BY <1>4, <1>8, <2>3 DEF EditedOk
    <3>2. Key(q) = "mode"
      BY <2>3 DEF Key
    <3> QED BY <1>6, <2>1, <3>1, <3>2 DEF Sets, SetIn, WholeConfig
  <2> QED BY <2>2, <2>3
<1>9. ASSUME q.mode # None PROVE SetIn(d, "mode", q.mode)
  <2>1. Sets(c, d, q) /\ Key(q) = "mode" /\ KeyValue(q) = q.mode
    BY <1>5, <1>9 DEF Switches, Key, KeyValue
  <2> QED BY <1>7, <2>1 DEF ConfigKeys
<1>10. EditedOk(d, n, z)
  BY <1>3, <1>8, <1>9 DEF EditedOk, Kin
<1>11. Runs(d, m, n)
  <2>1. "spawn" \notin ToSet(n.todo) => "spawn" \notin ToSet(q.todo)
    BY <1>1, TailSet
  <2>2. q.op \in {"ports", "tun"} /\ c = Empty => d = Empty
    BY <1>5 DEF Switches, Sets
  <2> QED BY <1>3, <1>4, <2>1, <2>2 DEF Runs, Kin
<1>12. EditFresh(d, p, n, z)
  BY <1>2 DEF EditFresh, Editing
<1>13. Own(p, a2, n)
  <2>1. Fades(p, a, p, a2)
    BY DEF Fades
  <2> QED BY <1>4, <2>1, OwnFades
<1> QED BY <1>10, <1>11, <1>12, <1>13 DEF Applies, d

\* The others have it as it was, or are overtaken.
LEMMA WriteOthers ==
  ASSUME NEW q \in Task, Ordered(q), NEW c \in WholeConfig, NEW s \in Editing,
         NEW p, EditFresh(c, p, q, s),
         NEW r, Ordered(r), NEW n, NEW x, Marked(n, r, x), Head(r.todo) \in Editing => x,
         Touches(q.op, q.field) \cap Touches(r.op, r.field) = {},
         NEW a, NEW m, Applies(c, p, a, m, r), NEW a2 \in SUBSET a
  PROVE  Applies(q.data, p, a2, m, n)
<1> DEFINE d == q.data
           z == Head(r.todo)
<1>1. /\ n.op = r.op /\ n.field = r.field /\ n.value = r.value /\ n.mode = r.mode
      /\ n.todo = r.todo /\ n.data = r.data /\ (r.stale \/ x => n.stale)
  BY DEF Marked, Kin
<1>2. EditedOk(c, r, z) /\ Runs(c, m, r) /\ Own(p, a, r) /\ (~r.stale => EditFresh(c, p, r, z))
  BY DEF Applies
<1>3. Named(r.op, r.field) /\ (r.mode # None => r.op \in Starters \cup SetsMode)
  BY DEF Ordered
<1>4. r.op \in {"dns", "ports", "tun"} =>
        r.field \in {"dns", "ports", "tun"} /\ r.field \in Touches(r.op, r.field)
  BY <1>3, TouchesIs DEF Named, Replying
<1>5. r.mode # None \/ r.op \in {"ports", "tun"} => "mode" \in Touches(r.op, r.field)
  BY <1>3, TouchesIs DEF Starters
<1> HIDE DEF d
<1>6. EditedOk(d, n, z)
  <2>1. ASSUME r.op \in {"dns", "ports", "tun"}, SetIn(c, r.field, Section(r.field, r.value))
        PROVE  SetIn(d, r.field, Section(r.field, r.value))
    BY <1>4, <2>1, WriteKeeps DEF d
  <2>2. ASSUME r.mode # None, SetIn(c, "mode", r.mode) PROVE SetIn(d, "mode", r.mode)
    BY <1>5, <2>2, WriteKeeps DEF d
  <2> QED BY <1>1, <1>2, <2>1, <2>2 DEF EditedOk
<1>7. Runs(d, m, n)
  <2>1. ASSUME r.op \in {"ports", "tun"}, c = Empty PROVE d = Empty
    <3>1. ~Switches(q)
      BY <1>5, <2>1 DEF Switches, Touches
    <3> QED BY <2>1, <3>1 DEF EditFresh, Sets, d
  <2> QED BY <1>1, <1>2, <2>1 DEF Runs
<1>8. ASSUME ~n.stale PROVE EditFresh(d, p, n, z)
  <2>1. z \notin Editing /\ ~r.stale
    BY <1>1, <1>8
  <2> QED BY <1>1, <1>2, <2>1 DEF EditFresh, Switches
<1>9. Own(p, a2, n)
  BY <1>1, <1>2 DEF Own
<1> QED BY <1>1, <1>6, <1>7, <1>8, <1>9 DEF Applies, d

LEMMA WriteConfigConfig ==
  ASSUME Typed, Sound, ConfigSound, NEW t \in Tasks, WriteConfig(t)
  PROVE  ConfigSound'
<1> DEFINE q == task[t]
           n == After(q)
           passed == HoldsConfig \ {t}
<1>1. t \in Active /\ q \in Task /\ Fits(q) /\ Ordered(q) /\ Records(q.op, q.todo)
      /\ Head(q.todo) \in {"write_config", "rename_config"} /\ phase # "down" /\ TypeOK
  BY ActiveTask DEF WriteConfig, At, Typed, Sound, OrderedInv, ConfigSound, RecordsInv
<1>2. /\ UNCHANGED <<phase, known, promise, mihomo>> /\ config' = q.data /\ calm' = (calm /\ ~q.stale)
      /\ applied' = IF Switching(t) THEN applied \ Revived ELSE applied
      /\ Advance(t, q, passed)
  BY DEF WriteConfig, daemon, process, Overtaken
<1>3. n \in Task /\ Kin(n, q) /\ n.mode = q.mode /\ n.todo = Tail(q.todo)
  BY <1>1, AfterIs DEF Fits
<1>4. passed \in SUBSET Active
  BY DEF HoldsConfig
<1>5. \A u \in Active \ {t} : Head(task[u].todo) \in Editing => u \in passed
  BY DEF HoldsConfig, Editing
<1> HIDE DEF passed
<1>6. Moves(t, n, passed)
  BY <1>2, <1>3, <1>4, AdvanceMoves
<1> HIDE DEF n
<1>7. RecordsInv' /\ KnownInv' /\ DownInv'
  <2>1. Records(n.op, n.todo)
    BY <1>1, <1>3, RecordsTail DEF Fits, Kin
  <2>2. RecordsInv'
    BY <1>6, <2>1, RecordsMoved DEF ConfigSound
  <2>3. KnownInv'
    BY <1>1, <1>2, <1>6, KnownMoved DEF ConfigSound
  <2> QED BY <1>1, <1>2, <2>2, <2>3 DEF DownInv
<1>8. Head(q.todo) \in Editing /\ (Switching(t) <=> Switches(q)) /\ applied' \subseteq applied
  BY <1>1, <1>2 DEF Editing, Switching, Switches
<1>9. ASSUME calm' PROVE AppliedRuns' /\ \E d \in WholeConfig : config' = d /\ AppliedIn(d)' /\ Applying(d)'
  <2>1. PICK c \in WholeConfig : HeldConfig(c)
    BY <1>2, <1>9 DEF ConfigSound
  <2>2. Apart /\ ~q.stale
    BY <1>2, <1>9 DEF Sound, Held
  <2>3. Applies(c, promise, applied, mihomo, q)
    BY <1>1, <2>1 DEF HeldConfig, Applying
  <2>4. EditFresh(c, promise, q, Head(q.todo)) /\ Own(promise, applied, q)
    BY <2>2, <2>3 DEF Applies
  <2>5. PICK d \in WholeConfig : d = q.data
    BY <1>1 DEF Fits, Ready, WholeConfig
  <2>6. AppliedIn(d)'
    <3>1. ASSUME NEW f \in applied', promise[f] # None
          PROVE  d \notin {NoFile, Empty} /\ d[f] = Section(f, promise[f])
      <4>1. f \in applied /\ (Switches(q) => f \notin Revived)
        BY <1>2, <1>8, <3>1
      <4> QED BY <1>1, <1>8, <2>1, <2>4, <2>5, <3>1, <4>1, WriteApplied DEF HeldConfig, ConfigIs
    <3> QED BY <1>2, <3>1 DEF AppliedIn
  <2>7. AppliedRuns'
    BY <1>2, <1>8, <2>1 DEF HeldConfig, AppliedRuns
  <2>8. ASSUME NEW u \in Active' PROVE Applies(d, promise', applied', mihomo', task'[u])
    <3>1. CASE u = t
      <4>1. Applies(d, promise, applied', mihomo, n)
        BY <1>1, <1>3, <1>8, <2>2, <2>3, <2>5, WriteOwn
      <4> QED BY <1>2, <1>6, <3>1, <4>1, Moved
    <3>2. CASE u # t
      <4>1. u \in Tasks \ {t}
        BY <2>8, <3>2 DEF Active
      <4>2. u \in Active /\ Marked(task'[u], task[u], u \in passed)
        BY <1>6, <2>8, <4>1, Moved
      <4>3. Applies(c, promise, applied, mihomo, task[u]) /\ Ordered(task[u])
        BY <2>1, <4>2 DEF HeldConfig, Applying, Sound, OrderedInv
      <4>4. Touches(q.op, q.field) \cap Touches(task[u].op, task[u].field) = {}
        BY <1>1, <2>2, <3>2, <4>2 DEF Apart
      <4>5. Head(task[u].todo) \in Editing => u \in passed
        BY <1>5, <3>2, <4>2
      <4>6. Applies(d, promise, applied', mihomo, task'[u])
        BY <1>1, <1>8, <2>4, <2>5, <4>2, <4>3, <4>4, <4>5, WriteOthers
      <4> QED BY <1>2, <4>6
    <3> QED BY <3>1, <3>2
  <2>9. Applying(d)'
    BY <2>8 DEF Applying
  <2> QED BY <1>2, <2>5, <2>6, <2>7, <2>9
<1> QED BY <1>7, <1>9, AloneConfig

-----------------------------------------------------------------------------
(***************************************************************************)
(* The theorems about config.yaml and Mihomo.                              *)
(***************************************************************************)
LEMMA NextConfig ==
  ASSUME Typed, Sound, ConfigSound, [Next]_vars
  PROVE  ConfigSound'
<1>1. ASSUME NEW t \in Tasks, ConfigStep(t) PROVE ConfigSound'
  BY <1>1, ReadConfigConfig, CutConfigConfig, WriteConfigConfig DEF ConfigStep
<1>2. ASSUME NEW t \in Tasks, SettingsStep(t) PROVE ConfigSound'
  BY <1>2, ReadSettingsConfig, MergeSettingsConfig, TruncateSettingsConfig, WriteSettingsConfig,
     WriteClientConfig, LoadSettingsConfig DEF SettingsStep
<1>3. ASSUME NEW t \in Tasks, MihomoStep(t) PROVE ConfigSound'
  BY <1>3, SpawnConfig, RecordPathConfig, SelectProxyConfig, RestoreModeConfig, PatchModeConfig,
     PatchLanConfig DEF MihomoStep
<1>4. ASSUME NEW t \in Tasks, Reply(t) PROVE ConfigSound'
  BY <1>4, ReplyConfig
<1>5. ASSUME NEW t \in Tasks, AutoTestDue(t) PROVE ConfigSound'
  BY <1>5, AutoTestDueConfig
<1>6. ASSUME NEW t \in Tasks, RunAutoTest(t) PROVE ConfigSound'
  BY <1>6, RunAutoTestConfig
<1>7. ASSUME NEW t \in Tasks, Boot(t) PROVE ConfigSound'
  BY <1>7, BootConfig
<1>8. ASSUME NEW t \in Tasks, NEW r \in Requests, Begin(t, r) PROVE ConfigSound'
  BY <1>8, BeginConfig
<1>9. CASE Crash
  BY <1>9, CrashConfig
<1>10. CASE MihomoExits
  BY <1>10, MihomoExitsConfig
<1>11. ASSUME NEW v \in Values, ClientAlone(v) PROVE ConfigSound'
  BY <1>11, ClientAloneConfig
<1>12. CASE UNCHANGED vars
  <2>1. UNCHANGED <<task, config, promise, applied, mihomo, calm, known, phase>>
    BY <1>12 DEF vars, daemon, process, history
  <2>2. Fades(promise, applied, promise', applied') /\ SameRun(mihomo, mihomo')
    BY <2>1, FadesSame
  <2> QED BY <2>1, <2>2, StillConfig
<1> QED BY <1>1, <1>2, <1>3, <1>4, <1>5, <1>6, <1>7, <1>8, <1>9, <1>10, <1>11, <1>12 DEF Next

LEMMA ConfigAlways == Spec => [](Typed /\ Sound /\ ConfigSound)
<1>1. Init => ConfigSound
  BY InitConfig
<1>2. Typed /\ Sound /\ ConfigSound /\ [Next]_vars => ConfigSound'
  BY NextConfig
<1> QED BY <1>1, <1>2, SoundAlways, PTL DEF Spec

\* While no writer has overtaken another, what apply-ports, apply-tun, the DNS
\* settings and set_mode acknowledged is in config.yaml as well as in
\* settings.yaml (update_config_*, apply_dns_settings), through switches of the
\* profile (replace_from_profile), restarts, errors and crashes.
THEOREM ConfigAgreesAlways == Spec => []ConfigAgrees
<1>1. ConfigSound => ConfigAgrees
  <2>1. SUFFICES ASSUME ConfigSound, AtRest, NEW f \in applied, promise[f] # None
                 PROVE  config \notin {NoFile, Empty} /\ config[f] = Section(f, promise[f])
    BY DEF ConfigAgrees
  <2>2. PICK c \in WholeConfig : HeldConfig(c)
    BY <2>1 DEF ConfigSound, AtRest
  <2>3. config = c
    BY <2>1, <2>2, RestConfig DEF AtRest
  <2> QED BY <2>1, <2>2, <2>3 DEF HeldConfig, AppliedIn
<1> QED BY <1>1, ConfigAlways, PTL

\* Under the same condition a Mihomo that the daemon runs has the ports, the tun
\* section and the mode that were acknowledged, whether a restart loaded them
\* from config.yaml or a call set them (restart_mihomo, set_mode).
THEOREM RunsAppliedAlways == Spec => []RunsApplied
<1>1. ConfigSound => RunsApplied
  <2>1. SUFFICES ASSUME ConfigSound, AtRest PROVE AppliedRuns
    BY DEF RunsApplied, AppliedRuns
  <2> QED BY <2>1 DEF ConfigSound, AtRest, HeldConfig
<1> QED BY <1>1, ConfigAlways, PTL
=============================================================================
