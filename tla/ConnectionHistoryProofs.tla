----------------------- MODULE ConnectionHistoryProofs -----------------------
(***************************************************************************)
(* Proofs about ConnectionHistory, for every set of connections and of     *)
(* threads, every length of the history and every number of requests and   *)
(* crashes.                                                                *)
(***************************************************************************)
EXTENDS ConnectionHistory, FiniteSetTheorems, FunctionTheorems, TLAPS

(***************************************************************************)
(* Facts about the list of entries.                                        *)
(***************************************************************************)
LEMMA TrimmedType ==
  ASSUME NEW s \in Seq(Ids)
  PROVE  /\ Trimmed(s) \in Seq(Ids)
         /\ Len(Trimmed(s)) <= MaxCount
         /\ ToSet(Trimmed(s)) \subseteq ToSet(s)
<1>1. MaxCount \in Nat /\ MaxCount >= 1
  BY HistoryAssumption
<1>2. CASE Len(s) > MaxCount
  <2>1. Trimmed(s) = SubSeq(s, 1, MaxCount)
    BY <1>2 DEF Trimmed
  <2>2. SubSeq(s, 1, MaxCount) \in Seq(Ids) /\ Len(SubSeq(s, 1, MaxCount)) = MaxCount
    BY <1>1, <1>2
  <2>3. \A i \in 1..MaxCount : SubSeq(s, 1, MaxCount)[i] = s[i]
    BY <1>1, <1>2
  <2> QED BY <1>1, <1>2, <2>1, <2>2, <2>3 DEF ToSet
<1>3. CASE ~(Len(s) > MaxCount)
  BY <1>1, <1>3 DEF Trimmed
<1> QED BY <1>2, <1>3

LEMMA ToSetCons ==
  ASSUME NEW c \in Ids, NEW s \in Seq(Ids)
  PROVE  ToSet(<<c>> \o s) = {c} \cup ToSet(s)
<1> DEFINE l == <<c>> \o s
<1>1. /\ l \in Seq(Ids) /\ Len(l) = Len(s) + 1 /\ l[1] = c
      /\ \A i \in 1..Len(s) : l[i + 1] = s[i]
  OBVIOUS
<1>2. DOMAIN l = 1..(Len(s) + 1) /\ DOMAIN s = 1..Len(s) /\ Len(s) \in Nat
  BY <1>1
<1>3. ToSet(l) \subseteq {c} \cup ToSet(s)
  BY DEF ToSet
<1> HIDE DEF l
<1>4. c \in ToSet(l)
  BY <1>1, <1>2 DEF ToSet
<1>5. ASSUME NEW i \in DOMAIN s PROVE s[i] \in ToSet(l)
  <2>1. i + 1 \in DOMAIN l /\ l[i + 1] = s[i]
    BY <1>1, <1>2
  <2> QED BY <2>1 DEF ToSet
<1>6. ToSet(s) \subseteq ToSet(l)
  BY <1>5 DEF ToSet
<1> QED BY <1>3, <1>4, <1>6 DEF l

LEMMA RecordedType ==
  ASSUME NEW c \in Ids, NEW s \in Seq(Ids)
  PROVE  /\ Recorded(c, s) \in Seq(Ids)
         /\ Len(Recorded(c, s)) <= MaxCount
         /\ ToSet(Recorded(c, s)) \subseteq {c} \cup ToSet(s)
<1>1. <<c>> \o s \in Seq(Ids)
  OBVIOUS
<1>2. ToSet(<<c>> \o s) \subseteq {c} \cup ToSet(s)
  BY DEF ToSet
<1> QED BY <1>1, <1>2, TrimmedType DEF Recorded

\* Whether the rest has been trimmed before does not matter.
LEMMA TrimmedTwice ==
  ASSUME NEW c \in Ids, NEW s \in Seq(Ids)
  PROVE  Recorded(c, Trimmed(s)) = Trimmed(<<c>> \o s)
<1>1. MaxCount \in Nat /\ MaxCount >= 1
  BY HistoryAssumption
<1>2. CASE Len(s) > MaxCount
  <2> DEFINE cut == SubSeq(s, 1, MaxCount)
  <2>1. Trimmed(s) = cut
    BY <1>2 DEF Trimmed
  <2>2. /\ cut \in Seq(Ids) /\ Len(cut) = MaxCount
        /\ \A i \in 1..MaxCount : cut[i] = s[i]
    BY <1>1, <1>2
  <2> HIDE DEF cut
  <2>3. Len(<<c>> \o cut) = MaxCount + 1 /\ Len(<<c>> \o s) = Len(s) + 1
    BY <2>2
  <2>4. /\ Trimmed(<<c>> \o cut) = SubSeq(<<c>> \o cut, 1, MaxCount)
        /\ Trimmed(<<c>> \o s) = SubSeq(<<c>> \o s, 1, MaxCount)
    BY <1>1, <1>2, <2>3 DEF Trimmed
  <2>5. \A i \in 1..MaxCount : (<<c>> \o cut)[i] = (<<c>> \o s)[i]
    BY <1>1, <1>2, <2>2
  <2>6. SubSeq(<<c>> \o cut, 1, MaxCount) = SubSeq(<<c>> \o s, 1, MaxCount)
    BY <1>1, <1>2, <2>2, <2>3, <2>5
  <2> QED BY <2>1, <2>4, <2>6 DEF Recorded
<1>3. CASE ~(Len(s) > MaxCount)
  BY <1>3 DEF Trimmed, Recorded
<1> QED BY <1>2, <1>3

-----------------------------------------------------------------------------
(***************************************************************************)
(* Types.  A file is written with what was made of it, so its type depends *)
(* on that of the entry and the data a thread carries.                     *)
(***************************************************************************)
Recording(t) == At(t, "read") \/ At(t, "cut") \/ At(t, "write")

EntryInv ==
  \A t \in Tasks :
    /\ Recording(t) => task[t].entry \in Ids
    /\ At(t, "cut") \/ At(t, "write") => Len(task[t].data) <= MaxCount

Typed == TypeOK /\ EntryInv

LEMMA InitTyped == Init => Typed
<1> SUFFICES ASSUME Init PROVE Typed
  OBVIOUS
<1>1. TypeOK
  BY HistoryAssumption DEF Init, TypeOK
<1>2. EntryInv
  BY DEF Init, EntryInv, Recording, At, Running
<1> QED BY <1>1, <1>2 DEF Typed

\* Where a thread is tells that it has a record.
LEMMA AtTask ==
  ASSUME TypeOK, NEW t \in Tasks, NEW s, At(t, s)
  PROVE  task[t] \in Task /\ task[t] # Idle /\ task[t].at = s
BY DEF TypeOK, At, Running

LEMMA AtIs ==
  ASSUME NEW t \in Tasks, NEW s
  PROVE  /\ At(t, s) <=> task[t] # Idle /\ task[t].at = s
         /\ At(t, s)' <=> task'[t] # Idle /\ task'[t].at = s
BY DEF At, Running

LEMMA GotoIs ==
  ASSUME TypeOK, NEW t \in Tasks, NEW r \in Task \cup {Idle}, Goto(t, r)
  PROVE  /\ task' \in [Tasks -> Task \cup {Idle}]
         /\ task'[t] = r
         /\ \A u \in Tasks : u # t => task'[u] = task[u]
BY DEF TypeOK, Goto

LEMMA EntriesType ==
  ASSUME TypeOK
  PROVE  Entries \in Seq(Ids)
BY DEF TypeOK, Entries

\* What a history variable notes of a task disturbs nothing else of it.
LEMMA MarkIs ==
  ASSUME NEW r \in Task
  PROVE  /\ [r EXCEPT !.late = TRUE] \in Task
         /\ [r EXCEPT !.crossed = TRUE] \in Task
         /\ [r EXCEPT !.late = TRUE] # Idle
         /\ [r EXCEPT !.crossed = TRUE] # Idle
<1>1. [r EXCEPT !.late = TRUE] \in Task /\ [r EXCEPT !.crossed = TRUE] \in Task
  BY DEF Task
<1> QED BY <1>1, IdleAssumption

\* A task that moves to a well-formed record keeps EntryInv.
LEMMA GotoEntry ==
  ASSUME Typed, NEW t \in Tasks, NEW r \in Task \cup {Idle}, Goto(t, r),
         r # Idle =>
           /\ r.at \in {"read", "cut", "write"} => r.entry \in Ids
           /\ r.at \in {"cut", "write"} => Len(r.data) <= MaxCount
  PROVE  EntryInv'
<1>1. /\ task'[t] = r
      /\ \A u \in Tasks : u # t => task'[u] = task[u]
  BY GotoIs DEF Typed
<1> QED
  BY <1>1 DEF Typed, EntryInv, Recording, At, Running

\* The types are kept by every step.
LEMMA TypedStep == Typed /\ [Next]_vars => Typed'
<1> SUFFICES ASSUME Typed, [Next]_vars PROVE Typed'
  OBVIOUS
<1> USE HistoryAssumption, IdleAssumption
<1>t. TypeOK /\ EntryInv
  BY DEF Typed
<1>1. ASSUME NEW c \in Ids, Open(c) \/ Ends(c) PROVE Typed'
  <2>1. TypeOK'
    BY <1>1, <1>t DEF Open, Ends, TypeOK, budget, ghosts
  <2>2. task' = task
    BY <1>1 DEF Open, Ends
  <2> QED BY <1>t, <2>1, <2>2 DEF Typed, EntryInv, Recording, At, Running
<1>2. ASSUME NEW t \in Tasks, NEW op \in {"poll", "close"}, NEW c \in Ids \cup {Idle}, Request(t, op, c)
      PROVE  Typed'
  <2>1. New(op, c) \in Task /\ New(op, c).at = "fetch"
    BY DEF New, Task
  <2>2. Goto(t, New(op, c)) /\ lock # t
    BY <1>2, <1>t DEF Request, TypeOK
  <2>3. requests' \in 0..MaxRequests
    BY <1>2, <1>t DEF Request, TypeOK
  <2>4. TypeOK'
    BY <1>2, <1>t, <2>1, <2>2, <2>3, GotoIs DEF Request, TypeOK, ghosts
  <2> QED BY <2>1, <2>2, <2>4, GotoEntry DEF Typed
<1>3. ASSUME NEW t \in Tasks, Fetch(t) PROVE Typed'
  <2>1. task[t] \in Task /\ lock # t
    BY <1>3, <1>t, AtTask DEF Fetch, TypeOK
  <2> DEFINE listed == [task[t] EXCEPT !.at = "lock", !.list = open,
                                       !.older = {u \in Running : At(u, "lock")}]
             failed == [task[t] EXCEPT !.at = "delete"]
  <2>2. listed \in Task /\ listed.at = "lock"
    BY <2>1, <1>t DEF Task, TypeOK, Running
  <2>3. failed \in Task /\ failed.at = "delete"
    BY <2>1 DEF Task
  <2>4. PICK r \in Task \cup {Idle} : Goto(t, r) /\ (r # Idle => r.at \in {"lock", "delete"})
    BY <1>3, <2>2, <2>3 DEF Fetch
  <2>5. TypeOK'
    BY <1>3, <1>t, <2>1, <2>4, GotoIs DEF Fetch, TypeOK, budget, ghosts
  <2> QED BY <2>4, <2>5, GotoEntry DEF Typed
<1>4. ASSUME NEW t \in Tasks, Compare(t) PROVE Typed'
  <2>1. task[t] \in Task
    BY <1>4, <1>t, AtTask DEF Compare
  <2> DEFINE r == [task[t] EXCEPT !.at = "next", !.gone = Gone(task[t].list), !.older = {}, !.late = FALSE]
  <2>2. r \in Task /\ r.at = "next" /\ r # Idle
    <3>1. r \in Task /\ r.at = "next"
      BY <2>1, <1>t DEF Task, TypeOK, Gone
    <3> HIDE DEF r
    <3> QED BY <3>1
  <2>3. task'[t] = r /\ lock' = t
    BY <1>4, <1>t DEF Compare, Guard, TypeOK
  <2>4. ASSUME NEW u \in Tasks, u # t
        PROVE  task'[u] = task[u] \/ (At(u, "lock") /\ task'[u] = [task[u] EXCEPT !.late = TRUE])
    BY <1>4, <2>4 DEF Compare
  <2>5. ASSUME NEW u \in Tasks, At(u, "lock") PROVE [task[u] EXCEPT !.late = TRUE] \in Task
    BY <2>5, <1>t, AtTask, MarkIs
  <2>6. \A u \in Tasks : task'[u] \in Task \cup {Idle}
    BY <2>2, <2>3, <2>4, <2>5, <1>t DEF TypeOK
  <2>7. task' \in [Tasks -> Task \cup {Idle}]
    BY <1>4, <2>6 DEF Compare
  <2>8. ordered' \in BOOLEAN
    BY <1>4 DEF Compare
  <2>9. TypeOK'
    BY <1>4, <1>t, <2>2, <2>3, <2>7, <2>8 DEF Compare, TypeOK, budget
  <2>10. EntryInv'
    <3>1. ASSUME NEW u \in Tasks, u # t, Recording(u)' PROVE task'[u] = task[u]
      <4>1. CASE At(u, "lock") /\ task'[u] = [task[u] EXCEPT !.late = TRUE]
        <5>1. task'[u].at = "lock"
          BY <4>1, <1>t, AtTask DEF Task
        <5> QED BY <3>1, <5>1, AtIs DEF Recording
      <4> QED BY <2>4, <3>1, <4>1
    <3>2. ~Recording(t)'
      BY <2>2, <2>3, AtIs DEF Recording
    <3> QED BY <3>1, <3>2, <1>t DEF EntryInv, Recording, At, Running
  <2> QED BY <2>9, <2>10 DEF Typed
<1>5. ASSUME NEW t \in Tasks, RecordNext(t) PROVE Typed'
  <2>1. task[t] \in Task
    BY <1>5, <1>t, AtTask DEF RecordNext
  <2>2. PICK r \in Task : /\ Goto(t, r) /\ r.at \in {"read", "insert"} /\ active' \subseteq active
                          /\ r.at = "read" => r.entry \in Ids
    <3>1. CASE \E c \in task[t].gone :
                 /\ active' = active \ {c}
                 /\ Goto(t, [task[t] EXCEPT !.at = "read", !.gone = @ \ {c}, !.entry = c])
      <4>1. PICK c \in task[t].gone :
                 /\ active' = active \ {c}
                 /\ Goto(t, [task[t] EXCEPT !.at = "read", !.gone = @ \ {c}, !.entry = c])
        BY <3>1
      <4> DEFINE r == [task[t] EXCEPT !.at = "read", !.gone = @ \ {c}, !.entry = c]
      <4>2. c \in Ids
        BY <2>1 DEF Task
      <4>3. r \in Task /\ r.at = "read" /\ r.entry = c
        BY <2>1, <4>2 DEF Task
      <4> QED BY <4>1, <4>2, <4>3
    <3>2. CASE Goto(t, [task[t] EXCEPT !.at = "insert"]) /\ UNCHANGED active
      <4>1. [task[t] EXCEPT !.at = "insert"] \in Task /\ [task[t] EXCEPT !.at = "insert"].at = "insert"
        BY <2>1 DEF Task
      <4> QED BY <3>2, <4>1
    <3> QED BY <1>5, <3>1, <3>2 DEF RecordNext
  <2>3. TypeOK'
    BY <1>5, <1>t, <2>2, GotoIs DEF RecordNext, TypeOK, budget, ghosts
  <2> QED BY <2>2, <2>3, GotoEntry DEF Typed
<1>6. ASSUME NEW t \in Tasks, Insert(t) PROVE Typed'
  <2>1. task[t] \in Task
    BY <1>6, <1>t, AtTask DEF Insert
  <2>2. [task[t] EXCEPT !.at = "delete"] \in Task /\ [task[t] EXCEPT !.at = "delete"].at = "delete"
    BY <2>1 DEF Task
  <2>3. PICK r \in Task \cup {Idle} : Goto(t, r) /\ (r # Idle => r.at = "delete")
    BY <1>6, <2>2 DEF Insert
  <2>4. task[t].list \subseteq Ids
    BY <2>1 DEF Task
  <2>5. TypeOK'
    BY <1>6, <1>t, <2>3, <2>4, GotoIs DEF Insert, Remembered, TypeOK, budget
  <2> QED BY <2>3, <2>5, GotoEntry DEF Typed
<1>7. ASSUME NEW t \in Tasks, ReadHistory(t) PROVE Typed'
  <2>1. task[t] \in Task /\ task[t].entry \in Ids
    BY <1>7, <1>t, AtTask DEF ReadHistory, EntryInv, Recording
  <2> DEFINE data == Recorded(task[t].entry, Entries)
             found == \E u \in Running : At(u, "write")
             r == [task[t] EXCEPT !.at = "cut", !.data = data, !.crossed = found]
  <2>2. data \in Seq(Ids) /\ Len(data) <= MaxCount
    BY <1>t, <2>1, EntriesType, RecordedType
  <2>3. found \in BOOLEAN
    OBVIOUS
  <2>4. Goto(t, r)
    BY <1>7 DEF ReadHistory
  <2>5. r \in Task /\ r.at = "cut" /\ r.data = data /\ r.entry = task[t].entry
    <3> HIDE DEF data, found
    <3> QED BY <2>1, <2>2, <2>3 DEF Task
  <2> HIDE DEF r, data
  <2>6. TypeOK'
    BY <1>7, <1>t, <2>4, <2>5, GotoIs DEF ReadHistory, TypeOK, budget, ghosts
  <2> QED BY <2>1, <2>2, <2>4, <2>5, <2>6, GotoEntry DEF Typed
<1>8. ASSUME NEW t \in Tasks, CutHistory(t) PROVE Typed'
  <2>1. task[t] \in Task /\ task[t].entry \in Ids /\ Len(task[t].data) <= MaxCount
    BY <1>8, <1>t, AtTask DEF CutHistory, EntryInv, Recording
  <2> DEFINE r == [task[t] EXCEPT !.at = "write"]
  <2>2. r \in Task /\ r.at = "write" /\ r.data = task[t].data /\ r.entry = task[t].entry
    BY <2>1 DEF Task
  <2>3. Goto(t, r)
    BY <1>8 DEF CutHistory
  <2> HIDE DEF r
  <2>4. TypeOK'
    BY <1>8, <1>t, <2>2, <2>3, GotoIs DEF CutHistory, TypeOK, budget, ghosts
  <2> QED BY <2>1, <2>2, <2>3, <2>4, GotoEntry DEF Typed
<1>9. ASSUME NEW t \in Tasks, WriteHistory(t) PROVE Typed'
  <2>1. task[t] \in Task /\ task[t].entry \in Ids /\ Len(task[t].data) <= MaxCount
    BY <1>9, <1>t, AtTask DEF WriteHistory, EntryInv, Recording
  <2> DEFINE r == [task[t] EXCEPT !.at = "next", !.entry = Idle, !.data = <<>>, !.crossed = FALSE]
  <2>2. r \in Task /\ r.at = "next" /\ r # Idle
    <3> DEFINE empty == <<>>
               s == [task[t] EXCEPT !.at = "next", !.entry = Idle, !.data = empty, !.crossed = FALSE]
    <3>1. empty \in Seq(Ids)
      OBVIOUS
    <3>2. s \in Task /\ s.at = "next"
      <4> HIDE DEF empty
      <4> QED BY <2>1, <3>1 DEF Task
    <3>3. r = s
      OBVIOUS
    <3> HIDE DEF r, s
    <3> QED BY <3>2, <3>3
  <2>3. task'[t] = IF lock = t THEN r ELSE Idle
    BY <1>9, <1>t DEF WriteHistory, TypeOK
  <2> HIDE DEF r
  <2>4. ASSUME NEW u \in Tasks, u # t
        PROVE  \/ task'[u] = task[u]
               \/ (At(u, "cut") \/ At(u, "write")) /\ task'[u] = [task[u] EXCEPT !.crossed = TRUE]
    BY <1>9, <2>4 DEF WriteHistory
  <2>5. ASSUME NEW u \in Tasks, At(u, "cut") \/ At(u, "write")
        PROVE  LET v == [task[u] EXCEPT !.crossed = TRUE] IN
               /\ v \in Task /\ v # Idle
               /\ v.at = task[u].at /\ v.entry = task[u].entry /\ v.data = task[u].data
    <3>1. task[u] \in Task
      BY <2>5, <1>t, AtTask
    <3> QED BY <3>1, MarkIs DEF Task
  <2>6. \A u \in Tasks : task'[u] \in Task \cup {Idle}
    BY <2>2, <2>3, <2>4, <2>5, <1>t DEF TypeOK
  <2>7. task' \in [Tasks -> Task \cup {Idle}]
    BY <1>9, <2>6 DEF WriteHistory
  <2>8. task[t].data \in Seq(Ids) /\ <<task[t].entry>> \o log \in Seq(Ids)
    BY <2>1, <1>t DEF Task, TypeOK
  <2>9. lock # Free => task'[lock] # Idle /\ task'[lock].at \notin {"fetch", "lock", "delete"}
    BY <2>2, <2>3, <2>4, <2>5, <1>t, AtIs DEF TypeOK
  <2>10. apart' \in BOOLEAN
    BY <1>9 DEF WriteHistory
  <2>11. TypeOK'
    BY <1>9, <1>t, <2>1, <2>7, <2>8, <2>9, <2>10 DEF WriteHistory, TypeOK, budget
  <2>12. EntryInv'
    <3>1. ~Recording(t)'
      BY <2>2, <2>3 DEF Recording, At, Running
    <3>2. ASSUME NEW u \in Tasks, u # t
          PROVE  /\ Recording(u)' => task'[u].entry \in Ids
                 /\ At(u, "cut")' \/ At(u, "write")' => Len(task'[u].data) <= MaxCount
      <4>1. CASE task'[u] = task[u]
        BY <4>1, <1>t DEF EntryInv, Recording, At, Running
      <4>2. CASE task'[u] # task[u]
        <5>1. Recording(u) /\ (At(u, "cut") \/ At(u, "write"))
          BY <2>4, <3>2, <4>2 DEF Recording
        <5>2. task'[u].entry = task[u].entry /\ task'[u].data = task[u].data
          BY <2>4, <2>5, <3>2, <4>2
        <5> QED BY <5>1, <5>2, <1>t DEF EntryInv
      <4> QED BY <4>1, <4>2
    <3> QED BY <3>1, <3>2 DEF EntryInv, Recording
  <2> QED BY <2>11, <2>12 DEF Typed
<1>10. ASSUME NEW t \in Tasks, Close(t) PROVE Typed'
  <2>1. task[t] \in Task /\ lock # t
    BY <1>10, <1>t, AtTask DEF Close, TypeOK
  <2> DEFINE r == [task[t] EXCEPT !.at = "read", !.entry = task[t].id, !.list = {}]
  <2>2. task[t].id \in task[t].list => r \in Task /\ r.at = "read" /\ r.entry \in Ids
    BY <2>1 DEF Task
  <2>3. PICK s \in Task \cup {Idle} : Goto(t, s) /\ (s # Idle => s.at = "read" /\ s.entry \in Ids)
    BY <1>10, <2>2 DEF Close
  <2> HIDE DEF r
  <2>4. closes' \in [Ids -> Nat]
    BY <1>10, <1>t DEF Close, TypeOK
  <2>5. obeyed' \in BOOLEAN /\ open' \subseteq Ids
    BY <1>10, <1>t DEF Close, TypeOK
  <2>6. TypeOK'
    BY <1>10, <1>t, <2>1, <2>3, <2>4, <2>5, GotoIs DEF Close, TypeOK, budget
  <2> QED BY <2>3, <2>6, GotoEntry DEF Typed
<1>11. CASE Crash
  <2>1. TypeOK'
    BY <1>11, <1>t DEF Crash, TypeOK
  <2>2. EntryInv'
    BY <1>11 DEF Crash, EntryInv, Recording, At, Running
  <2> QED BY <2>1, <2>2 DEF Typed
<1>12. CASE UNCHANGED vars
  BY <1>12, <1>t DEF vars, budget, ghosts, Typed, TypeOK, EntryInv, Recording, At, Running
<1> QED
  BY <1>1, <1>2, <1>3, <1>4, <1>5, <1>6, <1>7, <1>8, <1>9, <1>10, <1>11, <1>12
  DEF Next, TaskStep

(***************************************************************************)
(* What one step makes of the tasks, in the terms the invariants need: the *)
(* task t becomes r, and of the others at most a history variable changes. *)
(***************************************************************************)
Moves(t, r) ==
  /\ task'[t] = r
  /\ \A u \in Tasks : u # t =>
       \/ task'[u] = task[u]
       \/ At(u, "lock") /\ task'[u] = [task[u] EXCEPT !.late = TRUE]
       \/ (At(u, "cut") \/ At(u, "write")) /\ task'[u] = [task[u] EXCEPT !.crossed = TRUE]

\* Apart from these variables the others stay as they are.
LEMMA OthersStay ==
  ASSUME TypeOK, NEW t \in Tasks, NEW r, Moves(t, r), NEW u \in Tasks, u # t
  PROVE  /\ \A s : At(u, s)' <=> At(u, s)
         /\ Recording(u)' <=> Recording(u)
         /\ task[u] # Idle =>
              /\ task'[u].op = task[u].op /\ task'[u].id = task[u].id
              /\ task'[u].list = task[u].list /\ task'[u].gone = task[u].gone
              /\ task'[u].entry = task[u].entry /\ task'[u].data = task[u].data
              /\ task'[u].older = task[u].older
              /\ task[u].late => task'[u].late
              /\ task[u].crossed => task'[u].crossed
<1>1. CASE task'[u] = task[u]
  BY <1>1 DEF Recording, At, Running
<1>2. CASE At(u, "lock") /\ task'[u] = [task[u] EXCEPT !.late = TRUE]
  <2>1. task[u] \in Task /\ task[u] # Idle
    BY <1>2, AtTask
  <2>2. task'[u] # Idle
    BY <1>2, <2>1, MarkIs
  <2> QED BY <1>2, <2>1, <2>2 DEF Task, Recording, At, Running
<1>3. CASE (At(u, "cut") \/ At(u, "write")) /\ task'[u] = [task[u] EXCEPT !.crossed = TRUE]
  <2>1. task[u] \in Task /\ task[u] # Idle
    BY <1>3, AtTask
  <2>2. task'[u] # Idle
    BY <1>3, <2>1, MarkIs
  <2> QED BY <1>3, <2>1, <2>2 DEF Task, Recording, At, Running
<1> QED BY <1>1, <1>2, <1>3 DEF Moves

LEMMA GotoMoves ==
  ASSUME TypeOK, NEW t \in Tasks, NEW r, Goto(t, r)
  PROVE  Moves(t, r)
BY DEF TypeOK, Goto, Moves

(***************************************************************************)
(* The actions of a task in these terms: where it goes, with what.         *)
(***************************************************************************)
LEMMA RequestIs ==
  ASSUME TypeOK, NEW t \in Tasks, NEW op, NEW c, Request(t, op, c)
  PROVE  \E r : /\ Moves(t, r) /\ task[t] = Idle
                /\ r.at = "fetch" /\ r.list = {} /\ r.gone = {}
BY GotoMoves DEF Request, New

LEMMA FetchIs ==
  ASSUME TypeOK, NEW t \in Tasks, Fetch(t)
  PROVE  /\ task[t] \in Task /\ task[t].at = "fetch" /\ At(t, "fetch")
         /\ \E r : /\ Moves(t, r)
                   /\ \/ /\ r.at = "lock" /\ r.list = open /\ r.gone = task[t].gone
                         /\ r.older = {u \in Running : At(u, "lock")}
                      \/ r.at = "delete" /\ r.list = task[t].list /\ r.gone = task[t].gone
                      \/ r = Idle
<1>1. task[t] \in Task /\ task[t].at = "fetch" /\ At(t, "fetch")
  BY AtTask DEF Fetch
<1> DEFINE waiting == {u \in Running : At(u, "lock")}
           listed == [task[t] EXCEPT !.at = "lock", !.list = open, !.older = waiting]
           failed == [task[t] EXCEPT !.at = "delete"]
<1>2. Moves(t, listed) \/ Moves(t, failed) \/ Moves(t, Idle)
  BY GotoMoves DEF Fetch
<1>3. listed.at = "lock" /\ listed.list = open /\ listed.gone = task[t].gone /\ listed.older = waiting
  <2> HIDE DEF waiting
  <2> QED BY <1>1 DEF Task
<1>4. failed.at = "delete" /\ failed.list = task[t].list /\ failed.gone = task[t].gone
  BY <1>1 DEF Task
<1> HIDE DEF listed, failed
<1> QED BY <1>1, <1>2, <1>3, <1>4

LEMMA CompareIs ==
  ASSUME TypeOK, NEW t \in Tasks, Compare(t)
  PROVE  /\ task[t] \in Task /\ task[t].at = "lock" /\ At(t, "lock")
         /\ \E r : /\ Moves(t, r)
                   /\ r.at = "next" /\ r.gone = active \ task[t].list /\ r.list = task[t].list
<1>1. task[t] \in Task /\ task[t].at = "lock" /\ At(t, "lock")
  BY AtTask DEF Compare
<1> DEFINE r == [task[t] EXCEPT !.at = "next", !.gone = Gone(task[t].list),
                                !.older = {}, !.late = FALSE]
<1>2. Moves(t, r)
  BY DEF Compare, Moves, TypeOK
<1>3. r.at = "next" /\ r.gone = active \ task[t].list /\ r.list = task[t].list
  BY <1>1 DEF Task, Gone
<1> HIDE DEF r
<1> QED BY <1>1, <1>2, <1>3

LEMMA NextIs ==
  ASSUME TypeOK, NEW t \in Tasks, RecordNext(t)
  PROVE  /\ task[t] \in Task /\ task[t].at = "next" /\ At(t, "next")
         /\ \/ \E c \in task[t].gone : \E r :
                 /\ Moves(t, r) /\ r # Idle /\ active' = active \ {c}
                 /\ r.at = "read" /\ r.entry = c
                 /\ r.gone = task[t].gone \ {c} /\ r.list = task[t].list
            \/ \E r : /\ Moves(t, r) /\ active' = active /\ task[t].gone = {}
                      /\ r.at = "insert" /\ r.gone = task[t].gone /\ r.list = task[t].list
<1>1. task[t] \in Task /\ task[t].at = "next" /\ At(t, "next")
  BY AtTask DEF RecordNext
<1>2. ASSUME NEW c \in task[t].gone, active' = active \ {c},
             Goto(t, [task[t] EXCEPT !.at = "read", !.gone = @ \ {c}, !.entry = c])
      PROVE  \E r : /\ Moves(t, r) /\ r # Idle /\ active' = active \ {c}
                    /\ r.at = "read" /\ r.entry = c
                    /\ r.gone = task[t].gone \ {c} /\ r.list = task[t].list
  <2> DEFINE r == [task[t] EXCEPT !.at = "read", !.gone = @ \ {c}, !.entry = c]
  <2>1. /\ r \in Task /\ r.at = "read" /\ r.entry = c
        /\ r.gone = task[t].gone \ {c} /\ r.list = task[t].list
    BY <1>1 DEF Task
  <2>2. Moves(t, r)
    BY <1>2, GotoMoves
  <2> HIDE DEF r
  <2> QED BY <1>2, <2>1, <2>2, IdleAssumption
<1>3. ASSUME active' = active, task[t].gone = {}, Goto(t, [task[t] EXCEPT !.at = "insert"])
      PROVE  \E r : /\ Moves(t, r) /\ active' = active /\ task[t].gone = {}
                    /\ r.at = "insert" /\ r.gone = task[t].gone /\ r.list = task[t].list
  <2> DEFINE r == [task[t] EXCEPT !.at = "insert"]
  <2>1. r.at = "insert" /\ r.gone = task[t].gone /\ r.list = task[t].list
    BY <1>1 DEF Task
  <2>2. Moves(t, r)
    BY <1>3, GotoMoves
  <2> HIDE DEF r
  <2> QED BY <1>3, <2>1, <2>2
<1> QED BY <1>1, <1>2, <1>3 DEF RecordNext

LEMMA InsertIs ==
  ASSUME TypeOK, NEW t \in Tasks, Insert(t)
  PROVE  /\ task[t] \in Task /\ task[t].at = "insert" /\ At(t, "insert")
         /\ \E r : /\ Moves(t, r)
                   /\ \/ r.at = "delete" /\ r.list = task[t].list /\ r.gone = task[t].gone
                      \/ r = Idle
<1>1. task[t] \in Task /\ task[t].at = "insert" /\ At(t, "insert")
  BY AtTask DEF Insert
<1> DEFINE r == [task[t] EXCEPT !.at = "delete"]
<1>2. r.at = "delete" /\ r.list = task[t].list /\ r.gone = task[t].gone
  BY <1>1 DEF Task
<1>3. Moves(t, r) \/ Moves(t, Idle)
  BY GotoMoves DEF Insert
<1> HIDE DEF r
<1> QED BY <1>1, <1>2, <1>3

LEMMA ReadIs ==
  ASSUME Typed, NEW t \in Tasks, ReadHistory(t)
  PROVE  /\ task[t] \in Task /\ task[t].at = "read" /\ At(t, "read")
         /\ \E r : /\ Moves(t, r) /\ r # Idle
                   /\ r.at = "cut" /\ r.entry = task[t].entry
                   /\ r.list = task[t].list /\ r.gone = task[t].gone
                   /\ r.data = Recorded(task[t].entry, Entries)
                   /\ ~r.crossed => \A u \in Running : ~At(u, "write")
<1>1. task[t] \in Task /\ task[t].at = "read" /\ At(t, "read") /\ task[t] # Idle
  BY AtTask DEF ReadHistory, Typed
<1> DEFINE data == Recorded(task[t].entry, Entries)
           found == \E u \in Running : At(u, "write")
           r == [task[t] EXCEPT !.at = "cut", !.data = data, !.crossed = found]
<1>2. Moves(t, r)
  BY GotoMoves DEF ReadHistory, Typed
<1>3. task[t].entry \in Ids /\ data \in Seq(Ids)
  BY <1>1, EntriesType, RecordedType DEF Typed, EntryInv, Recording
<1>4. /\ r \in Task
      /\ r.at = "cut" /\ r.entry = task[t].entry /\ r.data = data /\ r.crossed = found
      /\ r.list = task[t].list /\ r.gone = task[t].gone
  <2>1. found \in BOOLEAN
    OBVIOUS
  <2> HIDE DEF data, found
  <2> QED BY <1>1, <1>3, <2>1 DEF Task
<1> HIDE DEF r
<1> QED BY <1>1, <1>2, <1>4, IdleAssumption

LEMMA CutIs ==
  ASSUME TypeOK, NEW t \in Tasks, CutHistory(t)
  PROVE  /\ task[t] \in Task /\ task[t].at = "cut" /\ At(t, "cut")
         /\ \E r : /\ Moves(t, r) /\ r # Idle
                   /\ r.at = "write" /\ r.entry = task[t].entry /\ r.data = task[t].data
                   /\ r.crossed = task[t].crossed
                   /\ r.list = task[t].list /\ r.gone = task[t].gone
<1>1. task[t] \in Task /\ task[t].at = "cut" /\ At(t, "cut")
  BY AtTask DEF CutHistory
<1> DEFINE r == [task[t] EXCEPT !.at = "write"]
<1>2. /\ r \in Task /\ r.at = "write" /\ r.entry = task[t].entry /\ r.data = task[t].data
      /\ r.crossed = task[t].crossed /\ r.list = task[t].list /\ r.gone = task[t].gone
  BY <1>1 DEF Task
<1>3. Moves(t, r)
  BY GotoMoves DEF CutHistory
<1> HIDE DEF r
<1> QED BY <1>1, <1>2, <1>3, IdleAssumption

LEMMA WriteIs ==
  ASSUME TypeOK, NEW t \in Tasks, WriteHistory(t)
  PROVE  /\ task[t] \in Task /\ task[t].at = "write" /\ At(t, "write")
         /\ \E r : /\ Moves(t, r)
                   /\ \/ r.at = "next" /\ r.list = task[t].list /\ r.gone = task[t].gone
                      \/ r = Idle
<1>1. task[t] \in Task /\ task[t].at = "write" /\ At(t, "write")
  BY AtTask DEF WriteHistory
<1> DEFINE r == [task[t] EXCEPT !.at = "next", !.entry = Idle, !.data = <<>>, !.crossed = FALSE]
<1>2. r.at = "next" /\ r.list = task[t].list /\ r.gone = task[t].gone
  BY <1>1 DEF Task
<1>3. Moves(t, IF lock = t THEN r ELSE Idle)
  BY DEF WriteHistory, Moves, TypeOK
<1> HIDE DEF r
<1> QED BY <1>1, <1>2, <1>3

LEMMA CloseIs ==
  ASSUME TypeOK, NEW t \in Tasks, Close(t)
  PROVE  /\ task[t] \in Task /\ task[t].at = "delete" /\ At(t, "delete")
         /\ \E r : /\ Moves(t, r)
                   /\ \/ /\ task[t].id \in task[t].list
                         /\ r.at = "read" /\ r.entry = task[t].id
                         /\ r.list = {} /\ r.gone = task[t].gone
                      \/ r = Idle
<1>1. task[t] \in Task /\ task[t].at = "delete" /\ At(t, "delete")
  BY AtTask DEF Close
<1> DEFINE r == [task[t] EXCEPT !.at = "read", !.entry = task[t].id, !.list = {}]
<1>2. /\ r.at = "read" /\ r.entry = task[t].id
      /\ r.list = {} /\ r.gone = task[t].gone
  BY <1>1 DEF Task
<1>3. \/ task[t].id \in task[t].list /\ Moves(t, r)
      \/ Moves(t, Idle)
  BY GotoMoves DEF Close
<1> HIDE DEF r
<1> QED BY <1>1, <1>2, <1>3

(***************************************************************************)
(* NoneForgotten: between the memory and the log a connection is in the    *)
(* hands of the task that records it.                                      *)
(***************************************************************************)
Accounted ==
  \A c \in tracked :
    \/ c \in active
    \/ c \in ToSet(log)
    \/ \E t \in Tasks : Recording(t) /\ task[t].entry = c

LEMMA AccountedStep == Typed /\ Accounted /\ [Next]_vars => Accounted'
<1> SUFFICES ASSUME Typed, Accounted, [Next]_vars PROVE Accounted'
  OBVIOUS
<1>t. TypeOK
  BY DEF Typed
<1>1. ASSUME NEW c \in Ids, Open(c) \/ Ends(c) PROVE Accounted'
  BY <1>1 DEF Open, Ends, ghosts, Accounted, Recording, At, Running
\* The others hold on to what they record.
<1>2. ASSUME NEW t \in Tasks, NEW r, Moves(t, r), NEW u \in Tasks, u # t, Recording(u)
      PROVE  Recording(u)' /\ task'[u].entry = task[u].entry
  BY <1>t, <1>2, OthersStay, AtTask DEF Recording
\* A task that holds nothing moves, and nothing else changes.
<1>3. ASSUME NEW t \in Tasks, NEW r, Moves(t, r), ~Recording(t),
             UNCHANGED <<active, tracked, log>>
      PROVE  Accounted'
  <2>1. \A u \in Tasks : Recording(u) => Recording(u)' /\ task'[u].entry = task[u].entry
    BY <1>2, <1>3
  <2> QED BY <1>3, <2>1 DEF Accounted
\* A task keeps what it holds.
<1>4. ASSUME NEW t \in Tasks, NEW r, Moves(t, r), r # Idle, r.at \in {"cut", "write"},
             r.entry = task[t].entry, UNCHANGED <<active, tracked, log>>
      PROVE  Accounted'
  <2>1. Recording(t)' /\ task'[t].entry = task[t].entry
    BY <1>4 DEF Moves, Recording, At, Running
  <2>2. \A u \in Tasks : Recording(u) => Recording(u)' /\ task'[u].entry = task[u].entry
    BY <1>2, <1>4, <2>1
  <2> QED BY <1>4, <2>2 DEF Accounted
<1>5. ASSUME NEW t \in Tasks, NEW op \in {"poll", "close"}, NEW c \in Ids \cup {Idle}, Request(t, op, c)
      PROVE  Accounted'
  <2>1. ~Recording(t) /\ UNCHANGED <<active, tracked, log>>
    BY <1>5 DEF Request, ghosts, Recording, At, Running
  <2> QED BY <1>3, <1>5, <1>t, <2>1, RequestIs
<1>6. ASSUME NEW t \in Tasks, Fetch(t) PROVE Accounted'
  <2>1. ~Recording(t) /\ UNCHANGED <<active, tracked, log>>
    BY <1>6 DEF Fetch, Recording, At, ghosts
  <2> QED BY <1>3, <1>6, <1>t, <2>1, FetchIs
<1>7. ASSUME NEW t \in Tasks, Compare(t) PROVE Accounted'
  <2>1. ~Recording(t) /\ UNCHANGED <<active, tracked, log>>
    BY <1>7 DEF Compare, Recording, At
  <2> QED BY <1>3, <1>7, <1>t, <2>1, CompareIs
<1>8. ASSUME NEW t \in Tasks, RecordNext(t) PROVE Accounted'
  <2>1. ~Recording(t) /\ UNCHANGED <<tracked, log>>
    BY <1>8 DEF RecordNext, Recording, At, ghosts
  <2>2. ASSUME NEW c, NEW r, Moves(t, r), r # Idle, active' = active \ {c}, r.at = "read", r.entry = c
        PROVE  Accounted'
    <3>1. Recording(t)' /\ task'[t].entry = c
      BY <2>2 DEF Moves, Recording, At, Running
    <3>2. \A u \in Tasks : Recording(u) => Recording(u)' /\ task'[u].entry = task[u].entry
      BY <1>2, <2>1, <2>2
    <3> QED BY <2>1, <2>2, <3>1, <3>2 DEF Accounted
  <2>3. ASSUME NEW r, Moves(t, r), active' = active PROVE Accounted'
    BY <1>3, <2>1, <2>3
  <2> QED BY <1>8, <1>t, <2>2, <2>3, NextIs
<1>9. ASSUME NEW t \in Tasks, Insert(t) PROVE Accounted'
  <2>1. /\ ~Recording(t) /\ UNCHANGED log
        /\ active' = active \cup task[t].list /\ tracked' = tracked \cup task[t].list
    BY <1>9 DEF Insert, Remembered, Recording, At
  <2>2. PICK r : Moves(t, r)
    BY <1>9, <1>t, InsertIs
  <2>3. \A u \in Tasks : Recording(u) => Recording(u)' /\ task'[u].entry = task[u].entry
    BY <1>2, <2>1, <2>2
  <2> QED BY <2>1, <2>3 DEF Accounted
<1>10. ASSUME NEW t \in Tasks, ReadHistory(t) PROVE Accounted'
  <2>1. UNCHANGED <<active, tracked, log>>
    BY <1>10 DEF ReadHistory, ghosts
  <2> QED BY <1>4, <1>10, <2>1, ReadIs
<1>11. ASSUME NEW t \in Tasks, CutHistory(t) PROVE Accounted'
  <2>1. UNCHANGED <<active, tracked, log>>
    BY <1>11 DEF CutHistory, ghosts
  <2> QED BY <1>4, <1>11, <1>t, <2>1, CutIs
<1>12. ASSUME NEW t \in Tasks, WriteHistory(t) PROVE Accounted'
  <2>1. task[t].entry \in Ids /\ log \in Seq(Ids)
    BY <1>12, <1>t DEF WriteHistory, Typed, EntryInv, Recording, TypeOK
  <2>2. log' = <<task[t].entry>> \o log /\ UNCHANGED <<active, tracked>>
    BY <1>12 DEF WriteHistory
  <2>3. ToSet(log') = {task[t].entry} \cup ToSet(log)
    BY <2>1, <2>2, ToSetCons
  <2>4. \A u \in Tasks : u # t /\ Recording(u) => Recording(u)' /\ task'[u].entry = task[u].entry
    BY <1>2, <1>12, <1>t, WriteIs
  <2>5. ASSUME NEW c \in tracked'
        PROVE  c \in active' \/ c \in ToSet(log') \/ \E u \in Tasks : Recording(u)' /\ task'[u].entry = c
    <3>1. CASE c \in active \/ c \in ToSet(log)
      BY <2>2, <2>3, <3>1
    <3>2. CASE \E u \in Tasks : Recording(u) /\ task[u].entry = c
      BY <2>3, <2>4, <3>2
    <3> QED BY <2>2, <2>5, <3>1, <3>2 DEF Accounted
  <2> QED BY <2>5 DEF Accounted
<1>13. ASSUME NEW t \in Tasks, Close(t) PROVE Accounted'
  <2>1. ~Recording(t) /\ UNCHANGED <<active, tracked, log>>
    BY <1>13 DEF Close, Recording, At
  <2> QED BY <1>3, <1>13, <1>t, <2>1, CloseIs
<1>14. CASE Crash
  BY <1>14 DEF Crash, Accounted
<1>15. CASE UNCHANGED vars
  BY <1>15 DEF vars, ghosts, Accounted, Recording, At, Running
<1> QED
  BY <1>1, <1>5, <1>6, <1>7, <1>8, <1>9, <1>10, <1>11, <1>12, <1>13, <1>14, <1>15
  DEF Next, TaskStep

(***************************************************************************)
(* NewestKept: what a task is about to write is what the log will be, as   *)
(* long as nobody wrote since it read.                                     *)
(***************************************************************************)
Ready(t) == At(t, "cut") \/ At(t, "write")

LogInv ==
  /\ apart /\ file # Torn => file = Trimmed(log)
  /\ file = Torn /\ Quiet => log = <<>>
  /\ \A t \in Tasks :
       apart /\ Ready(t) /\ ~task[t].crossed => task[t].data = Trimmed(<<task[t].entry>> \o log)

LEMMA LogStep == Typed /\ LogInv /\ [Next]_vars => LogInv'
<1> SUFFICES ASSUME Typed, LogInv, [Next]_vars PROVE LogInv'
  OBVIOUS
<1>t. TypeOK
  BY DEF Typed
<1>1. ASSUME NEW c \in Ids, Open(c) \/ Ends(c) PROVE LogInv'
  BY <1>1 DEF Open, Ends, ghosts, LogInv, Quiet, Ready, At, Running
\* The others keep what they are about to write.
<1>2. ASSUME NEW t \in Tasks, NEW r, Moves(t, r), NEW u \in Tasks, u # t
      PROVE  /\ At(u, "write")' <=> At(u, "write")
             /\ Ready(u)' <=> Ready(u)
             /\ Ready(u) => /\ task'[u].data = task[u].data /\ task'[u].entry = task[u].entry
                            /\ task[u].crossed => task'[u].crossed
  BY <1>t, <1>2, OthersStay, AtTask DEF Ready
\* A task that is not about to write moves, and nothing else changes.
<1>3. ASSUME NEW t \in Tasks, NEW r, Moves(t, r), ~Ready(t), r # Idle => r.at \notin {"cut", "write"},
             UNCHANGED <<file, apart, log>>
      PROVE  LogInv'
  <2>1. ~Ready(t)' /\ ~At(t, "write")' /\ ~At(t, "write")
    BY <1>3 DEF Moves, Ready, At, Running
  <2>2. Quiet' => Quiet
    BY <1>2, <1>3, <2>1 DEF Quiet
  <2> QED BY <1>2, <1>3, <2>1, <2>2 DEF LogInv
<1>4. ASSUME NEW t \in Tasks, NEW op \in {"poll", "close"}, NEW c \in Ids \cup {Idle}, Request(t, op, c)
      PROVE  LogInv'
  <2>1. ~Ready(t) /\ UNCHANGED <<file, apart, log>>
    BY <1>4 DEF Request, ghosts, Ready, At, Running
  <2> QED BY <1>3, <1>4, <1>t, <2>1, RequestIs
<1>5. ASSUME NEW t \in Tasks, Fetch(t) PROVE LogInv'
  <2>1. ~Ready(t) /\ UNCHANGED <<file, apart, log>>
    BY <1>5 DEF Fetch, Ready, At, ghosts
  <2> QED BY <1>3, <1>5, <1>t, <2>1, FetchIs
<1>6. ASSUME NEW t \in Tasks, Compare(t) PROVE LogInv'
  <2>1. ~Ready(t) /\ UNCHANGED <<file, apart, log>>
    BY <1>6 DEF Compare, Ready, At
  <2> QED BY <1>3, <1>6, <1>t, <2>1, CompareIs
<1>7. ASSUME NEW t \in Tasks, RecordNext(t) PROVE LogInv'
  <2>1. ~Ready(t) /\ UNCHANGED <<file, apart, log>>
    BY <1>7 DEF RecordNext, Ready, At, ghosts
  <2> QED BY <1>3, <1>7, <1>t, <2>1, NextIs
<1>8. ASSUME NEW t \in Tasks, Insert(t) PROVE LogInv'
  <2>1. ~Ready(t) /\ UNCHANGED <<file, apart, log>>
    BY <1>8 DEF Insert, Ready, At
  <2> QED BY <1>3, <1>8, <1>t, <2>1, InsertIs
<1>9. ASSUME NEW t \in Tasks, Close(t) PROVE LogInv'
  <2>1. ~Ready(t) /\ UNCHANGED <<file, apart, log>>
    BY <1>9 DEF Close, Ready, At
  <2> QED BY <1>3, <1>9, <1>t, <2>1, CloseIs
<1>10. ASSUME NEW t \in Tasks, ReadHistory(t) PROVE LogInv'
  <2>1. PICK r : /\ Moves(t, r) /\ r.at = "cut" /\ r.entry = task[t].entry
                 /\ r.data = Recorded(task[t].entry, Entries)
                 /\ ~r.crossed => \A u \in Running : ~At(u, "write")
    BY <1>10, ReadIs
  <2>2. UNCHANGED <<file, apart, log>> /\ ~Ready(t) /\ ~At(t, "write")
    BY <1>10 DEF ReadHistory, ghosts, Ready, At
  <2>3. task[t].entry \in Ids /\ log \in Seq(Ids)
    BY <1>10, <1>t DEF ReadHistory, Typed, EntryInv, Recording, TypeOK
  <2>4. ~At(t, "write")'
    BY <2>1 DEF Moves, At
  <2>5. Quiet' => Quiet
    BY <1>2, <2>1, <2>2, <2>4 DEF Quiet
  <2>6. ~task'[t].crossed => Quiet
    BY <2>1 DEF Moves, Quiet, At
  <2>7. apart /\ Quiet => Recorded(task[t].entry, Entries) = Trimmed(<<task[t].entry>> \o log)
    <3>1. CASE file = Torn
      BY <2>3, <3>1 DEF LogInv, Entries, Recorded
    <3>2. CASE file # Torn
      BY <2>3, <3>2, TrimmedTwice DEF LogInv, Entries
    <3> QED BY <3>1, <3>2
  <2>8. task'[t].data = Recorded(task[t].entry, Entries) /\ task'[t].entry = task[t].entry
    BY <2>1 DEF Moves
  <2> QED BY <1>2, <2>1, <2>2, <2>5, <2>6, <2>7, <2>8 DEF LogInv
<1>11. ASSUME NEW t \in Tasks, CutHistory(t) PROVE LogInv'
  <2>1. PICK r : /\ Moves(t, r) /\ r # Idle /\ r.at = "write" /\ r.entry = task[t].entry
                 /\ r.data = task[t].data /\ r.crossed = task[t].crossed
    BY <1>11, <1>t, CutIs
  <2>2. file' = Torn /\ UNCHANGED <<apart, log>> /\ Ready(t)
    BY <1>11 DEF CutHistory, ghosts, Ready
  <2>3. ~Quiet'
    BY <2>1 DEF Moves, Quiet, At, Running
  <2>4. /\ task'[t].data = task[t].data /\ task'[t].entry = task[t].entry
        /\ task'[t].crossed = task[t].crossed
    BY <2>1 DEF Moves
  <2>5. ASSUME NEW u \in Tasks, apart', Ready(u)', ~task'[u].crossed
        PROVE  task'[u].data = Trimmed(<<task'[u].entry>> \o log')
    <3>1. CASE u = t
      BY <2>2, <2>4, <2>5, <3>1 DEF LogInv
    <3>2. CASE u # t
      <4>1. Ready(u) /\ task'[u].data = task[u].data /\ task'[u].entry = task[u].entry
        BY <1>2, <2>1, <2>5, <3>2
      <4>2. ~task[u].crossed
        BY <1>2, <2>1, <2>5, <3>2, <4>1
      <4> QED BY <2>2, <2>5, <4>1, <4>2 DEF LogInv
    <3> QED BY <3>1, <3>2
  <2>6. apart' /\ file' # Torn => file' = Trimmed(log')
    BY <2>2
  <2> QED BY <2>3, <2>5, <2>6 DEF LogInv
<1>12. ASSUME NEW t \in Tasks, WriteHistory(t) PROVE LogInv'
  <2>1. /\ At(t, "write") /\ Ready(t)
        /\ file' = task[t].data /\ log' = <<task[t].entry>> \o log
        /\ apart' => apart /\ ~task[t].crossed
    BY <1>12 DEF WriteHistory, Ready
  <2>2. file' # Torn
    BY <1>t, <2>1, AtTask, HistoryAssumption DEF Task
  <2>3. PICK r : Moves(t, r) /\ (r # Idle => r.at = "next")
    BY <1>12, <1>t, WriteIs
  <2>4. ASSUME NEW u \in Tasks, Ready(u)' PROVE task'[u].crossed
    <3>1. u # t
      BY <2>3, <2>4 DEF Moves, Ready, At, Running
    <3>2. Ready(u)
      BY <1>2, <2>3, <2>4, <3>1
    <3>3. task[u] \in Task
      BY <1>t, <3>2, AtTask DEF Ready
    <3>4. task'[u] = [task[u] EXCEPT !.crossed = TRUE]
      BY <1>12, <3>1, <3>2 DEF WriteHistory, Ready
    <3> QED BY <3>3, <3>4 DEF Task
  <2> QED BY <2>1, <2>2, <2>4 DEF LogInv
<1>13. CASE Crash
  <2>1. \A u \in Tasks : ~Ready(u)'
    BY <1>13 DEF Crash, Ready, At, Running
  <2> QED BY <1>13, <2>1 DEF Crash, LogInv
<1>14. CASE UNCHANGED vars
  BY <1>14 DEF vars, ghosts, LogInv, Quiet, Ready, At, Running
<1> QED
  BY <1>1, <1>4, <1>5, <1>6, <1>7, <1>8, <1>9, <1>10, <1>11, <1>12, <1>13, <1>14
  DEF Next, TaskStep

(***************************************************************************)
(* OnlyClosed.  A connection is kept if it is in the file or some task is  *)
(* going to put it there; what has never been open is known to nobody.     *)
(***************************************************************************)
Holds(t, c) ==
  /\ t \in Running
  /\ \/ c \in task[t].gone
     \/ Recording(t) /\ task[t].entry = c
     \/ Ready(t) /\ c \in ToSet(task[t].data)

Kept(c) == c \in ToSet(Entries) \/ \E t \in Tasks : Holds(t, c)

Known ==
  \A c \in fresh :
    /\ c \notin open /\ c \notin active /\ ~Kept(c)
    /\ \A t \in Running : c \notin task[t].list

\* The comparison and what follows it are under the lock.
Holder == \A t \in Tasks : At(t, "next") \/ At(t, "insert") => lock = t

\* What is remembered and still open is in the list of every task that waits
\* for the lock and has not been overtaken, and a list that has more of the
\* open connections than its own will overtake it.
Listed(t) == \A c \in open : c \in active => c \in task[t].list

Behind(t, u) == u \in Running /\ \E c \in open : c \in task[u].list /\ c \notin task[t].list

Waiting ==
  \A t \in Tasks : At(t, "lock") /\ ~task[t].late =>
    /\ Listed(t)
    /\ \A u \in Tasks : Behind(t, u) =>
         lock # u /\ (At(u, "lock") => t \in task[u].older)

OpenNotKept == ordered /\ obeyed => \A c \in open : ~Kept(c)

\* What the file and the tasks hold after a step they held before, or the task
\* that moved has just taken it up.
LEMMA KeptMoves ==
  ASSUME TypeOK, NEW t \in Tasks, NEW r, Moves(t, r), NEW c, Kept(c)'
  PROVE  \/ Kept(c)
         \/ c \in ToSet(Entries)'
         \/ /\ r # Idle
            /\ \/ c \in r.gone
               \/ r.at \in {"read", "cut", "write"} /\ r.entry = c
               \/ r.at \in {"cut", "write"} /\ c \in ToSet(r.data)
<1>1. CASE c \in ToSet(Entries)'
  BY <1>1
<1>2. ASSUME NEW u \in Tasks, Holds(u, c)', u # t
      PROVE  Holds(u, c)
  <2>1. task'[u] # Idle
    BY <1>2 DEF Holds, Running
  <2>2. PICK s : At(u, s)'
    BY <2>1 DEF At, Running
  <2>3. At(u, s) /\ task[u] # Idle
    BY <1>2, <2>2, OthersStay, AtTask
  <2>4. /\ task'[u].gone = task[u].gone /\ task'[u].entry = task[u].entry /\ task'[u].data = task[u].data
        /\ Recording(u)' <=> Recording(u)
        /\ Ready(u)' <=> Ready(u)
    BY <1>2, <2>3, OthersStay DEF Ready
  <2> QED BY <1>2, <2>3, <2>4 DEF Holds, Running
<1>3. ASSUME Holds(t, c)'
      PROVE  /\ r # Idle
             /\ \/ c \in r.gone
                \/ r.at \in {"read", "cut", "write"} /\ r.entry = c
                \/ r.at \in {"cut", "write"} /\ c \in ToSet(r.data)
  <2>1. task'[t] = r
    BY DEF Moves
  <2>2. r # Idle
    BY <1>3, <2>1 DEF Holds, Running
  <2>3. Recording(t)' => r.at \in {"read", "cut", "write"}
    BY <2>1 DEF Recording, At
  <2>4. Ready(t)' => r.at \in {"cut", "write"}
    BY <2>1 DEF Ready, At
  <2>5. CASE c \in r.gone
    BY <2>2, <2>5
  <2>6. CASE Recording(t)' /\ r.entry = c
    BY <2>2, <2>3, <2>6
  <2>7. CASE Ready(t)' /\ c \in ToSet(r.data)
    BY <2>2, <2>4, <2>7
  <2> QED BY <1>3, <2>1, <2>5, <2>6, <2>7 DEF Holds
<1> QED BY <1>1, <1>2, <1>3 DEF Kept

\* What a step may add: what the comparison finds gone, and what is closed.
LEMMA KeptStep ==
  ASSUME Typed, [Next]_vars, NEW c, Kept(c)'
  PROVE  \/ Kept(c)
         \/ \E t \in Tasks : Compare(t) /\ c \in active /\ c \notin task[t].list
         \/ \E t \in Tasks : Close(t) /\ c = task[t].id /\ c \in task[t].list
<1>t. TypeOK
  BY DEF Typed
<1>e. file' = file => ToSet(Entries)' = ToSet(Entries)
  BY DEF Entries
<1>1. ASSUME UNCHANGED <<file, task>> PROVE Kept(c)
  BY <1>1 DEF Kept, Entries, Holds, Recording, Ready, At, Running
<1>2. ASSUME NEW d \in Ids, Open(d) \/ Ends(d) PROVE Kept(c)
  BY <1>1, <1>2 DEF Open, Ends
\* What a task held is kept.
<1>3. ASSUME NEW t \in Tasks, task[t] # Idle, NEW r, Moves(t, r),
             ToSet(Entries)' \subseteq ToSet(Entries) \/ \A d \in ToSet(Entries)' : Kept(d),
             r # Idle => /\ r.gone \subseteq task[t].gone
                         /\ r.at \in {"read", "cut", "write"} => Kept(r.entry)
                         /\ r.at \in {"cut", "write"} => \A d \in ToSet(r.data) : Kept(d)
      PROVE  Kept(c)
  <2>1. \A d \in task[t].gone : Kept(d)
    BY <1>3 DEF Kept, Holds, Running
  <2>2. \A d \in ToSet(Entries)' : Kept(d)
    BY <1>3 DEF Kept
  <2> QED BY <1>t, <1>3, <2>1, <2>2, KeptMoves
<1>4. ASSUME NEW t \in Tasks, NEW op \in {"poll", "close"}, NEW d \in Ids \cup {Idle}, Request(t, op, d)
      PROVE  Kept(c)
  <2>1. PICK r : Moves(t, r) /\ r.at = "fetch" /\ r.gone = {}
    BY <1>4, <1>t, RequestIs
  <2>2. file' = file
    BY <1>4 DEF Request
  <2> QED BY <1>t, <1>e, <2>1, <2>2, KeptMoves DEF Kept
<1>5. ASSUME NEW t \in Tasks, Fetch(t) PROVE Kept(c)
  <2>1. PICK r : Moves(t, r) /\ (r # Idle => r.at \in {"lock", "delete"} /\ r.gone = task[t].gone)
    BY <1>5, <1>t, FetchIs
  <2>2. file' = file /\ task[t] # Idle
    BY <1>5 DEF Fetch, At, Running
  <2> QED BY <1>3, <1>e, <2>1, <2>2
<1>6. ASSUME NEW t \in Tasks, Compare(t)
      PROVE  Kept(c) \/ (c \in active /\ c \notin task[t].list)
  <2>1. PICK r : Moves(t, r) /\ r.at = "next" /\ r.gone = active \ task[t].list
    BY <1>6, <1>t, CompareIs
  <2>2. file' = file
    BY <1>6 DEF Compare
  <2>3. c \in ToSet(Entries)' => Kept(c)
    BY <1>e, <2>2 DEF Kept
  <2>4. Kept(c) \/ c \in ToSet(Entries)' \/ c \in r.gone
    BY <1>t, <2>1, KeptMoves
  <2> QED BY <2>1, <2>3, <2>4
<1>7. ASSUME NEW t \in Tasks, RecordNext(t) PROVE Kept(c)
  <2>1. file' = file /\ task[t] # Idle
    BY <1>7 DEF RecordNext, At, Running
  <2>2. \A d \in task[t].gone : Kept(d)
    BY <2>1 DEF Kept, Holds, Running
  <2>3. CASE \E d \in task[t].gone : \E r : Moves(t, r) /\ r.at = "read" /\ r.entry = d
                                        /\ r.gone = task[t].gone \ {d}
    BY <1>3, <1>e, <2>1, <2>2, <2>3
  <2>4. CASE \E r : Moves(t, r) /\ r.at = "insert" /\ r.gone = task[t].gone
    BY <1>3, <1>e, <2>1, <2>4
  <2> QED BY <1>7, <1>t, <2>3, <2>4, NextIs
<1>8. ASSUME NEW t \in Tasks, Insert(t) PROVE Kept(c)
  <2>1. PICK r : Moves(t, r) /\ (r # Idle => r.at = "delete" /\ r.gone = task[t].gone)
    BY <1>8, <1>t, InsertIs
  <2>2. file' = file /\ task[t] # Idle
    BY <1>8 DEF Insert, At, Running
  <2> QED BY <1>3, <1>e, <2>1, <2>2
<1>9. ASSUME NEW t \in Tasks, ReadHistory(t) PROVE Kept(c)
  <2>1. /\ Recording(t) /\ task[t] # Idle /\ task[t].entry \in Ids
        /\ file' = file
    BY <1>9 DEF ReadHistory, Typed, EntryInv, Recording, At, Running
  <2>2. PICK r : /\ Moves(t, r) /\ r.at = "cut" /\ r.entry = task[t].entry /\ r.gone = task[t].gone
                 /\ r.data = Recorded(task[t].entry, Entries)
    BY <1>9, ReadIs
  <2>3. ToSet(r.data) \subseteq {task[t].entry} \cup ToSet(Entries)
    BY <1>t, <2>1, <2>2, EntriesType, RecordedType
  <2>4. Kept(task[t].entry)
    BY <2>1 DEF Kept, Holds, Running
  <2>5. \A d \in ToSet(Entries) : Kept(d)
    BY DEF Kept
  <2> QED BY <1>3, <1>e, <2>1, <2>2, <2>3, <2>4, <2>5
<1>10. ASSUME NEW t \in Tasks, CutHistory(t) PROVE Kept(c)
  <2>1. /\ Recording(t) /\ Ready(t) /\ task[t] # Idle
        /\ file' = Torn
    BY <1>10 DEF CutHistory, Recording, Ready, At, Running
  <2>2. PICK r : /\ Moves(t, r) /\ r.at = "write" /\ r.entry = task[t].entry /\ r.gone = task[t].gone
                 /\ r.data = task[t].data
    BY <1>10, <1>t, CutIs
  <2>3. ToSet(Entries)' = {}
    BY <2>1 DEF Entries, ToSet
  <2>4. Kept(task[t].entry) /\ \A d \in ToSet(task[t].data) : Kept(d)
    BY <2>1 DEF Kept, Holds, Running
  <2> QED BY <1>3, <2>1, <2>2, <2>3, <2>4
<1>11. ASSUME NEW t \in Tasks, WriteHistory(t) PROVE Kept(c)
  <2>1. /\ Ready(t) /\ task[t] # Idle /\ task[t] \in Task
        /\ file' = task[t].data
    BY <1>11, <1>t, AtTask DEF WriteHistory, Ready, At, Running
  <2>2. PICK r : Moves(t, r) /\ (r # Idle => r.at = "next" /\ r.gone = task[t].gone)
    BY <1>11, <1>t, WriteIs
  <2>3. file' # Torn
    BY <2>1, HistoryAssumption DEF Task
  <2>4. ToSet(Entries)' = ToSet(task[t].data)
    BY <2>1, <2>3 DEF Entries
  <2>5. \A d \in ToSet(task[t].data) : Kept(d)
    BY <2>1 DEF Kept, Holds, Running
  <2> QED BY <1>3, <2>1, <2>2, <2>4, <2>5
<1>12. ASSUME NEW t \in Tasks, Close(t)
       PROVE  Kept(c) \/ (c = task[t].id /\ c \in task[t].list)
  <2>1. PICK r : /\ Moves(t, r)
                 /\ r # Idle => /\ task[t].id \in task[t].list /\ r.at = "read"
                                /\ r.entry = task[t].id /\ r.gone = task[t].gone
    BY <1>12, <1>t, CloseIs
  <2>2. file' = file /\ task[t] # Idle
    BY <1>12 DEF Close, At, Running
  <2>3. \A d \in task[t].gone : Kept(d)
    BY <2>2 DEF Kept, Holds, Running
  <2>4. c \in ToSet(Entries)' => Kept(c)
    BY <1>e, <2>2 DEF Kept
  <2>5. Kept(c) \/ c \in ToSet(Entries)' \/ (r # Idle /\ (c \in r.gone \/ c = r.entry))
    <3>1. r # Idle => r.at \notin {"cut", "write"}
      BY <2>1
    <3> QED BY <1>t, <2>1, <3>1, KeptMoves
  <2> QED BY <2>1, <2>3, <2>4, <2>5
<1>13. CASE Crash
  <2>1. file' = file /\ \A t \in Tasks : ~Holds(t, c)'
    BY <1>13 DEF Crash, Holds, Running
  <2> QED BY <1>e, <2>1 DEF Kept
<1>14. CASE UNCHANGED vars
  BY <1>1, <1>14 DEF vars
<1> QED
  BY <1>2, <1>4, <1>5, <1>6, <1>7, <1>8, <1>9, <1>10, <1>11, <1>12, <1>13, <1>14
  DEF Next, TaskStep

\* A list that a request holds was fetched while it ran.
LEMMA KnownStep == Typed /\ Known /\ [Next]_vars => Known'
<1> SUFFICES ASSUME Typed, Known, [Next]_vars PROVE Known'
  OBVIOUS
<1>t. TypeOK
  BY DEF Typed
\* What a task knew and what it has fetched.
<1>1. ASSUME NEW t \in Tasks, NEW r, Moves(t, r),
             r # Idle => r.list \subseteq open \/ (task[t] # Idle /\ r.list \subseteq task[t].list),
             NEW c \in fresh, NEW u \in Tasks, task'[u] # Idle
      PROVE  c \notin task'[u].list
  <2>1. CASE u = t
    BY <1>1, <2>1 DEF Moves, Known, Running
  <2>2. CASE u # t
    <3>1. PICK s : At(u, s)'
      BY <1>1 DEF At, Running
    <3>2. At(u, s) /\ task[u] # Idle
      BY <1>t, <1>1, <2>2, <3>1, OthersStay, AtTask
    <3>3. task'[u].list = task[u].list
      BY <1>t, <1>1, <2>2, <3>2, OthersStay
    <3> QED BY <3>2, <3>3 DEF Known, Running
  <2> QED BY <2>1, <2>2
<1>2. ASSUME NEW c \in fresh' PROVE c \in fresh /\ ~Kept(c)'
  <2>1. c \in fresh
    BY <1>2 DEF Next, TaskStep, Open, Ends, Request, Fetch, Compare, RecordNext, Insert,
                ReadHistory, CutHistory, WriteHistory, Close, Crash, vars
  <2>2. ASSUME Kept(c)' PROVE FALSE
    <3>1. ~Kept(c) /\ c \notin active /\ \A t \in Running : c \notin task[t].list
      BY <2>1 DEF Known
    <3>2. PICK t \in Tasks : Close(t) /\ c \in task[t].list
      BY <2>2, <3>1, KeptStep
    <3> QED BY <3>1, <3>2 DEF Close, At
  <2> QED BY <2>1, <2>2
<1>3. ASSUME NEW c \in fresh' PROVE c \notin open'
  BY <1>2, <1>3 DEF Known, Next, TaskStep, Open, Ends, Request, Fetch, Compare, RecordNext, Insert,
                ReadHistory, CutHistory, WriteHistory, Close, Crash, vars
<1>4. ASSUME NEW c \in fresh' PROVE c \notin active'
  <2>1. \A t \in Tasks : Insert(t) => c \notin task[t].list
    BY <1>2, <1>4 DEF Known, Insert, At
  <2>2. c \notin active
    BY <1>2, <1>4 DEF Known
  <2> QED BY <2>1, <2>2 DEF Next, TaskStep, Open, Ends, Request, Fetch, Compare, RecordNext, Insert,
                ReadHistory, CutHistory, WriteHistory, Close, Crash, vars, Remembered
<1>5. ASSUME NEW t \in Tasks, TaskStep(t)
      PROVE  \E r : Moves(t, r) /\ (r # Idle => r.list \subseteq open \/ (task[t] # Idle /\ r.list \subseteq task[t].list))
  <2>1. task[t] # Idle
    BY <1>5 DEF TaskStep, Fetch, Compare, RecordNext, Insert, ReadHistory, CutHistory, WriteHistory,
                Close, At, Running
  <2>2. CASE Fetch(t)
    BY <1>t, <2>1, <2>2, FetchIs
  <2>3. CASE Compare(t)
    BY <1>t, <2>1, <2>3, CompareIs
  <2>4. CASE RecordNext(t)
    <3>1. PICK r : Moves(t, r) /\ r.list = task[t].list
      BY <1>t, <2>4, NextIs
    <3> QED BY <2>1, <3>1
  <2>5. CASE Insert(t)
    BY <1>t, <2>1, <2>5, InsertIs
  <2>6. CASE ReadHistory(t)
    BY <2>1, <2>6, ReadIs
  <2>7. CASE CutHistory(t)
    BY <1>t, <2>1, <2>7, CutIs
  <2>8. CASE WriteHistory(t)
    BY <1>t, <2>1, <2>8, WriteIs
  <2>9. CASE Close(t)
    <3>1. PICK r : Moves(t, r) /\ (r # Idle => r.list = {})
      BY <1>t, <2>9, CloseIs
    <3> QED BY <2>1, <3>1
  <2> QED BY <1>5, <2>2, <2>3, <2>4, <2>5, <2>6, <2>7, <2>8, <2>9 DEF TaskStep
<1>6. ASSUME NEW c \in fresh', NEW u \in Tasks, task'[u] # Idle
      PROVE  c \notin task'[u].list
  <2>1. c \in fresh
    BY <1>2, <1>6
  <2>2. ASSUME UNCHANGED task PROVE c \notin task'[u].list
    BY <1>6, <2>1, <2>2 DEF Known, Running
  <2>3. ASSUME NEW t \in Tasks, NEW op \in {"poll", "close"}, NEW d \in Ids \cup {Idle}, Request(t, op, d)
        PROVE  c \notin task'[u].list
    <3>1. PICK r : Moves(t, r) /\ r.list = {}
      BY <1>t, <2>3, RequestIs
    <3> QED BY <1>1, <1>6, <2>1, <3>1
  <2>4. ASSUME NEW t \in Tasks, TaskStep(t) PROVE c \notin task'[u].list
    BY <1>1, <1>5, <1>6, <2>1, <2>4
  <2>5. CASE Crash
    BY <1>6, <2>5 DEF Crash
  <2>6. ASSUME NEW d \in Ids, Open(d) \/ Ends(d) PROVE UNCHANGED task
    BY <2>6 DEF Open, Ends
  <2> QED BY <2>2, <2>3, <2>4, <2>5, <2>6 DEF Next, vars
<1> QED BY <1>2, <1>3, <1>4, <1>6 DEF Known, Running

LEMMA HolderStep == Typed /\ Holder /\ [Next]_vars => Holder'
<1> SUFFICES ASSUME Typed, Holder, [Next]_vars PROVE Holder'
  OBVIOUS
<1>t. TypeOK
  BY DEF Typed
\* The lock stays where it is, and nobody starts to work under it.
<1>1. ASSUME NEW t \in Tasks, NEW r, Moves(t, r), lock' = lock,
             r # Idle /\ r.at \in {"next", "insert"} => lock = t
      PROVE  Holder'
  <2>1. At(t, "next")' \/ At(t, "insert")' => lock = t
    BY <1>1 DEF Moves, At, Running
  <2>2. \A u \in Tasks : u # t => /\ At(u, "next")' <=> At(u, "next")
                                  /\ At(u, "insert")' <=> At(u, "insert")
    BY <1>t, <1>1, OthersStay
  <2> QED BY <1>1, <2>1, <2>2 DEF Holder
<1>2. ASSUME NEW t \in Tasks, NEW op \in {"poll", "close"}, NEW d \in Ids \cup {Idle}, Request(t, op, d)
      PROVE  Holder'
  <2>1. lock' = lock
    BY <1>2 DEF Request
  <2> QED BY <1>t, <1>1, <1>2, <2>1, RequestIs
<1>3. ASSUME NEW t \in Tasks, Fetch(t) PROVE Holder'
  <2>1. lock' = lock
    BY <1>3 DEF Fetch
  <2>2. PICK r : Moves(t, r) /\ (r # Idle => r.at \in {"lock", "delete"})
    BY <1>t, <1>3, FetchIs
  <2> QED BY <1>1, <2>1, <2>2
<1>4. ASSUME NEW t \in Tasks, Compare(t) PROVE Holder'
  <2>1. lock = Free /\ lock' = t
    BY <1>4 DEF Compare, Guard
  <2>2. \A u \in Tasks : ~At(u, "next") /\ ~At(u, "insert")
    BY <2>1, HistoryAssumption DEF Holder
  <2>3. PICK r : Moves(t, r)
    BY <1>t, <1>4, CompareIs
  <2>4. \A u \in Tasks : u # t => ~At(u, "next")' /\ ~At(u, "insert")'
    BY <1>t, <2>2, <2>3, OthersStay
  <2> QED BY <2>1, <2>4 DEF Holder
<1>5. ASSUME NEW t \in Tasks, RecordNext(t) PROVE Holder'
  <2>1. lock' = lock /\ lock = t
    BY <1>5 DEF RecordNext, Holder
  <2> QED BY <1>t, <1>1, <1>5, <2>1, NextIs
<1>6. ASSUME NEW t \in Tasks, Insert(t) PROVE Holder'
  <2>1. lock = t
    BY <1>6 DEF Insert, Holder
  <2>2. \A u \in Tasks : u # t => ~At(u, "next") /\ ~At(u, "insert")
    BY <2>1 DEF Holder
  <2>3. PICK r : Moves(t, r) /\ (r # Idle => r.at = "delete")
    BY <1>t, <1>6, InsertIs
  <2>4. \A u \in Tasks : u # t => ~At(u, "next")' /\ ~At(u, "insert")'
    BY <1>t, <2>2, <2>3, OthersStay
  <2>5. ~At(t, "next")' /\ ~At(t, "insert")'
    BY <2>3 DEF Moves, At, Running
  <2> QED BY <2>4, <2>5 DEF Holder
<1>7. ASSUME NEW t \in Tasks, ReadHistory(t) PROVE Holder'
  <2>1. lock' = lock
    BY <1>7 DEF ReadHistory
  <2> QED BY <1>1, <1>7, <2>1, ReadIs
<1>8. ASSUME NEW t \in Tasks, CutHistory(t) PROVE Holder'
  <2>1. lock' = lock
    BY <1>8 DEF CutHistory
  <2> QED BY <1>t, <1>1, <1>8, <2>1, CutIs
<1>9. ASSUME NEW t \in Tasks, WriteHistory(t) PROVE Holder'
  <2>1. lock' = lock
    BY <1>9 DEF WriteHistory
  <2> DEFINE r == [task[t] EXCEPT !.at = "next", !.entry = Idle, !.data = <<>>, !.crossed = FALSE]
  <2>2. Moves(t, IF lock = t THEN r ELSE Idle)
    BY <1>9, <1>t DEF WriteHistory, Moves, TypeOK
  <2> HIDE DEF r
  <2> QED BY <1>1, <2>1, <2>2
<1>10. ASSUME NEW t \in Tasks, Close(t) PROVE Holder'
  <2>1. lock' = lock
    BY <1>10 DEF Close
  <2>2. PICK r : Moves(t, r) /\ (r # Idle => r.at = "read")
    BY <1>t, <1>10, CloseIs
  <2> QED BY <1>1, <2>1, <2>2
<1>11. CASE Crash
  BY <1>11 DEF Crash, Holder, At, Running
<1>12. ASSUME UNCHANGED <<lock, task>> PROVE Holder'
  BY <1>12 DEF Holder, At, Running
<1>13. ASSUME NEW d \in Ids, Open(d) \/ Ends(d) PROVE Holder'
  BY <1>12, <1>13 DEF Open, Ends
<1>14. CASE UNCHANGED vars
  BY <1>12, <1>14 DEF vars
<1> QED
  BY <1>2, <1>3, <1>4, <1>5, <1>6, <1>7, <1>8, <1>9, <1>10, <1>11, <1>13, <1>14
  DEF Next, TaskStep

LEMMA WaitingStep ==
  Typed /\ Typed' /\ Known /\ Holder /\ Waiting /\ [Next]_vars => Waiting'
<1> SUFFICES ASSUME Typed, Typed', Known, Holder, Waiting, [Next]_vars PROVE Waiting'
  OBVIOUS
<1>t. TypeOK /\ TypeOK'
  BY DEF Typed
\* The others wait as they did.
<1>1. ASSUME NEW t \in Tasks, NEW r, Moves(t, r), NEW u \in Tasks, u # t
      PROVE  /\ At(u, "lock")' <=> At(u, "lock")
             /\ u \in Running' => u \in Running /\ task'[u].list = task[u].list
             /\ At(u, "lock")' => /\ task'[u].older = task[u].older
                                  /\ ~task'[u].late => ~task[u].late
  <2>1. \A s : At(u, s)' <=> At(u, s)
    BY <1>t, <1>1, OthersStay
  <2>2. u \in Running' => u \in Running
    <3>1. SUFFICES ASSUME u \in Running' PROVE u \in Running
      OBVIOUS
    <3>2. PICK s : At(u, s)'
      BY <3>1 DEF At, Running
    <3> QED BY <2>1, <3>2 DEF At
  <2>3. At(u, "lock")' => u \in Running
    BY <2>1 DEF At
  <2> QED BY <1>t, <1>1, <2>1, <2>2, <2>3, OthersStay DEF Running
\* A task that does not wait moves, nothing is opened and nothing is put into
\* the memory, and the holder of the lock keeps its list.
<1>2. ASSUME NEW t \in Tasks, NEW r, Moves(t, r), r # Idle => r.at # "lock",
             r # Idle /\ lock = t => r.list = task[t].list,
             open' \subseteq open, active' \subseteq active, lock' = lock
      PROVE  Waiting'
  <2>1. ~At(t, "lock")' /\ (lock = t => t \in Running /\ task'[t].list = task[t].list)
    BY <1>2, <1>t, HistoryAssumption DEF Moves, At, Running, TypeOK
  <2>2. ASSUME NEW w \in Tasks, At(w, "lock")', ~task'[w].late
        PROVE  /\ w # t /\ At(w, "lock") /\ ~task[w].late
               /\ task'[w].list = task[w].list
    BY <1>1, <1>2, <2>1, <2>2 DEF At
  <2>3. ASSUME NEW w \in Tasks, At(w, "lock")', ~task'[w].late PROVE Listed(w)'
    BY <1>2, <2>2, <2>3 DEF Waiting, Listed
  <2>4. ASSUME NEW w \in Tasks, At(w, "lock")', ~task'[w].late,
               NEW u \in Tasks, Behind(w, u)'
        PROVE  lock' # u /\ (At(u, "lock")' => w \in task'[u].older)
    <3>1. CASE u = t
      <4>1. lock = t => Behind(w, t)
        BY <1>2, <2>1, <2>2, <2>4, <3>1 DEF Behind
      <4> QED BY <1>2, <2>1, <2>2, <2>4, <3>1, <4>1 DEF Waiting
    <3>2. CASE u # t
      <4>1. Behind(w, u)
        BY <1>1, <1>2, <2>2, <2>4, <3>2 DEF Behind
      <4> QED BY <1>1, <1>2, <2>2, <2>4, <3>2, <4>1 DEF Waiting
    <3> QED BY <3>1, <3>2
  <2> QED BY <2>3, <2>4 DEF Waiting
<1>3. ASSUME NEW t \in Tasks, NEW op \in {"poll", "close"}, NEW d \in Ids \cup {Idle}, Request(t, op, d)
      PROVE  Waiting'
  <2>1. PICK r : Moves(t, r) /\ task[t] = Idle /\ r.at = "fetch"
    BY <1>t, <1>3, RequestIs
  <2>2. lock # t
    BY <1>t, <2>1, HistoryAssumption DEF TypeOK
  <2>3. UNCHANGED <<open, active, lock>>
    BY <1>3 DEF Request
  <2> QED BY <1>2, <2>1, <2>2, <2>3
\* A task that has just fetched the list is behind nobody.
<1>4. ASSUME NEW t \in Tasks, Fetch(t) PROVE Waiting'
  <2>1. UNCHANGED <<open, active, lock>> /\ task[t].at = "fetch" /\ At(t, "fetch")
    BY <1>t, <1>4, FetchIs DEF Fetch
  <2>2. lock # t
    BY <1>t, <2>1, HistoryAssumption DEF TypeOK
  <2>3. CASE \E r : Moves(t, r) /\ (r # Idle => r.at = "delete")
    BY <1>2, <2>1, <2>2, <2>3
  <2>4. ASSUME NEW r, Moves(t, r), r.at = "lock", r.list = open, r.older = {u \in Running : At(u, "lock")}
        PROVE  Waiting'
    <3>1. task'[t] = r
      BY <2>4 DEF Moves
    <3>2. ASSUME NEW w \in Tasks, At(w, "lock")', ~task'[w].late PROVE Listed(w)'
      <4>1. CASE w = t
        BY <2>1, <2>4, <3>1, <4>1 DEF Listed
      <4>2. CASE w # t
        <5>1. At(w, "lock") /\ ~task[w].late /\ task'[w].list = task[w].list
          BY <1>1, <2>4, <3>2, <4>2 DEF At
        <5> QED BY <2>1, <5>1 DEF Waiting, Listed
      <4> QED BY <4>1, <4>2
    <3>3. ASSUME NEW w \in Tasks, At(w, "lock")', ~task'[w].late, NEW u \in Tasks, Behind(w, u)'
          PROVE  lock' # u /\ (At(u, "lock")' => w \in task'[u].older)
      <4>1. w # t
        BY <2>1, <2>4, <3>1, <3>3 DEF Behind
      <4>2. At(w, "lock") /\ ~task[w].late /\ task'[w].list = task[w].list
        BY <1>1, <2>4, <3>3, <4>1 DEF At
      <4>3. CASE u = t
        <5>1. w \in r.older
          BY <2>4, <4>2 DEF At
        <5> QED BY <2>1, <2>2, <3>1, <4>3, <5>1
      <4>4. CASE u # t
        <5>1. Behind(w, u)
          BY <1>1, <2>1, <2>4, <3>3, <4>2, <4>4 DEF Behind
        <5> QED BY <1>1, <2>1, <2>4, <3>3, <4>2, <4>4, <5>1 DEF Waiting
      <4> QED BY <4>3, <4>4
    <3> QED BY <3>2, <3>3 DEF Waiting
  <2> QED BY <1>t, <1>4, <2>3, <2>4, FetchIs
\* Whoever is behind the task that gets the lock has been overtaken.
<1>5. ASSUME NEW t \in Tasks, Compare(t) PROVE Waiting'
  <2>1. UNCHANGED <<open, active>> /\ lock' = t /\ At(t, "lock") /\ task[t] \in Task
    BY <1>t, <1>5, AtTask DEF Compare, Guard
  <2>2. PICK r : Moves(t, r) /\ r.at = "next" /\ r.list = task[t].list
    BY <1>t, <1>5, CompareIs
  <2>3. ASSUME NEW w \in Tasks, At(w, "lock")', ~task'[w].late
        PROVE  /\ w # t /\ At(w, "lock") /\ ~task[w].late
               /\ task'[w].list = task[w].list
               /\ w \notin task[t].older
    <3>1. w # t
      BY <2>2, <2>3 DEF Moves, At
    <3>2. At(w, "lock") /\ ~task[w].late /\ task'[w].list = task[w].list
      BY <1>1, <2>2, <2>3, <3>1 DEF At
    <3>3. task[w] \in Task
      BY <1>t, <3>2, AtTask
    <3>4. w \in task[t].older => task'[w] = [task[w] EXCEPT !.late = TRUE]
      BY <1>5, <3>1, <3>2 DEF Compare
    <3>5. w \notin task[t].older
      BY <2>3, <3>3, <3>4 DEF Task
    <3> QED BY <3>1, <3>2, <3>5
  <2>4. ASSUME NEW w \in Tasks, At(w, "lock")', ~task'[w].late PROVE Listed(w)'
    BY <2>1, <2>3, <2>4 DEF Waiting, Listed
  <2>5. ASSUME NEW w \in Tasks, At(w, "lock")', ~task'[w].late, NEW u \in Tasks, Behind(w, u)'
        PROVE  lock' # u /\ (At(u, "lock")' => w \in task'[u].older)
    <3>1. u # t
      <4>1. SUFFICES ASSUME u = t PROVE FALSE
        OBVIOUS
      <4>2. task'[t].list = task[t].list
        BY <2>2 DEF Moves
      <4>3. Behind(w, t)
        BY <2>1, <2>3, <2>5, <4>1, <4>2 DEF Behind, At
      <4> QED BY <2>1, <2>3, <2>5, <4>3 DEF Waiting
    <3>2. Behind(w, u)
      BY <1>1, <2>1, <2>2, <2>3, <2>5, <3>1 DEF Behind
    <3> QED BY <1>1, <2>1, <2>2, <2>3, <2>5, <3>1, <3>2 DEF Waiting
  <2> QED BY <2>4, <2>5 DEF Waiting
<1>6. ASSUME NEW t \in Tasks, RecordNext(t) PROVE Waiting'
  <2>1. UNCHANGED <<open, lock>> /\ active' \subseteq active
    BY <1>6 DEF RecordNext
  <2>2. PICK r : Moves(t, r) /\ r.at \in {"read", "insert"} /\ r.list = task[t].list
    BY <1>t, <1>6, NextIs
  <2> QED BY <1>2, <2>1, <2>2
\* Nobody who waits and has not been overtaken is behind the holder.
<1>7. ASSUME NEW t \in Tasks, Insert(t) PROVE Waiting'
  <2>1. /\ open' = open /\ active' = active \cup task[t].list /\ lock' = Free
        /\ lock = t /\ t \in Running
    BY <1>7 DEF Insert, Remembered, Holder, At
  <2>2. PICK r : Moves(t, r) /\ (r # Idle => r.at = "delete")
    BY <1>t, <1>7, InsertIs
  <2>3. ASSUME NEW w \in Tasks, At(w, "lock")', ~task'[w].late
        PROVE  /\ w # t /\ At(w, "lock") /\ ~task[w].late
               /\ task'[w].list = task[w].list
    <3>1. w # t
      BY <2>2, <2>3 DEF Moves, At, Running
    <3> QED BY <1>1, <2>2, <2>3, <3>1 DEF At
  <2>4. ASSUME NEW w \in Tasks, At(w, "lock")', ~task'[w].late PROVE Listed(w)'
    <3>1. ~Behind(w, t)
      BY <2>1, <2>3, <2>4 DEF Waiting
    <3>2. Listed(w)
      BY <2>3, <2>4 DEF Waiting
    <3> QED BY <2>1, <2>3, <2>4, <3>1, <3>2 DEF Behind, Listed
  <2>5. ASSUME NEW w \in Tasks, At(w, "lock")', ~task'[w].late, NEW u \in Tasks, Behind(w, u)'
        PROVE  lock' # u /\ (At(u, "lock")' => w \in task'[u].older)
    <3>1. lock' # u
      BY <2>1, HistoryAssumption
    <3>2. ~At(t, "lock")'
      BY <2>2 DEF Moves, At, Running
    <3>3. CASE u # t
      <4>1. Behind(w, u)
        BY <1>1, <2>1, <2>2, <2>3, <2>5, <3>3 DEF Behind
      <4> QED BY <1>1, <2>2, <2>3, <2>5, <3>1, <3>3, <4>1 DEF Waiting
    <3> QED BY <3>1, <3>2, <3>3
  <2> QED BY <2>4, <2>5 DEF Waiting
<1>8. ASSUME NEW t \in Tasks, ReadHistory(t) PROVE Waiting'
  <2>1. UNCHANGED <<open, active, lock>>
    BY <1>8 DEF ReadHistory
  <2>2. PICK r : Moves(t, r) /\ r.at = "cut" /\ r.list = task[t].list
    BY <1>8, ReadIs
  <2> QED BY <1>2, <2>1, <2>2
<1>9. ASSUME NEW t \in Tasks, CutHistory(t) PROVE Waiting'
  <2>1. UNCHANGED <<open, active, lock>>
    BY <1>9 DEF CutHistory
  <2>2. PICK r : Moves(t, r) /\ r.at = "write" /\ r.list = task[t].list
    BY <1>t, <1>9, CutIs
  <2> QED BY <1>2, <2>1, <2>2
<1>10. ASSUME NEW t \in Tasks, WriteHistory(t) PROVE Waiting'
  <2>1. UNCHANGED <<open, active, lock>>
    BY <1>10 DEF WriteHistory
  <2>2. PICK r : Moves(t, r) /\ (r # Idle => r.at = "next" /\ r.list = task[t].list)
    BY <1>t, <1>10, WriteIs
  <2> QED BY <1>2, <2>1, <2>2
<1>11. ASSUME NEW t \in Tasks, Close(t) PROVE Waiting'
  <2>1. UNCHANGED <<active, lock>> /\ open' \subseteq open
    BY <1>11 DEF Close
  <2>2. task[t].at = "delete"
    BY <1>11 DEF Close, At
  <2>3. lock # t
    BY <1>t, <2>2, HistoryAssumption DEF TypeOK
  <2>4. PICK r : Moves(t, r) /\ (r # Idle => r.at = "read")
    BY <1>t, <1>11, CloseIs
  <2> QED BY <1>2, <2>1, <2>3, <2>4
<1>12. CASE Crash
  BY <1>12 DEF Crash, Waiting, At, Running
\* A connection that is opened was known to nobody.
<1>13. ASSUME NEW d \in Ids, Open(d) PROVE Waiting'
  <2>1. /\ UNCHANGED <<active, lock, task>> /\ open' = open \cup {d}
        /\ d \notin active /\ \A u \in Running : d \notin task[u].list
    BY <1>13 DEF Open, Known
  <2>2. \A w \in Tasks : Listed(w) => Listed(w)'
    BY <2>1 DEF Listed
  <2>3. \A w, u \in Tasks : Behind(w, u)' => Behind(w, u)
    BY <2>1 DEF Behind, Running
  <2>4. \A w \in Tasks : At(w, "lock")' <=> At(w, "lock")
    BY <2>1 DEF At, Running
  <2> QED BY <2>1, <2>2, <2>3, <2>4 DEF Waiting
<1>14. ASSUME UNCHANGED <<active, lock, task>>, open' \subseteq open PROVE Waiting'
  <2>1. \A w \in Tasks : Listed(w) => Listed(w)'
    BY <1>14 DEF Listed
  <2>2. \A w, u \in Tasks : Behind(w, u)' => Behind(w, u)
    BY <1>14 DEF Behind, Running
  <2>3. \A w \in Tasks : At(w, "lock")' <=> At(w, "lock")
    BY <1>14 DEF At, Running
  <2> QED BY <1>14, <2>1, <2>2, <2>3 DEF Waiting
<1>15. ASSUME NEW d \in Ids, Ends(d) PROVE Waiting'
  BY <1>14, <1>15 DEF Ends
<1>16. CASE UNCHANGED vars
  BY <1>14, <1>16 DEF vars
<1> QED
  BY <1>3, <1>4, <1>5, <1>6, <1>7, <1>8, <1>9, <1>10, <1>11, <1>12, <1>13, <1>15, <1>16
  DEF Next, TaskStep

\* What the comparison finds gone has ended, unless it was overtaken; what is
\* closed has ended, unless the close failed.
LEMMA OpenNotKeptStep ==
  Typed /\ Known /\ Waiting /\ OpenNotKept /\ [Next]_vars => OpenNotKept'
<1> SUFFICES ASSUME Typed, Known, Waiting, OpenNotKept, [Next]_vars,
                    ordered', obeyed', NEW c \in open', Kept(c)'
             PROVE  FALSE
  BY DEF OpenNotKept
<1>1. ordered /\ obeyed
  BY DEF Next, TaskStep, Open, Ends, Request, Fetch, Compare, RecordNext, Insert,
         ReadHistory, CutHistory, WriteHistory, Close, Crash, vars, ghosts
<1>2. CASE c \notin open
  <2>1. Open(c)
    BY <1>2 DEF Next, TaskStep, Open, Ends, Request, Fetch, Compare, RecordNext, Insert,
                ReadHistory, CutHistory, WriteHistory, Close, Crash, vars, ghosts
  <2>2. ~Kept(c)
    BY <2>1 DEF Open, Known
  <2>3. Kept(c)
    BY <2>1 DEF Open, Kept, Entries, Holds, Recording, Ready, At, Running
  <2> QED BY <2>2, <2>3
<1>3. CASE c \in open
  <2>1. ~Kept(c)
    BY <1>1, <1>3 DEF OpenNotKept
  <2>2. ASSUME NEW t \in Tasks, Compare(t), c \in active, c \notin task[t].list PROVE FALSE
    <3>1. At(t, "lock") /\ ~task[t].late
      BY <2>2 DEF Compare
    <3> QED BY <1>3, <2>2, <3>1 DEF Waiting, Listed
  <2>3. ASSUME NEW t \in Tasks, Close(t), c = task[t].id, c \in task[t].list PROVE FALSE
    BY <1>3, <2>3 DEF Close
  <2> QED BY <2>1, <2>2, <2>3, KeptStep
<1> QED BY <1>2, <1>3

-----------------------------------------------------------------------------
IInv == Typed /\ Accounted /\ LogInv /\ Known /\ Holder /\ Waiting /\ OpenNotKept

LEMMA InitInv == Init => IInv
<1> SUFFICES ASSUME Init PROVE IInv
  OBVIOUS
<1>1. Typed
  BY InitTyped
<1>2. Accounted
  BY DEF Init, Accounted
<1>3. Trimmed(<<>>) = <<>>
  BY HistoryAssumption DEF Trimmed
<1>4. \A t \in Tasks : ~Ready(t)
  BY DEF Init, Ready, At, Running
<1>5. LogInv
  BY <1>3, <1>4 DEF Init, LogInv
<1>6. \A c : ~Kept(c)
  <2>1. ToSet(Entries) = {}
    BY HistoryAssumption DEF Init, Entries, ToSet
  <2> QED BY <2>1 DEF Init, Kept, Holds, Running
<1>7. Known /\ OpenNotKept
  BY <1>6 DEF Init, Known, OpenNotKept, Running
<1>8. Holder /\ Waiting
  BY DEF Init, Holder, Waiting, At, Running
<1> QED BY <1>1, <1>2, <1>5, <1>7, <1>8 DEF IInv

\* What the theorems below rest on holds in every reachable state.
THEOREM HistoryInvariance == Spec => []IInv
<1>1. IInv /\ [Next]_vars => IInv'
  BY TypedStep, AccountedStep, LogStep, KnownStep, HolderStep, WaitingStep, OpenNotKeptStep DEF IInv
<1> QED BY InitInv, <1>1, PTL DEF Spec

\* Every variable keeps its type and the file never holds more entries than
\* MaxCount; whoever holds the lock is at one of the steps that need it.
THEOREM HistoryTypeCorrect == Spec => []TypeOK
<1>1. IInv => TypeOK
  BY DEF IInv, Typed
<1> QED BY HistoryInvariance, <1>1, PTL

\* While no two recordings overlap, connection_history.yaml is what an atomic
\* log would hold, whatever the requests, threads, connections and crashes.
THEOREM NewestKeptAlways == Spec => []NewestKept
<1>1. IInv => NewestKept
  <2> SUFFICES ASSUME IInv, apart, Quiet PROVE Entries = Trimmed(log)
    BY DEF NewestKept
  <2>1. Trimmed(<<>>) = <<>>
    BY HistoryAssumption DEF Trimmed
  <2> QED BY <2>1 DEF IInv, LogInv, Entries
<1> QED BY HistoryInvariance, <1>1, PTL

\* Between requests, every connection listed since the daemon started is
\* remembered or was recorded, in whatever order the lists were compared.
THEOREM NoneForgottenAlways == Spec => []NoneForgotten
<1>1. IInv => NoneForgotten
  BY DEF IInv, Accounted, NoneForgotten, Recording, At
<1> QED BY HistoryInvariance, <1>1, PTL

\* The history holds no connection that is still open, unless a list was
\* compared after one that was fetched later or a close that failed was
\* recorded: the lock and the order of the comparison are enough.
THEOREM OnlyClosedAlways == Spec => []OnlyClosed
<1>1. IInv => OnlyClosed
  BY DEF IInv, OpenNotKept, OnlyClosed, Kept
<1> QED BY HistoryInvariance, <1>1, PTL

-----------------------------------------------------------------------------
(***************************************************************************)
(* OnceEach.  What is going to be recorded counts as much as what was      *)
(* recorded.  The records by hand are counted by closes; the one found     *)
(* gone is allowed from when nothing can bring the connection back into    *)
(* the memory.                                                             *)
(***************************************************************************)
\* What a task is going to record.
Claims(t, c) ==
  /\ t \in Running
  /\ \/ c \in task[t].gone
     \/ Recording(t) /\ task[t].entry = c

Pending(c) == {t \in Tasks : Claims(t, c)}

\* What was found gone is recorded by the holder of the lock, each once.
GoneInv ==
  \A t \in Running :
    /\ task[t].gone # {} => lock = t /\ ~At(t, "insert")
    /\ Recording(t) => task[t].entry \notin task[t].gone

\* c had ended when w fetched its list, and every list that has it and waits
\* was fetched before.
Ended(w, c) ==
  /\ c \notin open /\ c \notin fresh
  /\ \A v \in Tasks : At(v, "lock") /\ c \in task[v].list => v \in task[w].older

\* Of two that wait, the one that fetched last lacks only what has ended.
Pairs ==
  \A t, w \in Tasks :
    t # w /\ At(t, "lock") /\ At(w, "lock") /\ w \notin task[t].older =>
      \A c \in task[t].list \ task[w].list : Ended(w, c)

\* What the memory has, or gets when the lock is given back.
Seen == active \cup (IF lock = Free THEN {} ELSE task[lock].list)

\* So does one that waits and was not overtaken, of what the daemon has seen.
Missing ==
  \A w \in Tasks : At(w, "lock") /\ ~task[w].late =>
    \A c \in Seen \ task[w].list : Ended(w, c)

\* Nothing that can still be compared in order brings c back.
Over(c) ==
  /\ c \notin fresh /\ c \notin open
  /\ \A w \in Tasks : At(w, "lock") /\ ~task[w].late => c \notin task[w].list
  /\ lock # Free => c \notin task[lock].list
  /\ c \in active => lock # Free /\ c \in task[lock].gone

Places(s, c) == {i \in DOMAIN s : s[i] = c}

Allowed(c) == closes[c] + (IF Over(c) THEN 1 ELSE 0)

CountInv ==
  \A c \in Ids :
    /\ IsFiniteSet(Pending(c))
    /\ ordered => Cardinality(Places(log, c)) + Cardinality(Pending(c)) <= Allowed(c)

-----------------------------------------------------------------------------
\* One more record at the front.
LEMMA PlacesCons ==
  ASSUME NEW e \in Ids, NEW s \in Seq(Ids), NEW c \in Ids
  PROVE  Cardinality(Places(<<e>> \o s, c)) = Cardinality(Places(s, c)) + (IF e = c THEN 1 ELSE 0)
<1> DEFINE l == <<e>> \o s
           P == Places(s, c)
           Q == {i + 1 : i \in P}
           f == [i \in P |-> i + 1]
<1>1. /\ l \in Seq(Ids) /\ Len(l) = Len(s) + 1 /\ l[1] = e
      /\ \A i \in 1..Len(s) : l[i + 1] = s[i]
  OBVIOUS
<1>2. DOMAIN l = 1..(Len(s) + 1) /\ DOMAIN s = 1..Len(s) /\ Len(s) \in Nat
  BY <1>1
<1>3. P \subseteq 1..Len(s)
  BY <1>2 DEF Places
<1>4. IsFiniteSet(P)
  <2>1. IsFiniteSet(1..Len(s))
    BY <1>2, FS_Interval
  <2> HIDE DEF P
  <2> QED BY <1>3, <2>1, FS_Subset
<1>5. f \in Bijection(P, Q)
  <2>1. f \in [P -> Q] /\ \A q \in Q : \E i \in P : f[i] = q
    OBVIOUS
  <2>2. \A i, j \in P : f[i] = f[j] => i = j
    BY <1>2, <1>3
  <2> QED BY <2>1, <2>2, Fun_IsBij
<1>6. IsFiniteSet(Q) /\ Cardinality(Q) = Cardinality(P)
  <2> HIDE DEF P, Q, f
  <2>1. ExistsBijection(P, Q)
    BY <1>5 DEF ExistsBijection
  <2> QED BY <1>4, <2>1, FS_Bijection
<1>7. 1 \notin Q
  BY <1>2, <1>3
<1>8. Places(l, c) = IF e = c THEN Q \cup {1} ELSE Q
  <2> HIDE DEF l
  <2>1. ASSUME NEW i \in Places(l, c) PROVE i \in Q \/ (i = 1 /\ e = c)
    <3>1. i \in 1..(Len(s) + 1) /\ l[i] = c
      BY <1>2 DEF Places
    <3>2. CASE i # 1
      <4>1. i - 1 \in 1..Len(s) /\ i = (i - 1) + 1
        BY <1>2, <3>1, <3>2
      <4>2. i - 1 \in P
        BY <1>1, <1>2, <3>1, <4>1 DEF Places
      <4> QED BY <4>1, <4>2
    <3> QED BY <1>1, <3>1, <3>2
  <2>2. ASSUME NEW i \in P PROVE i + 1 \in Places(l, c)
    BY <1>1, <1>2, <1>3, <2>2 DEF Places
  <2>3. e = c => 1 \in Places(l, c)
    BY <1>1, <1>2 DEF Places
  <2> QED BY <2>1, <2>2, <2>3
<1> HIDE DEF l, P, Q
<1>9. Cardinality(P) \in Nat
  BY <1>4, FS_CardinalityType
<1>10. CASE e = c
  <2>1. Cardinality(Q \cup {1}) = Cardinality(Q) + 1
    BY <1>6, <1>7, FS_AddElement
  <2> QED BY <1>6, <1>8, <1>10, <2>1 DEF l, P
<1>11. CASE e # c
  BY <1>6, <1>8, <1>9, <1>11 DEF l, P
<1> QED BY <1>10, <1>11

\* A log has finitely many places.
LEMMA PlacesFinite ==
  ASSUME NEW s \in Seq(Ids), NEW c
  PROVE  Cardinality(Places(s, c)) \in Nat
<1>1. DOMAIN s = 1..Len(s) /\ Len(s) \in Nat
  OBVIOUS
<1>2. Places(s, c) \subseteq 1..Len(s)
  BY <1>1 DEF Places
<1>3. IsFiniteSet(1..Len(s))
  BY <1>1, FS_Interval
<1>4. IsFiniteSet(Places(s, c))
  BY <1>2, <1>3, FS_Subset
<1> QED BY <1>4, FS_CardinalityType

-----------------------------------------------------------------------------
\* Who waits for the lock after a step waited before, with the same list, or has
\* just fetched it.
Stays(w) ==
  /\ At(w, "lock")
  /\ task'[w].list = task[w].list /\ task'[w].older = task[w].older
  /\ task[w].late => task'[w].late

Joins(w) ==
  /\ ~At(w, "lock")
  /\ UNCHANGED <<open, fresh, active, lock>> /\ lock # w
  /\ task'[w].list = open
  /\ task'[w].older = {u \in Running : At(u, "lock")}
  /\ \A u \in Tasks : u # w /\ At(u, "lock")' => Stays(u)

\* Only Fetch brings a task to the lock, and one task at a time.
LEMMA WaitStep ==
  ASSUME TypeOK, TypeOK', Typed, [Next]_vars, NEW w \in Tasks, At(w, "lock")'
  PROVE  Stays(w) \/ Joins(w)
<1>1. ASSUME NEW t \in Tasks, NEW r, Moves(t, r), NEW u \in Tasks, u # t, At(u, "lock")'
      PROVE  Stays(u)
  BY <1>1, OthersStay, AtTask DEF Stays
<1>2. ASSUME NEW t \in Tasks, NEW r, Moves(t, r), r # Idle => r.at # "lock"
      PROVE  Stays(w)
  <2>1. w # t
    BY <1>2 DEF Moves, At, Running
  <2> QED BY <1>1, <1>2, <2>1
<1>3. ASSUME task' = task PROVE Stays(w)
  BY <1>3 DEF Stays, At, Running
<1>4. ASSUME NEW d \in Ids, Open(d) \/ Ends(d) PROVE Stays(w)
  BY <1>3, <1>4 DEF Open, Ends
<1>5. ASSUME NEW t \in Tasks, NEW op, NEW d, Request(t, op, d) PROVE Stays(w)
  BY <1>2, <1>5, RequestIs
<1>6. ASSUME NEW t \in Tasks, Fetch(t) PROVE Stays(w) \/ Joins(w)
  <2>1. /\ task[t].at = "fetch" /\ At(t, "fetch")
        /\ UNCHANGED <<open, fresh, active, lock>>
    BY <1>6, FetchIs DEF Fetch
  <2>2. lock # t
    BY <2>1, HistoryAssumption DEF TypeOK
  <2>3. ASSUME NEW r, Moves(t, r), r.at = "lock", r.list = open,
               r.older = {u \in Running : At(u, "lock")}, w = t
        PROVE  Joins(w)
    <3>1. task'[w] = r
      BY <2>3 DEF Moves
    <3>2. \A u \in Tasks : u # w /\ At(u, "lock")' => Stays(u)
      BY <1>1, <2>3
    <3>3. ~At(w, "lock")
      BY <2>1, <2>3 DEF At
    <3> QED BY <2>1, <2>2, <2>3, <3>1, <3>2, <3>3 DEF Joins
  <2>4. CASE w # t
    BY <1>1, <1>6, <2>4, FetchIs
  <2>5. CASE w = t
    BY <1>2, <1>6, <2>3, <2>5, FetchIs
  <2> QED BY <2>4, <2>5
<1>7. ASSUME NEW t \in Tasks, Compare(t) PROVE Stays(w)
  BY <1>2, <1>7, CompareIs
<1>8. ASSUME NEW t \in Tasks, RecordNext(t) PROVE Stays(w)
  BY <1>2, <1>8, NextIs
<1>9. ASSUME NEW t \in Tasks, Insert(t) PROVE Stays(w)
  BY <1>2, <1>9, InsertIs
<1>10. ASSUME NEW t \in Tasks, ReadHistory(t) PROVE Stays(w)
  BY <1>2, <1>10, ReadIs
<1>11. ASSUME NEW t \in Tasks, CutHistory(t) PROVE Stays(w)
  BY <1>2, <1>11, CutIs
<1>12. ASSUME NEW t \in Tasks, WriteHistory(t) PROVE Stays(w)
  BY <1>2, <1>12, WriteIs
<1>13. ASSUME NEW t \in Tasks, Close(t) PROVE Stays(w)
  BY <1>2, <1>13, CloseIs
<1>14. ASSUME Crash PROVE Stays(w)
  BY <1>14 DEF Crash, At, Running
<1>15. CASE UNCHANGED vars
  BY <1>3, <1>15 DEF vars
<1> QED
  BY <1>4, <1>5, <1>6, <1>7, <1>8, <1>9, <1>10, <1>11, <1>12, <1>13, <1>14, <1>15
  DEF Next, TaskStep

\* What has not been opened was not open, and what opens is new.
LEMMA OpenStep ==
  ASSUME [Next]_vars
  PROVE  fresh' \subseteq fresh /\ open' \subseteq open \cup fresh
BY DEF Next, TaskStep, Open, Ends, Request, Fetch, Compare, RecordNext, Insert,
       ReadHistory, CutHistory, WriteHistory, Close, Crash, vars

\* The lock and the memory change together.
KeepsLock ==
  /\ lock' = lock
  /\ lock # Free => task'[lock].list = task[lock].list
  /\ \/ active' = active /\ (lock # Free => task'[lock].gone = task[lock].gone)
     \/ \E c : /\ active' = active \ {c}
               /\ lock # Free /\ task'[lock].gone = task[lock].gone \ {c}

TakesLock(t) ==
  /\ Compare(t) /\ At(t, "lock")
  /\ lock = Free /\ lock' = t /\ active' = active
  /\ task'[t].list = task[t].list /\ task'[t].gone = active \ task[t].list
  /\ ordered' => ~task[t].late

GivesLock(t) ==
  /\ At(t, "insert")
  /\ lock = t /\ lock' = Free /\ active' = active \cup task[t].list

\* Every step keeps the lock, takes it, gives it back or ends the daemon.
LEMMA LockStep ==
  ASSUME Typed, Typed', Holder, [Next]_vars
  PROVE  KeepsLock \/ Crash \/ \E t \in Tasks : TakesLock(t) \/ GivesLock(t)
<1>t. TypeOK /\ TypeOK' /\ Free \notin Tasks
  BY HistoryAssumption DEF Typed
\* A step of another than the holder, or one that keeps what the holder has.
<1>1. ASSUME NEW t \in Tasks, NEW r, Moves(t, r), lock' = lock, active' = active,
             lock = t => r.list = task[t].list /\ r.gone = task[t].gone
      PROVE  KeepsLock
  <2>1. lock # Free => lock \in Tasks /\ task[lock] # Idle
    BY <1>t DEF TypeOK
  <2>2. lock # Free /\ lock # t => task'[lock].list = task[lock].list /\ task'[lock].gone = task[lock].gone
    BY <1>t, <1>1, <2>1, OthersStay
  <2>3. lock = t => task'[lock].list = task[lock].list /\ task'[lock].gone = task[lock].gone
    BY <1>1 DEF Moves
  <2> QED BY <1>1, <2>2, <2>3 DEF KeepsLock
<1>2. ASSUME UNCHANGED <<lock, active, task>> PROVE KeepsLock
  BY <1>2 DEF KeepsLock
<1>3. ASSUME NEW d \in Ids, Open(d) \/ Ends(d) PROVE KeepsLock
  BY <1>2, <1>3 DEF Open, Ends
<1>4. ASSUME NEW t \in Tasks, NEW op, NEW d, Request(t, op, d) PROVE KeepsLock
  <2>1. PICK r : Moves(t, r) /\ task[t] = Idle
    BY <1>4, <1>t, RequestIs
  <2>2. lock # t
    BY <1>t, <2>1 DEF TypeOK
  <2>3. UNCHANGED <<lock, active>>
    BY <1>4 DEF Request
  <2> QED BY <1>1, <2>1, <2>2, <2>3
<1>5. ASSUME NEW t \in Tasks, Fetch(t) PROVE KeepsLock
  <2>1. task[t].at = "fetch" /\ UNCHANGED <<lock, active>>
    BY <1>5, <1>t, FetchIs DEF Fetch
  <2>2. lock # t
    BY <1>t, <2>1 DEF TypeOK
  <2> QED BY <1>1, <1>5, <1>t, <2>1, <2>2, FetchIs
<1>6. ASSUME NEW t \in Tasks, Compare(t) PROVE TakesLock(t)
  <2>1. PICK r : Moves(t, r) /\ r.gone = active \ task[t].list /\ r.list = task[t].list
    BY <1>6, <1>t, CompareIs
  <2>2. /\ At(t, "lock") /\ lock = Free /\ lock' = t /\ active' = active
        /\ ordered' => ~task[t].late
    BY <1>6 DEF Compare, Guard
  <2> QED BY <1>6, <2>1, <2>2 DEF TakesLock, Moves
<1>7. ASSUME NEW t \in Tasks, RecordNext(t) PROVE KeepsLock
  <2>1. lock = t /\ lock' = lock
    BY <1>7 DEF RecordNext, Holder
  <2>2. ASSUME NEW c, NEW r, Moves(t, r), active' = active \ {c},
               r.gone = task[t].gone \ {c}, r.list = task[t].list
        PROVE  KeepsLock
    BY <1>t, <2>1, <2>2 DEF KeepsLock, Moves
  <2>3. ASSUME NEW r, Moves(t, r), active' = active,
               r.gone = task[t].gone, r.list = task[t].list
        PROVE  KeepsLock
    BY <1>1, <2>1, <2>3
  <2> QED BY <1>7, <1>t, <2>2, <2>3, NextIs
<1>8. ASSUME NEW t \in Tasks, Insert(t) PROVE GivesLock(t)
  BY <1>8 DEF Insert, Holder, GivesLock, Remembered
<1>9. ASSUME NEW t \in Tasks, ReadHistory(t) PROVE KeepsLock
  <2>1. UNCHANGED <<lock, active>>
    BY <1>9 DEF ReadHistory
  <2> QED BY <1>1, <1>9, <2>1, ReadIs
<1>10. ASSUME NEW t \in Tasks, CutHistory(t) PROVE KeepsLock
  <2>1. UNCHANGED <<lock, active>>
    BY <1>10 DEF CutHistory
  <2> QED BY <1>1, <1>10, <1>t, <2>1, CutIs
<1>11. ASSUME NEW t \in Tasks, WriteHistory(t) PROVE KeepsLock
  <2>1. UNCHANGED <<lock, active>>
    BY <1>11 DEF WriteHistory
  <2>2. PICK r : /\ Moves(t, r)
                 /\ \/ r.list = task[t].list /\ r.gone = task[t].gone
                    \/ r = Idle
    BY <1>11, <1>t, WriteIs
  <2>3. lock = t => r # Idle
    BY <1>t, <2>1, <2>2 DEF Moves, TypeOK
  <2> QED BY <1>1, <2>1, <2>2, <2>3
<1>12. ASSUME NEW t \in Tasks, Close(t) PROVE KeepsLock
  <2>1. task[t].at = "delete" /\ UNCHANGED <<lock, active>>
    BY <1>12, <1>t, CloseIs DEF Close
  <2>2. lock # t
    BY <1>t, <2>1 DEF TypeOK
  <2> QED BY <1>1, <1>12, <1>t, <2>1, <2>2, CloseIs
<1>13. CASE UNCHANGED vars
  BY <1>2, <1>13 DEF vars
<1> QED
  BY <1>3, <1>4, <1>5, <1>6, <1>7, <1>8, <1>9, <1>10, <1>11, <1>12, <1>13
  DEF Next, TaskStep

-----------------------------------------------------------------------------
\* What was found gone stays with the holder of the lock.
LEMMA GoneStep == Typed /\ Typed' /\ Holder /\ GoneInv /\ [Next]_vars => GoneInv'
<1> SUFFICES ASSUME Typed, Typed', Holder, GoneInv, [Next]_vars PROVE GoneInv'
  OBVIOUS
<1>t. TypeOK /\ TypeOK' /\ Free \notin Tasks
  BY HistoryAssumption DEF Typed
\* The others stay as they are while the lock is not given away.
<1>1. ASSUME NEW t \in Tasks, NEW r, Moves(t, r), NEW u \in Tasks, u # t, u \in Running',
             lock' = lock \/ lock \in {Free, t}
      PROVE  /\ task'[u].gone # {} => lock' = u /\ ~At(u, "insert")'
             /\ Recording(u)' => task'[u].entry \notin task'[u].gone
  <2>1. PICK s : At(u, s)'
    BY <1>1 DEF At, Running
  <2>2. u \in Running
    BY <1>t, <1>1, <2>1, OthersStay DEF At
  <2>3. /\ At(u, "insert")' <=> At(u, "insert")
        /\ Recording(u)' <=> Recording(u)
        /\ task'[u].gone = task[u].gone /\ task'[u].entry = task[u].entry
    BY <1>t, <1>1, <2>2, OthersStay DEF Running
  <2> QED BY <1>t, <1>1, <2>2, <2>3 DEF GoneInv
\* A task that has nothing to record, or that goes on with what it has.
<1>2. ASSUME NEW t \in Tasks, NEW r, Moves(t, r), lock' = lock \/ lock \in {Free, t},
             r # Idle => \/ r.gone = {}
                         \/ /\ lock' = t /\ r.at # "insert"
                            /\ r.at \in {"read", "cut", "write"} => r.entry \notin r.gone
      PROVE  GoneInv'
  <2>1. ASSUME t \in Running'
        PROVE  /\ task'[t].gone # {} => lock' = t /\ ~At(t, "insert")'
               /\ Recording(t)' => task'[t].entry \notin task'[t].gone
    <3>1. task'[t] = r /\ r # Idle
      BY <1>2, <2>1 DEF Moves, Running
    <3> QED BY <1>2, <3>1 DEF Recording, At
  <2> QED BY <1>1, <1>2, <2>1 DEF GoneInv, Running
<1>3. ASSUME UNCHANGED <<lock, task>> PROVE GoneInv'
  BY <1>3 DEF GoneInv, Recording, At, Running
<1>4. ASSUME NEW d \in Ids, Open(d) \/ Ends(d) PROVE GoneInv'
  BY <1>3, <1>4 DEF Open, Ends
<1>5. ASSUME NEW t \in Tasks, NEW op, NEW d, Request(t, op, d) PROVE GoneInv'
  <2>1. lock' = lock
    BY <1>5 DEF Request
  <2> QED BY <1>2, <1>5, <1>t, <2>1, RequestIs
\* Who does not hold the lock has nothing to record.
<1>6. ASSUME NEW t \in Tasks, t \in Running, lock # t PROVE task[t].gone = {}
  BY <1>6 DEF GoneInv
<1>7. ASSUME NEW t \in Tasks, Fetch(t) PROVE GoneInv'
  <2>1. task[t].at = "fetch" /\ At(t, "fetch") /\ lock' = lock
    BY <1>7, <1>t, FetchIs DEF Fetch
  <2>2. task[t].gone = {}
    BY <1>6, <1>t, <2>1 DEF At, TypeOK
  <2> QED BY <1>2, <1>7, <1>t, <2>1, <2>2, FetchIs
<1>8. ASSUME NEW t \in Tasks, Compare(t) PROVE GoneInv'
  <2>1. lock = Free /\ lock' = t
    BY <1>8 DEF Compare, Guard
  <2> QED BY <1>2, <1>8, <1>t, <2>1, CompareIs
<1>9. ASSUME NEW t \in Tasks, RecordNext(t) PROVE GoneInv'
  <2>1. lock = t /\ lock' = lock
    BY <1>9 DEF RecordNext, Holder
  <2> QED BY <1>2, <1>9, <1>t, <2>1, NextIs
<1>10. ASSUME NEW t \in Tasks, Insert(t) PROVE GoneInv'
  <2>1. lock = t /\ At(t, "insert") /\ t \in Running
    BY <1>10 DEF Insert, Holder, At
  <2>2. task[t].gone = {}
    BY <2>1 DEF GoneInv
  <2> QED BY <1>2, <1>10, <1>t, <2>1, <2>2, InsertIs
\* What a task has to record goes with it.
<1>11. ASSUME NEW t \in Tasks, t \in Running, NEW r, Moves(t, r), lock' = lock,
              r # Idle => /\ r.at # "insert" /\ r.gone = task[t].gone
                          /\ r.at \in {"read", "cut", "write"} => r.entry \notin r.gone
       PROVE  GoneInv'
  BY <1>2, <1>6, <1>11
<1>12. ASSUME NEW t \in Tasks, ReadHistory(t) PROVE GoneInv'
  <2>1. lock' = lock /\ t \in Running /\ task[t].entry \notin task[t].gone
    BY <1>12 DEF ReadHistory, GoneInv, Recording, At
  <2> QED BY <1>11, <1>12, <2>1, ReadIs
<1>13. ASSUME NEW t \in Tasks, CutHistory(t) PROVE GoneInv'
  <2>1. lock' = lock /\ t \in Running /\ task[t].entry \notin task[t].gone
    BY <1>13 DEF CutHistory, GoneInv, Recording, At
  <2> QED BY <1>11, <1>13, <1>t, <2>1, CutIs
<1>14. ASSUME NEW t \in Tasks, WriteHistory(t) PROVE GoneInv'
  <2>1. lock' = lock /\ t \in Running
    BY <1>14 DEF WriteHistory, At
  <2> QED BY <1>11, <1>14, <1>t, <2>1, WriteIs
<1>15. ASSUME NEW t \in Tasks, Close(t) PROVE GoneInv'
  <2>1. task[t].at = "delete" /\ At(t, "delete") /\ lock' = lock
    BY <1>15, <1>t, CloseIs DEF Close
  <2>2. task[t].gone = {}
    BY <1>6, <1>t, <2>1 DEF At, TypeOK
  <2> QED BY <1>2, <1>15, <1>t, <2>1, <2>2, CloseIs
<1>16. CASE Crash
  BY <1>16 DEF Crash, GoneInv, Running
<1>17. CASE UNCHANGED vars
  BY <1>3, <1>17 DEF vars
<1> QED
  BY <1>4, <1>5, <1>7, <1>8, <1>9, <1>10, <1>12, <1>13, <1>14, <1>15, <1>16, <1>17
  DEF Next, TaskStep

\* What had ended for a task that goes on waiting has ended.
LEMMA EndedStep ==
  ASSUME Typed, Typed', [Next]_vars, NEW w \in Tasks, Stays(w), NEW c, Ended(w, c)
  PROVE  Ended(w, c)'
<1>1. c \notin open' /\ c \notin fresh'
  BY OpenStep DEF Ended
<1>2. ASSUME NEW v \in Tasks, At(v, "lock")', c \in task'[v].list PROVE v \in task'[w].older
  <2>1. Stays(v)
    BY <1>2, WaitStep DEF Typed, Joins, Ended
  <2> QED BY <1>2, <2>1 DEF Stays, Ended
<1> QED BY <1>1, <1>2 DEF Ended

\* What is listed after it was fetched but not in that list has ended.
LEMMA EndedJoins ==
  ASSUME Typed, Typed', [Next]_vars, NEW w \in Tasks, Joins(w),
         NEW c, c \notin open, c \notin fresh
  PROVE  Ended(w, c)'
<1>1. c \notin open' /\ c \notin fresh'
  BY DEF Joins
<1>2. ASSUME NEW v \in Tasks, At(v, "lock")', c \in task'[v].list PROVE v \in task'[w].older
  <2>1. v # w
    BY <1>2 DEF Joins
  <2>2. At(v, "lock")
    BY <1>2, <2>1 DEF Joins, Stays
  <2> QED BY <2>2 DEF Joins, At
<1> QED BY <1>1, <1>2 DEF Ended

\* A list fetched later has what is still open.
LEMMA PairsStep == Typed /\ Typed' /\ Known /\ Pairs /\ [Next]_vars => Pairs'
<1> SUFFICES ASSUME Typed, Typed', Known, Pairs, [Next]_vars,
                    NEW t \in Tasks, NEW w \in Tasks, t # w,
                    At(t, "lock")', At(w, "lock")', w \notin task'[t].older,
                    NEW c, c \in task'[t].list, c \notin task'[w].list
             PROVE  Ended(w, c)'
  BY DEF Pairs
<1>1. Stays(t)
  <2>1. ~Joins(t)
    BY DEF Joins, Stays, At
  <2> QED BY <2>1, WaitStep DEF Typed
<1>2. CASE Stays(w)
  BY <1>1, <1>2, EndedStep DEF Pairs, Stays
<1>3. CASE Joins(w)
  <2>1. c \notin fresh
    BY <1>1 DEF Known, Stays, At
  <2> QED BY <1>3, <2>1, EndedJoins DEF Joins
<1> QED BY <1>2, <1>3, WaitStep DEF Typed

\* The daemon sees what a list has when the list is compared.
LEMMA SeenStep ==
  ASSUME Typed, Typed', Holder, [Next]_vars, NEW c \in Seen'
  PROVE  c \in Seen \/ \E t \in Tasks : TakesLock(t) /\ c \in task[t].list
<1>1. Free \notin Tasks
  BY HistoryAssumption
<1>2. CASE KeepsLock
  BY <1>2 DEF KeepsLock, Seen
<1>3. CASE Crash
  BY <1>3 DEF Crash, Seen
<1>4. ASSUME NEW t \in Tasks, TakesLock(t) PROVE c \in Seen \/ c \in task[t].list
  BY <1>1, <1>4 DEF TakesLock, Seen
<1>5. ASSUME NEW t \in Tasks, GivesLock(t) PROVE c \in Seen
  BY <1>1, <1>5 DEF GivesLock, Seen
<1> QED BY <1>2, <1>3, <1>4, <1>5, LockStep

\* Of what is fetched before the list that is compared, nothing waits on that
\* was not overtaken.
LEMMA OvertakenStep ==
  ASSUME Typed, NEW t \in Tasks, TakesLock(t), NEW w \in Tasks, At(w, "lock")', ~task'[w].late
  PROVE  w # t /\ w \notin task[t].older
<1>1. w # t
  <2>1. task'[t].at = "next"
    BY CompareIs DEF TakesLock, Moves, Typed
  <2> QED BY <2>1 DEF At
<1>2. ASSUME w \in task[t].older PROVE FALSE
  <2>1. At(w, "lock") /\ task[w] \in Task
    <3>1. PICK r : Moves(t, r)
      BY CompareIs DEF TakesLock, Typed
    <3>2. At(w, "lock")
      BY <1>1, <3>1, OthersStay DEF Typed
    <3> QED BY <3>2, AtTask DEF Typed
  <2>2. task'[w] = [task[w] EXCEPT !.late = TRUE]
    BY <1>1, <1>2, <2>1 DEF TakesLock, Compare
  <2> QED BY <2>1, <2>2 DEF Task
<1> QED BY <1>1, <1>2

\* What is seen is either older than the list that lacks it, or makes it late.
LEMMA MissingStep ==
  Typed /\ Typed' /\ Known /\ Holder /\ Pairs /\ Missing /\ [Next]_vars => Missing'
<1> SUFFICES ASSUME Typed, Typed', Known, Holder, Pairs, Missing, [Next]_vars,
                    NEW w \in Tasks, At(w, "lock")', ~task'[w].late,
                    NEW c \in Seen', c \notin task'[w].list
             PROVE  Ended(w, c)'
  BY DEF Missing
<1>1. \A t \in Tasks : TakesLock(t) => lock' # lock
  BY HistoryAssumption DEF TakesLock
<1>2. CASE Joins(w)
  <2>1. c \in Seen
    BY <1>1, <1>2, SeenStep DEF Joins
  <2>2. c \notin fresh
    BY <2>1 DEF Known, Seen, Typed, TypeOK, Running
  <2> QED BY <1>2, <2>2, EndedJoins DEF Joins
<1>3. CASE Stays(w)
  <2>1. c \notin task[w].list /\ At(w, "lock") /\ ~task[w].late
    BY <1>3 DEF Stays
  <2>2. Ended(w, c)
    <3>1. CASE c \in Seen
      BY <2>1, <3>1 DEF Missing
    <3>2. ASSUME NEW t \in Tasks, TakesLock(t), c \in task[t].list PROVE Ended(w, c)
      <4>1. t # w /\ w \notin task[t].older
        BY <3>2, OvertakenStep
      <4> QED BY <2>1, <3>2, <4>1 DEF Pairs, TakesLock
    <3> QED BY <3>1, <3>2, SeenStep
  <2> QED BY <1>3, <2>2, EndedStep
<1> QED BY <1>2, <1>3, WaitStep DEF Typed

\* A connection that is over stays so while lists are compared in order.
LEMMA OverStep ==
  ASSUME Typed, Typed', Known, Holder, GoneInv, [Next]_vars, ordered', NEW c, Over(c)
  PROVE  Over(c)'
<1>1. c \notin fresh' /\ c \notin open'
  BY OpenStep DEF Over
<1>2. ASSUME NEW w \in Tasks, At(w, "lock")', ~task'[w].late PROVE c \notin task'[w].list
  BY <1>2, WaitStep DEF Typed, Over, Stays, Joins
<1>3. /\ lock' # Free => c \notin task'[lock'].list
      /\ c \in active' => lock' # Free /\ c \in task'[lock'].gone
  <2>1. Free \notin Tasks
    BY HistoryAssumption
  <2>2. CASE KeepsLock
    BY <2>2 DEF KeepsLock, Over
  <2>3. CASE Crash
    BY <2>3 DEF Crash
  <2>4. ASSUME NEW t \in Tasks, TakesLock(t) PROVE <1>3!:
    BY <2>1, <2>4 DEF TakesLock, Over
  <2>5. ASSUME NEW t \in Tasks, GivesLock(t) PROVE <1>3!:
    <3>1. task[t].gone = {}
      BY <2>5 DEF GivesLock, GoneInv, At
    <3> QED BY <2>1, <2>5, <3>1 DEF GivesLock, Over
  <2> QED BY <2>2, <2>3, <2>4, <2>5, LockStep
<1> QED BY <1>1, <1>2, <1>3 DEF Over

\* What is found gone is over from then on.
LEMMA OverTaken ==
  ASSUME Typed, Typed', Missing, [Next]_vars, ordered',
         NEW t \in Tasks, TakesLock(t), NEW c \in active, c \notin task[t].list
  PROVE  ~Over(c) /\ Over(c)'
<1>1. t # Free
  BY HistoryAssumption
<1>2. ~Over(c)
  BY DEF Over, TakesLock
<1>3. Ended(t, c)
  BY DEF Missing, Seen, TakesLock
<1>4. c \notin fresh' /\ c \notin open'
  BY <1>3, OpenStep DEF Ended
<1>5. ASSUME NEW w \in Tasks, At(w, "lock")', ~task'[w].late PROVE c \notin task'[w].list
  <2>1. w \notin task[t].older
    BY <1>5, OvertakenStep
  <2>2. CASE Stays(w)
    BY <1>3, <2>1, <2>2 DEF Stays, Ended
  <2>3. CASE Joins(w)
    BY <1>3, <2>3 DEF Joins, Ended
  <2> QED BY <1>5, <2>2, <2>3, WaitStep DEF Typed
<1>6. /\ lock' # Free => c \notin task'[lock'].list
      /\ c \in active' => lock' # Free /\ c \in task'[lock'].gone
  BY <1>1 DEF TakesLock
<1> QED BY <1>2, <1>4, <1>5, <1>6 DEF Over

-----------------------------------------------------------------------------
\* What a step makes of the records to come.
LEMMA ClaimsMoves ==
  ASSUME TypeOK, NEW t \in Tasks, NEW r, Moves(t, r), NEW c
  PROVE  /\ Pending(c)' \subseteq Pending(c) \cup {t}
         /\ t \in Pending(c)' => /\ r # Idle
                                 /\ \/ c \in r.gone
                                    \/ r.at \in {"read", "cut", "write"} /\ r.entry = c
<1>1. ASSUME NEW u \in Tasks, u # t, Claims(u, c)' PROVE Claims(u, c)
  <2>1. PICK s : At(u, s)'
    BY <1>1 DEF Claims, At
  <2>2. u \in Running
    BY <1>1, <2>1, OthersStay DEF At
  <2>3. /\ Recording(u)' <=> Recording(u)
        /\ task'[u].gone = task[u].gone /\ task'[u].entry = task[u].entry
    BY <1>1, <2>2, OthersStay DEF Running
  <2> QED BY <1>1, <2>2, <2>3 DEF Claims
<1>2. Pending(c)' \subseteq Pending(c) \cup {t}
  BY <1>1 DEF Pending
<1>3. task'[t] = r
  BY DEF Moves
<1>4. ASSUME Claims(t, c)' PROVE r # Idle /\ (c \in r.gone \/ (r.at \in {"read", "cut", "write"} /\ r.entry = c))
  BY <1>3, <1>4 DEF Claims, Recording, At, Running
<1> QED BY <1>2, <1>4 DEF Pending

\* How a step changes what the count of c rests on: not at all, it finds c gone,
\* c is closed by hand, or something is written.
NoMore(c) ==
  /\ Pending(c)' \subseteq Pending(c)
  /\ closes'[c] = closes[c]

Finds(t, c) ==
  /\ TakesLock(t) /\ c \in active /\ c \notin task[t].list
  /\ Pending(c)' \subseteq Pending(c) \cup {t}
  /\ closes'[c] = closes[c] /\ log' = log

Closes(t, c) ==
  /\ Pending(c)' \subseteq Pending(c) \cup {t}
  /\ closes'[c] = closes[c] + 1 /\ log' = log

Writes(t, c) ==
  /\ t \in Pending(c) /\ Pending(c)' \subseteq Pending(c) \ {t}
  /\ closes'[c] = closes[c] /\ log' = <<c>> \o log

\* Every step is one of these.
LEMMA ClaimsStep ==
  ASSUME Typed, Typed', Holder, GoneInv, [Next]_vars, NEW c \in Ids
  PROVE  \/ NoMore(c) /\ \/ log' \in {log, <<>>}
                         \/ \E e \in Ids \ {c} : log' = <<e>> \o log
         \/ \E t \in Tasks : Finds(t, c) \/ Closes(t, c) \/ Writes(t, c)
<1> DEFINE Goal == \/ NoMore(c) /\ \/ log' \in {log, <<>>}
                                   \/ \E e \in Ids \ {c} : log' = <<e>> \o log
                   \/ \E t \in Tasks : Finds(t, c) \/ Closes(t, c) \/ Writes(t, c)
<1>t. TypeOK /\ TypeOK'
  BY DEF Typed
<1>1. ASSUME UNCHANGED <<task, closes, log>> PROVE Goal
  BY <1>1 DEF NoMore, Pending, Claims, Recording, At, Running
<1>2. ASSUME NEW d \in Ids, Open(d) \/ Ends(d) PROVE Goal
  BY <1>1, <1>2 DEF Open, Ends, ghosts
\* Nothing new is going to be recorded.
<1>3. ASSUME NEW t \in Tasks, NEW r, Moves(t, r), UNCHANGED <<closes, log>>,
             r # Idle /\ (c \in r.gone \/ (r.at \in {"read", "cut", "write"} /\ r.entry = c)) => t \in Pending(c)
      PROVE  Goal
  BY <1>t, <1>3, ClaimsMoves DEF NoMore
<1>4. ASSUME NEW t \in Tasks, t \in Running
      PROVE  /\ c \in task[t].gone => t \in Pending(c)
             /\ Recording(t) /\ task[t].entry = c => t \in Pending(c)
  BY <1>4 DEF Pending, Claims
<1>5. ASSUME NEW t \in Tasks, NEW op, NEW d, Request(t, op, d) PROVE Goal
  <2>1. UNCHANGED <<closes, log>>
    BY <1>5 DEF Request, ghosts
  <2>2. PICK r : Moves(t, r) /\ r.at = "fetch" /\ r.gone = {}
    BY <1>5, <1>t, RequestIs
  <2> QED BY <1>3, <2>1, <2>2
<1>6. ASSUME NEW t \in Tasks, Fetch(t) PROVE Goal
  <2>1. UNCHANGED <<closes, log>> /\ t \in Running
    BY <1>6 DEF Fetch, ghosts, At
  <2>2. PICK r : Moves(t, r) /\ (r # Idle => r.at \in {"lock", "delete"} /\ r.gone = task[t].gone)
    BY <1>6, <1>t, FetchIs
  <2> QED BY <1>3, <1>4, <2>1, <2>2
<1>7. ASSUME NEW t \in Tasks, Compare(t) PROVE Goal
  <2>1. PICK r : Moves(t, r) /\ r.at = "next" /\ r.gone = active \ task[t].list /\ r.list = task[t].list
    BY <1>7, <1>t, CompareIs
  <2>2. UNCHANGED <<closes, log>>
    BY <1>7 DEF Compare
  <2>3. TakesLock(t)
    BY <1>7, <2>1 DEF Compare, Guard, TakesLock, Moves
  <2>4. CASE c \in active \ task[t].list
    <3>1. Finds(t, c)
      BY <1>t, <2>1, <2>2, <2>3, <2>4, ClaimsMoves DEF Finds
    <3> QED BY <3>1
  <2>5. CASE c \notin active \ task[t].list
    BY <1>3, <2>1, <2>2, <2>5
  <2> QED BY <2>4, <2>5
<1>8. ASSUME NEW t \in Tasks, RecordNext(t) PROVE Goal
  <2>1. UNCHANGED <<closes, log>> /\ t \in Running
    BY <1>8 DEF RecordNext, ghosts, At
  <2>2. PICK r : /\ Moves(t, r) /\ r.at \in {"read", "insert"} /\ r.gone \subseteq task[t].gone
                 /\ r.at = "read" => r.entry \in task[t].gone
    BY <1>8, <1>t, NextIs
  <2> QED BY <1>3, <1>4, <2>1, <2>2
<1>9. ASSUME NEW t \in Tasks, Insert(t) PROVE Goal
  <2>1. UNCHANGED <<closes, log>> /\ t \in Running
    BY <1>9 DEF Insert, At
  <2>2. PICK r : Moves(t, r) /\ (r # Idle => r.at = "delete" /\ r.gone = task[t].gone)
    BY <1>9, <1>t, InsertIs
  <2> QED BY <1>3, <1>4, <2>1, <2>2
<1>10. ASSUME NEW t \in Tasks, ReadHistory(t) PROVE Goal
  <2>1. UNCHANGED <<closes, log>> /\ t \in Running /\ Recording(t)
    BY <1>10 DEF ReadHistory, ghosts, At, Recording
  <2>2. PICK r : Moves(t, r) /\ r.entry = task[t].entry /\ r.gone = task[t].gone
    BY <1>10, ReadIs
  <2> QED BY <1>3, <1>4, <2>1, <2>2
<1>11. ASSUME NEW t \in Tasks, CutHistory(t) PROVE Goal
  <2>1. UNCHANGED <<closes, log>> /\ t \in Running /\ Recording(t)
    BY <1>11 DEF CutHistory, ghosts, At, Recording
  <2>2. PICK r : Moves(t, r) /\ r.entry = task[t].entry /\ r.gone = task[t].gone
    BY <1>11, <1>t, CutIs
  <2> QED BY <1>3, <1>4, <2>1, <2>2
\* The entry is none of those that are still to be recorded.
<1>12. ASSUME NEW t \in Tasks, WriteHistory(t) PROVE Goal
  <2>1. /\ closes' = closes /\ log' = <<task[t].entry>> \o log
        /\ t \in Running /\ Recording(t)
    BY <1>12 DEF WriteHistory, At, Recording
  <2>2. task[t].entry \in Ids /\ task[t].entry \notin task[t].gone
    BY <2>1 DEF Typed, EntryInv, GoneInv
  <2>3. PICK r : Moves(t, r) /\ (r # Idle => r.at = "next" /\ r.gone = task[t].gone)
    BY <1>12, <1>t, WriteIs
  <2>4. Pending(c)' \subseteq Pending(c) \cup {t} /\ (t \in Pending(c)' => c \in task[t].gone)
    BY <1>t, <2>3, ClaimsMoves
  <2>5. CASE task[t].entry = c
    <3>1. t \in Pending(c) /\ t \notin Pending(c)'
      BY <1>4, <2>1, <2>2, <2>4, <2>5
    <3>2. Writes(t, c)
      BY <2>1, <2>4, <2>5, <3>1 DEF Writes
    <3> QED BY <3>2
  <2>6. CASE task[t].entry # c
    <3>1. NoMore(c)
      BY <1>4, <2>1, <2>4 DEF NoMore
    <3> QED BY <2>1, <2>2, <2>6, <3>1
  <2> QED BY <2>5, <2>6
<1>13. ASSUME NEW t \in Tasks, Close(t) PROVE Goal
  <2>1. log' = log /\ t \in Running
    BY <1>13 DEF Close, At
  <2>2. closes'[c] = IF task[t].id \in task[t].list /\ c = task[t].id THEN closes[c] + 1 ELSE closes[c]
    BY <1>13 DEF Close
  <2>3. PICK r : /\ Moves(t, r)
                 /\ r # Idle => /\ task[t].id \in task[t].list
                                /\ r.at = "read" /\ r.entry = task[t].id /\ r.gone = task[t].gone
    BY <1>13, <1>t, CloseIs
  <2>4. /\ Pending(c)' \subseteq Pending(c) \cup {t}
        /\ t \in Pending(c)' => \/ c \in task[t].gone
                                \/ task[t].id \in task[t].list /\ c = task[t].id
    <3>1. /\ Pending(c)' \subseteq Pending(c) \cup {t}
          /\ t \in Pending(c)' => r # Idle /\ (c \in r.gone \/ r.entry = c)
      BY <1>t, <2>3, ClaimsMoves
    <3> QED BY <2>3, <3>1
  <2>5. CASE task[t].id \in task[t].list /\ c = task[t].id
    <3>1. Closes(t, c)
      BY <2>1, <2>2, <2>4, <2>5 DEF Closes
    <3> QED BY <3>1
  <2>6. CASE ~(task[t].id \in task[t].list /\ c = task[t].id)
    <3>1. NoMore(c)
      BY <1>4, <2>1, <2>2, <2>4, <2>6 DEF NoMore
    <3> QED BY <2>1, <3>1
  <2> QED BY <2>5, <2>6
<1>14. CASE Crash
  BY <1>14 DEF Crash, NoMore, Pending, Claims, Running
<1>15. CASE UNCHANGED vars
  BY <1>1, <1>15 DEF vars, ghosts
<1> QED
  BY <1>2, <1>5, <1>6, <1>7, <1>8, <1>9, <1>10, <1>11, <1>12, <1>13, <1>14, <1>15
  DEF Next, TaskStep

\* Subsets of what is pending, in numbers.
LEMMA FewerPending ==
  ASSUME NEW S, IsFiniteSet(S), NEW T, NEW t
  PROVE  /\ Cardinality(S) \in Nat
         /\ T \subseteq S => IsFiniteSet(T) /\ Cardinality(T) \in Nat /\ Cardinality(T) <= Cardinality(S)
         /\ T \subseteq S \cup {t} =>
              IsFiniteSet(T) /\ Cardinality(T) \in Nat /\ Cardinality(T) <= Cardinality(S) + 1
         /\ T \subseteq S \ {t} /\ t \in S =>
              IsFiniteSet(T) /\ Cardinality(T) \in Nat /\ Cardinality(T) + 1 <= Cardinality(S)
<1>1. ASSUME NEW U, IsFiniteSet(U), T \subseteq U
      PROVE  IsFiniteSet(T) /\ Cardinality(T) \in Nat /\ Cardinality(T) <= Cardinality(U)
  BY <1>1, FS_Subset, FS_CardinalityType
<1>2. Cardinality(S) \in Nat
  BY FS_CardinalityType
<1>3. /\ IsFiniteSet(S \cup {t})
      /\ Cardinality(S \cup {t}) = IF t \in S THEN Cardinality(S) ELSE Cardinality(S) + 1
  BY FS_AddElement
<1>4. /\ IsFiniteSet(S \ {t})
      /\ Cardinality(S \ {t}) = IF t \in S THEN Cardinality(S) - 1 ELSE Cardinality(S)
  BY FS_RemoveElement
<1>5. T \subseteq S \cup {t} =>
        IsFiniteSet(T) /\ Cardinality(T) \in Nat /\ Cardinality(T) <= Cardinality(S \cup {t})
  BY <1>1, <1>3
<1>6. T \subseteq S \ {t} =>
        IsFiniteSet(T) /\ Cardinality(T) \in Nat /\ Cardinality(T) <= Cardinality(S \ {t})
  BY <1>1, <1>4
<1>7. T \subseteq S => IsFiniteSet(T) /\ Cardinality(T) \in Nat /\ Cardinality(T) <= Cardinality(S)
  BY <1>1
<1> QED BY <1>2, <1>3, <1>4, <1>5, <1>6, <1>7

\* The order of the comparisons is never restored.
LEMMA OrderedStep == TypeOK /\ [Next]_vars /\ ordered' => ordered
BY DEF TypeOK, Next, TaskStep, Open, Ends, Request, Fetch, Compare, RecordNext, Insert,
       ReadHistory, CutHistory, WriteHistory, Close, Crash, vars, ghosts

\* No step records more than the count allows.
LEMMA CountStep ==
  Typed /\ Typed' /\ Known /\ Holder /\ GoneInv /\ Missing /\ CountInv /\ [Next]_vars => CountInv'
<1> SUFFICES ASSUME Typed, Typed', Known, Holder, GoneInv, Missing, CountInv, [Next]_vars,
                    NEW c \in Ids
             PROVE  /\ IsFiniteSet(Pending(c)')
                    /\ ordered' => Cardinality(Places(log, c)') + Cardinality(Pending(c)') <= Allowed(c)'
  BY DEF CountInv
<1> DEFINE P == Cardinality(Pending(c))
           Q == Cardinality(Pending(c)')
           L == Cardinality(Places(log, c))
           M == Cardinality(Places(log', c))
<1>1. /\ IsFiniteSet(Pending(c))
      /\ ordered' => L + P <= Allowed(c)
  BY OrderedStep DEF CountInv, Typed
<1>2. log \in Seq(Ids) /\ log' \in Seq(Ids) /\ closes[c] \in Nat /\ closes'[c] \in Nat
  BY DEF Typed, TypeOK
<1>3. L \in Nat /\ M \in Nat
  BY <1>2, PlacesFinite
<1>4. P \in Nat
  BY <1>1, FS_CardinalityType
<1>5. ordered' /\ Over(c) => Over(c)'
  BY OverStep
<1>6. /\ Allowed(c) = closes[c] + (IF Over(c) THEN 1 ELSE 0)
      /\ Allowed(c)' = closes'[c] + (IF Over(c)' THEN 1 ELSE 0)
  BY DEF Allowed
<1>7. Places(log, c)' = Places(log', c)
  BY DEF Places
<1>8. CASE NoMore(c) /\ log' \in {log, <<>>}
  <2>1. IsFiniteSet(Pending(c)') /\ Q \in Nat /\ Q <= P
    BY <1>1, <1>8, FewerPending DEF NoMore
  <2>2. M <= L
    <3>1. Places(<<>>, c) = {}
      BY DEF Places
    <3>2. Cardinality(Places(<<>>, c)) = 0
      BY <3>1, FS_EmptySet
    <3> QED BY <1>3, <1>8, <3>2
  <2> HIDE DEF P, Q, L, M
  <2>3. ordered' => M + Q <= Allowed(c)'
    BY <1>1, <1>2, <1>3, <1>4, <1>5, <1>6, <1>8, <2>1, <2>2 DEF NoMore
  <2> QED BY <1>7, <2>1, <2>3 DEF M, Q
<1>9. ASSUME NoMore(c), NEW e \in Ids, e # c, log' = <<e>> \o log
      PROVE  /\ IsFiniteSet(Pending(c)')
             /\ ordered' => Cardinality(Places(log, c)') + Cardinality(Pending(c)') <= Allowed(c)'
  <2>1. IsFiniteSet(Pending(c)') /\ Q \in Nat /\ Q <= P
    BY <1>1, <1>9, FewerPending DEF NoMore
  <2>2. M = L
    BY <1>2, <1>3, <1>9, PlacesCons
  <2> HIDE DEF P, Q, L, M
  <2>3. ordered' => M + Q <= Allowed(c)'
    BY <1>1, <1>2, <1>3, <1>4, <1>5, <1>6, <1>9, <2>1, <2>2 DEF NoMore
  <2> QED BY <1>7, <2>1, <2>3 DEF M, Q
<1>10. ASSUME NEW t \in Tasks, Finds(t, c)
      PROVE  /\ IsFiniteSet(Pending(c)')
             /\ ordered' => Cardinality(Places(log, c)') + Cardinality(Pending(c)') <= Allowed(c)'
  <2>1. IsFiniteSet(Pending(c)') /\ Q \in Nat /\ Q <= P + 1
    BY <1>1, <1>10, FewerPending DEF Finds
  <2>2. M = L
    BY <1>10 DEF Finds
  <2>3. ordered' => ~Over(c) /\ Over(c)'
    BY <1>10, OverTaken DEF Finds
  <2> HIDE DEF P, Q, L, M
  <2>4. ordered' => M + Q <= Allowed(c)'
    BY <1>1, <1>2, <1>3, <1>4, <1>6, <1>10, <2>1, <2>2, <2>3 DEF Finds
  <2> QED BY <1>7, <2>1, <2>4 DEF M, Q
<1>11. ASSUME NEW t \in Tasks, Closes(t, c)
      PROVE  /\ IsFiniteSet(Pending(c)')
             /\ ordered' => Cardinality(Places(log, c)') + Cardinality(Pending(c)') <= Allowed(c)'
  <2>1. IsFiniteSet(Pending(c)') /\ Q \in Nat /\ Q <= P + 1
    BY <1>1, <1>11, FewerPending DEF Closes
  <2>2. M = L
    BY <1>11 DEF Closes
  <2> HIDE DEF P, Q, L, M
  <2>3. ordered' => M + Q <= Allowed(c)'
    BY <1>1, <1>2, <1>3, <1>4, <1>5, <1>6, <1>11, <2>1, <2>2 DEF Closes
  <2> QED BY <1>7, <2>1, <2>3 DEF M, Q
<1>12. ASSUME NEW t \in Tasks, Writes(t, c)
      PROVE  /\ IsFiniteSet(Pending(c)')
             /\ ordered' => Cardinality(Places(log, c)') + Cardinality(Pending(c)') <= Allowed(c)'
  <2>1. IsFiniteSet(Pending(c)') /\ Q \in Nat /\ Q + 1 <= P
    BY <1>1, <1>12, FewerPending DEF Writes
  <2>2. M = L + 1
    BY <1>2, <1>3, <1>12, PlacesCons DEF Writes
  <2> HIDE DEF P, Q, L, M
  <2>3. ordered' => M + Q <= Allowed(c)'
    BY <1>1, <1>2, <1>3, <1>4, <1>5, <1>6, <1>12, <2>1, <2>2 DEF Writes
  <2> QED BY <1>7, <2>1, <2>3 DEF M, Q
<1>13. \/ NoMore(c) /\ \/ log' \in {log, <<>>}
                       \/ \E e \in Ids \ {c} : log' = <<e>> \o log
       \/ \E t \in Tasks : Finds(t, c) \/ Closes(t, c) \/ Writes(t, c)
  BY ClaimsStep
<1> HIDE DEF P, Q, L, M
<1>14. CASE NoMore(c) /\ \/ log' \in {log, <<>>}
                         \/ \E e \in Ids \ {c} : log' = <<e>> \o log
  BY <1>8, <1>9, <1>14
<1>15. CASE \E t \in Tasks : Finds(t, c) \/ Closes(t, c) \/ Writes(t, c)
  BY <1>10, <1>11, <1>12, <1>15
<1> QED BY <1>13, <1>14, <1>15

OnceInv == GoneInv /\ Pairs /\ Missing /\ CountInv

\* At the start nothing was seen.
LEMMA InitOnce == Init => OnceInv
<1> SUFFICES ASSUME Init PROVE OnceInv
  OBVIOUS
<1>1. Running = {} /\ \A t, s : ~At(t, s)
  BY DEF Init, Running, At
<1>2. GoneInv /\ Pairs /\ Missing
  BY <1>1 DEF GoneInv, Pairs, Missing
<1>3. ASSUME NEW c \in Ids
      PROVE  /\ IsFiniteSet(Pending(c))
             /\ Cardinality(Places(log, c)) + Cardinality(Pending(c)) <= Allowed(c)
  <2>1. Pending(c) = {} /\ Places(log, c) = {}
    BY <1>1 DEF Init, Pending, Claims, Places
  <2>2. Allowed(c) >= 0 /\ Allowed(c) \in Nat
    BY DEF Init, Allowed
  <2> QED BY <2>1, <2>2, FS_EmptySet
<1> QED BY <1>2, <1>3 DEF OnceInv, CountInv

\* A connection is found to be gone, and recorded for it, once in all the time
\* the daemon runs and is restarted, as long as no list is compared after one
\* that was fetched later: what is more was closed by hand.
THEOREM OnceEachAlways == Spec => []OnceEach
<1>1. Init => IInv /\ OnceInv
  BY InitInv, InitOnce
<1>2. IInv /\ OnceInv /\ IInv' /\ [Next]_vars => OnceInv'
  BY GoneStep, PairsStep, MissingStep, CountStep DEF IInv, OnceInv
<1>3. IInv /\ OnceInv => OnceEach
  <2> SUFFICES ASSUME IInv, OnceInv, ordered, NEW c \in Ids
               PROVE  Cardinality({i \in DOMAIN log : log[i] = c}) <= 1 + closes[c]
    BY DEF OnceEach
  <2>1. /\ IsFiniteSet(Pending(c))
        /\ Cardinality(Places(log, c)) + Cardinality(Pending(c)) <= Allowed(c)
    BY DEF OnceInv, CountInv
  <2>2. log \in Seq(Ids) /\ closes[c] \in Nat
    BY DEF IInv, Typed, TypeOK
  <2>3. Cardinality(Pending(c)) \in Nat /\ Cardinality(Places(log, c)) \in Nat
    BY <2>1, <2>2, FS_CardinalityType, PlacesFinite
  <2>4. Allowed(c) <= 1 + closes[c] /\ Allowed(c) \in Nat
    BY <2>2 DEF Allowed
  <2>5. Cardinality(Places(log, c)) <= 1 + closes[c]
    BY <2>1, <2>2, <2>3, <2>4
  <2> QED BY <2>5 DEF Places
<1> QED BY HistoryInvariance, <1>1, <1>2, <1>3, PTL DEF Spec
=============================================================================
