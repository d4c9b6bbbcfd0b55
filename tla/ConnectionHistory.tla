-------------------------- MODULE ConnectionHistory --------------------------
(***************************************************************************)
(* The history of closed connections (service/clash_api.rs,                *)
(* service/settings_ops.rs, api/connection_handlers.rs).  Mihomo only      *)
(* lists the connections that are open.  Each request for that list        *)
(* compares it with the connections the daemon remembers, under the write  *)
(* lock of active_connections, and records those that have gone in         *)
(* connection_history.yaml; closing one by hand records it as well,        *)
(* without the lock.                                                       *)
(*                                                                         *)
(* The list is fetched before the lock is taken, and a recording reads,    *)
(* truncates and writes the file in three steps.                           *)
(***************************************************************************)
EXTENDS Naturals, SequencesExt

CONSTANTS
  Ids,       \* connections
  Tasks,     \* threads that handle requests
  Idle,      \* no task
  Free,      \* nobody holds the lock
  Torn,      \* a truncated connection_history.yaml; it reads as no entries
  MaxCount,  \* entries the file keeps
  MaxRequests, MaxCrashes  \* bounds

ASSUME HistoryAssumption ==
  /\ MaxCount \in Nat \ {0}
  /\ MaxRequests \in Nat /\ MaxCrashes \in Nat
  /\ Idle \notin Ids /\ Free \notin Tasks
  /\ Torn \notin Seq(Ids)

VARIABLES
  open,      \* the open connections, in Mihomo
  fresh,     \* those that have not been opened yet
  active,    \* active_connections of ServiceState
  lock,      \* who holds its write lock
  file,      \* connection_history.yaml, newest first, or Torn
  task,      \* what each thread is doing, or Idle
  requests, crashes,
  tracked,   \* history: the connections put into `active` since the start
  closes,    \* history: how often each was recorded by hand
  log,       \* history: what was recorded, as a file with atomic access has it
  apart,     \* history: no two recordings have overlapped
  ordered,   \* history: no list was compared after one fetched later
  obeyed     \* history: no close that failed was recorded

ghosts == <<tracked, closes, log, apart, ordered, obeyed>>
budget == <<requests, crashes>>
vars == <<open, fresh, active, lock, file, task, budget, ghosts>>

Task == [op : {"poll", "close"}, id : Ids \cup {Idle},
         at : {"fetch", "lock", "next", "read", "cut", "write", "insert", "delete"},
         list : SUBSET Ids, gone : SUBSET Ids, entry : Ids \cup {Idle}, data : Seq(Ids),
         older : SUBSET Tasks, late : BOOLEAN, crossed : BOOLEAN]

ASSUME IdleAssumption == Idle \notin Task

TypeOK ==
  /\ open \subseteq Ids /\ fresh \subseteq Ids /\ active \subseteq Ids
  /\ lock \in Tasks \cup {Free}
  /\ file = Torn \/ (file \in Seq(Ids) /\ Len(file) <= MaxCount)
  /\ task \in [Tasks -> Task \cup {Idle}]
  /\ requests \in 0..MaxRequests /\ crashes \in 0..MaxCrashes
  /\ tracked \subseteq Ids /\ closes \in [Ids -> Nat] /\ log \in Seq(Ids)
  /\ apart \in BOOLEAN /\ ordered \in BOOLEAN /\ obeyed \in BOOLEAN
  /\ lock # Free => task[lock] # Idle /\ task[lock].at \notin {"fetch", "lock", "delete"}

Init ==
  /\ open = {} /\ fresh = Ids /\ active = {}
  /\ lock = Free
  /\ file = <<>>
  /\ task = [t \in Tasks |-> Idle]
  /\ requests = 0 /\ crashes = 0
  /\ tracked = {} /\ closes = [c \in Ids |-> 0] /\ log = <<>>
  /\ apart = TRUE /\ ordered = TRUE /\ obeyed = TRUE

Running == {t \in Tasks : task[t] # Idle}
At(t, s) == t \in Running /\ task[t].at = s
Goto(t, r) == task' = [task EXCEPT ![t] = r]

Entries == IF file = Torn THEN <<>> ELSE file

\* Faulty variant: nothing is trimmed.
Trimmed_not(s) == s

\* connections.truncate(max_count)
Trimmed(s) == IF Len(s) > MaxCount THEN SubSeq(s, 1, MaxCount) ELSE s

\* Faulty variant: the new entry goes to the end.
Recorded_last(c, entries) == Trimmed(Append(entries, c))

Recorded(c, entries) == Trimmed(<<c>> \o entries)

-----------------------------------------------------------------------------
(***************************************************************************)
(* Mihomo, external: connections come and go.                              *)
(***************************************************************************)
Open(c) ==
  /\ c \in fresh
  /\ open' = open \cup {c}
  /\ fresh' = fresh \ {c}
  /\ UNCHANGED <<active, lock, file, task, budget, ghosts>>

Ends(c) ==
  /\ c \in open
  /\ open' = open \ {c}
  /\ UNCHANGED <<fresh, active, lock, file, task, budget, ghosts>>

-----------------------------------------------------------------------------
(***************************************************************************)
(* get_connections and track_connections.                                  *)
(***************************************************************************)
New(op, c) == [op |-> op, id |-> c, at |-> "fetch", list |-> {}, gone |-> {},
               entry |-> Idle, data |-> <<>>, older |-> {}, late |-> FALSE, crossed |-> FALSE]

\* GET /api/connections or the Connections command, and DELETE of one.
Request(t, op, c) ==
  /\ task[t] = Idle /\ requests < MaxRequests
  /\ requests' = requests + 1
  /\ Goto(t, New(op, c))
  /\ UNCHANGED <<open, fresh, active, lock, file, crashes, ghosts>>

\* Mihomo may not answer; a close goes on to the deletion without an entry.
Fetch(t) ==
  LET r == task[t] IN
  /\ At(t, "fetch")
  /\ \/ Goto(t, [r EXCEPT !.at = "lock", !.list = open,
                          !.older = {u \in Running : At(u, "lock")}])
     \/ r.op = "close" /\ Goto(t, [r EXCEPT !.at = "delete"])
     \/ r.op = "poll" /\ Goto(t, Idle)
  /\ UNCHANGED <<open, fresh, active, lock, file, budget, ghosts>>

\* Faulty variant: the lock is not taken.
Guard_not(t) == UNCHANGED lock

Guard(t) == lock = Free /\ lock' = t

\* Faulty variant: the two sets are swapped.
Gone_swapped(list) == list \ active

Gone(list) == active \ list

\* Under the lock: what is remembered and not in the list has been closed.
Compare(t) ==
  LET r == task[t] IN
  /\ At(t, "lock")
  /\ Guard(t)
  /\ task' = [u \in Tasks |->
                IF u = t THEN [r EXCEPT !.at = "next", !.gone = Gone(r.list),
                                               !.older = {}, !.late = FALSE]
                ELSE IF u \in r.older /\ At(u, "lock") THEN [task[u] EXCEPT !.late = TRUE]
                ELSE task[u]]
  /\ ordered' = (ordered /\ ~r.late)
  /\ UNCHANGED <<open, fresh, active, file, budget, tracked, closes, log, apart, obeyed>>

\* The next of them leaves the memory and is recorded.
RecordNext(t) ==
  /\ At(t, "next")
  /\ \/ \E c \in task[t].gone :
          /\ active' = active \ {c}
          /\ Goto(t, [task[t] EXCEPT !.at = "read", !.gone = @ \ {c}, !.entry = c])
     \/ /\ task[t].gone = {}
        /\ Goto(t, [task[t] EXCEPT !.at = "insert"])
        /\ UNCHANGED active
  /\ UNCHANGED <<open, fresh, lock, file, budget, ghosts>>

\* Faulty variant: the memory is left as it was.
Remembered_not(list) == active

\* Every connection of the list is put into the memory.
Remembered(list) == active \cup list

\* The lock is given back; a close goes on.
Insert(t) ==
  LET r == task[t] IN
  /\ At(t, "insert")
  /\ active' = Remembered(r.list)
  /\ tracked' = tracked \cup r.list
  /\ lock' = Free
  /\ Goto(t, IF r.op = "close" THEN [r EXCEPT !.at = "delete"] ELSE Idle)
  /\ UNCHANGED <<open, fresh, file, budget, closes, log, apart, ordered, obeyed>>

-----------------------------------------------------------------------------
(***************************************************************************)
(* record_closed_connection.                                               *)
(***************************************************************************)
ReadHistory(t) ==
  /\ At(t, "read")
  /\ Goto(t, [task[t] EXCEPT !.at = "cut", !.data = Recorded(task[t].entry, Entries),
                             !.crossed = \E u \in Running : At(u, "write")])
  /\ UNCHANGED <<open, fresh, active, lock, file, budget, ghosts>>

\* std::fs::write truncates first.
CutHistory(t) ==
  /\ At(t, "cut")
  /\ file' = Torn
  /\ Goto(t, [task[t] EXCEPT !.at = "write"])
  /\ UNCHANGED <<open, fresh, active, lock, budget, ghosts>>

WriteHistory(t) ==
  LET r == task[t] IN
  /\ At(t, "write")
  /\ file' = r.data
  /\ log' = <<r.entry>> \o log
  /\ task' = [u \in Tasks |->
                IF u = t THEN IF lock = t THEN [r EXCEPT !.at = "next", !.entry = Idle, !.data = <<>>,
                                                     !.crossed = FALSE]
                             ELSE Idle
                ELSE IF At(u, "cut") \/ At(u, "write") THEN [task[u] EXCEPT !.crossed = TRUE]
                ELSE task[u]]
  /\ apart' = (apart /\ ~r.crossed)
  /\ UNCHANGED <<open, fresh, active, lock, budget, tracked, closes, ordered, obeyed>>

-----------------------------------------------------------------------------
\* close_connection after its get_connection_info: Mihomo is told to close the
\* connection, and an entry is made of what the list said, whatever it answers.
Close(t) ==
  LET r == task[t]
      found == r.id \in r.list
  IN
  /\ At(t, "delete")
  /\ \/ open' = open \ {r.id} /\ UNCHANGED obeyed
     \/ UNCHANGED open /\ obeyed' = (obeyed /\ ~(found /\ r.id \in open))
  /\ closes' = [c \in Ids |-> IF found /\ c = r.id THEN closes[c] + 1 ELSE closes[c]]
  /\ Goto(t, IF found THEN [r EXCEPT !.at = "read", !.entry = r.id, !.list = {}]
                     ELSE Idle)
  /\ UNCHANGED <<fresh, active, lock, file, budget, tracked, log, apart, ordered>>

\* The memory is lost, the file is as it is; Mihomo may end with the daemon.
Crash ==
  /\ crashes < MaxCrashes
  /\ crashes' = crashes + 1
  /\ task' = [t \in Tasks |-> Idle]
  /\ lock' = Free
  /\ active' = {} /\ tracked' = {}
  /\ open' \in {open, {}}
  /\ log' = IF file = Torn THEN <<>> ELSE log
  /\ UNCHANGED <<fresh, file, requests, closes, apart, ordered, obeyed>>

TaskStep(t) ==
  \/ Fetch(t) \/ Compare(t) \/ RecordNext(t) \/ Insert(t)
  \/ ReadHistory(t) \/ CutHistory(t) \/ WriteHistory(t) \/ Close(t)

Next ==
  \/ \E c \in Ids : Open(c) \/ Ends(c)
  \/ \E t \in Tasks : Request(t, "poll", Idle) \/ TaskStep(t)
  \/ \E t \in Tasks, c \in Ids : Request(t, "close", c)
  \/ Crash

Spec == Init /\ [][Next]_vars

-----------------------------------------------------------------------------
(***************************************************************************)
(* Properties.                                                             *)
(***************************************************************************)
Quiet == \A t \in Tasks : ~At(t, "write")

\* While no two recordings overlap, whichever requests they belong to, the file
\* is what an atomic log would hold: the newest MaxCount records, in order.
NewestKept == apart /\ Quiet => Entries = Trimmed(log)

\* Between requests every connection the daemon has listed since it started is
\* still remembered or was recorded, even when lists are compared out of order.
NoneForgotten == Running = {} => tracked \subseteq active \cup ToSet(log)

\* Unless a list is compared after a newer one, or a close that failed is
\* recorded all the same, the history holds no connection that is still open.
OnlyClosed == ordered /\ obeyed => ToSet(Entries) \cap open = {}

\* A connection is recorded once when it is found to be gone, and once more for
\* each time it was closed by hand.
OnceEach ==
  ordered => \A c \in Ids :
    Cardinality({i \in DOMAIN log : log[i] = c}) <= 1 + closes[c]
=============================================================================
