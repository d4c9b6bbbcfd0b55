----------------------------- MODULE DaemonProofs -----------------------------
(***************************************************************************)
(* Proofs about Daemon, for every set of processes and of clients.          *)
(***************************************************************************)
EXTENDS Daemon, TLAPS

(***************************************************************************)
(* What makes AloneServes inductive.  A process that has passed its check   *)
(* of the socket has seen no listener, and none can come up next to it,     *)
(* since that one would have to be starting at the same time.               *)
(***************************************************************************)
OneMoves ==
  ~overlap => \A p, q \in Instances : p # q => ~(Moving(p) /\ Moving(q))

ListenerHasFile ==
  ~overlap => \A p \in Instances : Listening(p) => file = p

CheckedIsAlone ==
  ~overlap => \A p, q \in Instances :
    pc[p] \in {"stale", "port", "boot", "unlink"} \cup Binding => ~Listening(q)

HttpGetsPort == ~overlap => \A p \in Instances : http[p] # "failed"

IInv == TypeOK /\ OneMoves /\ ListenerHasFile /\ CheckedIsAlone /\ HttpGetsPort

\* The initial states.
LEMMA InitIInv == Init => IInv
BY NoneAssumption
DEF Init, IInv, TypeOK, OneMoves, ListenerHasFile, CheckedIsAlone, HttpGetsPort,
    Moving, Listening, Starting, Binding, Looping

\* The types are kept by every step.
LEMMA TypeStep == TypeOK /\ [Next]_vars => TypeOK'
<1> SUFFICES ASSUME TypeOK, [Next]_vars PROVE TypeOK'
  OBVIOUS
<1> USE NoneAssumption DEF TypeOK, Starting, Binding, Looping, Goto, NoteOverlap, Alive
<1>1. ASSUME NEW p \in Instances, Exit(p), file' \in Instances \cup {None}
      PROVE  TypeOK'
  BY <1>1 DEF Exit
<1>2. ASSUME NEW p \in Instances, Launch(p) PROVE TypeOK'
  BY <1>2 DEF Launch
<1>3. ASSUME NEW p \in Instances, CheckSocket(p) PROVE TypeOK'
  <2>1. CASE Exit(p)
    BY <1>1, <1>3, <2>1 DEF CheckSocket
  <2>2. CASE ~Exit(p)
    BY <1>3, <2>2 DEF CheckSocket
  <2> QED BY <2>1, <2>2
<1>4. ASSUME NEW p \in Instances, RemoveStale(p) PROVE TypeOK'
  BY <1>4 DEF RemoveStale
<1>5. ASSUME NEW p \in Instances, CheckPort(p) PROVE TypeOK'
  <2>1. CASE Exit(p)
    BY <1>1, <1>5, <2>1 DEF CheckPort
  <2>2. CASE ~Exit(p)
    BY <1>5, <2>2 DEF CheckPort
  <2> QED BY <2>1, <2>2
<1>6. ASSUME NEW p \in Instances, Boot(p) PROVE TypeOK'
  BY <1>6 DEF Boot
<1>7. ASSUME NEW p \in Instances, HttpBind(p) PROVE TypeOK'
  BY <1>7 DEF HttpBind
<1>8. ASSUME NEW p \in Instances, HttpEnds(p) PROVE TypeOK'
  BY <1>8 DEF HttpEnds
<1>9. ASSUME NEW p \in Instances, Unbind(p) PROVE TypeOK'
  BY <1>9 DEF Unbind
<1>10. ASSUME NEW p \in Instances, Bind(p) PROVE TypeOK'
  <2>1. CASE Exit(p)
    BY <1>1, <1>10, <2>1 DEF Bind
  <2>2. CASE ~Exit(p)
    BY <1>10, <2>2 DEF Bind
  <2> QED BY <2>1, <2>2
<1>11. ASSUME NEW p \in Instances, Round(p) PROVE TypeOK'
  BY <1>11 DEF Round
<1>12. ASSUME NEW p \in Instances, Close(p) PROVE TypeOK'
  BY <1>12 DEF Close
<1>13. ASSUME NEW p \in Instances, Unlink(p) PROVE TypeOK'
  BY <1>1, <1>13 DEF Unlink
<1>14. ASSUME NEW p \in Instances, Signal(p) PROVE TypeOK'
  <2>1. CASE Exit(p)
    BY <1>1, <1>14, <2>1 DEF Signal
  <2>2. CASE ~Exit(p)
    <3>1. /\ shutdown' = [shutdown EXCEPT ![p] = TRUE]
          /\ UNCHANGED <<pc, foreground, http, port, file, waiting, overlap>>
      BY <1>14, <2>2 DEF Signal
    <3> QED BY <3>1
  <2> QED BY <2>1, <2>2
<1>15. ASSUME NEW p \in Instances, Crash(p) PROVE TypeOK'
  BY <1>1, <1>15 DEF Crash
<1>16. ASSUME NEW c \in Clients, Connect(c) \/ Disconnected(c) PROVE TypeOK'
  BY <1>16 DEF Connect, Disconnected
<1>17. CASE UNCHANGED vars
  BY <1>17 DEF vars
<1> QED
  BY <1>2, <1>3, <1>4, <1>5, <1>6, <1>7, <1>8, <1>9, <1>10, <1>11, <1>12, <1>13, <1>14,
     <1>15, <1>16, <1>17 DEF Next, Main

\* A move to another place of main() keeps OneMoves, by what overlap records.
LEMMA GotoKeepsOneMoves ==
  ASSUME NEW p \in Instances, NEW l, Goto(p, l)
  PROVE  OneMoves' /\ (~overlap' => ~overlap)
BY DEF Goto, NoteOverlap, OneMoves

\* The end of a process disturbs nothing.
LEMMA ExitKeeps ==
  ASSUME IInv, NEW p \in Instances, Exit(p),
         file' = file \/ pc[p] = "unlink"
  PROVE  OneMoves' /\ ListenerHasFile' /\ CheckedIsAlone' /\ HttpGetsPort'
<1>1. OneMoves' /\ (~overlap' => ~overlap)
  BY GotoKeepsOneMoves DEF Exit
<1>2. \A q \in Instances : pc'[q] = IF q = p THEN "exited" ELSE pc[q]
  BY DEF Exit, Goto, IInv, TypeOK
<1>3. \A q \in Instances : http'[q] = IF q = p THEN "none" ELSE http[q]
  BY DEF Exit, IInv, TypeOK
<1> QED
  BY <1>1, <1>2, <1>3
  DEF IInv, ListenerHasFile, CheckedIsAlone, HttpGetsPort, Listening, Looping, Binding

\* The steps of one process.
LEMMA InstanceStep ==
  ASSUME IInv, NEW p \in Instances,
         Launch(p) \/ Main(p) \/ HttpBind(p) \/ HttpEnds(p) \/ Signal(p) \/ Crash(p)
  PROVE  OneMoves' /\ ListenerHasFile' /\ CheckedIsAlone' /\ HttpGetsPort'
<1> DEFINE Rest == ListenerHasFile' /\ CheckedIsAlone' /\ HttpGetsPort'
<1> USE DEF Listening, Looping, Binding, Starting
<1>a. ASSUME NEW l, Goto(p, l)
      PROVE  /\ OneMoves' /\ (~overlap' => ~overlap)
             /\ \A q \in Instances : pc'[q] = IF q = p THEN l ELSE pc[q]
  BY <1>a, GotoKeepsOneMoves DEF Goto, IInv, TypeOK
<1>b. ASSUME ~overlap, NEW q \in Instances, NEW r \in Instances, q # r,
             pc[q] \in {"stale", "port", "boot", "listen", "bind", "unlink"}
      PROVE  pc[r] \in {"off", "exited"}
  BY <1>b DEF IInv, OneMoves, CheckedIsAlone, TypeOK, Moving
<1>1. CASE Exit(p) /\ (file' = file \/ pc[p] = "unlink")
  BY <1>1, ExitKeeps
<1>2. CASE Launch(p)
  BY <1>2, <1>a DEF Launch, IInv, ListenerHasFile, CheckedIsAlone, HttpGetsPort
<1>3. CASE CheckSocket(p) /\ ~Exit(p)
  <2>1. Goto(p, "port") \/ Goto(p, "stale")
    BY <1>3 DEF CheckSocket
  <2>2. UNCHANGED <<file, http>>
    BY <1>3 DEF CheckSocket
  <2>3. file = None \/ ~Listening(file)
    BY <1>3 DEF CheckSocket
  <2>4. ~overlap => \A q \in Instances : ~Listening(q)
    BY <2>3, NoneAssumption DEF IInv, ListenerHasFile
  <2> QED
    BY <1>a, <2>1, <2>2, <2>4 DEF IInv, ListenerHasFile, CheckedIsAlone, HttpGetsPort
<1>4. CASE RemoveStale(p) \/ Unbind(p)
  BY <1>4, <1>a DEF RemoveStale, Unbind, IInv, ListenerHasFile, CheckedIsAlone, HttpGetsPort
<1>5. CASE CheckPort(p) /\ ~Exit(p)
  BY <1>5, <1>a DEF CheckPort, IInv, ListenerHasFile, CheckedIsAlone, HttpGetsPort
<1>6. CASE Boot(p)
  <2>1. \A q \in Instances : http'[q] = "failed" => http[q] = "failed"
    BY <1>6 DEF Boot, IInv, TypeOK
  <2> QED
    BY <1>6, <1>a, <2>1 DEF Boot, IInv, ListenerHasFile, CheckedIsAlone, HttpGetsPort
<1>7. CASE HttpBind(p)
  <2>1. UNCHANGED <<pc, file, overlap>>
    BY <1>7 DEF HttpBind
  <2>2. ASSUME ~overlap, port # None PROVE FALSE
    <3>1. port \in Instances /\ http[port] = "bound" /\ port # p
      BY <1>7, <2>2 DEF HttpBind, IInv, TypeOK
    <3>2. /\ pc[p] \in {"listen", "bind", "loop", "round", "unlink"}
          /\ pc[port] \in {"listen", "bind", "loop", "round", "unlink"}
      BY <1>7, <3>1 DEF HttpBind, IInv, TypeOK
    <3>3. CASE pc[p] \in {"listen", "bind", "unlink"}
      BY <1>b, <2>2, <3>1, <3>2, <3>3
    <3>4. CASE pc[port] \in {"listen", "bind", "unlink"}
      BY <1>b, <2>2, <3>1, <3>2, <3>4
    <3>5. CASE Listening(p) /\ Listening(port)
      BY <2>2, <3>1, <3>5 DEF IInv, ListenerHasFile
    <3> QED BY <3>2, <3>3, <3>4, <3>5
  <2>3. HttpGetsPort'
    BY <1>7, <2>1, <2>2 DEF HttpBind, IInv, HttpGetsPort, TypeOK
  <2> QED
    BY <2>1, <2>3 DEF IInv, OneMoves, ListenerHasFile, CheckedIsAlone, Moving
<1>8. CASE Bind(p) /\ ~Exit(p)
  <2>1. /\ pc[p] = "bind" /\ file' = p /\ Goto(p, "loop") /\ UNCHANGED http
    BY <1>8 DEF Bind
  <2>2. ~overlap => \A q \in Instances \ {p} : pc[q] \in {"off", "exited"}
    BY <1>b, <2>1
  <2> QED
    BY <1>a, <2>1, <2>2 DEF IInv, ListenerHasFile, CheckedIsAlone, HttpGetsPort
<1>9. CASE Round(p)
  BY <1>9, <1>a DEF Round, IInv, ListenerHasFile, CheckedIsAlone, HttpGetsPort
<1>10. CASE Close(p)
  <2>1. ~overlap => \A q \in Instances \ {p} : ~Listening(q)
    BY <1>10 DEF Close, IInv, ListenerHasFile
  <2> QED
    BY <1>10, <1>a, <2>1 DEF Close, IInv, ListenerHasFile, CheckedIsAlone, HttpGetsPort
<1>11. CASE Signal(p) /\ ~Exit(p)
  BY <1>11
  DEF Signal, IInv, OneMoves, ListenerHasFile, CheckedIsAlone, HttpGetsPort, Moving
<1>12. CASE HttpEnds(p)
  <2>1. \A q \in Instances : http'[q] = "failed" => http[q] = "failed"
    BY <1>12 DEF HttpEnds, IInv, TypeOK
  <2> QED
    BY <1>12, <2>1
    DEF HttpEnds, IInv, OneMoves, ListenerHasFile, CheckedIsAlone, HttpGetsPort, Moving
<1>13. Main(p) => \/ CheckSocket(p) \/ RemoveStale(p) \/ CheckPort(p) \/ Boot(p)
                   \/ Unbind(p) \/ Bind(p) \/ Round(p) \/ Close(p) \/ Unlink(p)
  BY DEF Main
<1>14. ASSUME Exit(p), CheckSocket(p) \/ CheckPort(p) \/ Bind(p) \/ Signal(p) \/ Crash(p)
       PROVE  file' = file
  <2>1. \/ UNCHANGED file
        \/ ~Exit(p)
        \/ Goto(p, "port") \/ Goto(p, "stale") \/ Goto(p, "boot") \/ Goto(p, "loop")
        \/ UNCHANGED pc /\ Alive(p)
    BY <1>14 DEF CheckSocket, CheckPort, Bind, Signal, Crash
  <2>2. pc'[p] = "exited"
    BY <1>14, <1>a DEF Exit
  <2>3. UNCHANGED pc => ~Alive(p)
    BY <2>2 DEF Alive
  <2> QED BY <1>14, <1>a, <2>1, <2>2, <2>3
<1>15. Unlink(p) => Exit(p) /\ pc[p] = "unlink"
  BY DEF Unlink
<1> QED
  BY <1>1, <1>2, <1>3, <1>4, <1>5, <1>6, <1>7, <1>8, <1>9, <1>10, <1>11, <1>13,
     <1>14, <1>15, <1>12 DEF Crash

\* The invariant is kept by every step.
LEMMA NextIInv == IInv /\ [Next]_vars => IInv'
<1> SUFFICES ASSUME IInv, [Next]_vars PROVE IInv'
  OBVIOUS
<1>1. TypeOK'
  BY TypeStep DEF IInv
<1>2. OneMoves' /\ ListenerHasFile' /\ CheckedIsAlone' /\ HttpGetsPort'
  <2>1. ASSUME NEW p \in Instances,
               Launch(p) \/ Main(p) \/ HttpBind(p) \/ HttpEnds(p) \/ Signal(p) \/ Crash(p)
        PROVE  OneMoves' /\ ListenerHasFile' /\ CheckedIsAlone' /\ HttpGetsPort'
    BY <2>1, InstanceStep
  <2>2. ASSUME UNCHANGED <<pc, file, http, overlap>>
        PROVE  OneMoves' /\ ListenerHasFile' /\ CheckedIsAlone' /\ HttpGetsPort'
    BY <2>2
    DEF IInv, OneMoves, ListenerHasFile, CheckedIsAlone, HttpGetsPort, Moving, Listening
  <2>3. ASSUME NEW c \in Clients, Connect(c) \/ Disconnected(c)
        PROVE  UNCHANGED <<pc, file, http, overlap>>
    BY <2>3 DEF Connect, Disconnected
  <2>4. CASE UNCHANGED vars
    BY <2>2, <2>4 DEF vars
  <2> QED BY <2>1, <2>2, <2>3, <2>4 DEF Next
<1> QED BY <1>1, <1>2 DEF IInv

\* The invariant holds in every reachable state.
THEOREM DaemonInvariance == Spec => []IInv
BY InitIInv, NextIInv, PTL DEF Spec

\* The variables keep their types, and only the process that has the HTTP port
\* serves on it.
THEOREM DaemonTypeCorrect == Spec => []TypeOK
<1>1. IInv => TypeOK
  BY DEF IInv
<1> QED BY DaemonInvariance, <1>1, PTL

\* Processes whose starts and stops do not overlap never serve side by side, and
\* the socket file leads to the one that serves, whatever crashed before.
THEOREM DaemonAlone == Spec => []AloneServes
<1>1. IInv => AloneServes
  BY DEF IInv, AloneServes, ListenerHasFile, HttpGetsPort
<1> QED BY DaemonInvariance, <1>1, PTL
=============================================================================
