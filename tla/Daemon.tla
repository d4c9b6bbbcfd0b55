-------------------------------- MODULE Daemon --------------------------------
(***************************************************************************)
(* The life of a ctsvc process (control-tower-service/src/main.rs), its     *)
(* control socket (ipc_server.rs) and the clients of the socket.            *)
(*                                                                          *)
(* A process looks for another one through the socket file, starts Mihomo,  *)
(* spawns the HTTP server, binds the socket and runs the main loop until a  *)
(* signal.  The loop never accepts a connection: it has no call of          *)
(* IpcServer::handle_one, so there is no action that answers a client.      *)
(* Several processes may be launched, one after the other or together.      *)
(***************************************************************************)
EXTENDS FiniteSets

CONSTANTS
  Instances,    \* the processes; each is launched once
  Clients,      \* processes that send a command over the socket
  None

ASSUME NoneAssumption == None \notin Instances

VARIABLES
  pc,           \* where main() is
  foreground,   \* the --foreground flag
  shutdown,     \* SHUTDOWN
  http,         \* the thread of the HTTP server
  port,         \* the process that has the HTTP port
  file,         \* the process that bound the socket file, None without a file
  waiting,      \* the process a client waits on for its answer
  overlap       \* history: two processes were starting or stopping at once

vars == <<pc, foreground, shutdown, http, port, file, waiting, overlap>>

\* Before the signal handlers are registered, and after.
Starting == {"connect", "stale", "port", "boot"}
Binding == {"listen", "bind"}
Looping == {"loop", "round"}

Moving(p) == pc[p] \in Starting \cup Binding \cup {"unlink"}

Alive(p) == pc[p] \notin {"off", "exited"}

\* The listener exists from bind() until IpcServer::stop drops it.
Listening(p) == pc[p] \in Looping

TypeOK ==
  /\ pc \in [Instances -> Starting \cup Binding \cup Looping \cup {"off", "unlink", "exited"}]
  /\ foreground \in [Instances -> BOOLEAN]
  /\ shutdown \in [Instances -> BOOLEAN]
  /\ http \in [Instances -> {"none", "binding", "bound", "failed"}]
  /\ port \in Instances \cup {None}
  /\ file \in Instances \cup {None}
  /\ waiting \in [Clients -> Instances \cup {None}]
  /\ overlap \in BOOLEAN
  /\ \A p \in Instances : http[p] = "bound" <=> port = p
  /\ \A p \in Instances : pc[p] \in {"off", "exited"} \cup Starting => http[p] = "none"
  /\ \A p \in Instances : foreground[p] => http[p] = "none"

-----------------------------------------------------------------------------
Init ==
  /\ pc = [p \in Instances |-> "off"]
  /\ foreground = [p \in Instances |-> FALSE]
  /\ shutdown = [p \in Instances |-> FALSE]
  /\ http = [p \in Instances |-> "none"]
  /\ port = None
  /\ file = None
  /\ waiting = [c \in Clients |-> None]
  /\ overlap = FALSE

\* Two processes are on their way up or down after the step.
NoteOverlap ==
  overlap' = (overlap \/ \E p, q \in Instances : p # q /\ Moving(p)' /\ Moving(q)')

Goto(p, l) == pc' = [pc EXCEPT ![p] = l] /\ NoteOverlap

\* The end of the process, wherever it is: the threads end with it and the
\* sockets are closed; the socket file stays.
Exit(p) ==
  /\ Goto(p, "exited")
  /\ http' = [http EXCEPT ![p] = "none"]
  /\ port' = IF port = p THEN None ELSE port
  /\ UNCHANGED <<foreground, shutdown, waiting>>

(***************************************************************************)
(* The startup checks of main().                                           *)
(***************************************************************************)
Launch(p) ==
  /\ pc[p] = "off"
  /\ Goto(p, "connect")
  /\ \E fg \in BOOLEAN : foreground' = [foreground EXCEPT ![p] = fg]
  /\ UNCHANGED <<shutdown, http, port, file, waiting>>

\* Faulty variant: every file found is taken for a stale one.
CheckSocketNot(p) ==
  /\ pc[p] = "connect"
  /\ Goto(p, IF file = None THEN "port" ELSE "stale")
  /\ UNCHANGED <<foreground, shutdown, http, port, file, waiting>>

CheckSocket(p) ==
  /\ pc[p] = "connect"
  /\ UNCHANGED file
  /\ \/ /\ file # None
        /\ Listening(file)
        /\ Exit(p)
     \/ /\ IF file = None THEN Goto(p, "port") ELSE ~Listening(file) /\ Goto(p, "stale")
        /\ UNCHANGED <<foreground, shutdown, http, port, waiting>>

\* Whatever file is there by now.
RemoveStale(p) ==
  /\ pc[p] = "stale"
  /\ file' = None
  /\ Goto(p, "port")
  /\ UNCHANGED <<foreground, shutdown, http, port, waiting>>

\* Binds the HTTP port and lets it go again.
CheckPort(p) ==
  /\ pc[p] = "port"
  /\ UNCHANGED file
  /\ \/ /\ ~foreground[p]
        /\ port # None
        /\ Exit(p)
     \/ /\ foreground[p] \/ port = None
        /\ Goto(p, "boot")
        /\ UNCHANGED <<foreground, shutdown, http, port, waiting>>

\* Settings, the start of Mihomo, the thread of the HTTP server, the handlers.
Boot(p) ==
  /\ pc[p] = "boot"
  /\ Goto(p, "listen")
  /\ http' = [http EXCEPT ![p] = IF foreground[p] THEN "none" ELSE "binding"]
  /\ UNCHANGED <<foreground, shutdown, port, file, waiting>>

\* Faulty variant: the port is shared.
HttpBindShared(p) ==
  /\ http[p] = "binding"
  /\ port' = p
  /\ http' = [http EXCEPT ![p] = "bound"]
  /\ UNCHANGED <<pc, foreground, shutdown, file, waiting, overlap>>

\* An error of the HTTP server is logged; the process goes on without it.
HttpBind(p) ==
  /\ http[p] = "binding"
  /\ IF port = None
       THEN port' = p /\ http' = [http EXCEPT ![p] = "bound"]
       ELSE http' = [http EXCEPT ![p] = "failed"] /\ UNCHANGED port
  /\ UNCHANGED <<pc, foreground, shutdown, file, waiting, overlap>>

\* The thread ends early: the certificate cannot be read, or actix, which has
\* handlers for the same signals, shuts the server down.
HttpEnds(p) ==
  /\ \/ http[p] = "binding"
     \/ http[p] = "bound" /\ shutdown[p]
  /\ http' = [http EXCEPT ![p] = "none"]
  /\ port' = IF port = p THEN None ELSE port
  /\ UNCHANGED <<pc, foreground, shutdown, file, waiting, overlap>>

(***************************************************************************)
(* run_server.                                                             *)
(***************************************************************************)
\* IpcServer::start removes a file that exists ...
Unbind(p) ==
  /\ pc[p] = "listen"
  /\ file' = None
  /\ Goto(p, "bind")
  /\ UNCHANGED <<foreground, shutdown, http, port, waiting>>

\* ... and binds; main() returns the error when there is one again.
Bind(p) ==
  /\ pc[p] = "bind"
  /\ \/ /\ file # None
        /\ Exit(p)
        /\ UNCHANGED file
     \/ /\ file = None
        /\ file' = p
        /\ Goto(p, "loop")
        /\ UNCHANGED <<foreground, shutdown, http, port, waiting>>

\* Once a minute: scheduled updates, latency test, provider refresh.
Round(p) ==
  /\ \/ pc[p] = "loop" /\ ~shutdown[p] /\ Goto(p, "round")
     \/ pc[p] = "round" /\ Goto(p, "loop")
  /\ UNCHANGED <<foreground, shutdown, http, port, file, waiting>>

\* Faulty variant: the listener stays until no client waits any more.
CloseWhenIdle(p) ==
  /\ pc[p] = "loop"
  /\ shutdown[p]
  /\ \A c \in Clients : waiting[c] # p
  /\ Goto(p, "unlink")
  /\ UNCHANGED <<foreground, shutdown, http, port, file, waiting>>

\* IpcServer::stop drops the listener ...
Close(p) ==
  /\ pc[p] = "loop"
  /\ shutdown[p]
  /\ Goto(p, "unlink")
  /\ UNCHANGED <<foreground, shutdown, http, port, file, waiting>>

\* ... and removes the file of that name; main() returns.
Unlink(p) ==
  /\ pc[p] = "unlink"
  /\ file' = None
  /\ Exit(p)

(***************************************************************************)
(* Signals and clients.                                                    *)
(***************************************************************************)
\* SIGTERM or SIGINT; without a handler it ends the process.
Signal(p) ==
  \/ pc[p] \in Starting /\ Exit(p) /\ UNCHANGED file
  \/ /\ Alive(p)
     /\ pc[p] \notin Starting
     /\ shutdown' = [shutdown EXCEPT ![p] = TRUE]
     /\ UNCHANGED <<pc, foreground, http, port, file, waiting, overlap>>

\* SIGKILL or a panic: the file is left behind.
Crash(p) ==
  /\ Alive(p)
  /\ Exit(p)
  /\ UNCHANGED file

\* ipc_connect_and_send of ctctl; it fails at once without a listener.
Connect(c) ==
  /\ waiting[c] = None
  /\ file # None
  /\ Listening(file)
  /\ waiting' = [waiting EXCEPT ![c] = file]
  /\ UNCHANGED <<pc, foreground, shutdown, http, port, file, overlap>>

\* The connection ends with the listener; the client returns an error.
Disconnected(c) ==
  /\ waiting[c] # None
  /\ ~Listening(waiting[c])
  /\ waiting' = [waiting EXCEPT ![c] = None]
  /\ UNCHANGED <<pc, foreground, shutdown, http, port, file, overlap>>

-----------------------------------------------------------------------------
Main(p) ==
  \/ CheckSocket(p) \/ RemoveStale(p) \/ CheckPort(p) \/ Boot(p)
  \/ Unbind(p) \/ Bind(p) \/ Round(p) \/ Close(p) \/ Unlink(p)

Next ==
  \/ \E p \in Instances :
       Launch(p) \/ Main(p) \/ HttpBind(p) \/ HttpEnds(p) \/ Signal(p) \/ Crash(p)
  \/ \E c \in Clients : Connect(c) \/ Disconnected(c)

Spec == Init /\ [][Next]_vars

\* main() goes on: the start of Mihomo and every round of the loop end, since
\* their requests have timeouts.  A client sees its connection close.
FairSpec ==
  /\ Spec
  /\ \A p \in Instances : WF_vars(Main(p))
  /\ \A c \in Clients : WF_vars(Disconnected(c))

-----------------------------------------------------------------------------
(***************************************************************************)
(* Properties.                                                             *)
(***************************************************************************)
\* As long as no two processes were starting or stopping at once, and whatever
\* crashed and left its file behind: one process listens at most, the socket
\* file leads to it, and its HTTP server gets the port.
AloneServes ==
  ~overlap =>
    \A p \in Instances :
      /\ Listening(p) => file = p
      /\ Listening(p) => \A q \in Instances \ {p} : ~Listening(q)
      /\ http[p] # "failed"

\* A signalled process ends, even when clients wait for an answer.
ShutdownEnds == \A p \in Instances : shutdown[p] ~> pc[p] = "exited"

\* Its clients return.
ClientsReturn ==
  \A p \in Instances, c \in Clients :
    waiting[c] = p /\ shutdown[p] ~> waiting[c] # p

\* e2e_test.rs says that a Status command over the socket succeeds: a client
\* that has connected does not wait for ever.
StatusAnswered == \A c \in Clients : waiting[c] # None ~> waiting[c] = None
=============================================================================
