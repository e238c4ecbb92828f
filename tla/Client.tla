-------------------------------- MODULE Client --------------------------------
(***************************************************************************)
(* The client program (client/client.c): the console, watcher and receiver  *)
(* threads of a connection to a manager, and the notification listener that *)
(* moves the client to the next manager.                                    *)
(*                                                                          *)
(* A connection has three sockets, one for each of its threads, and each    *)
(* thread closes its own.  A thread on its way out adds one to              *)
(* threads_exited; the listener connects again when it reads three.         *)
(***************************************************************************)
EXTENDS Integers

CONSTANTS
    MaxConnections    \* bound: connections that a client makes

ASSUME MaxConnectionsAssumption == MaxConnections \in Nat \ {0}

VARIABLES
    running,            \* the process has not ended
    signal_reconnect,
    signal_shutdown,
    threads_exited,
    loaded,             \* what a thread inside "threads_exited++" has read of it
    connection,         \* the number of the latest connection
    thread,             \* where each thread of each connection is
    socket,             \* the descriptor a thread was given
    owner,              \* whose socket a descriptor denotes
    server,             \* the other end of each connection
    listener,           \* notification_listener
    unresolved,         \* history: the name of a new manager was not resolved
    notices,            \* RECONNECT packets on their way
    sync_dir            \* the directory exists

signals == <<signal_reconnect, signal_shutdown>>
counter == <<threads_exited, loaded>>
vars == <<running, signals, counter, connection, thread, socket, owner, server,
          listener, unresolved, notices, sync_dir>>

Threads == {"console", "watcher", "receiver"}
Connections == 1 .. MaxConnections
Descriptors == 1 .. 3 * MaxConnections
Ours == Connections \X Threads
Unused == <<0, "none">>

Places == {"none", "watch", "loop", "input", "reply", "reading", "exit",
           "close", "count", "store", "done"}
ServerPlaces == {"none", "asked", "open", "leaving", "closed"}
ListenerPlaces == {"loop", "listening", "accepted", "waiting", "connecting", "asking"}

TypeOK ==
    /\ running \in BOOLEAN
    /\ signal_reconnect \in BOOLEAN
    /\ signal_shutdown \in BOOLEAN
    /\ threads_exited \in 0 .. 3
    /\ loaded \in [Threads -> 0 .. 3]
    /\ connection \in Connections
    /\ thread \in [Connections -> [Threads -> Places]]
    /\ socket \in [Connections -> [Threads -> Descriptors]]
    /\ owner \in [Descriptors -> Ours \cup {Unused}]
    /\ server \in [Connections -> ServerPlaces]
    /\ listener \in ListenerPlaces
    /\ unresolved \in BOOLEAN
    /\ notices \in 0 .. MaxConnections
    /\ sync_dir \in BOOLEAN

-----------------------------------------------------------------------------
(* handle_connection.                                                       *)

(* socket() takes the lowest free descriptor.                               *)
Lowest(free) == {d \in free : \A e \in free : d <= e}

Free == {d \in Descriptors : owner[d] = Unused}

(* For the interface, then the one that sends, then the one that receives.  *)
Order == <<"console", "watcher", "receiver">>
FirstThree == [t \in Threads |-> CASE t = "console" -> 1 [] t = "watcher" -> 2 [] OTHER -> 3]

Started == [t \in Threads |-> IF t = "watcher" THEN "watch" ELSE "loop"]

Init ==
    /\ running = TRUE
    /\ signal_reconnect = FALSE
    /\ signal_shutdown = FALSE
    /\ threads_exited = 0
    /\ loaded = [t \in Threads |-> 0]
    /\ connection = 1
    /\ thread = [c \in Connections |-> IF c = 1 THEN Started ELSE [t \in Threads |-> "none"]]
    /\ socket = [c \in Connections |-> FirstThree]
    /\ owner = [d \in Descriptors |-> IF d <= 3 THEN <<1, Order[d]>> ELSE Unused]
    /\ server = [c \in Connections |-> IF c = 1 THEN "open" ELSE "none"]
    /\ listener = "loop"
    /\ unresolved = FALSE
    /\ notices = 0
    /\ sync_dir \in BOOLEAN

-----------------------------------------------------------------------------
(* What the threads share.                                                  *)

At(c, t, place) == running /\ thread[c][t] = place

Goes(c, t, place) == thread' = [thread EXCEPT ![c][t] = place]

Signalled == signal_reconnect \/ signal_shutdown

(* close() of whatever the descriptor denotes by now.  A server that reads  *)
(* the end of an interface connection leaves the session.                   *)
Close(c, t) ==
    LET d == socket[c][t]
        o == owner[d]
    IN  /\ owner' = [owner EXCEPT ![d] = Unused]
        /\ server' = IF o # Unused /\ o[2] = "console" /\ server[o[1]] = "open"
                     THEN [server EXCEPT ![o[1]] = "leaving"] ELSE server

(* Mutant: every thread closes its socket on the way out of its function.   *)
AfterCountCloses(t) == "close"

(* The watcher has closed its socket before it counts itself.               *)
AfterCount(t) == IF t = "watcher" THEN "done" ELSE "close"

AfterClose(t) == IF t = "watcher" THEN "count" ELSE "done"

CountLoads(c, t) ==
    /\ At(c, t, "count")
    /\ loaded' = [loaded EXCEPT ![t] = threads_exited]
    /\ Goes(c, t, "store")
    /\ UNCHANGED <<running, signals, threads_exited, connection, socket, owner, server,
                   listener, unresolved, notices, sync_dir>>

CountStores(c, t) ==
    /\ At(c, t, "store")
    /\ threads_exited' = loaded[t] + 1
    /\ Goes(c, t, AfterCount(t))
    /\ UNCHANGED <<running, signals, loaded, connection, socket, owner, server,
                   listener, unresolved, notices, sync_dir>>

Closes(c, t) ==
    /\ At(c, t, "close")
    /\ Close(c, t)
    /\ Goes(c, t, AfterClose(t))
    /\ UNCHANGED <<running, signals, counter, connection, socket, listener, unresolved,
                   notices, sync_dir>>

-----------------------------------------------------------------------------
(* start_console_input_thread.                                              *)

ConsoleLoop(c) ==
    /\ At(c, "console", "loop")
    /\ Goes(c, "console", IF Signalled THEN "count" ELSE "input")
    /\ UNCHANGED <<running, signals, counter, connection, socket, owner, server,
                   listener, unresolved, notices, sync_dir>>

(* Nothing is typed for half a second, or a command that waits for nobody.  *)
ConsoleIdles(c) ==
    /\ At(c, "console", "input")
    /\ Goes(c, "console", "loop")
    /\ UNCHANGED <<running, signals, counter, connection, socket, owner, server,
                   listener, unresolved, notices, sync_dir>>

ConsoleMakesSyncDir(c) ==
    /\ At(c, "console", "input")
    /\ sync_dir' = TRUE
    /\ Goes(c, "console", "loop")
    /\ UNCHANGED <<running, signals, counter, connection, socket, owner, server,
                   listener, unresolved, notices>>

(* list_server and download send a command and read the reply.              *)
ConsoleAsks(c) ==
    /\ At(c, "console", "input")
    /\ Goes(c, "console", "reply")
    /\ UNCHANGED <<running, signals, counter, connection, socket, owner, server,
                   listener, unresolved, notices, sync_dir>>

(* It comes if the interface thread of the session gets to it: a client     *)
(* that was turned away has none, and one may be blocked elsewhere.         *)
ConsoleReads(c) ==
    /\ At(c, "console", "reply")
    /\ server[c] # "closed"
    /\ Goes(c, "console", "loop")
    /\ UNCHANGED <<running, signals, counter, connection, socket, owner, server,
                   listener, unresolved, notices, sync_dir>>

(* A server that died with the command unread resets the connection; then   *)
(* read_packet returns NULL, and the client dies of it.                     *)
ConsoleReadsEnd(c) ==
    /\ At(c, "console", "reply")
    /\ server[c] = "closed"
    /\ running' \in BOOLEAN
    /\ Goes(c, "console", "loop")
    /\ UNCHANGED <<signals, counter, connection, socket, owner, server, listener,
                   unresolved, notices, sync_dir>>

(* close_client: the signal, then EXIT on the socket.                       *)
ConsoleExits(c) ==
    /\ At(c, "console", "input")
    /\ signal_shutdown' = TRUE
    /\ Goes(c, "console", "exit")
    /\ UNCHANGED <<running, signal_reconnect, counter, connection, socket, owner,
                   server, listener, unresolved, notices, sync_dir>>

(* EXIT that was sent closes the socket for the first time.                 *)
ConsoleSendsExit(c) ==
    /\ At(c, "console", "exit")
    /\ \/ Close(c, "console")
       \/ server[c] = "closed" /\ UNCHANGED <<owner, server>>
    /\ Goes(c, "console", "count")
    /\ UNCHANGED <<running, signals, counter, connection, socket, listener, unresolved,
                   notices, sync_dir>>

-----------------------------------------------------------------------------
(* start_directory_watcher_thread.                                          *)

(* Until the directory is there to be watched; no signal is looked at.      *)
WatcherWatches(c) ==
    /\ At(c, "watcher", "watch")
    /\ sync_dir
    /\ Goes(c, "watcher", "loop")
    /\ UNCHANGED <<running, signals, counter, connection, socket, owner, server,
                   listener, unresolved, notices, sync_dir>>

WatcherLeaves(c) ==
    /\ At(c, "watcher", "loop")
    /\ Signalled
    /\ Goes(c, "watcher", "close")
    /\ UNCHANGED <<running, signals, counter, connection, socket, owner, server,
                   listener, unresolved, notices, sync_dir>>

-----------------------------------------------------------------------------
(* start_file_receiver_thread.                                              *)

ReceiverLoop(c) ==
    /\ At(c, "receiver", "loop")
    /\ Goes(c, "receiver", IF Signalled THEN "count" ELSE "reading")
    /\ UNCHANGED <<running, signals, counter, connection, socket, owner, server,
                   listener, unresolved, notices, sync_dir>>

(* A file or a deletion arrives.                                            *)
ReceiverGets(c) ==
    /\ At(c, "receiver", "reading")
    /\ server[c] # "closed"
    /\ Goes(c, "receiver", IF Signalled THEN "count" ELSE "loop")
    /\ UNCHANGED <<running, signals, counter, connection, socket, owner, server,
                   listener, unresolved, notices, sync_dir>>

ReceiverEnds(c) ==
    /\ At(c, "receiver", "reading")
    /\ server[c] = "closed"
    /\ Goes(c, "receiver", "count")
    /\ UNCHANGED <<running, signals, counter, connection, socket, owner, server,
                   listener, unresolved, notices, sync_dir>>

-----------------------------------------------------------------------------
(* notification_listener.                                                   *)

(* main joins the listener and returns: the process ends.                   *)
ListenerLoop ==
    /\ running
    /\ listener = "loop"
    /\ IF signal_shutdown THEN running' = FALSE /\ UNCHANGED listener
                          ELSE listener' = "listening" /\ UNCHANGED running
    /\ UNCHANGED <<signals, counter, connection, thread, socket, owner, server,
                   unresolved, notices, sync_dir>>

(* For a second; the signal is looked at again afterwards.                  *)
ListenerAccepts ==
    /\ running
    /\ listener = "listening"
    /\ IF notices = 0
       THEN listener' = "loop" /\ UNCHANGED <<notices, signal_reconnect>>
       ELSE /\ notices' = notices - 1
            /\ signal_reconnect' = TRUE
            /\ listener' = "accepted"
    /\ UNCHANGED <<running, signal_shutdown, counter, connection, thread, socket, owner,
                   server, unresolved, sync_dir>>

(* Mutant: a notice that cannot be read is taken back.                      *)
NoticeBrokenUnsignals == listener' = "loop" /\ signal_reconnect' = FALSE

NoticeBroken == listener' = "loop" /\ UNCHANGED signal_reconnect

(* The new manager may be gone before it has written its address.           *)
ListenerReads ==
    /\ running
    /\ listener = "accepted"
    /\ \/ listener' = "waiting" /\ UNCHANGED signal_reconnect
       \/ NoticeBroken
    /\ UNCHANGED <<running, signal_shutdown, counter, connection, thread, socket, owner,
                   server, unresolved, notices, sync_dir>>

(* Mutant: the receiver is not waited for.                                  *)
TwoHaveExited == threads_exited >= 2

(* Mutant: one thread more is waited for.                                   *)
FourHaveExited == threads_exited >= 4

AllHaveExited == threads_exited >= 3

ListenerWaits ==
    /\ running
    /\ listener = "waiting"
    /\ AllHaveExited
    /\ threads_exited' = 0
    /\ listener' = "connecting"
    /\ UNCHANGED <<running, signals, loaded, connection, thread, socket, owner, server,
                   unresolved, notices, sync_dir>>

(* Mutant: the shutdown is taken back with the signal.                      *)
SignalsClearedBoth == signal_reconnect' = FALSE /\ signal_shutdown' = FALSE

SignalsCleared == signal_reconnect' = FALSE /\ UNCHANGED signal_shutdown

(* gethostbyname fails and handle_connection returns: no threads, and the   *)
(* signal stays up (client.c:435-437, 571).                                 *)
ListenerUnresolved ==
    /\ running
    /\ listener = "connecting"
    /\ unresolved' = TRUE
    /\ listener' = "loop"
    /\ UNCHANGED <<running, signals, counter, connection, thread, socket, owner, server,
                   notices, sync_dir>>

(* connect_to_server: the name of the user, then the read of the answer.    *)
ListenerAsks ==
    /\ running
    /\ listener = "connecting"
    /\ connection < MaxConnections
    /\ \E d \in Lowest(Free) :
          /\ socket' = [socket EXCEPT ![connection + 1]["console"] = d]
          /\ owner' = [owner EXCEPT ![d] = <<connection + 1, "console">>]
    /\ server' = [server EXCEPT ![connection + 1] = "asked"]
    /\ listener' = "asking"
    /\ UNCHANGED <<running, signals, counter, connection, thread, unresolved, notices,
                   sync_dir>>

(* With the answer: the other two sockets, and the threads.                 *)
ListenerConnects ==
    /\ running
    /\ listener = "asking"
    /\ connection < MaxConnections
    /\ connection' = connection + 1
    /\ server[connection'] \in {"open", "leaving"}
    /\ \E d \in Lowest(Free) : \E e \in Lowest(Free \ {d}) :
          /\ socket' = [socket EXCEPT ![connection']["watcher"] = d,
                                     ![connection']["receiver"] = e]
          /\ owner' = [owner EXCEPT ![d] = <<connection', "watcher">>,
                                   ![e] = <<connection', "receiver">>]
    /\ thread' = [thread EXCEPT ![connection'] = Started]
    /\ SignalsCleared
    /\ listener' = "loop"
    /\ UNCHANGED <<running, counter, server, unresolved, notices, sync_dir>>

(* The new manager cannot be reached, at first or after its answer or end:  *)
(* exit(EXIT_FAILURE).                                                      *)
ListenerFails ==
    /\ running
    /\ \/ listener = "connecting"
       \/ listener = "asking" /\ \A c \in Connections : server[c] # "asked"
    /\ running' = FALSE
    /\ UNCHANGED <<signals, counter, connection, thread, socket, owner, server, listener,
                   unresolved, notices, sync_dir>>

-----------------------------------------------------------------------------
(* The servers.                                                             *)

(* handle_new_connection answers, once the main thread is through with the  *)
(* client before: it may wait for that one for ever (server.c:116).  An      *)
(* interface socket that the client has closed meanwhile ends the session.  *)
ServerAnswers(c) ==
    /\ running
    /\ server[c] = "asked"
    /\ server' = [server EXCEPT ![c] =
                     IF owner[socket[c]["console"]] = <<c, "console">> THEN "open" ELSE "leaving"]
    /\ UNCHANGED <<running, signals, counter, connection, thread, socket, owner,
                   listener, unresolved, notices, sync_dir>>

(* A manager stops, with all its connections.                               *)
ServerStops(c) ==
    /\ running
    /\ server[c] \in {"asked", "open"}
    /\ server' = [server EXCEPT ![c] = "closed"]
    /\ UNCHANGED <<running, signals, counter, connection, thread, socket, owner,
                   listener, unresolved, notices, sync_dir>>

(* The interface thread of the session closes its sockets.                  *)
ServerLeaves(c) ==
    /\ running
    /\ server[c] = "leaving"
    /\ server' = [server EXCEPT ![c] = "closed"]
    /\ UNCHANGED <<running, signals, counter, connection, thread, socket, owner,
                   listener, unresolved, notices, sync_dir>>

(* notify_clients_of_server_change of a server that was promoted, whether   *)
(* or not the one that this client talks to is gone.                        *)
ServerNotifies ==
    /\ running
    /\ connection + notices + (IF listener \in {"loop", "listening"} THEN 0 ELSE 1) < MaxConnections
    /\ notices' = notices + 1
    /\ UNCHANGED <<running, signals, counter, connection, thread, socket, owner, server,
                   listener, unresolved, sync_dir>>

-----------------------------------------------------------------------------
ExitStep(c, t) == CountLoads(c, t) \/ CountStores(c, t) \/ Closes(c, t)

ConsoleStep(c) ==
    \/ ConsoleLoop(c)
    \/ ConsoleIdles(c)
    \/ ConsoleMakesSyncDir(c)
    \/ ConsoleAsks(c)
    \/ ConsoleReadsEnd(c)
    \/ ConsoleExits(c)
    \/ ConsoleSendsExit(c)

WatcherStep(c) == WatcherWatches(c) \/ WatcherLeaves(c)

ListenerStep ==
    \/ ListenerLoop
    \/ ListenerAccepts
    \/ ListenerWaits
    \/ ListenerUnresolved
    \/ ListenerAsks
    \/ ListenerConnects
    \/ ListenerFails

Next ==
    \/ \E c \in Connections :
          \/ \E t \in Threads : ExitStep(c, t)
          \/ ConsoleStep(c)
          \/ ConsoleReads(c)
          \/ WatcherStep(c)
          \/ ReceiverLoop(c)
          \/ ReceiverGets(c)
          \/ ReceiverEnds(c)
          \/ ServerAnswers(c)
          \/ ServerStops(c)
          \/ ServerLeaves(c)
    \/ ListenerStep
    \/ ListenerReads
    \/ ServerNotifies

Spec == Init /\ [][Next]_vars

(* Every thread of the client gets to run, unless it waits for a server: no *)
(* server owes it an answer, a file, a notice or the end of a connection.   *)
Fairness ==
    /\ \A c \in Connections :
          /\ \A t \in Threads : WF_vars(ExitStep(c, t))
          /\ WF_vars(ConsoleStep(c))
          /\ WF_vars(WatcherStep(c))
          /\ WF_vars(ReceiverLoop(c) \/ ReceiverEnds(c))
    /\ WF_vars(ListenerStep)

FairSpec == Spec /\ Fairness

-----------------------------------------------------------------------------
Counted == {"close", "done"}

(* Threads of two connections never run together: when the listener         *)
(* connects again, each thread of the old connection is past its count,     *)
(* whatever becomes of two increments at once (client.c:565-571).           *)
OneConnection ==
    \A c, d \in Connections : c < d /\ thread[d]["console"] # "none" =>
       /\ \A t \in {"console", "receiver"} : thread[c][t] \in Counted
       /\ thread[c]["watcher"] = "done"

(* A thread that closes its socket closes no other: the descriptor has not  *)
(* been given to the next connection meanwhile, except in a client that is  *)
(* about to exit, whose console closes twice (client.c:225, 273, 306, 365). *)
NoForeignClose ==
    \A c \in Connections, t \in Threads :
       running /\ thread[c][t] = "close" /\ ~signal_shutdown => owner[socket[c][t]] = <<c, t>>

(* A user whose client neither moves nor shuts down has a console           *)
(* (client.c:236, 467, 547).                                                *)
ConsoleServes ==
    running /\ ~Signalled =>
       thread[connection]["console"] \in {"loop", "input", "reply"}

(* Where a client told of a new manager ends up: with a console there,      *)
(* unless the user exits, or never makes the directory that the watcher     *)
(* waits for.                                                               *)
Moved == \/ listener = "loop" /\ ~signal_reconnect
         \/ signal_shutdown
         \/ ~running
         \/ ~sync_dir

(* An increment was lost: fewer exits are counted than threads have passed  *)
(* their count.                                                             *)
CountLost ==
    /\ listener \notin {"connecting", "asking"}
    /\ ~unresolved
    /\ thread[connection]["watcher"] = "done"
    /\ \A t \in {"console", "receiver"} : thread[connection][t] \in Counted
    /\ threads_exited < 3

(* A thread waits for a server, without a timeout: the listener for the     *)
(* address that a notice brings (549) or for the answer of the new manager  *)
(* (416), the console for a reply (131, 188), the receiver for the end of a *)
(* session that the client has left (287).                                  *)
Unanswered ==
    \/ listener = "accepted"
    \/ \E c \in Connections :
          \/ server[c] = "asked"
          \/ thread[c]["console"] = "reply" /\ server[c] # "closed"
          \/ thread[c]["receiver"] = "reading" /\ server[c] = "leaving"

(* "Fecha a conexão antiga ... Chama connect_to_server ... para             *)
(* reestabelecer" (client.c:492-493): a client told of a new manager whose  *)
(* name can be resolved, and which no server lets wait for ever, connects   *)
(* to it, and the user has a console there.                                 *)
Reconnects == listener = "waiting" ~> Moved \/ unresolved \/ []Unanswered

(* It does whenever the three increments at 272, 305 and 367 do not overlap: *)
(* whatever the threads are doing meanwhile, a lost increment, a name that   *)
(* is not resolved and a server that never answers are all that stops it.    *)
MovesUnlessMiscounted ==
    listener = "waiting" ~> Moved \/ unresolved \/ CountLost \/ []Unanswered

(* After "exit" the process ends, even in the middle of a change of manager *)
(* (client.c:214, 529, 607), unless that waits for ever: for a count that   *)
(* was lost, a directory that is never made, or a server.  A name that is   *)
(* not resolved is no reason, since the listener is then back in its loop.  *)
ExitEnds == signal_shutdown ~> ~running \/ CountLost \/ ~sync_dir \/ []Unanswered
=============================================================================
