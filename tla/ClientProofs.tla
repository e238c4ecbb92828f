----------------------------- MODULE ClientProofs -----------------------------
(***************************************************************************)
(* What is proved of the client for every number of connections: its types, *)
(* that the threads of two connections never run together, that no thread   *)
(* closes a socket that is not its own, and that a user who is neither      *)
(* moved nor leaving has a console.                                         *)
(*                                                                          *)
(* The argument counts: threads_exited never exceeds the number of threads  *)
(* of the latest connection that are past their count, even when two of     *)
(* them read it before either writes it, so three in it means all three.    *)
(***************************************************************************)
EXTENDS Client, TLAPS

(* A thread that has counted itself.                                        *)
Past(c, t) == thread[c][t] = "done" \/ (t # "watcher" /\ thread[c][t] = "close")

One(c, t) == IF Past(c, t) THEN 1 ELSE 0

Passed(c) == One(c, "console") + One(c, "watcher") + One(c, "receiver")

(* A thread that still has to close its socket.                             *)
Holds(c, t) ==
    thread[c][t] \notin (IF t = "watcher" THEN {"none", "count", "store", "done"}
                                          ELSE {"none", "done"})

Numbered ==
    \A c \in Connections, t \in Threads : thread[c][t] = "none" <=> c > connection

EarlierPast ==
    \A c \in Connections, t \in Threads : c < connection => Past(c, t)

CountIsHonest ==
    /\ threads_exited <= Passed(connection)
    /\ \A c \in Connections, t \in Threads :
          thread[c][t] = "store" => loaded[t] <= Passed(connection)

ConnectingWhenPast ==
    listener \in {"connecting", "asking"} =>
       /\ threads_exited = 0
       /\ \A t \in Threads : Past(connection, t)

HoldersOwn ==
    ~signal_shutdown =>
       \A c \in Connections, t \in Threads :
          Holds(c, t) => owner[socket[c][t]] = <<c, t>>

(* The interface socket of the connection that is being made.               *)
AskingOwns ==
    listener = "asking" /\ ~signal_shutdown /\ connection < MaxConnections =>
       owner[socket[connection + 1]["console"]] = <<connection + 1, "console">>

ConsoleSignalled ==
    /\ thread[connection]["console"] \notin {"watch", "reading"}
    /\ thread[connection]["console"] \in {"exit", "count", "store", "close", "done"} => Signalled
    /\ \A c \in Connections : thread[c]["console"] = "exit" => signal_shutdown

IndInv ==
    /\ TypeOK
    /\ Numbered
    /\ EarlierPast
    /\ CountIsHonest
    /\ ConnectingWhenPast
    /\ HoldersOwn
    /\ AskingOwns
    /\ ConsoleSignalled

(* What moves in the middle of a thread's life leaves the invariant alone.  *)
LEMMA QuietMove ==
    ASSUME IndInv,
           NEW c \in Connections, NEW t \in Threads, NEW p \in Places,
           thread[c][t] \notin {"none", "done", "close", "store"},
           p \notin {"none", "done", "store", "watch"},
           p = "close" => t = "watcher",
           t = "watcher" => p \in {"loop", "close"} /\ thread[c][t] # "count",
           t = "console" => p # "reading" /\ (p = "count" => Signalled) /\ p # "exit",
           Goes(c, t, p),
           UNCHANGED <<signals, counter, connection, socket, owner, server, listener, unresolved,
                       notices>>,
           running' \in BOOLEAN, sync_dir' \in BOOLEAN
    PROVE  IndInv'
<1> USE DEF Threads
<1>1. TypeOK'
  BY DEF IndInv, TypeOK, Goes, signals, counter
<1>2. Numbered'
  BY DEF IndInv, TypeOK, Numbered, Goes, signals, counter
<1>3. \A d \in Connections, u \in Threads : Past(d, u)' <=> Past(d, u)
  BY DEF IndInv, TypeOK, Past, Goes
<1>4. EarlierPast'
  BY <1>3 DEF IndInv, EarlierPast
<1>5. Passed(connection)' = Passed(connection)
  BY <1>3 DEF IndInv, TypeOK, Passed, One
<1>6. CountIsHonest'
  BY <1>5 DEF IndInv, TypeOK, CountIsHonest, Goes, counter
<1>7. ConnectingWhenPast'
  BY <1>3 DEF IndInv, TypeOK, ConnectingWhenPast, counter
<1>8. HoldersOwn'
  BY DEF IndInv, TypeOK, HoldersOwn, Holds, Goes, signals
<1>9. ConsoleSignalled'
  BY DEF IndInv, TypeOK, ConsoleSignalled, Goes, signals, Signalled
<1>10. AskingOwns'
  BY DEF IndInv, AskingOwns, signals
<1> QED BY <1>1, <1>2, <1>4, <1>6, <1>7, <1>8, <1>9, <1>10 DEF IndInv

(* A thread that is not past its count belongs to the latest connection.    *)
LEMMA CurrentThread ==
    ASSUME IndInv, NEW c \in Connections, NEW t \in Threads,
           thread[c][t] # "none", ~Past(c, t)
    PROVE  c = connection
BY DEF IndInv, TypeOK, Numbered, EarlierPast, Connections

(* One thread more has counted itself.                                      *)
LEMMA OneMorePassed ==
    ASSUME IndInv, NEW t \in Threads, ~Past(connection, t),
           Goes(connection, t, AfterCount(t)), connection' = connection
    PROVE  /\ Passed(connection)' = Passed(connection) + 1
           /\ Passed(connection) \in 0 .. 2
           /\ Past(connection, t)'
           /\ \A c \in Connections, u \in Threads :
                 c # connection \/ u # t => (Past(c, u)' <=> Past(c, u))
BY DEF IndInv, TypeOK, Threads, Goes, AfterCount, Past, Passed, One, Places

LEMMA CountLoadsKeeps ==
    ASSUME IndInv, NEW c \in Connections, NEW t \in Threads, CountLoads(c, t)
    PROVE  IndInv'
<1>1. thread[c][t] = "count" /\ ~Past(c, t)
  BY DEF CountLoads, At, Past
<1>2. c = connection
  BY <1>1, CurrentThread
<1>3. \A d \in Connections, u \in Threads : Past(d, u)' <=> Past(d, u)
  BY <1>1 DEF IndInv, TypeOK, Past, CountLoads, Goes
<1>4. Passed(connection)' = Passed(connection)
  BY <1>3 DEF IndInv, TypeOK, Passed, One, Threads, CountLoads
<1>5. TypeOK'
  BY DEF IndInv, TypeOK, CountLoads, Goes, signals, Places
<1>6. Numbered'
  BY <1>1 DEF IndInv, TypeOK, Numbered, CountLoads, Goes
<1>7. EarlierPast'
  BY <1>3 DEF IndInv, EarlierPast, CountLoads
<1>8. CountIsHonest'
  <2>1. threads_exited' <= Passed(connection)'
    BY <1>4 DEF IndInv, CountIsHonest, CountLoads
  <2>2. ASSUME NEW d \in Connections, NEW u \in Threads, thread'[d][u] = "store"
        PROVE  loaded'[u] <= Passed(connection)'
    <3>1. CASE u = t
      BY <3>1, <1>4 DEF IndInv, TypeOK, CountIsHonest, CountLoads
    <3>2. CASE u # t
      BY <3>2, <2>2, <1>4 DEF IndInv, TypeOK, CountIsHonest, CountLoads, Goes
    <3> QED BY <3>1, <3>2
  <2> QED BY <2>1, <2>2 DEF CountIsHonest
<1>9. ConnectingWhenPast'
  BY <1>1, <1>2 DEF IndInv, ConnectingWhenPast, CountLoads
<1>10. HoldersOwn'
  BY <1>1 DEF IndInv, TypeOK, HoldersOwn, Holds, CountLoads, Goes, signals
<1>11. ConsoleSignalled'
  BY <1>1, <1>2 DEF IndInv, TypeOK, ConsoleSignalled, CountLoads, Goes, signals, Signalled
<1>12. AskingOwns'
  BY DEF IndInv, AskingOwns, CountLoads, signals
<1> QED BY <1>5, <1>6, <1>7, <1>8, <1>9, <1>10, <1>11, <1>12 DEF IndInv

LEMMA CountStoresKeeps ==
    ASSUME IndInv, NEW c \in Connections, NEW t \in Threads, CountStores(c, t)
    PROVE  IndInv'
<1>1. thread[c][t] = "store" /\ ~Past(c, t)
  BY DEF CountStores, At, Past
<1>2. c = connection
  BY <1>1, CurrentThread
<1>3. connection' = connection /\ Goes(connection, t, AfterCount(t))
  BY <1>2 DEF CountStores
<1>4. /\ Passed(connection)' = Passed(connection) + 1
      /\ Passed(connection) \in 0 .. 2
      /\ Past(connection, t)'
      /\ \A d \in Connections, u \in Threads :
            d # connection \/ u # t => (Past(d, u)' <=> Past(d, u))
  BY <1>1, <1>2, <1>3, OneMorePassed
<1>5. loaded[t] <= Passed(connection) /\ loaded[t] \in 0 .. 3
  BY <1>1 DEF IndInv, TypeOK, CountIsHonest
<1>6. AfterCount(t) \in {"done", "close"} /\ (t = "watcher" => AfterCount(t) = "done")
  BY DEF AfterCount
<1>7. TypeOK'
  BY <1>4, <1>5, <1>6 DEF IndInv, TypeOK, CountStores, Goes, signals, Places
<1>8. Numbered'
  BY <1>1, <1>6 DEF IndInv, TypeOK, Numbered, CountStores, Goes
<1>9. EarlierPast'
  BY <1>3, <1>4 DEF IndInv, TypeOK, EarlierPast, Connections
<1>10. CountIsHonest'
  <2>1. threads_exited' <= Passed(connection)'
    BY <1>4, <1>5 DEF CountStores
  <2>2. ASSUME NEW d \in Connections, NEW u \in Threads, thread'[d][u] = "store"
        PROVE  loaded'[u] <= Passed(connection)'
    <3>1. thread[d][u] = "store"
      BY <2>2, <1>6 DEF IndInv, TypeOK, CountStores, Goes
    <3> QED BY <3>1, <1>4 DEF IndInv, TypeOK, CountIsHonest, CountStores
  <2> QED BY <2>1, <2>2 DEF CountIsHonest
<1>11. ConnectingWhenPast'
  BY <1>1, <1>2 DEF IndInv, ConnectingWhenPast, CountStores
<1>12. HoldersOwn'
  BY <1>1, <1>6 DEF IndInv, TypeOK, HoldersOwn, Holds, CountStores, Goes, signals
<1>13. ConsoleSignalled'
  BY <1>1, <1>2, <1>6 DEF IndInv, TypeOK, ConsoleSignalled, CountStores, Goes, signals, Signalled
<1>14. AskingOwns'
  BY DEF IndInv, AskingOwns, CountStores, signals
<1> QED BY <1>7, <1>8, <1>9, <1>10, <1>11, <1>12, <1>13, <1>14 DEF IndInv

(* What close() does to the table of descriptors.                           *)
LEMMA CloseTypes ==
    ASSUME TypeOK, NEW c \in Connections, NEW t \in Threads, Close(c, t)
    PROVE  /\ owner' \in [Descriptors -> Ours \cup {Unused}]
           /\ server' \in [Connections -> ServerPlaces]
<1> DEFINE o == owner[socket[c][t]]
<1>1. o \in Ours \cup {Unused}
  BY DEF TypeOK
<1>2. CASE o = Unused
  BY <1>1, <1>2 DEF TypeOK, Close
<1>3. CASE o # Unused
  <2>1. o[1] \in Connections
    BY <1>1, <1>3 DEF Ours
  <2> QED BY <2>1 DEF TypeOK, Close, ServerPlaces
<1> QED BY <1>2, <1>3

LEMMA ClosesKeeps ==
    ASSUME IndInv, NEW c \in Connections, NEW t \in Threads, Closes(c, t)
    PROVE  IndInv'
<1>1. thread[c][t] = "close" /\ thread' = [thread EXCEPT ![c][t] = AfterClose(t)]
  BY DEF Closes, At, Goes
<1>2. AfterClose(t) \in {"count", "done"} /\ (AfterClose(t) = "count" <=> t = "watcher")
  BY DEF AfterClose
<1>3. \A d \in Connections, u \in Threads : Past(d, u)' <=> Past(d, u)
  BY <1>1, <1>2 DEF IndInv, TypeOK, Past
<1>4. Passed(connection)' = Passed(connection)
  BY <1>3 DEF IndInv, TypeOK, Passed, One, Threads, Closes
<1>5. TypeOK'
  BY <1>1, <1>2, CloseTypes DEF IndInv, TypeOK, Closes, signals, counter, Places
<1>6. Numbered'
  BY <1>1, <1>2 DEF IndInv, TypeOK, Numbered, Closes
<1>7. EarlierPast'
  BY <1>3 DEF IndInv, EarlierPast, Closes
<1>8. CountIsHonest'
  BY <1>1, <1>2, <1>4 DEF IndInv, TypeOK, CountIsHonest, Closes, counter
<1>9. ConnectingWhenPast'
  BY <1>3 DEF IndInv, TypeOK, ConnectingWhenPast, Closes, counter
<1>10. HoldersOwn'
  <2> SUFFICES ASSUME ~signal_shutdown, NEW d \in Connections, NEW u \in Threads,
                      Holds(d, u)'
               PROVE  owner'[socket[d][u]] = <<d, u>>
    BY DEF HoldersOwn, Closes, signals
  <2>1. Holds(d, u) /\ (d # c \/ u # t)
    BY <1>1, <1>2 DEF IndInv, TypeOK, Holds
  <2>2. owner[socket[d][u]] = <<d, u>>
    BY <2>1 DEF IndInv, HoldersOwn
  <2>3. Holds(c, t)
    BY <1>1 DEF Holds
  <2>4. owner[socket[c][t]] = <<c, t>>
    BY <2>3 DEF IndInv, HoldersOwn
  <2>5. socket[d][u] # socket[c][t]
    BY <2>1, <2>2, <2>4
  <2> QED BY <2>2, <2>5 DEF IndInv, TypeOK, Closes, Close
<1>11. ConsoleSignalled'
  BY <1>1, <1>2 DEF IndInv, TypeOK, ConsoleSignalled, Closes, signals, Signalled
<1>12. AskingOwns'
  <2> SUFFICES ASSUME listener = "asking", ~signal_shutdown, connection < MaxConnections
               PROVE  owner'[socket[connection + 1]["console"]] = <<connection + 1, "console">>
    BY DEF AskingOwns, Closes, signals
  <2> DEFINE d == socket[connection + 1]["console"]
  <2>1. owner[d] = <<connection + 1, "console">>
    BY DEF IndInv, AskingOwns
  <2>2. owner[socket[c][t]] = <<c, t>>
    <3>1. Holds(c, t)
      BY <1>1 DEF Holds
    <3> QED BY <3>1 DEF IndInv, HoldersOwn
  <2>3. c # connection + 1
    BY <1>1 DEF IndInv, TypeOK, Numbered, Connections
  <2>4. d # socket[c][t]
    BY <2>1, <2>2, <2>3
  <2>5. connection + 1 \in Connections
    BY MaxConnectionsAssumption DEF IndInv, TypeOK, Connections
  <2>6. d \in Descriptors
    BY <2>5 DEF IndInv, TypeOK, Threads
  <2> QED BY <2>1, <2>4, <2>6 DEF IndInv, TypeOK, Closes, Close
<1> QED BY <1>5, <1>6, <1>7, <1>8, <1>9, <1>10, <1>11, <1>12 DEF IndInv

LEMMA ConsoleKeeps ==
    ASSUME IndInv, NEW c \in Connections, ConsoleStep(c)
    PROVE  IndInv'
<1>1. CASE ConsoleLoop(c)
  <2> DEFINE p == IF Signalled THEN "count" ELSE "input"
  <2>1. /\ p \in Places \ {"none", "done", "store", "watch", "close", "exit", "reading"}
        /\ p = "count" => Signalled
    BY DEF Places
  <2> QED BY <1>1, <2>1, QuietMove DEF ConsoleLoop, At, IndInv, TypeOK, Threads
<1>2. CASE ConsoleIdles(c)
  BY <1>2, QuietMove DEF ConsoleIdles, At, IndInv, TypeOK, Threads, Places
<1>3. CASE ConsoleMakesSyncDir(c)
  BY <1>3, QuietMove DEF ConsoleMakesSyncDir, At, IndInv, TypeOK, Threads, Places
<1>4. CASE ConsoleAsks(c)
  BY <1>4, QuietMove DEF ConsoleAsks, At, IndInv, TypeOK, Threads, Places
<1>5. CASE ConsoleReadsEnd(c)
  BY <1>5, QuietMove DEF ConsoleReadsEnd, At, IndInv, TypeOK, Threads, Places
<1>6. CASE ConsoleExits(c)
  <2>1. /\ thread[c]["console"] = "input"
        /\ thread' = [thread EXCEPT ![c]["console"] = "exit"]
        /\ signal_shutdown' = TRUE
    BY <1>6 DEF ConsoleExits, At, Goes
  <2>2. \A d \in Connections, u \in Threads : Past(d, u)' <=> Past(d, u)
    BY <2>1 DEF IndInv, TypeOK, Past
  <2>3. Passed(connection)' = Passed(connection)
    BY <2>2, <1>6 DEF IndInv, TypeOK, Passed, One, Threads, ConsoleExits
  <2>4. TypeOK'
    BY <1>6 DEF IndInv, TypeOK, ConsoleExits, Goes, counter, Places
  <2>5. Numbered'
    BY <2>1, <1>6 DEF IndInv, TypeOK, Numbered, ConsoleExits
  <2>6. EarlierPast'
    BY <2>2, <1>6 DEF IndInv, EarlierPast, ConsoleExits
  <2>7. CountIsHonest'
    BY <2>1, <2>3, <1>6 DEF IndInv, TypeOK, CountIsHonest, ConsoleExits, counter
  <2>8. ConnectingWhenPast'
    BY <2>2, <1>6 DEF IndInv, TypeOK, ConnectingWhenPast, ConsoleExits, counter
  <2>9. HoldersOwn' /\ AskingOwns' /\ ConsoleSignalled'
    BY <2>1, <1>6
    DEF IndInv, TypeOK, HoldersOwn, AskingOwns, ConsoleSignalled, Signalled, ConsoleExits
  <2> QED BY <2>4, <2>5, <2>6, <2>7, <2>8, <2>9 DEF IndInv
<1>7. CASE ConsoleSendsExit(c)
  <2>1. /\ thread[c]["console"] = "exit"
        /\ thread' = [thread EXCEPT ![c]["console"] = "count"]
    BY <1>7 DEF ConsoleSendsExit, At, Goes
  <2>2. signal_shutdown /\ signal_shutdown'
    BY <2>1, <1>7 DEF IndInv, ConsoleSignalled, ConsoleSendsExit, signals
  <2>3. \A d \in Connections, u \in Threads : Past(d, u)' <=> Past(d, u)
    BY <2>1 DEF IndInv, TypeOK, Past
  <2>4. Passed(connection)' = Passed(connection)
    BY <2>3, <1>7 DEF IndInv, TypeOK, Passed, One, Threads, ConsoleSendsExit
  <2>5. TypeOK'
    <3>1. /\ owner' \in [Descriptors -> Ours \cup {Unused}]
          /\ server' \in [Connections -> ServerPlaces]
      BY <1>7, CloseTypes DEF IndInv, TypeOK, ConsoleSendsExit, Threads
    <3> QED BY <3>1, <2>1, <1>7 DEF IndInv, TypeOK, ConsoleSendsExit, signals, counter, Places
  <2>6. Numbered'
    BY <2>1, <1>7 DEF IndInv, TypeOK, Numbered, ConsoleSendsExit
  <2>7. EarlierPast'
    BY <2>3, <1>7 DEF IndInv, EarlierPast, ConsoleSendsExit
  <2>8. CountIsHonest'
    BY <2>1, <2>4, <1>7 DEF IndInv, TypeOK, CountIsHonest, ConsoleSendsExit, counter
  <2>9. ConnectingWhenPast'
    BY <2>3, <1>7 DEF IndInv, TypeOK, ConnectingWhenPast, ConsoleSendsExit, counter
  <2>10. HoldersOwn' /\ AskingOwns' /\ ConsoleSignalled'
    BY <2>1, <2>2, <1>7
    DEF IndInv, TypeOK, HoldersOwn, AskingOwns, ConsoleSignalled, Signalled, ConsoleSendsExit
  <2> QED BY <2>5, <2>6, <2>7, <2>8, <2>9, <2>10 DEF IndInv
<1> QED BY <1>1, <1>2, <1>3, <1>4, <1>5, <1>6, <1>7 DEF ConsoleStep

LEMMA ReplyKeeps ==
    ASSUME IndInv, NEW c \in Connections, ConsoleReads(c)
    PROVE  IndInv'
BY QuietMove DEF ConsoleReads, At, IndInv, TypeOK, Threads, Places

LEMMA WatcherKeeps ==
    ASSUME IndInv, NEW c \in Connections, WatcherStep(c)
    PROVE  IndInv'
<1>1. CASE WatcherWatches(c)
  BY <1>1, QuietMove DEF WatcherWatches, At, IndInv, TypeOK, Threads, Places
<1>2. CASE WatcherLeaves(c)
  BY <1>2, QuietMove DEF WatcherLeaves, At, IndInv, TypeOK, Threads, Places
<1> QED BY <1>1, <1>2 DEF WatcherStep

LEMMA ReceiverKeeps ==
    ASSUME IndInv, NEW c \in Connections,
           ReceiverLoop(c) \/ ReceiverGets(c) \/ ReceiverEnds(c)
    PROVE  IndInv'
<1>1. CASE ReceiverLoop(c)
  <2> DEFINE p == IF Signalled THEN "count" ELSE "reading"
  <2>1. p \in Places \ {"none", "done", "store", "watch", "close"}
    BY DEF Places
  <2> QED BY <1>1, <2>1, QuietMove DEF ReceiverLoop, At, IndInv, TypeOK, Threads
<1>2. CASE ReceiverGets(c)
  <2> DEFINE p == IF Signalled THEN "count" ELSE "loop"
  <2>1. p \in Places \ {"none", "done", "store", "watch", "close"}
    BY DEF Places
  <2> QED BY <1>2, <2>1, QuietMove DEF ReceiverGets, At, IndInv, TypeOK, Threads
<1>3. CASE ReceiverEnds(c)
  BY <1>3, QuietMove DEF ReceiverEnds, At, IndInv, TypeOK, Threads, Places
<1> QED BY <1>1, <1>2, <1>3

(* Steps of the listener and the servers that move no thread.               *)
LEMMA ThreadsStill ==
    ASSUME IndInv,
           UNCHANGED <<counter, connection, thread, socket, owner, signal_shutdown>>,
           signal_reconnect' \in BOOLEAN, signal_reconnect => signal_reconnect',
           running' \in BOOLEAN, server' \in [Connections -> ServerPlaces],
           listener' \in ListenerPlaces, unresolved' \in BOOLEAN,
           listener' \in {"connecting", "asking"} => listener' = listener,
           notices' \in 0 .. MaxConnections, sync_dir' \in BOOLEAN
    PROVE  IndInv'
<1>1. \A d \in Connections, u \in Threads : Past(d, u)' <=> Past(d, u)
  BY DEF Past
<1>2. Passed(connection)' = Passed(connection)
  BY DEF Passed, One, Past
<1>3. TypeOK' /\ Numbered' /\ EarlierPast' /\ CountIsHonest' /\ ConnectingWhenPast'
  BY <1>1, <1>2 DEF IndInv, TypeOK, Numbered, EarlierPast, CountIsHonest,
                    ConnectingWhenPast, counter
<1>4. HoldersOwn' /\ AskingOwns' /\ ConsoleSignalled'
  BY DEF IndInv, HoldersOwn, Holds, AskingOwns, ConsoleSignalled, Signalled
<1> QED BY <1>3, <1>4 DEF IndInv

LEMMA ServerKeeps ==
    ASSUME IndInv,
           ServerNotifies \/ \E c \in Connections :
                                ServerAnswers(c) \/ ServerStops(c) \/ ServerLeaves(c)
    PROVE  IndInv'
<1>1. CASE ServerNotifies
  <2>1. notices' \in 0 .. MaxConnections
    BY <1>1, MaxConnectionsAssumption DEF IndInv, TypeOK, ServerNotifies, Connections
  <2> QED BY <1>1, <2>1, ThreadsStill DEF ServerNotifies, IndInv, TypeOK, signals
<1>2. CASE \E c \in Connections : ServerAnswers(c) \/ ServerStops(c) \/ ServerLeaves(c)
  <2>1. server' \in [Connections -> ServerPlaces]
    BY <1>2 DEF IndInv, TypeOK, ServerAnswers, ServerStops, ServerLeaves, ServerPlaces
  <2> QED BY <1>2, <2>1, ThreadsStill
      DEF ServerAnswers, ServerStops, ServerLeaves, IndInv, TypeOK, signals
<1> QED BY <1>1, <1>2

(* Three in threads_exited means that every thread is past its count.       *)
LEMMA WaitsKeeps ==
    ASSUME IndInv, ListenerWaits
    PROVE  IndInv'
<1>1. Passed(connection) >= 3
  BY DEF IndInv, TypeOK, CountIsHonest, ListenerWaits, AllHaveExited, Passed, One
<1>2. \A t \in Threads : Past(connection, t)
  BY <1>1 DEF Passed, One, Threads
<1>3. \A d \in Connections, u \in Threads : Past(d, u)' <=> Past(d, u)
  BY DEF Past, ListenerWaits
<1>4. Passed(connection)' = Passed(connection)
  BY DEF Passed, One, Past, ListenerWaits
<1>5. TypeOK'
  BY DEF IndInv, TypeOK, ListenerWaits, signals, ListenerPlaces
<1>6. Numbered' /\ EarlierPast'
  BY <1>3 DEF IndInv, Numbered, EarlierPast, ListenerWaits
<1>7. CountIsHonest'
  BY <1>1, <1>4 DEF IndInv, CountIsHonest, ListenerWaits, Passed, One
<1>8. ConnectingWhenPast'
  BY <1>2 DEF ConnectingWhenPast, Past, ListenerWaits
<1>9. HoldersOwn' /\ AskingOwns' /\ ConsoleSignalled'
  BY DEF IndInv, HoldersOwn, Holds, AskingOwns, ConsoleSignalled, Signalled, ListenerWaits,
         signals
<1> QED BY <1>5, <1>6, <1>7, <1>8, <1>9 DEF IndInv

(* A descriptor that was free belongs to nobody, so that giving it away     *)
(* takes it from nobody.                                                    *)
LEMMA FreeIsNobodys ==
    ASSUME IndInv, NEW c \in Connections, NEW t \in Threads, NEW d \in Free,
           owner[d] = <<c, t>>
    PROVE  FALSE
BY DEF Free, Unused, Threads

(* The interface socket of the new connection.                              *)
LEMMA AsksKeeps ==
    ASSUME IndInv, ListenerAsks
    PROVE  IndInv'
<1> DEFINE n == connection + 1
<1>1. n \in Connections /\ connection \in Connections /\ n > connection
  BY MaxConnectionsAssumption DEF ListenerAsks, IndInv, TypeOK, Connections
<1>2. PICK d \in Free : /\ socket' = [socket EXCEPT ![n]["console"] = d]
                        /\ owner' = [owner EXCEPT ![d] = <<n, "console">>]
  BY DEF ListenerAsks, Lowest
<1>3. d \in Descriptors /\ owner[d] = Unused
  BY <1>2 DEF Free
<1>4. <<n, "console">> \in Ours
  BY <1>1 DEF Ours, Threads
<1>5. \A k \in Connections, t \in Threads : Past(k, t)' <=> Past(k, t)
  BY DEF Past, ListenerAsks
<1>6. Passed(connection)' = Passed(connection)
  BY DEF Passed, One, Past, ListenerAsks
<1>7. TypeOK'
  <2>1. socket' \in [Connections -> [Threads -> Descriptors]]
    BY <1>1, <1>2, <1>3 DEF IndInv, TypeOK
  <2>2. owner' \in [Descriptors -> Ours \cup {Unused}]
    BY <1>2, <1>3, <1>4 DEF IndInv, TypeOK
  <2>3. server' \in [Connections -> ServerPlaces]
    BY DEF IndInv, TypeOK, ListenerAsks, ServerPlaces
  <2> QED BY <2>1, <2>2, <2>3
      DEF IndInv, TypeOK, ListenerAsks, ListenerPlaces, signals, counter
<1>8. Numbered' /\ EarlierPast'
  BY <1>5 DEF IndInv, Numbered, EarlierPast, ListenerAsks
<1>9. CountIsHonest'
  BY <1>6 DEF IndInv, CountIsHonest, ListenerAsks, counter
<1>10. ConnectingWhenPast'
  BY <1>5 DEF IndInv, ConnectingWhenPast, ListenerAsks, counter, TypeOK
<1>11. HoldersOwn'
  <2> SUFFICES ASSUME ~signal_shutdown, NEW k \in Connections, NEW t \in Threads, Holds(k, t)
               PROVE  owner'[socket'[k][t]] = <<k, t>>
    BY DEF HoldersOwn, Holds, ListenerAsks, signals
  <2>1. owner[socket[k][t]] = <<k, t>> /\ socket[k][t] \in Descriptors
    BY DEF IndInv, TypeOK, HoldersOwn
  <2>2. k # n
    BY <1>1 DEF IndInv, Numbered, Holds
  <2>3. socket[k][t] # d
    BY <2>1, <1>2, FreeIsNobodys
  <2>4. socket'[k] = socket[k]
    BY <2>2, <1>2 DEF IndInv, TypeOK
  <2> QED BY <2>1, <2>3, <2>4, <1>2 DEF IndInv, TypeOK
<1>12. AskingOwns'
  <2>1. connection' = connection
    BY DEF ListenerAsks
  <2>2. socket'[n]["console"] = d
    BY <1>1, <1>2 DEF IndInv, TypeOK, Threads
  <2>3. owner'[d] = <<n, "console">>
    BY <1>2, <1>3 DEF IndInv, TypeOK
  <2> QED BY <2>1, <2>2, <2>3 DEF AskingOwns
<1>13. ConsoleSignalled'
  BY DEF IndInv, ConsoleSignalled, Signalled, ListenerAsks, signals
<1> QED BY <1>7, <1>8, <1>9, <1>10, <1>11, <1>12, <1>13 DEF IndInv

(* The other two, and the threads.                                          *)
LEMMA ConnectsKeeps ==
    ASSUME IndInv, ListenerConnects
    PROVE  IndInv'
<1> DEFINE c == connection + 1
<1>1. /\ connection' = c
      /\ connection \in Connections
      /\ c \in Connections
      /\ connection < c
  BY MaxConnectionsAssumption DEF ListenerConnects, IndInv, TypeOK, Connections
<1>2. thread' = [thread EXCEPT ![c] = Started]
  BY <1>1 DEF ListenerConnects
<1>3. /\ Started \in [Threads -> Places \ {"none", "done", "close", "store", "exit"}]
      /\ Started["console"] = "loop"
  BY DEF Started, Places, Threads
<1>4. PICK f \in Free, g \in Free :
         /\ f # g
         /\ socket' = [socket EXCEPT ![c]["watcher"] = f, ![c]["receiver"] = g]
         /\ owner' = [owner EXCEPT ![f] = <<c, "watcher">>, ![g] = <<c, "receiver">>]
  BY <1>1 DEF ListenerConnects, Lowest
<1>5. /\ f \in Descriptors /\ g \in Descriptors /\ f # g
      /\ owner[f] = Unused /\ owner[g] = Unused
  BY <1>4 DEF Free
<1>51. /\ socket'[c]["watcher"] = f
       /\ socket'[c]["receiver"] = g
       /\ socket'[c]["console"] = socket[c]["console"]
       /\ \A k \in Connections : k # c => socket'[k] = socket[k]
       /\ socket' \in [Connections -> [Threads -> Descriptors]]
  BY <1>1, <1>4, <1>5 DEF IndInv, TypeOK, Threads
<1>52. <<c, "watcher">> \in Ours /\ <<c, "receiver">> \in Ours
  BY <1>1 DEF Ours, Threads
<1>53. /\ owner'[f] = <<c, "watcher">>
       /\ owner'[g] = <<c, "receiver">>
       /\ \A k \in Descriptors : k # f /\ k # g => owner'[k] = owner[k]
       /\ owner' \in [Descriptors -> Ours \cup {Unused}]
  BY <1>4, <1>5, <1>52 DEF IndInv, TypeOK
<1>6. \A d \in Connections, t \in Threads :
         /\ d # c => thread'[d][t] = thread[d][t]
         /\ d = c => thread'[d][t] = Started[t]
  BY <1>1, <1>2 DEF IndInv, TypeOK
<1>7. TypeOK'
  <2>1. thread' \in [Connections -> [Threads -> Places]]
    BY <1>2, <1>3 DEF IndInv, TypeOK
  <2> QED BY <1>1, <1>51, <1>53, <2>1
      DEF IndInv, TypeOK, ListenerConnects, SignalsCleared, ListenerPlaces, counter
<1>8. Numbered'
  <2> SUFFICES ASSUME NEW d \in Connections, NEW t \in Threads
               PROVE  thread'[d][t] = "none" <=> d > c
    BY <1>1 DEF Numbered
  <2>1. CASE d = c
    BY <2>1, <1>3, <1>6, <1>1 DEF Connections
  <2>2. CASE d # c
    BY <2>2, <1>6, <1>1 DEF IndInv, Numbered, Connections
  <2> QED BY <2>1, <2>2
<1>9. EarlierPast'
  <2> SUFFICES ASSUME NEW d \in Connections, NEW t \in Threads, d < c
               PROVE  Past(d, t)'
    BY <1>1 DEF EarlierPast
  <2>1. Past(d, t)
    BY <1>1 DEF ListenerConnects, IndInv, ConnectingWhenPast, EarlierPast, Connections
  <2> QED BY <2>1, <1>6, <1>1 DEF Past, Connections
<1>10. CountIsHonest'
  <2>1. threads_exited' = 0 /\ loaded' = loaded
    BY DEF ListenerConnects, IndInv, ConnectingWhenPast, counter
  <2>2. Passed(connection)' >= 0
    BY DEF Passed, One
  <2>3. ASSUME NEW d \in Connections, NEW t \in Threads
        PROVE  thread'[d][t] # "store"
    <3>1. CASE d = c
      BY <3>1, <1>3, <1>6
    <3>2. CASE d > c
      BY <3>2, <1>6, <1>1 DEF IndInv, Numbered, Connections
    <3>3. CASE d < c
      <4>1. Past(d, t)'
        BY <3>3, <1>9, <1>1 DEF EarlierPast
      <4> QED BY <4>1 DEF Past
    <3> QED BY <3>1, <3>2, <3>3, <1>1 DEF Connections
  <2> QED BY <2>1, <2>2, <2>3 DEF CountIsHonest
<1>11. ConnectingWhenPast'
  BY DEF ConnectingWhenPast, ListenerConnects
<1>12. HoldersOwn'
  <2> SUFFICES ASSUME ~signal_shutdown, NEW k \in Connections, NEW t \in Threads,
                      Holds(k, t)'
               PROVE  owner'[socket'[k][t]] = <<k, t>>
    BY DEF HoldersOwn, ListenerConnects, SignalsCleared
  <2>1. CASE k = c /\ t # "console"
    BY <2>1, <1>51, <1>53 DEF Threads
  <2>2. CASE k = c /\ t = "console"
    <3>1. owner[socket[c]["console"]] = <<c, "console">>
      BY DEF ListenerConnects, IndInv, AskingOwns
    <3>2. socket[c]["console"] \in Descriptors
      BY <1>1 DEF IndInv, TypeOK, Threads
    <3>3. socket[c]["console"] \notin Free
      BY <3>1, <1>1, FreeIsNobodys DEF Threads
    <3> QED BY <2>2, <3>1, <3>2, <3>3, <1>4, <1>51, <1>53
  <2>3. CASE k # c
    <3>1. owner[socket[k][t]] = <<k, t>>
      BY <2>3, <1>6 DEF IndInv, HoldersOwn, Holds
    <3>2. socket'[k] = socket[k] /\ socket[k][t] \in Descriptors
      BY <2>3, <1>51 DEF IndInv, TypeOK
    <3>3. socket[k][t] \notin Free
      BY <3>1, FreeIsNobodys
    <3> QED BY <3>1, <3>2, <3>3, <1>4, <1>53
  <2> QED BY <2>1, <2>2, <2>3
<1>13. ConsoleSignalled'
  <2>1. thread'[c]["console"] = "loop"
    BY <1>1, <1>3, <1>6 DEF Threads
  <2>2. \A d \in Connections : thread'[d]["console"] = "exit" => signal_shutdown'
    BY <1>6, <2>1 DEF IndInv, ConsoleSignalled, ListenerConnects, SignalsCleared, Threads
  <2> QED BY <2>1, <2>2, <1>1 DEF ConsoleSignalled
<1>14. AskingOwns'
  BY DEF AskingOwns, ListenerConnects
<1> QED BY <1>7, <1>8, <1>9, <1>10, <1>11, <1>12, <1>13, <1>14 DEF IndInv

LEMMA ListenerKeeps ==
    ASSUME IndInv, ListenerStep
    PROVE  IndInv'
<1>1. CASE ListenerLoop
  BY <1>1, ThreadsStill DEF ListenerLoop, IndInv, TypeOK, ListenerPlaces, signals
<1>2. CASE ListenerAccepts
  <2>1. /\ notices' \in 0 .. MaxConnections
        /\ listener' \in ListenerPlaces \ {"connecting", "asking"}
        /\ signal_reconnect' \in BOOLEAN
        /\ signal_reconnect => signal_reconnect'
    <3>1. CASE notices = 0
      BY <1>2, <3>1, MaxConnectionsAssumption
      DEF ListenerAccepts, IndInv, TypeOK, ListenerPlaces
    <3>2. CASE notices # 0
      <4>1. /\ notices' = notices - 1
            /\ signal_reconnect' = TRUE
            /\ listener' = "accepted"
        BY <1>2, <3>2 DEF ListenerAccepts
      <4>2. notices - 1 \in 0 .. MaxConnections
        BY <3>2, MaxConnectionsAssumption DEF IndInv, TypeOK
      <4> QED BY <4>1, <4>2 DEF ListenerPlaces
    <3> QED BY <3>1, <3>2
  <2> QED BY <1>2, <2>1, ThreadsStill DEF ListenerAccepts, IndInv, TypeOK
<1>3. CASE ListenerUnresolved
  BY <1>3, ThreadsStill DEF ListenerUnresolved, IndInv, TypeOK, ListenerPlaces, signals
<1>4. CASE ListenerWaits
  BY <1>4, WaitsKeeps
<1>5. CASE ListenerConnects
  BY <1>5, ConnectsKeeps
<1>6. CASE ListenerFails
  BY <1>6, ThreadsStill DEF ListenerFails, IndInv, TypeOK, signals
<1>7. CASE ListenerAsks
  BY <1>7, AsksKeeps
<1> QED BY <1>1, <1>2, <1>3, <1>4, <1>5, <1>6, <1>7 DEF ListenerStep

LEMMA NoticeKeeps ==
    ASSUME IndInv, ListenerReads
    PROVE  IndInv'
BY ThreadsStill DEF ListenerReads, NoticeBroken, IndInv, TypeOK, ListenerPlaces

LEMMA InitHolds == Init => IndInv
<1> SUFFICES ASSUME Init PROVE IndInv
  OBVIOUS
<1>1. 1 \in Connections
  BY MaxConnectionsAssumption DEF Connections
<1>2. /\ FirstThree["console"] = 1
      /\ FirstThree["watcher"] = 2
      /\ FirstThree["receiver"] = 3
      /\ DOMAIN FirstThree = Threads
  BY DEF FirstThree, Threads
<1>21. 1 \in Descriptors /\ 2 \in Descriptors /\ 3 \in Descriptors
  BY MaxConnectionsAssumption DEF Descriptors
<1>22. FirstThree \in [Threads -> Descriptors]
  BY <1>21 DEF FirstThree
<1>23. Order[1] = "console" /\ Order[2] = "watcher" /\ Order[3] = "receiver"
  BY DEF Order
<1>24. \A d \in Descriptors : owner[d] = IF d <= 3 THEN <<1, Order[d]>> ELSE Unused
  BY DEF Init
<1>25. /\ owner[1] = <<1, "console">>
       /\ owner[2] = <<1, "watcher">>
       /\ owner[3] = <<1, "receiver">>
       /\ \A d \in Descriptors : d > 3 => owner[d] = Unused
  <2> HIDE DEF Order, Unused, Init, Descriptors
  <2>1. ASSUME NEW d \in Descriptors, d <= 3 PROVE owner[d] = <<1, Order[d]>>
    BY <1>24, <2>1, Zenon
  <2>2. 1 <= 3 /\ 2 <= 3 /\ 3 <= 3
    OBVIOUS
  <2>3. owner[1] = <<1, Order[1]>> /\ owner[2] = <<1, Order[2]>> /\ owner[3] = <<1, Order[3]>>
    BY <1>21, <2>1, <2>2, Zenon
  <2>4. ASSUME NEW d \in Descriptors, d > 3 PROVE owner[d] = Unused
    <3>1. ~(d <= 3)
      BY <2>4, MaxConnectionsAssumption DEF Descriptors
    <3> QED BY <1>24, <3>1, Zenon
  <2> QED BY <2>3, <2>4, <1>23
<1>26. /\ <<1, "console">> \in Ours
       /\ <<1, "watcher">> \in Ours
       /\ <<1, "receiver">> \in Ours
  BY <1>1 DEF Ours, Threads
<1>27. \A d \in Descriptors : owner[d] \in Ours \cup {Unused}
  <2> SUFFICES ASSUME NEW d \in Descriptors PROVE owner[d] \in Ours \cup {Unused}
    OBVIOUS
  <2>1. d = 1 \/ d = 2 \/ d = 3 \/ d > 3
    BY MaxConnectionsAssumption DEF Descriptors
  <2> QED BY <2>1, <1>25, <1>26
<1>3. /\ owner \in [Descriptors -> Ours \cup {Unused}]
      /\ \A t \in Threads : owner[FirstThree[t]] = <<1, t>>
  <2>1. DOMAIN owner = Descriptors /\ owner = [d \in Descriptors |-> owner[d]]
    BY DEF Init
  <2>2. owner \in [Descriptors -> Ours \cup {Unused}]
    BY <2>1, <1>27
  <2>3. \A t \in Threads : owner[FirstThree[t]] = <<1, t>>
    BY <1>2, <1>25 DEF Threads
  <2> QED BY <2>2, <2>3
<1>4. /\ Started \in [Threads -> Places \ {"none", "done", "close", "store", "exit"}]
      /\ Started["console"] = "loop"
  BY DEF Started, Places, Threads
<1>5. \A c \in Connections, t \in Threads :
         thread[c][t] = IF c = 1 THEN Started[t] ELSE "none"
  BY DEF Init
<1>6. TypeOK
  <2>1. thread \in [Connections -> [Threads -> Places]]
    BY <1>4 DEF Init, Places, Threads
  <2>2. socket \in [Connections -> [Threads -> Descriptors]]
    BY <1>22 DEF Init
  <2>3. server \in [Connections -> ServerPlaces]
    BY DEF Init, ServerPlaces
  <2>4. /\ loaded \in [Threads -> 0 .. 3]
        /\ threads_exited \in 0 .. 3
        /\ notices \in 0 .. MaxConnections
    BY MaxConnectionsAssumption DEF Init
  <2> QED BY <1>1, <1>3, <2>1, <2>2, <2>3, <2>4
      DEF Init, TypeOK, ListenerPlaces
<1>7. Numbered /\ EarlierPast
  BY <1>4, <1>5 DEF Init, Numbered, EarlierPast, Connections
<1>8. CountIsHonest
  BY <1>4, <1>5 DEF Init, CountIsHonest, Passed, One
<1>9. ConnectingWhenPast /\ AskingOwns
  BY DEF Init, ConnectingWhenPast, AskingOwns
<1>10. HoldersOwn
  <2>1. \A c \in Connections : socket[c] = FirstThree
    BY DEF Init
  <2> QED BY <1>1, <2>1, <1>3, <1>5 DEF HoldersOwn, Holds
<1>11. ConsoleSignalled
  BY <1>1, <1>4, <1>5 DEF Init, ConsoleSignalled, Threads
<1> QED BY <1>6, <1>7, <1>8, <1>9, <1>10, <1>11 DEF IndInv

LEMMA StepKeeps == IndInv /\ [Next]_vars => IndInv'
<1> SUFFICES ASSUME IndInv, [Next]_vars PROVE IndInv'
  OBVIOUS
<1>1. ASSUME NEW c \in Connections, NEW t \in Threads, ExitStep(c, t)
      PROVE  IndInv'
  BY <1>1, CountLoadsKeeps, CountStoresKeeps, ClosesKeeps DEF ExitStep
<1>2. ASSUME NEW c \in Connections,
             \/ ConsoleStep(c)
             \/ ConsoleReads(c)
             \/ WatcherStep(c)
             \/ ReceiverLoop(c) \/ ReceiverGets(c) \/ ReceiverEnds(c)
             \/ ServerAnswers(c) \/ ServerStops(c) \/ ServerLeaves(c)
      PROVE  IndInv'
  BY <1>2, ConsoleKeeps, ReplyKeeps, WatcherKeeps, ReceiverKeeps, ServerKeeps
<1>3. CASE ListenerStep \/ ListenerReads
  BY <1>3, ListenerKeeps, NoticeKeeps
<1>4. CASE ServerNotifies
  BY <1>4, ServerKeeps
<1>5. CASE UNCHANGED vars
  <2>1. UNCHANGED <<running, signals, counter, connection, thread, socket, owner, server,
                    listener, unresolved, notices, sync_dir>>
    BY <1>5 DEF vars
  <2> QED BY <2>1, ThreadsStill DEF IndInv, TypeOK, signals
<1> QED BY <1>1, <1>2, <1>3, <1>4, <1>5 DEF Next

THEOREM Invariance == Spec => []IndInv
BY InitHolds, StepKeeps, PTL DEF Spec

(* Every variable of the client keeps its type.                             *)
THEOREM TypeCorrect == Spec => []TypeOK
<1>1. IndInv => TypeOK
  BY DEF IndInv
<1> QED BY <1>1, Invariance, PTL

(* The listener connects again only when each thread of the old connection  *)
(* is past its count, even if two increments overlap (client.c:565-571).    *)
THEOREM ThreadsNeverOverlap == Spec => []OneConnection
<1>1. IndInv => OneConnection
  <2> SUFFICES ASSUME IndInv, NEW c \in Connections, NEW d \in Connections, c < d,
                      thread[d]["console"] # "none"
               PROVE  /\ \A t \in {"console", "receiver"} : thread[c][t] \in Counted
                      /\ thread[c]["watcher"] = "done"
    BY DEF OneConnection
  <2>1. c < connection
    BY DEF IndInv, TypeOK, Numbered, Connections, Threads
  <2> QED BY <2>1 DEF IndInv, EarlierPast, Past, Counted, Threads
<1> QED BY <1>1, Invariance, PTL

(* No thread of a client that stays closes a descriptor that has become     *)
(* another thread's (client.c:273, 306, 365).                               *)
THEOREM ThreadsCloseTheirOwn == Spec => []NoForeignClose
<1>1. IndInv => NoForeignClose
  BY DEF IndInv, HoldersOwn, Holds, NoForeignClose
<1> QED BY <1>1, Invariance, PTL

(* A user whose client neither moves nor shuts down has a console.          *)
THEOREM UserHasConsole == Spec => []ConsoleServes
<1>1. IndInv => ConsoleServes
  BY DEF IndInv, TypeOK, Numbered, ConsoleSignalled, ConsoleServes, Signalled, Places, Threads,
         Connections
<1> QED BY <1>1, Invariance, PTL
=============================================================================
