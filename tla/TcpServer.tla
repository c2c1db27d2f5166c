------------------------------ MODULE TcpServer ------------------------------
(***************************************************************************)
(* net/TcpServer.cpp over net/EventLoopThreadPool.cpp: the base loop       *)
(* accepts connections, keeps them in connections_, hands each to an I/O   *)
(* loop, takes it back when it closes, and stops the I/O loops.  The       *)
(* connections, their loops and their peers are those of TcpConnection.    *)
(*                                                                         *)
(* closing is the base loop's task queue (removeConnectionInLoop is all    *)
(* that is ever queued there), owned the connections whose map entry is    *)
(* not a null pointer.  The pool has at least one thread: the server       *)
(* starts hardware_concurrency() + 2 of them.                              *)
(***************************************************************************)
EXTENDS TcpConnection

CONSTANT Pool       \* loops_, the I/O loops in the order of the round robin

ASSUME PoolAssumption ==
  /\ Pool \in Seq(Loops)
  /\ Pool # <<>>
  /\ \A l \in Loops : \E i \in DOMAIN Pool : Pool[i] = l
  /\ \A i, j \in DOMAIN Pool : Pool[i] = Pool[j] => i = j

VARIABLES
  keys,           \* connections with an entry in connections_
  next,           \* next_, counted from 1
  base,           \* where the base loop's thread is in TcpServer::stop
  stopped,        \* how many threads EventLoopThreadPool::stop has joined
  entered,        \* loops whose threads are past quit_ = false in loop()
  quitting,       \* loops whose quit_ is set
  closed          \* loops that have left loop(); their EventLoop is gone

serverVars == <<keys, next, base, stopped, entered, quitting, closed>>
allVars == <<vars, serverVars>>

ServerInit ==
  /\ Init
  /\ loopOf = [c \in Conns |-> Pool[1]]
  /\ keys = {}
  /\ next = 1
  /\ base = "running"
  /\ stopped = 0
  /\ entered = {}
  /\ quitting = {}
  /\ closed = {}

-----------------------------------------------------------------------------
(* The base loop.                                                          *)

\* Mutants: the round robin wraps one loop too early, or too late.
WrapEarly == IF next + 1 >= Len(Pool) THEN 1 ELSE next + 1
WrapLate == IF next > Len(Pool) THEN 1 ELSE next + 1

\* getNextLoop moves next_ on.
Wrap == IF next + 1 > Len(Pool) THEN 1 ELSE next + 1

\* Mutant: nextConnId_ is not incremented, and a connection takes the entry
\* of the one before.
AddEntrySameName(c) == keys' = {c} /\ owned' = {c}

\* The new name is in no entry yet.
AddEntry(c) == keys' = keys \cup {c} /\ owned' = owned \cup {c}

\* newConnection, getNextLoop included: the next loop gets the connection,
\* the map a pointer, and connectEstablished is queued.
NewConnection(c) ==
  /\ base = "running"
  /\ state[c] = "none"
  /\ state' = [state EXCEPT ![c] = "Connecting"]
  /\ loopOf' = [loopOf EXCEPT ![c] = Pool[next]]
  /\ next' = Wrap
  /\ AddEntry(c)
  /\ Enqueue(Pool[next], Task("established", c))
  /\ UNCHANGED <<chanVars, dataVars, ups, downs, closing, peerVars, callVars,
                 fin, late, revents, callback, base, stopped,
                 entered, quitting, closed>>

\* Mutant: the entry is found but not erased.
EraseEntryNot(c) == UNCHANGED <<keys, owned>>

EraseEntry(c) == keys' = keys \ {c} /\ owned' = owned \ {c}

\* Mutant: connectDestroyed is queued on the loop that getNextLoop gives.
DestroyOnNextLoop(c) == Enqueue(Pool[next], Task("destroyed", c))

\* connectDestroyed is queued on the loop of the connection.
DestroyOnItsLoop(c) == Enqueue(loopOf[c], Task("destroyed", c))

\* removeConnectionInLoop: erase the entry; if there was one, queue
\* connectDestroyed on the connection's loop.
RemoveConnectionInLoop ==
  /\ base = "running"
  /\ closing # <<>>
  /\ closing' = Tail(closing)
  /\ LET c == Head(closing)
     IN  /\ EraseEntry(c)
         /\ IF c \in keys THEN DestroyOnItsLoop(c) ELSE UNCHANGED queue
  /\ UNCHANGED <<chanVars, dataVars, state, ups, downs, peerVars, loopOf,
                 callVars, fin, late, revents, callback,
                 next, base, stopped, entered, quitting, closed>>

-----------------------------------------------------------------------------
(* stop, and the loops it stops.                                           *)

\* The loop is in its while: what TcpConnection says of its thread may happen.
Turns(l) == l \in entered \ closed

Stop ==
  /\ MayStop
  /\ base = "running"
  /\ base' = "emptying"
  /\ UNCHANGED <<vars, keys, next, stopped, entered, quitting, closed>>

\* Mutant: stop() does not reset the map's pointer.
ResetEntryNot(c) == UNCHANGED owned

ResetEntry(c) == owned' = owned \ {c}

\* One turn of the loop over connections_: the entry stays, with a null
\* pointer, and connectDestroyed is queued.
StopConnection(c) ==
  /\ base = "emptying"
  /\ c \in owned
  /\ ResetEntry(c)
  /\ DestroyOnItsLoop(c)
  /\ UNCHANGED <<chanVars, dataVars, lifeVars, peerVars, loopOf, callVars, fin,
                 late, revents, callback, serverVars>>

\* Mutant: the first loop is told to quit again and again.
LoopToQuitFirst == Pool[1]

LoopToQuit == Pool[stopped + 1]

\* EventLoopThreadPool::stop: one stopLoop after the other, quit_ ...
QuitLoop ==
  /\ \/ base = "emptying" /\ owned = {}
     \/ base = "stopping"
  /\ stopped < Len(Pool)
  /\ quitting' = quitting \cup {LoopToQuit}
  /\ base' = "joining"
  /\ UNCHANGED <<vars, keys, next, stopped, entered, closed>>

\* Mutant: the thread is not joined.
ThreadEndedAlways == TRUE

ThreadEnded == Pool[stopped + 1] \in closed

\* ... and join.
JoinLoop ==
  /\ base = "joining"
  /\ ThreadEnded
  /\ stopped' = stopped + 1
  /\ base' = IF stopped + 1 = Len(Pool) THEN "stopped" ELSE "stopping"
  /\ UNCHANGED <<vars, keys, next, entered, quitting, closed>>

\* startLoop returned as soon as loop_ was published; the thread gets into
\* loop() at its leisure.  quit_ = false undoes a quit() that came before.
EnterLoop(l) ==
  /\ l \notin entered
  /\ entered' = entered \cup {l}
  /\ quitting' = quitting \ {l}
  /\ UNCHANGED <<vars, keys, next, base, stopped, closed>>

\* The loop tests quit_ and returns: FunctorQueue!Close.  Its EventLoop is
\* destroyed, and with it the tasks still queued and what they hold.
CloseLoop(l) ==
  /\ Turns(l)
  /\ l \in quitting
  /\ Idle(l)
  /\ closed' = closed \cup {l}
  /\ queue' = [queue EXCEPT ![l] = <<>>]
  /\ UNCHANGED <<chanVars, dataVars, lifeVars, peerVars, loopOf, owned,
                 callVars, fin, late, revents, callback,
                 keys, next, base, stopped, entered, quitting>>

-----------------------------------------------------------------------------

\* A step of loop l or of one of its connections, while the loop turns.
ConnectionStep(c) ==
  /\ Turns(loopOf[c])
  /\ (\E canWrite \in BOOLEAN : Poll(c, canWrite)) \/ HereStep(c)
  /\ UNCHANGED serverVars

ServerLoopStep(l) ==
  /\ Turns(l)
  /\ LoopStep(l)
  /\ UNCHANGED serverVars

PeerStep(c) ==
  /\ PeerSends(c) \/ PeerEnds(c)
  /\ UNCHANGED serverVars

\* quit_ was set too early (EventLoop's StopReturns): the thread that stop()
\* joins is in its loop, and nothing will make it leave.
QuitLost == base = "joining" /\ LoopToQuit \in entered \ quitting

\* Nothing is left to do: stop has returned, or waits for ever, or every
\* connection has gone.
Finished ==
  /\ \/ base = "stopped"
     \/ QuitLost
     \/ \A c \in Conns : Freed(c)
  /\ UNCHANGED allVars

ServerNext ==
  \/ \E c \in Conns :
       \/ NewConnection(c)
       \/ StopConnection(c)
       \/ ConnectionStep(c)
       \/ PeerStep(c)
  \/ \E l \in Loops : ServerLoopStep(l) \/ EnterLoop(l) \/ CloseLoop(l)
  \/ RemoveConnectionInLoop
  \/ Stop
  \/ QuitLoop
  \/ JoinLoop
  \/ Finished

StopStep == QuitLoop \/ JoinLoop \/ \E c \in Conns : StopConnection(c)

\* The fairness of TcpConnection, for the loops that turn, and of the base
\* loop's thread; every thread gets into loop(), and a loop whose quit_ is
\* still set when it is there gets to test it.
ServerFairness ==
  /\ \A l \in Loops :
       /\ WF_allVars(ServerLoopStep(l))
       /\ WF_allVars(EnterLoop(l))
       /\ SF_allVars(Turns(l) /\ RunTask(l) /\ UNCHANGED serverVars)
       /\ SF_allVars(CloseLoop(l))
  /\ \A c \in Conns :
       SF_allVars(Turns(loopOf[c]) /\ Poll(c, TRUE) /\ UNCHANGED serverVars)
  /\ WF_allVars(RemoveConnectionInLoop)
  /\ WF_allVars(StopStep)

ServerSafetySpec == ServerInit /\ [][ServerNext]_allVars

ServerSpec == ServerSafetySpec /\ ServerFairness

-----------------------------------------------------------------------------
(* Properties.                                                             *)

ServerTypeOK ==
  /\ TypeOK
  /\ keys \subseteq Conns
  /\ owned \subseteq keys
  /\ next \in DOMAIN Pool
  /\ base \in {"running", "emptying", "stopping", "joining", "stopped"}
  /\ stopped \in 0 .. Len(Pool)
  /\ closed \subseteq quitting \cap entered
  /\ entered \cup quitting \subseteq Loops

\* The map holds every connection that is not closed, from newConnection to
\* the close: no path drops the last strong pointer of an open connection.
OpenIsOwned ==
  base = "running" =>
    \A c \in Conns : state[c] \in {"Connecting", "Connected", "Disconnecting"}
      => c \in owned

\* Tasks of a connection are queued on its own loop only: connectEstablished
\* and the others abort the process when another thread runs them
\* (assertInLoopThread).
ThreadConfined ==
  \A l \in Loops : \A i \in DOMAIN queue[l] : loopOf[queue[l][i].conn] = l

\* connectDestroyed is queued for a connection that has left the map, once:
\* TcpConnection.h:97 says that it "should be called only once".
DestroyedOnce ==
  \A c \in Conns :
    LET pending == {i \in DOMAIN queue[loopOf[c]] :
                      queue[loopOf[c]][i] = Task("destroyed", c)}
    IN  /\ Cardinality(pending) <= 1
        /\ pending # {} => c \notin owned
        /\ pending # {} /\ base = "running" => state[c] = "Disconnected"

\* Round robin: no I/O loop is given two connections more than another.
LoadBalanced ==
  \A l, m \in Loops :
    LET given(k) == Cardinality({c \in Conns : state[c] # "none" /\ loopOf[c] = k})
    IN  given(l) <= given(m) + 1

\* As ChannelGone, while the loop of the connection is still polling.
ServerChannelGone ==
  \A c \in Conns : Freed(c) /\ loopOf[c] \notin closed =>
    index[c] = "new" /\ c \notin epoll

\* When stop() has returned no connection outlives it, but those whose
\* removeConnectionInLoop is still queued on the base loop.
StopReleases ==
  base = "stopped" => \A c \in Conns :
    state[c] = "none" \/ Freed(c) \/ c \in Range(closing)

\* A connection that closes is taken out of the map and destroyed.
ServerReaps ==
  \A c \in Conns : state[c] = "Disconnected" ~> Freed(c) \/ base # "running"

\* A stop() that is called when every I/O loop is in loop() comes back: every
\* loop is left and joined, whatever its connections, peers and queued tasks
\* do meanwhile.  Of an earlier stop() the code promises nothing: the quit_ it
\* sets is overwritten when the loop starts (EventLoop.cpp:103), and the join
\* waits for ever.
StopCompletes == base = "emptying" /\ entered = Loops ~> base = "stopped"

=============================================================================
