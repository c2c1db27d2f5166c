--------------------------- MODULE TcpServerProofs ---------------------------
(***************************************************************************)
(* Theorems about TcpServer: what it adds to TcpConnection is a map, a     *)
(* round robin over several loops, and a stop.  As in TcpConnectionProofs  *)
(* the public methods are called in the connection's own loop only.        *)
(*                                                                         *)
(* The steps of the connections are taken from TcpConnectionProofs; what   *)
(* the server sees of them is said once, by Moves.  Then there is one      *)
(* invariant per question: ServerInv (places and types), DestroyTasks      *)
(* (connectDestroyed once), RunHeld and StopHeld (who holds a connection), *)
(* RoundRobin.                                                             *)
(***************************************************************************)
EXTENDS TcpServer, TcpConnectionProofs, FiniteSetTheorems

-----------------------------------------------------------------------------
(* The steps of the connections, as the server sees them.                  *)

InnerStep ==
  \/ \E l \in Loops : ServerLoopStep(l)
  \/ \E c \in Conns : ConnectionStep(c) \/ PeerStep(c)

\* No connection is made or comes back.
StateMoves ==
  \A d \in Conns :
    /\ state'[d] = "none" <=> state[d] = "none"
    /\ state'[d] = "Connecting" => state[d] = "Connecting"
    /\ state[d] = "Disconnected" => state'[d] = "Disconnected"

\* closeCallback_ is called for a connection that is closed.
ClosingMoves ==
  \/ closing' = closing
  \/ \E c \in Conns : state'[c] = "Disconnected" /\ closing' = Append(closing, c)

\* A loop that lives takes a task, or gets a forceClose.
QueueMoves ==
  \/ UNCHANGED queue
  \/ \E l \in Loops \ closed, c \in Conns, kind \in StrongKinds :
       /\ Take(l, Task(kind, c))
       /\ kind = "established" => state'[c] # "Connecting"
       /\ kind = "destroyed" => ConnectDestroyed(l, c)
  \/ \E c \in Conns :
       /\ loopOf[c] \notin closed
       /\ state[c] # "none"
       /\ Enqueue(loopOf[c], Task("forceClose", c))

\* A loop that was left is left alone.
LeftAlone ==
  /\ \A l \in closed : callback'[l] = callback[l]
  /\ \A c \in Conns : loopOf[c] \in closed => revents'[c] = revents[c]

Moves ==
  /\ UNCHANGED <<serverVars, loopOf, owned>>
  /\ StateMoves
  /\ ClosingMoves
  /\ QueueMoves
  /\ LeftAlone

\* handleClose moves one connection to Disconnected and announces that once.
LEMMA CloseMoves ==
  ASSUME Inv, NEW c \in Conns, state[c] \notin {"none", "Connecting"}, HandleClose(c)
  PROVE  StateMoves /\ ClosingMoves
<1>1. LifeTypes
  BY TypedParts DEF Inv
<1>2. CASE WasClosed(c)
  BY <1>2 DEF HandleClose, lifeVars, StateMoves, ClosingMoves
<1>3. CASE ~WasClosed(c)
  <2>1. /\ state' = [state EXCEPT ![c] = "Disconnected"]
        /\ closing' = Append(closing, c)
    BY <1>3 DEF HandleClose, CloseCallback
  <2>2. state'[c] = "Disconnected" /\ \A d \in Conns \ {c} : state'[d] = state[d]
    BY <1>1, <2>1 DEF LifeTypes
  <2> QED
    BY <2>1, <2>2 DEF StateMoves, ClosingMoves
<1> QED
  BY <1>2, <1>3

\* A task moves the connections as Moves allows.
LEMMA TaskMoves ==
  ASSUME Users = {}, Inv, NEW l \in Loops \ closed, RunTask(l), UNCHANGED serverVars
  PROVE  Moves
<1>1. PICK c \in Conns :
        \/ \E addOk \in BOOLEAN : ConnectEstablished(l, c, addOk)
        \/ ConnectDestroyed(l, c)
        \/ ForceCloseInLoop(l, c)
        \/ QueuedShutdown(l, c)
        \/ \E n \in 0 .. Units : QueuedSend(l, c, n)
  BY DEF RunTask
<1>2. LifeTypes /\ RestTypes /\ Typed
  BY TypedParts DEF Inv
<1>3. CASE \E addOk \in BOOLEAN : ConnectEstablished(l, c, addOk)
  <2>1. PICK addOk \in BOOLEAN : ConnectEstablished(l, c, addOk)
    BY <1>3
  <2>2. /\ Take(l, Task("established", c))
        /\ state[c] = "Connecting"
        /\ UNCHANGED <<loopOf, owned, revents>>
    BY <2>1 DEF ConnectEstablished
  <2>3. \/ state' = [state EXCEPT ![c] = "Connected"] /\ closing' = closing
        \/ state' = [state EXCEPT ![c] = "Disconnected"] /\ closing' = Append(closing, c)
    BY <2>1 DEF ConnectEstablished
  <2>4. callback' = callback \/ callback' = [callback EXCEPT ![l] = c]
    BY <2>1 DEF ConnectEstablished
  <2>5. /\ state'[c] # "Connecting" /\ state'[c] # "none"
        /\ \A d \in Conns \ {c} : state'[d] = state[d]
        /\ closing' = closing \/ (state'[c] = "Disconnected" /\ closing' = Append(closing, c))
    BY <1>2, <2>3 DEF LifeTypes
  <2>6. QueueMoves
    BY <2>2, <2>5 DEF QueueMoves, StrongKinds
  <2>7. LeftAlone
    <3>1. \A m \in closed : callback'[m] = callback[m]
      <4>1. CASE callback' = callback
        BY <4>1
      <4>2. CASE callback' = [callback EXCEPT ![l] = c]
        BY <1>2, <4>2 DEF RestTypes
      <4> QED
        BY <2>4, <4>1, <4>2
    <3> QED
      BY <2>2, <3>1 DEF LeftAlone
  <2>8. StateMoves /\ ClosingMoves
    BY <2>2, <2>5 DEF StateMoves, ClosingMoves
  <2> QED
    BY <2>2, <2>6, <2>7, <2>8 DEF Moves
<1>4. CASE ConnectDestroyed(l, c)
  <2>1. /\ Take(l, Task("destroyed", c))
        /\ UNCHANGED <<loopOf, owned, revents, callback, closing>>
        /\ state' = state \/ state' = [state EXCEPT ![c] = "Disconnected"]
        /\ state' # state => state[c] = "Connected"
    BY <1>4 DEF ConnectDestroyed, lifeVars
  <2>2. StateMoves
    <3>1. CASE state' = state
      BY <3>1 DEF StateMoves
    <3>2. CASE state' # state
      <4>1. state'[c] = "Disconnected" /\ \A d \in Conns \ {c} : state'[d] = state[d]
        BY <1>2, <2>1, <3>2 DEF LifeTypes
      <4> QED
        BY <2>1, <3>2, <4>1 DEF StateMoves
    <3> QED
      BY <3>1, <3>2
  <2> QED
    BY <1>4, <2>1, <2>2 DEF Moves, ClosingMoves, QueueMoves, LeftAlone, StrongKinds
<1>5. CASE ForceCloseInLoop(l, c)
  <2>1. /\ Take(l, Task("forceClose", c))
        /\ UNCHANGED <<loopOf, owned, revents, callback>>
    BY <1>5 DEF ForceCloseInLoop
  <2>2. StateMoves /\ ClosingMoves
    <3>1. CASE Closable(c)
      BY <1>5, <3>1, CloseMoves DEF ForceCloseInLoop, Closable
    <3>2. CASE ~Closable(c)
      BY <1>5, <3>2 DEF ForceCloseInLoop, lifeVars, StateMoves, ClosingMoves
    <3> QED
      BY <3>1, <3>2
  <2> QED
    BY <2>1, <2>2 DEF Moves, QueueMoves, LeftAlone, StrongKinds
<1>6. CASE QueuedShutdown(l, c)
  <2>1. Take(l, Task("shutdown", c)) /\ loopOf' = loopOf
    BY <1>6 DEF QueuedShutdown
  <2>2. Task("shutdown", c) \in Tasks
    BY <1>2, <2>1, Taken
  <2> QED
    BY <2>2, NoShutdownTask
<1>7. CASE \E n \in 0 .. Units : QueuedSend(l, c, n)
  BY <1>7 DEF QueuedSend
<1> QED
  BY <1>1, <1>3, <1>4, <1>5, <1>6, <1>7

\* So do the handlers of events.
LEMMA HandlerMoves ==
  ASSUME Inv, NEW c \in Conns, loopOf[c] \notin closed, UNCHANGED serverVars,
         HandleError(c) \/ HandleRead(c) \/ \E n \in 0 .. Units * MaxCalls : HandleWrite(c, n)
  PROVE  Moves
<1>1. LifeTypes /\ RestTypes
  BY TypedParts DEF Inv
<1>2. PICK e : Handling(c, e)
  BY DEF HandleError, HandleRead, HandleWrite
<1>3. /\ state[c] \notin {"none", "Connecting"}
      /\ revents' = [revents EXCEPT ![c] = @ \ {e}]
  BY <1>2, HandledIsBorn
<1>4. UNCHANGED <<queue, loopOf, owned>>
  BY DEF HandleError, HandleRead, HandleWrite, loopVars
<1>5. callback' = callback \/ callback' = [callback EXCEPT ![loopOf[c]] = c]
  BY DEF HandleError, HandleRead, HandleWrite
<1>6. HandleClose(c) \/ UNCHANGED lifeVars
  BY DEF HandleError, HandleRead, HandleWrite
<1>7. StateMoves /\ ClosingMoves
  <2>1. CASE HandleClose(c)
    BY <1>3, <2>1, CloseMoves
  <2>2. CASE UNCHANGED lifeVars
    BY <2>2 DEF lifeVars, StateMoves, ClosingMoves
  <2> QED
    BY <1>6, <2>1, <2>2
<1>8. LeftAlone
  <2>1. \A m \in closed : callback'[m] = callback[m]
    <3>1. CASE callback' = callback
      BY <3>1
    <3>2. CASE callback' = [callback EXCEPT ![loopOf[c]] = c]
      BY <1>1, <3>2 DEF RestTypes
    <3> QED
      BY <1>5, <3>1, <3>2
  <2>2. \A d \in Conns : loopOf[d] \in closed => revents'[d] = revents[d]
    BY <1>1, <1>3 DEF RestTypes
  <2> QED
    BY <2>1, <2>2 DEF LeftAlone
<1> QED
  BY <1>4, <1>7, <1>8 DEF Moves, QueueMoves

\* So do the public methods, called in the loop.
LEMMA HereMoves ==
  ASSUME Inv, NEW c \in Conns, loopOf[c] \notin closed, UNCHANGED serverVars, HereStep(c)
  PROVE  Moves
<1>1. LifeTypes
  BY TypedParts DEF Inv
<1>2. UNCHANGED <<loopOf, owned, callback, revents, closing>>
  BY DEF HereStep, SendHere, ShutdownHere, ForceCloseHere, loopVars, lifeVars
<1>3. /\ \/ state' = state
         \/ /\ state' = [state EXCEPT ![c] = "Disconnecting"]
            /\ state[c] \in {"Connected", "Disconnecting"}
  BY DEF HereStep, SendHere, ShutdownHere, ForceCloseHere, Closable, lifeVars
<1>4. StateMoves
  <2>1. CASE state' = state
    BY <2>1 DEF StateMoves
  <2>2. CASE state' # state
    <3>1. state'[c] = "Disconnecting" /\ \A d \in Conns \ {c} : state'[d] = state[d]
      BY <1>1, <1>3, <2>2 DEF LifeTypes
    <3> QED
      BY <1>3, <2>2, <3>1 DEF StateMoves
  <2> QED
    BY <2>1, <2>2
<1>5. QueueMoves
  BY DEF HereStep, SendHere, ShutdownHere, ForceCloseHere, Closable, loopVars, QueueMoves
<1> QED
  BY <1>2, <1>4, <1>5 DEF Moves, ClosingMoves, LeftAlone

\* So does every step of a connection in a loop that is open.
LEMMA InnerMoves ==
  ASSUME Users = {}, Inv, InnerStep
  PROVE  Inv' /\ Moves
<1>1. Inv'
  <2>1. Next
    BY DEF InnerStep, ServerLoopStep, ConnectionStep, PeerStep, Next
  <2> QED
    BY <2>1, NextKeeps DEF OthersSend
<1>2. RestTypes
  BY TypedParts DEF Inv
<1>3. ASSUME NEW l \in Loops, ServerLoopStep(l)
      PROVE  Moves
  <2>1. l \in Loops \ closed /\ LoopStep(l) /\ UNCHANGED serverVars
    BY <1>3 DEF ServerLoopStep, Turns
  <2>2. CASE RunTask(l)
    BY <2>1, <2>2, TaskMoves
  <2>3. CASE CallbackReturns(l)
    <3>1. /\ callback' = [callback EXCEPT ![l] = "none"]
          /\ UNCHANGED <<state, closing, queue, loopOf, owned, revents>>
      BY <2>3 DEF CallbackReturns, lifeVars, loopVars
    <3>2. \A m \in closed : callback'[m] = callback[m]
      BY <1>2, <2>1, <3>1 DEF RestTypes
    <3> QED
      BY <2>1, <3>1, <3>2 DEF Moves, StateMoves, ClosingMoves, QueueMoves, LeftAlone
  <2>4. ASSUME NEW c \in Conns, loopOf[c] = l,
               \/ HandleError(c)
               \/ HandleRead(c)
               \/ \E n \in 0 .. Units * MaxCalls : HandleWrite(c, n)
        PROVE  Moves
    BY <2>1, <2>4, HandlerMoves
  <2> QED
    BY <2>1, <2>2, <2>3, <2>4 DEF LoopStep
<1>4. ASSUME NEW c \in Conns, ConnectionStep(c)
      PROVE  Moves
  <2>1. loopOf[c] \notin closed /\ UNCHANGED serverVars
    BY <1>4 DEF ConnectionStep, Turns
  <2>2. CASE HereStep(c)
    BY <2>1, <2>2, HereMoves
  <2>3. CASE \E canWrite \in BOOLEAN : Poll(c, canWrite)
    <3>1. /\ \A d \in Conns \ {c} : revents'[d] = revents[d]
          /\ UNCHANGED <<state, closing, queue, loopOf, owned, callback>>
      BY <1>2, <2>3 DEF Poll, lifeVars, loopVars, RestTypes
    <3> QED
      BY <2>1, <3>1 DEF Moves, StateMoves, ClosingMoves, QueueMoves, LeftAlone
  <2> QED
    BY <1>4, <2>2, <2>3 DEF ConnectionStep
<1>5. ASSUME NEW c \in Conns, PeerStep(c)
      PROVE  Moves
  BY <1>5 DEF PeerStep, PeerSends, PeerEnds, lifeVars, loopVars, Moves, StateMoves,
     ClosingMoves, QueueMoves, LeftAlone
<1> QED
  BY <1>1, <1>3, <1>4, <1>5 DEF InnerStep

-----------------------------------------------------------------------------
(* What the queues hold.                                                   *)

\* A sequence over the set of its elements.
LEMMA SeqOver ==
  ASSUME NEW S, NEW T, NEW s \in Seq(S), Range(s) \subseteq T
  PROVE  s \in Seq(T)
<1>1. /\ Len(s) \in Nat /\ DOMAIN s = 1 .. Len(s)
      /\ s = [i \in 1 .. Len(s) |-> s[i]]
  BY LenProperties
<1>2. \A i \in 1 .. Len(s) : s[i] \in T
  BY <1>1 DEF Range
<1> QED
  BY <1>1, <1>2

\* Taking a task adds none.
LEMMA TakenRange ==
  ASSUME Typed, NEW l \in Loops, NEW t, Take(l, t)
  PROVE  \A m \in Loops : Range(queue'[m]) \subseteq Range(queue[m])
<1>1. /\ queue[l] \in Seq(Tasks) /\ queue[l] # <<>>
      /\ queue' = [queue EXCEPT ![l] = Tail(@)]
  BY DEF Typed, QueueTypes, Take
<1>2. Range(Tail(queue[l])) \subseteq Range(queue[l])
  BY <1>1, RangeTail
<1>3. \A m \in Loops : queue'[m] = IF m = l THEN Tail(queue[l]) ELSE queue[m]
  BY <1>1 DEF Typed, QueueTypes
<1> QED
  BY <1>2, <1>3

\* What Enqueue does to the queues.
LEMMA QueuedRange ==
  ASSUME Typed, NEW l \in Loops, NEW t \in Tasks, Enqueue(l, t)
  PROVE  /\ queue' \in [Loops -> Seq(Tasks)]
         /\ \A m \in Loops : m # l => queue'[m] = queue[m]
         /\ queue'[l] = Append(queue[l], t)
         /\ Range(queue'[l]) = Range(queue[l]) \cup {t}
<1>1. queue[l] \in Seq(Tasks) /\ queue' = [queue EXCEPT ![l] = Append(@, t)]
  BY DEF Typed, QueueTypes, Enqueue
<1>2. Append(queue[l], t) \in Seq(Tasks)
  BY <1>1, AppendProperties
<1>3. \A m \in Loops : queue'[m] = IF m = l THEN Append(queue[l], t) ELSE queue[m]
  BY <1>1 DEF Typed, QueueTypes
<1>4. queue' \in [Loops -> Seq(Tasks)]
  BY <1>1, <1>2 DEF Typed, QueueTypes
<1>5. Range(Append(queue[l], t)) = Range(queue[l]) \cup {t}
  BY <1>1, RangeAppend
<1> QED
  BY <1>3, <1>4, <1>5

\* The tasks of a connection belong in the queue of its loop.
LEMMA TaskTypes ==
  ASSUME Typed, NEW c \in Conns
  PROVE  /\ loopOf[c] \in Loops
         /\ \A kind \in StrongKinds :
              Task(kind, c) \in Tasks /\ Task(kind, c) \in TasksAt(loopOf[c])
BY DEF Typed, TypeOK, Tasks, TasksAt, Task

-----------------------------------------------------------------------------
(* Places and types.                                                       *)

ServerTypes ==
  /\ keys \subseteq Conns
  /\ owned \subseteq keys
  /\ next \in DOMAIN Pool
  /\ base \in {"running", "emptying", "stopping", "joining", "stopped"}
  /\ stopped \in 0 .. Len(Pool)
  /\ closed \subseteq quitting \cap entered
  /\ entered \cup quitting \subseteq Loops

\* A loop that was left holds nothing and handles nothing.
Deserted(l) ==
  /\ queue[l] = <<>>
  /\ callback[l] = "none"
  /\ \A c \in Conns : loopOf[c] = l => revents[c] = {}

Places ==
  /\ base = "running" => keys = owned
  /\ base \in {"running", "emptying"} => quitting = {}
  /\ base \notin {"running", "emptying"} => owned = {}
  /\ base \in {"stopping", "joining"} => stopped < Len(Pool)
  /\ base = "stopped" => stopped = Len(Pool)
  /\ \A i \in 1 .. stopped : Pool[i] \in closed
  /\ \A l \in closed : Deserted(l)

\* A connection that was not made is nowhere.
Fresh(c) ==
  state[c] = "none" =>
    /\ c \notin keys
    /\ c \notin Range(closing)
    /\ \A l \in Loops : \A t \in Range(queue[l]) : t.conn # c

ServerInv ==
  /\ Inv
  /\ ServerTypes
  /\ Places
  /\ \A c \in Conns : Fresh(c)

\* No step makes a connection of one that was not, but newConnection.
LEMMA FreshStays ==
  ASSUME NEW d \in Conns, Fresh(d), state'[d] = "none" => state[d] = "none",
         d \in keys' => d \in keys,
         d \in Range(closing') /\ state'[d] = "none" => d \in Range(closing),
         \A l \in Loops : \A t \in Range(queue'[l]) :
           t.conn = d /\ state'[d] = "none" => t \in Range(queue[l])
  PROVE  Fresh(d)'
BY DEF Fresh

\* A step of a connection keeps the server's invariant.
LEMMA InnerKeeps ==
  ASSUME Users = {}, ServerInv, InnerStep
  PROVE  ServerInv'
<1>1. Inv' /\ Moves /\ Typed /\ LifeTypes
  BY InnerMoves, TypedParts DEF ServerInv, Inv
<1>2. ServerTypes'
  BY <1>1 DEF ServerInv, ServerTypes, Moves, serverVars
<1>3. ASSUME NEW l \in closed
      PROVE  Deserted(l)'
  <2>1. Deserted(l) /\ l \in Loops
    BY DEF ServerInv, Places, ServerTypes
  <2>2. queue'[l] = queue[l]
    <3>1. CASE UNCHANGED queue
      BY <3>1
    <3>2. ASSUME NEW m \in Loops \ closed, NEW t, Take(m, t)
          PROVE  queue'[l] = queue[l]
      BY <1>1, <3>2 DEF Take, Typed, QueueTypes
    <3>3. ASSUME NEW c \in Conns, NEW t, loopOf[c] \notin closed, Enqueue(loopOf[c], t)
          PROVE  queue'[l] = queue[l]
      BY <1>1, <2>1, <3>3 DEF Enqueue, Typed, QueueTypes
    <3> QED
      BY <1>1, <3>1, <3>2, <3>3 DEF Moves, QueueMoves
  <2> QED
    BY <1>1, <2>1, <2>2 DEF Deserted, Moves, LeftAlone
<1>4. Places'
  <2>1. UNCHANGED <<base, keys, owned, quitting, stopped, closed>>
    BY <1>1 DEF Moves, serverVars
  <2> QED
    BY <1>3, <2>1 DEF ServerInv, Places
<1>5. ASSUME NEW d \in Conns
      PROVE  Fresh(d)'
  <2>1. Fresh(d) /\ keys' = keys /\ (state'[d] = "none" => state[d] = "none")
    BY <1>1 DEF ServerInv, Moves, StateMoves, serverVars
  <2>2. d \in Range(closing') /\ state'[d] = "none" => d \in Range(closing)
    <3>1. ASSUME NEW c \in Conns, state'[c] = "Disconnected", closing' = Append(closing, c)
          PROVE  d \in Range(closing') /\ state'[d] = "none" => d \in Range(closing)
      <4>1. Range(closing') = Range(closing) \cup {c}
        BY <1>1, <3>1, RangeAppend DEF LifeTypes
      <4> QED
        BY <3>1, <4>1
    <3> QED
      BY <1>1, <3>1 DEF Moves, ClosingMoves
  <2>3. ASSUME NEW l \in Loops, NEW t \in Range(queue'[l]), t.conn = d, state'[d] = "none"
        PROVE  t \in Range(queue[l])
    <3>1. CASE UNCHANGED queue
      BY <2>3, <3>1
    <3>2. ASSUME NEW m \in Loops, NEW u, Take(m, u)
          PROVE  t \in Range(queue[l])
      BY <1>1, <2>3, <3>2, TakenRange
    <3>3. ASSUME NEW c \in Conns, state[c] # "none", Enqueue(loopOf[c], Task("forceClose", c))
          PROVE  t \in Range(queue[l])
      <4>1. loopOf[c] \in Loops /\ Task("forceClose", c) \in Tasks
        BY <1>1, TaskTypes DEF StrongKinds
      <4>2. t # Task("forceClose", c)
        BY <2>1, <2>3, <3>3 DEF Task
      <4>3. /\ \A m \in Loops : m # loopOf[c] => queue'[m] = queue[m]
            /\ Range(queue'[loopOf[c]]) = Range(queue[loopOf[c]]) \cup {Task("forceClose", c)}
        BY <1>1, <3>3, <4>1, QueuedRange
      <4>4. CASE l = loopOf[c]
        BY <2>3, <4>2, <4>3, <4>4
      <4>5. CASE l # loopOf[c]
        BY <2>3, <4>3, <4>5
      <4> QED
        BY <4>4, <4>5
    <3> QED
      BY <1>1, <3>1, <3>2, <3>3 DEF Moves, QueueMoves
  <2> QED
    BY <2>1, <2>2, <2>3, FreshStays
<1> QED
  BY <1>1, <1>2, <1>4, <1>5 DEF ServerInv

\* The index of the pool wraps around inside the pool.
LEMMA WrapStays == next \in DOMAIN Pool => Wrap \in DOMAIN Pool
BY PoolAssumption DEF Wrap

\* newConnection keeps the server's invariant.
LEMMA NewKeeps ==
  ASSUME ServerInv, NEW c \in Conns, NewConnection(c)
  PROVE  ServerInv'
<1>1. /\ ChanTypes /\ LifeTypes /\ RestTypes /\ DataTypes /\ QueueTypes
      /\ Typed /\ Life(c) /\ Fresh(c)
  BY TypedParts DEF ServerInv, Inv
<1>2. next \in 1 .. Len(Pool) /\ Pool[next] \in Loops
  BY PoolAssumption DEF ServerInv, ServerTypes
<1> PICK l \in Loops : l = Pool[next]
  BY <1>2
<1>3. /\ base = "running" /\ state[c] = "none"
      /\ state' = [state EXCEPT ![c] = "Connecting"]
      /\ loopOf' = [loopOf EXCEPT ![c] = l]
      /\ next' = Wrap
      /\ keys' = keys \cup {c} /\ owned' = owned \cup {c}
      /\ Enqueue(l, Task("established", c))
      /\ UNCHANGED <<chanVars, dataVars, ups, downs, closing, peerVars, callVars,
                     fin, late, revents, callback, base, stopped, entered, quitting, closed>>
  BY DEF NewConnection, AddEntry
<1>4. l \in Loops /\ Task("established", c) \in Tasks /\ closed = {}
  BY <1>1, <1>3, TaskTypes DEF ServerInv, ServerTypes, Places, StrongKinds
<1>5. /\ queue' \in [Loops -> Seq(Tasks)]
      /\ \A m \in Loops : m # l => queue'[m] = queue[m]
      /\ Range(queue'[l]) = Range(queue[l]) \cup {Task("established", c)}
  BY <1>1, <1>3, <1>4, QueuedRange
<1>6. \A d \in Conns : loopOf'[d] = IF d = c THEN l ELSE loopOf[d]
  BY <1>1, <1>3 DEF RestTypes
<1>7. QueueTypes'
  <2>1. ASSUME NEW m \in Loops
        PROVE  queue'[m] \in Seq(TasksAt(m)')
    <3>1. ASSUME NEW t \in Range(queue[m])
          PROVE  t \in TasksAt(m)'
      <4>1. t \in TasksAt(m)
        BY <1>1 DEF QueueTypes, Range
      <4>2. t.conn # c
        BY <1>1, <1>3 DEF Fresh
      <4>3. t \in Tasks /\ loopOf[t.conn] = m
        BY <4>1 DEF TasksAt
      <4>4. t.conn \in Conns
        BY <4>3 DEF Tasks, Send
      <4> QED
        BY <1>6, <4>2, <4>3, <4>4 DEF TasksAt
    <3>2. Task("established", c) \in TasksAt(l)'
      BY <1>4, <1>6 DEF TasksAt, Task
    <3>3. Range(queue'[m]) \subseteq TasksAt(m)'
      BY <1>5, <3>1, <3>2
    <3> QED
      BY <1>5, <3>3, SeqOver
  <2> QED
    BY <1>5, <2>1 DEF QueueTypes
<1>8. ChanTypes' /\ LifeTypes' /\ DataTypes' /\ RestTypes'
  BY <1>1, <1>3, <1>4 DEF ChanTypes, LifeTypes, DataTypes, RestTypes, chanVars, dataVars,
     peerVars, callVars
<1>9. \A d \in Conns \ {c} : state'[d] = state[d]
  BY <1>1, <1>3 DEF LifeTypes
<1>10. ASSUME NEW d \in Conns
      PROVE  Life(d)'
  <2>1. /\ SameChannel(d) /\ SameData(d) /\ SameRest(d)
        /\ ups'[d] = ups[d] /\ downs'[d] = downs[d]
    BY <1>3 DEF SameChannel, SameData, SameRest, chanVars, dataVars, peerVars
  <2>2. CASE d = c
    <3>1. state'[c] = "Connecting"
      BY <1>1, <1>3 DEF LifeTypes
    <3> QED
      BY <1>1, <1>3, <2>1, <2>2, <3>1 DEF Life, Unborn, SameChannel, SameData, SameRest
  <2>3. CASE d # c
    BY <1>9, <2>1, <2>3, SameStays DEF Same, SameLife, ServerInv, Inv
  <2> QED
    BY <2>2, <2>3
<1>11. ServerTypes' /\ Places'
  <2>1. next' \in DOMAIN Pool
    BY <1>3, WrapStays DEF ServerInv, ServerTypes
  <2> QED
    BY <1>3, <1>4, <2>1 DEF ServerInv, ServerTypes, Places
<1>12. ASSUME NEW d \in Conns
       PROVE  Fresh(d)'
  <2>1. CASE d = c
    BY <1>1, <1>3, <2>1 DEF Fresh, LifeTypes
  <2>2. CASE d # c
    <3>1. \A m \in Loops : \A t \in Range(queue'[m]) : t.conn = d => t \in Range(queue[m])
      BY <1>5, <2>2 DEF Task
    <3> QED
      BY <1>3, <1>9, <2>2, <3>1, FreshStays DEF ServerInv
  <2> QED
    BY <2>1, <2>2
<1> QED
  BY <1>7, <1>8, <1>10, <1>11, <1>12, TypedParts DEF ServerInv, Inv

\* connectDestroyed is queued on the loop of the connection.
LEMMA DestroyQueued ==
  ASSUME Typed, NEW c \in Conns, DestroyOnItsLoop(c), loopOf' = loopOf
  PROVE  /\ QueueTypes' /\ loopOf[c] \in Loops /\ Task("destroyed", c) \in Tasks
         /\ queue'[loopOf[c]] = Append(queue[loopOf[c]], Task("destroyed", c))
         /\ Range(queue'[loopOf[c]]) = Range(queue[loopOf[c]]) \cup {Task("destroyed", c)}
         /\ \A m \in Loops : m # loopOf[c] => queue'[m] = queue[m]
<1>1. /\ loopOf[c] \in Loops
      /\ Task("destroyed", c) \in Tasks
      /\ Task("destroyed", c) \in TasksAt(loopOf[c])
  BY TaskTypes DEF StrongKinds
<1>2. Enqueue(loopOf[c], Task("destroyed", c))
  BY DEF DestroyOnItsLoop
<1>3. QueueTypes'
  BY <1>1, <1>2, Queued
<1> QED
  BY <1>1, <1>2, <1>3, QueuedRange

\* The base loop lets go of connections that were made.
LEMMA FreshLetGo ==
  ASSUME ServerInv, NEW c \in Conns, state[c] # "none",
         DestroyOnItsLoop(c) \/ UNCHANGED queue, UNCHANGED <<loopOf, state>>,
         keys' \subseteq keys, Range(closing') \subseteq Range(closing)
  PROVE  \A d \in Conns : Fresh(d)'
<1>1. Typed
  BY DEF ServerInv, Inv
<1>2. ASSUME NEW d \in Conns, NEW l \in Loops, NEW t \in Range(queue'[l]),
             t.conn = d, state'[d] = "none"
      PROVE  t \in Range(queue[l])
  <2>1. CASE UNCHANGED queue
    BY <1>2, <2>1
  <2>2. CASE DestroyOnItsLoop(c)
    <3>1. /\ Range(queue'[loopOf[c]]) = Range(queue[loopOf[c]]) \cup {Task("destroyed", c)}
          /\ \A m \in Loops : m # loopOf[c] => queue'[m] = queue[m]
      BY <1>1, <2>2, DestroyQueued
    <3>2. t # Task("destroyed", c)
      BY <1>2 DEF Task
    <3>3. CASE l = loopOf[c]
      BY <1>2, <3>1, <3>2, <3>3
    <3>4. CASE l # loopOf[c]
      BY <1>2, <3>1, <3>4
    <3> QED
      BY <3>3, <3>4
  <2> QED
    BY <2>1, <2>2
<1>3. ASSUME NEW d \in Conns
      PROVE  Fresh(d)'
  <2>1. \A l \in Loops : \A t \in Range(queue'[l]) :
          t.conn = d /\ state'[d] = "none" => t \in Range(queue[l])
    BY <1>2
  <2> QED
    BY <2>1, FreshStays DEF ServerInv
<1> QED
  BY <1>3

\* removeConnectionInLoop keeps the server's invariant.
LEMMA RemoveKeeps ==
  ASSUME ServerInv, RemoveConnectionInLoop
  PROVE  ServerInv'
<1>1. /\ base = "running" /\ closing # <<>> /\ closing' = Tail(closing)
      /\ UNCHANGED <<chanVars, dataVars, state, ups, downs, peerVars, loopOf,
                     callVars, fin, late, revents, callback,
                     next, base, stopped, entered, quitting, closed>>
  BY DEF RemoveConnectionInLoop
<1>2. Typed /\ closing \in Seq(Conns) /\ owned \subseteq Conns /\ keys = owned /\ closed = {}
  BY <1>1 DEF ServerInv, Inv, Typed, TypeOK, Places, ServerTypes
<1>3. PICK c \in Conns : c = Head(closing)
  BY <1>1, <1>2, HeadTailProperties
<1>4. /\ keys' = keys \ {c} /\ owned' = owned \ {c}
      /\ IF c \in keys THEN DestroyOnItsLoop(c) ELSE UNCHANGED queue
  BY <1>3 DEF RemoveConnectionInLoop, EraseEntry
<1>5. Range(closing) = {c} \cup Range(closing') /\ closing' \in Seq(Conns)
  BY <1>1, <1>2, <1>3, RangeTail, HeadTailProperties
<1>6. state[c] # "none"
  BY <1>5 DEF ServerInv, Fresh
<1>7. QueueTypes'
  <2>1. CASE c \in keys
    BY <1>1, <1>2, <1>4, <2>1, DestroyQueued
  <2>2. CASE c \notin keys
    BY <1>1, <1>2, <1>4, <2>2 DEF Typed, QueueTypes, TasksAt
  <2> QED
    BY <2>1, <2>2
<1>8. Inv'
  <2>1. owned' \subseteq Conns /\ closing' \in Seq(Conns)
    BY <1>2, <1>4, <1>5
  <2> QED
    BY <1>1, <1>7, <2>1, LettingGoKeeps DEF ServerInv
<1>9. ServerTypes' /\ Places'
  BY <1>1, <1>2, <1>4 DEF ServerInv, ServerTypes, Places
<1>10. \A d \in Conns : Fresh(d)'
  BY <1>1, <1>4, <1>5, <1>6, FreshLetGo
<1> QED
  BY <1>8, <1>9, <1>10 DEF ServerInv

\* One turn of the loop over the map in stop() keeps the server's invariant.
LEMMA StopConnectionKeeps ==
  ASSUME ServerInv, NEW c \in Conns, StopConnection(c)
  PROVE  ServerInv'
<1>1. /\ base = "emptying" /\ c \in owned /\ owned' = owned \ {c}
      /\ DestroyOnItsLoop(c)
      /\ UNCHANGED <<chanVars, dataVars, lifeVars, peerVars, loopOf, callVars, fin,
                     late, revents, callback, serverVars>>
  BY DEF StopConnection, ResetEntry
<1>2. Typed /\ closing \in Seq(Conns) /\ owned \subseteq Conns /\ quitting = {}
  BY <1>1 DEF ServerInv, Inv, Typed, TypeOK, Places
<1>3. state[c] # "none"
  BY <1>1 DEF ServerInv, ServerTypes, Fresh
<1>4. Inv'
  <2>1. QueueTypes'
    BY <1>1, <1>2, DestroyQueued
  <2>2. /\ owned' \subseteq Conns /\ closing' \in Seq(Conns)
        /\ UNCHANGED <<chanVars, dataVars, state, ups, downs, peerVars, loopOf,
                       callVars, fin, late, revents, callback>>
    BY <1>1, <1>2 DEF lifeVars
  <2> QED
    BY <2>1, <2>2, LettingGoKeeps DEF ServerInv
<1>5. ServerTypes' /\ Places'
  BY <1>1, <1>2 DEF ServerInv, ServerTypes, Places, serverVars
<1>6. \A d \in Conns : Fresh(d)'
  BY <1>1, <1>3, FreshLetGo DEF lifeVars, serverVars
<1> QED
  BY <1>4, <1>5, <1>6 DEF ServerInv

\* A loop that ends keeps the server's invariant: nothing runs in it any
\* more.
LEMMA CloseLoopKeeps ==
  ASSUME ServerInv, NEW l \in Loops, CloseLoop(l)
  PROVE  ServerInv'
<1>1. /\ l \in (quitting \cap entered) \ closed /\ Idle(l)
      /\ closed' = closed \cup {l}
      /\ queue' = [queue EXCEPT ![l] = <<>>]
      /\ UNCHANGED <<chanVars, dataVars, lifeVars, peerVars, loopOf, owned,
                     callVars, fin, late, revents, callback,
                     keys, next, base, stopped, entered, quitting>>
  BY DEF CloseLoop, Turns
<1>2. Typed /\ closing \in Seq(Conns) /\ owned \subseteq Conns
  BY DEF ServerInv, Inv, Typed, TypeOK
<1>3. \A m \in Loops : queue'[m] = IF m = l THEN <<>> ELSE queue[m]
  BY <1>1, <1>2 DEF Typed, QueueTypes
<1>4. QueueTypes'
  <2>1. \A S : <<>> \in Seq(S)
    BY EmptySeq
  <2>2. queue' \in [Loops -> Seq(Tasks)]
    BY <1>1, <1>2, <2>1 DEF Typed, QueueTypes
  <2>3. ASSUME NEW m \in Loops
        PROVE  queue'[m] \in Seq(TasksAt(m)')
    <3>1. TasksAt(m)' = TasksAt(m)
      BY <1>1 DEF TasksAt
    <3>2. queue'[m] \in Seq(TasksAt(m))
      BY <1>2, <1>3, <2>1 DEF Typed, QueueTypes
    <3> QED
      BY <3>1, <3>2
  <2> QED
    BY <2>2, <2>3 DEF QueueTypes
<1>5. Inv'
  <2>1. /\ owned' \subseteq Conns /\ closing' \in Seq(Conns)
        /\ UNCHANGED <<chanVars, dataVars, state, ups, downs, peerVars, loopOf,
                       callVars, fin, late, revents, callback>>
    BY <1>1, <1>2 DEF lifeVars
  <2> QED
    BY <1>4, <2>1, LettingGoKeeps DEF ServerInv
<1>6. \A m \in closed' : Deserted(m)'
  <2>1. Deserted(l)'
    BY <1>1, <1>3 DEF Deserted, Idle
  <2>2. ASSUME NEW m \in closed
        PROVE  Deserted(m)'
    <3>1. Deserted(m) /\ m \in Loops /\ m # l
      BY <1>1 DEF ServerInv, Places, ServerTypes
    <3>2. queue'[m] = queue[m]
      BY <1>3, <3>1
    <3> QED
      BY <1>1, <3>1, <3>2 DEF Deserted
  <2> QED
    BY <1>1, <2>1, <2>2
<1>7. ServerTypes' /\ Places'
  BY <1>1, <1>6 DEF ServerInv, ServerTypes, Places
<1>8. ASSUME NEW d \in Conns
      PROVE  Fresh(d)'
  <2>1. \A m \in Loops : \A t \in Range(queue'[m]) : t \in Range(queue[m])
    <3>1. Range(<<>>) = {}
      BY DEF Range
    <3> QED
      BY <1>3, <3>1
  <2> QED
    BY <1>1, <2>1, FreshStays DEF ServerInv, lifeVars
<1> QED
  BY <1>5, <1>7, <1>8 DEF ServerInv

\* What the connections are made of does not change.
LEMMA BaseKeeps ==
  ASSUME Users = {}, ServerInv, UNCHANGED vars, UNCHANGED <<keys, next>>,
         ServerTypes', Places'
  PROVE  ServerInv'
<1>1. Inv'
  BY NextKeeps DEF ServerInv, OthersSend
<1>2. UNCHANGED <<queue, state, closing>>
  BY DEF vars, loopVars, lifeVars
<1>3. \A d \in Conns : Fresh(d)'
  BY <1>2, FreshStays DEF ServerInv
<1> QED
  BY <1>1, <1>3 DEF ServerInv

\* A call of stop() keeps the server's invariant.
LEMMA StopKeeps ==
  ASSUME Users = {}, ServerInv, Stop
  PROVE  ServerInv'
<1>1. /\ base = "running" /\ base' = "emptying"
      /\ UNCHANGED vars /\ UNCHANGED <<keys, next, stopped, entered, quitting, closed>>
  BY DEF Stop
<1>2. UNCHANGED <<owned, queue, callback, loopOf, revents>>
  BY <1>1 DEF vars, loopVars
<1>3. ServerTypes' /\ Places'
  BY <1>1, <1>2 DEF ServerInv, ServerTypes, Places, Deserted
<1> QED
  BY <1>1, <1>3, BaseKeeps

\* A thread that gets into loop() keeps the server's invariant.
LEMMA EnterKeeps ==
  ASSUME Users = {}, ServerInv, NEW l \in Loops, EnterLoop(l)
  PROVE  ServerInv'
<1>1. /\ l \notin entered /\ entered' = entered \cup {l} /\ quitting' = quitting \ {l}
      /\ UNCHANGED vars /\ UNCHANGED <<keys, next, base, stopped, closed>>
  BY DEF EnterLoop
<1>2. UNCHANGED <<owned, queue, callback, loopOf, revents>>
  BY <1>1 DEF vars, loopVars
<1>3. ServerTypes' /\ Places'
  BY <1>1, <1>2 DEF ServerInv, ServerTypes, Places, Deserted
<1> QED
  BY <1>1, <1>3, BaseKeeps

\* The quit() of an I/O loop keeps the server's invariant.
LEMMA QuitKeeps ==
  ASSUME Users = {}, ServerInv, QuitLoop
  PROVE  ServerInv'
<1>1. /\ (base = "emptying" /\ owned = {}) \/ base = "stopping"
      /\ stopped < Len(Pool) /\ quitting' = quitting \cup {Pool[stopped + 1]}
      /\ base' = "joining"
      /\ UNCHANGED vars /\ UNCHANGED <<keys, next, stopped, entered, closed>>
  BY DEF QuitLoop, LoopToQuit
<1>2. UNCHANGED <<owned, queue, callback, loopOf, revents>>
  BY <1>1 DEF vars, loopVars
<1>3. stopped \in 0 .. Len(Pool) /\ Len(Pool) \in Nat
  BY PoolAssumption DEF ServerInv, ServerTypes
<1>4. Pool[stopped + 1] \in Loops
  BY <1>1, <1>3, PoolAssumption
<1>5. ServerTypes'
  BY <1>1, <1>2, <1>4 DEF ServerInv, ServerTypes
<1>6. Places'
  BY <1>1, <1>2 DEF ServerInv, Places, Deserted
<1> QED
  BY <1>1, <1>5, <1>6, BaseKeeps

\* The join of an I/O thread keeps the server's invariant.
LEMMA JoinKeeps ==
  ASSUME Users = {}, ServerInv, JoinLoop
  PROVE  ServerInv'
<1>1. /\ base = "joining" /\ Pool[stopped + 1] \in closed
      /\ stopped' = stopped + 1
      /\ base' = IF stopped + 1 = Len(Pool) THEN "stopped" ELSE "stopping"
      /\ UNCHANGED vars /\ UNCHANGED <<keys, next, entered, quitting, closed>>
  BY DEF JoinLoop, ThreadEnded
<1>2. UNCHANGED <<owned, queue, callback, loopOf, revents>>
  BY <1>1 DEF vars, loopVars
<1>3. stopped \in Nat /\ stopped < Len(Pool) /\ Len(Pool) \in Nat
  BY <1>1, PoolAssumption DEF ServerInv, ServerTypes, Places
<1>4. ServerTypes'
  BY <1>1, <1>2, <1>3 DEF ServerInv, ServerTypes
<1>5. Places'
  <2>1. \A i \in 1 .. stopped' : Pool[i] \in closed'
    <3>1. 1 .. stopped + 1 = (1 .. stopped) \cup {stopped + 1}
      BY <1>3
    <3> QED
      BY <1>1, <3>1 DEF ServerInv, Places
  <2>2. \A l \in closed' : Deserted(l)'
    BY <1>1, <1>2 DEF ServerInv, Places, Deserted
  <2>3. base' \in {"stopped", "stopping"} /\ owned' = {}
    BY <1>1, <1>2 DEF ServerInv, Places
  <2>4. /\ base' = "stopped" => stopped' = Len(Pool)
        /\ base' = "stopping" => stopped' < Len(Pool)
    BY <1>1, <1>3
  <2> QED
    BY <2>1, <2>2, <2>3, <2>4 DEF Places
<1> QED
  BY <1>1, <1>4, <1>5, BaseKeeps

\* A stutter keeps the server's invariant.
LEMMA StutterKeeps ==
  ASSUME Users = {}, ServerInv, UNCHANGED allVars
  PROVE  ServerInv'
<1>1. /\ UNCHANGED vars /\ UNCHANGED serverVars
      /\ UNCHANGED <<owned, queue, callback, loopOf, revents>>
  BY DEF allVars, vars, loopVars
<1>2. ServerTypes' /\ Places'
  BY <1>1 DEF ServerInv, ServerTypes, Places, Deserted, serverVars
<1> QED
  BY <1>1, <1>2, BaseKeeps DEF serverVars

\* The steps of the server that leave the connections alone.
BaseStep == Stop \/ QuitLoop \/ JoinLoop \/ \E l \in Loops : EnterLoop(l)

\* How the proofs below split a step.
LEMMA ServerSteps ==
  ASSUME [ServerNext]_allVars
  PROVE  \/ InnerStep
         \/ \E c \in Conns : NewConnection(c) \/ StopConnection(c)
         \/ \E l \in Loops : CloseLoop(l)
         \/ RemoveConnectionInLoop
         \/ BaseStep
         \/ UNCHANGED allVars
BY DEF ServerNext, InnerStep, BaseStep, Finished

\* The server's invariant holds where the program starts.
LEMMA ServerInitHolds == ServerInit => ServerInv
<1> SUFFICES ASSUME ServerInit
             PROVE  ServerInv
  OBVIOUS
<1>1. Inv
  BY InitHolds DEF ServerInit
<1>2. 1 \in DOMAIN Pool /\ Len(Pool) \in Nat
  BY PoolAssumption, EmptySeq, LenProperties
<1>3. ServerTypes /\ Places
  BY <1>2 DEF ServerInit, Init, ServerTypes, Places
<1>4. \A c \in Conns : Fresh(c)
  <2>1. Range(<<>>) = {}
    BY DEF Range
  <2> QED
    BY <2>1 DEF ServerInit, Init, Fresh
<1> QED
  BY <1>1, <1>3, <1>4 DEF ServerInv

\* Every step keeps the server's invariant.
LEMMA ServerNextKeeps ==
  ASSUME Users = {}, ServerInv, [ServerNext]_allVars
  PROVE  ServerInv'
BY ServerSteps, InnerKeeps, NewKeeps, StopConnectionKeeps, CloseLoopKeeps, RemoveKeeps,
   StopKeeps, EnterKeeps, QuitKeeps, JoinKeeps, StutterKeeps DEF BaseStep

\* The invariant, from which the theorems below follow state by state.
LEMMA ServerInvHolds ==
  ASSUME Users = {}
  PROVE  ServerSafetySpec => []ServerInv
<1>1. ServerInv /\ [ServerNext]_allVars => ServerInv'
  BY ServerNextKeeps
<1> QED
  BY <1>1, ServerInitHolds, PTL DEF ServerSafetySpec

\* Every variable of TcpServer keeps its type; a null entry keeps its key, and
\* a loop is left only after its quit_ was set.
THEOREM ServerTypeCorrect ==
  ASSUME Users = {}
  PROVE  ServerSafetySpec => []ServerTypeOK
<1>1. ServerInv => ServerTypeOK
  BY DEF ServerInv, Inv, Typed, ServerTypes, ServerTypeOK
<1> QED
  BY <1>1, ServerInvHolds, PTL

\* A task of a connection is queued on the connection's own loop, for any
\* number of loops: assertInLoopThread never aborts in connectEstablished,
\* connectDestroyed and forceCloseInLoop.
THEOREM TasksAreConfined ==
  ASSUME Users = {}
  PROVE  ServerSafetySpec => []ThreadConfined
<1>1. ServerInv => ThreadConfined
  <2> SUFFICES ASSUME ServerInv, NEW l \in Loops, NEW i \in DOMAIN queue[l]
               PROVE  loopOf[queue[l][i].conn] = l
    BY DEF ThreadConfined
  <2>1. queue[l] \in Seq(TasksAt(l))
    BY DEF ServerInv, Inv, Typed, QueueTypes
  <2>2. queue[l][i] \in TasksAt(l)
    BY <2>1
  <2> QED
    BY <2>2 DEF TasksAt
<1> QED
  BY <1>1, ServerInvHolds, PTL

\* When stop() has returned, no connection outlives it but those whose
\* removeConnectionInLoop is still queued on the base loop: every entry was
\* reset, every loop was joined, and a loop that was left holds nothing.
THEOREM StopReleasesAll ==
  ASSUME Users = {}
  PROVE  ServerSafetySpec => []StopReleases
<1>1. ServerInv => StopReleases
  <2> SUFFICES ASSUME ServerInv, base = "stopped", NEW c \in Conns,
                      state[c] # "none", c \notin Range(closing), Alive(c)
               PROVE  FALSE
    BY DEF StopReleases, Freed
  <2>1. owned = {} /\ stopped = Len(Pool)
    BY DEF ServerInv, Places
  <2>2. \A l \in Loops : Deserted(l)
    <3> SUFFICES ASSUME NEW l \in Loops
                 PROVE  Deserted(l)
      OBVIOUS
    <3>1. PICK i \in DOMAIN Pool : Pool[i] = l
      BY PoolAssumption
    <3>2. i \in 1 .. stopped
      BY <2>1, PoolAssumption
    <3> QED
      BY <3>1, <3>2 DEF ServerInv, Places
  <2>3. loopOf[c] \in Loops /\ c # "none"
    BY ConnAssumption DEF ServerInv, Inv, Typed, TypeOK
  <2>4. revents[c] = {} /\ callback[loopOf[c]] # c
    BY <2>2, <2>3 DEF Deserted
  <2>5. TasksOf(c) = {}
    <3>1. Range(<<>>) = {}
      BY DEF Range
    <3> QED
      BY <2>2, <3>1 DEF TasksOf, Deserted
  <2> QED
    BY <2>1, <2>4, <2>5 DEF Alive
<1> QED
  BY <1>1, ServerInvHolds, PTL

-----------------------------------------------------------------------------
(* Who holds a connection while the server runs.                           *)

RunHeld == base = "running" => KeptInv

\* newConnection enters the connection into the map, which holds it.
LEMMA NewKept ==
  ASSUME ServerInv, KeptInv, NEW c \in Conns, NewConnection(c)
  PROVE  KeptInv'
<1>1. LifeTypes /\ RestTypes /\ Typed
  BY TypedParts DEF ServerInv, Inv
<1>2. next \in 1 .. Len(Pool) /\ Pool[next] \in Loops
  BY PoolAssumption DEF ServerInv, ServerTypes
<1> PICK l \in Loops : l = Pool[next]
  BY <1>2
<1>3. /\ state[c] = "none"
      /\ state' = [state EXCEPT ![c] = "Connecting"]
      /\ loopOf' = [loopOf EXCEPT ![c] = l]
      /\ owned' = owned \cup {c}
      /\ Enqueue(l, Task("established", c))
      /\ UNCHANGED <<chanVars, closing>>
  BY DEF NewConnection, AddEntry
<1>4. \A d \in Conns \ {c} : Leaving(d) => Leaving(d)'
  <2>1. Task("established", c) \in Tasks
    BY <1>1, TaskTypes DEF StrongKinds
  <2>2. \A m \in Loops : Range(queue[m]) \subseteq Range(queue'[m])
    BY <1>1, <1>3, <2>1, QueuedRange
  <2>3. \A d \in Conns \ {c} : loopOf'[d] = loopOf[d] /\ loopOf[d] \in Loops
    BY <1>1, <1>3 DEF RestTypes
  <2> QED
    BY <2>2, <2>3 DEF Leaving
<1>5. ASSUME NEW d \in Conns \ {c}
      PROVE  Kept(d)'
  <2>1. state'[d] = state[d] /\ index'[d] = index[d] /\ (d \in owned' <=> d \in owned)
    BY <1>1, <1>3 DEF LifeTypes, chanVars
  <2> QED
    BY <1>3, <1>4, <2>1, KeptStays DEF KeptInv
<1>6. Kept(c)'
  <2>1. state'[c] = "Connecting" /\ c \in owned' /\ c \notin Range(closing)
    BY <1>1, <1>3 DEF LifeTypes, KeptInv, Kept
  <2> QED
    BY <1>3, <2>1 DEF Kept
<1> QED
  BY <1>5, <1>6 DEF KeptInv

\* While the server runs, every step leaves the connections held.
LEMMA RunHeldStays ==
  ASSUME Users = {}, ServerInv, RunHeld, [ServerNext]_allVars
  PROVE  RunHeld'
<1>1. CASE InnerStep
  <2>1. base' = base
    BY <1>1 DEF InnerStep, ServerLoopStep, ConnectionStep, PeerStep, serverVars
  <2>2. base = "running" => KeptInv'
    BY <1>1, StepKept DEF InnerStep, ServerLoopStep, ConnectionStep, PeerStep,
       ServerInv, RunHeld
  <2> QED
    BY <2>1, <2>2 DEF RunHeld
<1>2. ASSUME NEW c \in Conns, NewConnection(c)
      PROVE  RunHeld'
  BY <1>2, NewKept DEF NewConnection, RunHeld
<1>3. CASE RemoveConnectionInLoop
  <2>1. base = "running" /\ keys = owned
    BY <1>3 DEF RemoveConnectionInLoop, ServerInv, Places
  <2>2. OwnerRemoves
    BY <1>3, <2>1 DEF RemoveConnectionInLoop, EraseEntry, DestroyOnItsLoop, OwnerRemoves
  <2> QED
    BY <2>1, <2>2, RemovesKept DEF RunHeld, ServerInv
<1>4. CASE \/ \E c \in Conns : StopConnection(c)
           \/ \E l \in Loops : CloseLoop(l)
           \/ Stop \/ QuitLoop \/ JoinLoop
  BY <1>4 DEF StopConnection, CloseLoop, Stop, QuitLoop, JoinLoop,
     serverVars, RunHeld, ServerInv, Places
<1>5. CASE (\E l \in Loops : EnterLoop(l)) \/ UNCHANGED allVars
  <2>1. UNCHANGED vars /\ base' = base
    BY <1>5 DEF EnterLoop, allVars, serverVars
  <2> QED
    BY <2>1, StepKept DEF RunHeld, ServerInv
<1> QED
  BY <1>1, <1>2, <1>3, <1>4, <1>5, ServerSteps DEF BaseStep

\* So they are held all the time until the server stops.
LEMMA RunHeldHolds ==
  ASSUME Users = {}
  PROVE  ServerSafetySpec => [](ServerInv /\ RunHeld)
<1>1. ServerInit => RunHeld
  <2>1. Range(<<>>) = {}
    BY DEF Range
  <2> QED
    BY <2>1 DEF ServerInit, Init, RunHeld, KeptInv, Kept
<1>2. ServerInv /\ RunHeld /\ [ServerNext]_allVars => RunHeld'
  BY RunHeldStays
<1> QED
  BY <1>1, <1>2, ServerInvHolds, PTL DEF ServerSafetySpec

\* The map holds every connection that is not closed, until stop() is called:
\* no path drops the last strong pointer of an open connection.
THEOREM OpenConnectionsAreOwned ==
  ASSUME Users = {}
  PROVE  ServerSafetySpec => []OpenIsOwned
<1>1. RunHeld => OpenIsOwned
  BY DEF RunHeld, KeptInv, Kept, OpenIsOwned
<1> QED
  BY <1>1, RunHeldHolds, PTL

-----------------------------------------------------------------------------
(* connectDestroyed is queued once.                                        *)

\* Where connectDestroyed stands in a queue.
PendingIn(q, c) == {i \in DOMAIN q : q[i] = Task("destroyed", c)}

Pending(c) == PendingIn(queue[loopOf[c]], c)

AtMostOne(S) == \A i, j \in S : i = j

DestroyTasks(c) ==
  /\ AtMostOne(Pending(c))
  /\ Pending(c) # {} =>
       /\ c \notin owned
       /\ base = "running" => state[c] = "Disconnected"

\* Taking the head moves what is left forward.
LEMMA PendingInTail ==
  ASSUME NEW q \in Seq(Tasks), q # <<>>, NEW c
  PROVE  /\ AtMostOne(PendingIn(q, c)) => AtMostOne(PendingIn(Tail(q), c))
         /\ PendingIn(Tail(q), c) # {} => PendingIn(q, c) # {}
<1>1. /\ Len(q) \in Nat \ {0} /\ DOMAIN q = 1 .. Len(q)
      /\ Tail(q) \in Seq(Tasks) /\ Len(Tail(q)) = Len(q) - 1
      /\ \A i \in 1 .. Len(Tail(q)) : Tail(q)[i] = q[i + 1]
  BY EmptySeq, LenProperties, HeadTailProperties
<1>2. DOMAIN Tail(q) = 1 .. Len(q) - 1
  BY <1>1, LenProperties
<1>3. \A i \in PendingIn(Tail(q), c) : i \in Nat /\ i + 1 \in PendingIn(q, c)
  BY <1>1, <1>2 DEF PendingIn
<1>4. ASSUME AtMostOne(PendingIn(q, c)), NEW i \in PendingIn(Tail(q), c),
             NEW j \in PendingIn(Tail(q), c)
      PROVE  i = j
  BY <1>3, <1>4 DEF AtMostOne
<1> QED
  BY <1>3, <1>4 DEF AtMostOne

\* A task of another kind, or of another connection, adds nothing.
LEMMA PendingInAppend ==
  ASSUME NEW q \in Seq(Tasks), NEW t \in Tasks, NEW c
  PROVE  /\ t # Task("destroyed", c) => PendingIn(Append(q, t), c) = PendingIn(q, c)
         /\ PendingIn(q, c) = {} => AtMostOne(PendingIn(Append(q, t), c))
<1>1. /\ Len(q) \in Nat /\ DOMAIN q = 1 .. Len(q)
      /\ DOMAIN Append(q, t) = 1 .. Len(q) + 1
      /\ \A i \in 1 .. Len(q) : Append(q, t)[i] = q[i]
      /\ Append(q, t)[Len(q) + 1] = t
  BY LenProperties, AppendProperties
<1>2. 1 .. Len(q) + 1 = (1 .. Len(q)) \cup {Len(q) + 1}
  BY <1>1
<1>3. t # Task("destroyed", c) => PendingIn(Append(q, t), c) = PendingIn(q, c)
  BY <1>1, <1>2 DEF PendingIn
<1>4. PendingIn(q, c) = {} => PendingIn(Append(q, t), c) \subseteq {Len(q) + 1}
  BY <1>1, <1>2 DEF PendingIn
<1> QED
  BY <1>3, <1>4 DEF AtMostOne

\* A step that adds no connectDestroyed for c and brings c back to nobody.
LEMMA DestroyTasksStay ==
  ASSUME NEW c \in Conns, DestroyTasks(c),
         AtMostOne(Pending(c)) => AtMostOne(Pending(c)'),
         Pending(c)' # {} => Pending(c) # {},
         c \in owned' => c \in owned,
         base' = "running" => base = "running",
         state[c] = "Disconnected" => state'[c] = "Disconnected"
  PROVE  DestroyTasks(c)'
BY DEF DestroyTasks, AtMostOne

\* A step of a connection leaves it with at most one connectDestroyed.
LEMMA InnerDestroy ==
  ASSUME Users = {}, ServerInv, InnerStep, NEW c \in Conns, DestroyTasks(c)
  PROVE  DestroyTasks(c)'
<1>1. Moves /\ Typed
  BY InnerMoves DEF ServerInv, Inv
<1>2. /\ UNCHANGED <<loopOf, owned, base>>
      /\ state[c] = "Disconnected" => state'[c] = "Disconnected"
  BY <1>1 DEF Moves, StateMoves, serverVars
<1>3. loopOf[c] \in Loops /\ queue[loopOf[c]] \in Seq(Tasks)
  BY <1>1 DEF Typed, TypeOK, QueueTypes
<1>4. /\ AtMostOne(Pending(c)) => AtMostOne(Pending(c)')
      /\ Pending(c)' # {} => Pending(c) # {}
  <2>1. CASE queue'[loopOf[c]] = queue[loopOf[c]]
    BY <1>2, <2>1 DEF Pending
  <2>2. ASSUME NEW l \in Loops, NEW t, Take(l, t), queue'[loopOf[c]] # queue[loopOf[c]]
        PROVE  queue[l] # <<>> /\ l = loopOf[c] /\ queue'[l] = Tail(queue[l])
    BY <1>1, <1>3, <2>2 DEF Take, Typed, QueueTypes
  <2>3. CASE queue[loopOf[c]] # <<>> /\ queue'[loopOf[c]] = Tail(queue[loopOf[c]])
    BY <1>2, <1>3, <2>3, PendingInTail DEF Pending
  <2>4. ASSUME NEW d \in Conns, Enqueue(loopOf[d], Task("forceClose", d)),
               queue'[loopOf[c]] # queue[loopOf[c]]
        PROVE  Pending(c)' = Pending(c)
    <3>1. Task("forceClose", d) \in Tasks /\ Task("forceClose", d) # Task("destroyed", c)
      BY <1>1, TaskTypes DEF StrongKinds, Task
    <3>2. queue'[loopOf[c]] = Append(queue[loopOf[c]], Task("forceClose", d))
      BY <1>1, <1>3, <2>4 DEF Enqueue, Typed, QueueTypes
    <3> QED
      BY <1>2, <1>3, <3>1, <3>2, PendingInAppend DEF Pending
  <2> QED
    BY <1>1, <2>1, <2>2, <2>3, <2>4 DEF Moves, QueueMoves
<1> QED
  BY <1>2, <1>4, DestroyTasksStay

\* So does newConnection.
LEMMA NewDestroy ==
  ASSUME ServerInv, NEW d \in Conns, NewConnection(d), NEW c \in Conns, DestroyTasks(c)
  PROVE  DestroyTasks(c)'
<1>1. LifeTypes /\ RestTypes /\ Typed
  BY TypedParts DEF ServerInv, Inv
<1>2. next \in 1 .. Len(Pool) /\ Pool[next] \in Loops
  BY PoolAssumption DEF ServerInv, ServerTypes
<1> PICK l \in Loops : l = Pool[next]
  BY <1>2
<1>3. /\ state[d] = "none"
      /\ state' = [state EXCEPT ![d] = "Connecting"]
      /\ loopOf' = [loopOf EXCEPT ![d] = l]
      /\ owned' = owned \cup {d} /\ base' = base
      /\ Enqueue(l, Task("established", d))
  BY DEF NewConnection, AddEntry
<1>4. Task("established", d) \in Tasks /\ Task("established", d) # Task("destroyed", c)
  BY <1>1, TaskTypes DEF StrongKinds, Task
<1>5. \A m \in Loops : queue[m] \in Seq(Tasks) /\ PendingIn(queue'[m], c) = PendingIn(queue[m], c)
  <2>1. \A m \in Loops : queue[m] \in Seq(Tasks)
    BY <1>1 DEF Typed, QueueTypes
  <2>2. PendingIn(Append(queue[l], Task("established", d)), c) = PendingIn(queue[l], c)
    BY <1>4, <2>1, PendingInAppend
  <2> QED
    BY <1>1, <1>3, <1>4, <2>1, <2>2, QueuedRange
<1>6. CASE c = d
  <2>1. PendingIn(queue[l], c) = {}
    BY <1>3, <1>6 DEF ServerInv, Fresh, PendingIn, Range, Task
  <2>2. Pending(c)' = {}
    BY <1>1, <1>3, <1>5, <1>6, <2>1 DEF Pending, RestTypes
  <2> QED
    BY <2>2 DEF DestroyTasks, AtMostOne
<1>7. CASE c # d
  <2>1. loopOf'[c] = loopOf[c] /\ loopOf[c] \in Loops /\ state'[c] = state[c]
    BY <1>1, <1>3, <1>7 DEF RestTypes, LifeTypes
  <2>2. Pending(c)' = Pending(c)
    BY <1>5, <2>1 DEF Pending
  <2> QED
    BY <1>3, <1>7, <2>1, <2>2, DestroyTasksStay
<1> QED
  BY <1>6, <1>7

\* The base loop lets go of d, which it still held.
LEMMA LettingGoDestroys ==
  ASSUME Typed, NEW d \in Conns, DestroyOnItsLoop(d), d \in owned, owned' = owned \ {d},
         UNCHANGED <<loopOf, state, base>>, base = "running" => state[d] = "Disconnected",
         NEW c \in Conns, DestroyTasks(c)
  PROVE  DestroyTasks(c)'
<1>1. /\ Task("destroyed", d) \in Tasks /\ loopOf[d] \in Loops /\ loopOf[c] \in Loops
      /\ queue'[loopOf[d]] = Append(queue[loopOf[d]], Task("destroyed", d))
      /\ \A m \in Loops : m # loopOf[d] => queue'[m] = queue[m]
  BY DestroyQueued, TaskTypes
<1>2. \A m \in Loops : queue[m] \in Seq(Tasks)
  BY DEF Typed, QueueTypes
<1>3. CASE c = d
  <2>1. Pending(c) = {}
    BY <1>3 DEF DestroyTasks
  <2>2. AtMostOne(Pending(c)')
    BY <1>1, <1>2, <1>3, <2>1, PendingInAppend DEF Pending
  <2> QED
    BY <1>3, <2>2 DEF DestroyTasks
<1>4. CASE c # d
  <2>1. Task("destroyed", d) # Task("destroyed", c)
    BY <1>4 DEF Task
  <2>2. Pending(c)' = Pending(c)
    <3>1. CASE loopOf[c] = loopOf[d]
      <4>1. PendingIn(Append(queue[loopOf[d]], Task("destroyed", d)), c)
              = PendingIn(queue[loopOf[d]], c)
        BY <1>1, <1>2, <2>1, PendingInAppend
      <4> QED
        BY <1>1, <3>1, <4>1 DEF Pending
    <3>2. CASE loopOf[c] # loopOf[d]
      BY <1>1, <3>2 DEF Pending
    <3> QED
      BY <3>1, <3>2
  <2> QED
    BY <2>2, DestroyTasksStay
<1> QED
  BY <1>3, <1>4

\* A step that leaves the queues alone.
LEMMA QuietDestroys ==
  ASSUME NEW c \in Conns, DestroyTasks(c), UNCHANGED <<queue, loopOf, state>>,
         owned' \subseteq owned, base' = "running" => base = "running"
  PROVE  DestroyTasks(c)'
<1>1. Pending(c)' = Pending(c)
  BY DEF Pending
<1> QED
  BY <1>1, DestroyTasksStay

\* Every step leaves at most one connectDestroyed of a connection, and none
\* while the map holds it.
LEMMA DestroyTasksKept ==
  ASSUME Users = {}, ServerInv, RunHeld, [ServerNext]_allVars, NEW c \in Conns, DestroyTasks(c)
  PROVE  DestroyTasks(c)'
<1>1. Typed
  BY DEF ServerInv, Inv
<1>2. CASE RemoveConnectionInLoop
  <2>1. /\ base = "running" /\ closing # <<>> /\ keys = owned /\ KeptInv
        /\ closing \in Seq(Conns) /\ UNCHANGED <<loopOf, state, base>>
    BY <1>1, <1>2 DEF RemoveConnectionInLoop, ServerInv, Places, RunHeld, Typed, TypeOK
  <2>2. PICK d \in Conns : d = Head(closing)
    BY <2>1, HeadTailProperties
  <2>3. /\ owned' = owned \ {d}
        /\ IF d \in owned THEN DestroyOnItsLoop(d) ELSE UNCHANGED queue
    BY <1>2, <2>1, <2>2 DEF RemoveConnectionInLoop, EraseEntry
  <2>4. state[d] = "Disconnected"
    BY <2>1, <2>2, RangeTail DEF KeptInv, Kept
  <2>5. CASE d \in owned
    BY <1>1, <2>1, <2>3, <2>4, <2>5, LettingGoDestroys
  <2>6. CASE d \notin owned
    BY <2>1, <2>3, <2>6, QuietDestroys
  <2> QED
    BY <2>5, <2>6
<1>3. ASSUME NEW d \in Conns, StopConnection(d)
      PROVE  DestroyTasks(c)'
  <2>1. /\ base = "emptying" /\ d \in owned /\ owned' = owned \ {d} /\ DestroyOnItsLoop(d)
        /\ UNCHANGED <<loopOf, state, base>>
    BY <1>3 DEF StopConnection, ResetEntry, lifeVars, serverVars
  <2> QED
    BY <1>1, <2>1, LettingGoDestroys
<1>4. ASSUME NEW l \in Loops, CloseLoop(l)
      PROVE  DestroyTasks(c)'
  <2>1. /\ queue' = [queue EXCEPT ![l] = <<>>]
        /\ UNCHANGED <<loopOf, state, base, owned>>
    BY <1>4 DEF CloseLoop, lifeVars
  <2>2. loopOf[c] \in Loops /\ (queue'[loopOf[c]] = queue[loopOf[c]] \/ queue'[loopOf[c]] = <<>>)
    BY <1>1, <2>1 DEF Typed, TypeOK, QueueTypes
  <2>3. PendingIn(<<>>, c) = {}
    BY DEF PendingIn
  <2>4. Pending(c)' = Pending(c) \/ Pending(c)' = {}
    BY <2>1, <2>2, <2>3 DEF Pending
  <2> QED
    BY <2>1, <2>4, DestroyTasksStay DEF AtMostOne
<1>5. CASE BaseStep \/ UNCHANGED allVars
  <2>1. /\ UNCHANGED <<queue, loopOf, state, owned>>
        /\ base' = "running" => base = "running"
    BY <1>5 DEF BaseStep, Stop, EnterLoop, QuitLoop, JoinLoop, allVars, vars, loopVars,
       lifeVars, serverVars
  <2> QED
    BY <2>1, QuietDestroys
<1> QED
  BY <1>2, <1>3, <1>4, <1>5, InnerDestroy, NewDestroy, ServerSteps

\* connectDestroyed is queued for a connection that has left the map, and only
\* once: by removeConnectionInLoop or by stop(), whichever finds the entry.
THEOREM QueuedOnceToDestroy ==
  ASSUME Users = {}
  PROVE  ServerSafetySpec => []DestroyedOnce
<1>1. ServerInit => \A c \in Conns : DestroyTasks(c)
  <2> SUFFICES ASSUME ServerInit, NEW c \in Conns
               PROVE  DestroyTasks(c)
    OBVIOUS
  <2>1. queue[loopOf[c]] = <<>>
    BY ServerInitHolds DEF ServerInit, Init, ServerInv, Inv, Typed, TypeOK
  <2>2. Pending(c) = {}
    BY <2>1 DEF Pending, PendingIn
  <2> QED
    BY <2>2 DEF DestroyTasks, AtMostOne
<1>2. /\ ServerInv /\ RunHeld /\ (\A c \in Conns : DestroyTasks(c))
      /\ [ServerNext]_allVars
      => (\A c \in Conns : DestroyTasks(c))'
  BY DestroyTasksKept
<1>3. (\A c \in Conns : DestroyTasks(c)) => DestroyedOnce
  <2> SUFFICES ASSUME NEW c \in Conns, DestroyTasks(c)
               PROVE  /\ Cardinality(Pending(c)) <= 1
                      /\ Pending(c) # {} => c \notin owned
                      /\ Pending(c) # {} /\ base = "running" => state[c] = "Disconnected"
    BY DEF DestroyedOnce, Pending, PendingIn
  <2>1. CASE Pending(c) = {}
    BY <2>1, FS_EmptySet
  <2>2. CASE Pending(c) # {}
    <3>1. PICK i : i \in Pending(c)
      BY <2>2
    <3>2. Pending(c) = {i}
      BY <3>1 DEF DestroyTasks, AtMostOne
    <3> QED
      BY <3>2, FS_Singleton DEF DestroyTasks
  <2> QED
    BY <2>1, <2>2 DEF DestroyTasks
<1> QED
  BY <1>1, <1>2, <1>3, RunHeldHolds, PTL DEF ServerSafetySpec

-----------------------------------------------------------------------------
(* The round robin.                                                        *)

Given(l) == {c \in Conns : state[c] # "none" /\ loopOf[c] = l}

\* The loops before next_ have had one connection more in this round.
Shares(n, k) ==
  \A i \in DOMAIN Pool :
    /\ IsFiniteSet(Given(Pool[i]))
    /\ Cardinality(Given(Pool[i])) = IF i < k THEN n + 1 ELSE n

RoundRobin == \E n \in Nat : Shares(n, next)

\* A new connection goes to the next loop of the pool, and the shares stay
\* even.
LEMMA SharesMove ==
  ASSUME ServerInv, NEW c \in Conns, NewConnection(c), NEW n \in Nat, Shares(n, next)
  PROVE  RoundRobin'
<1>1. LifeTypes /\ RestTypes
  BY TypedParts DEF ServerInv, Inv
<1>2. /\ next \in 1 .. Len(Pool) /\ Pool[next] \in Loops
      /\ Len(Pool) \in Nat /\ DOMAIN Pool = 1 .. Len(Pool)
  BY PoolAssumption DEF ServerInv, ServerTypes
<1>3. /\ state[c] = "none"
      /\ state' = [state EXCEPT ![c] = "Connecting"]
      /\ loopOf' = [loopOf EXCEPT ![c] = Pool[next]]
      /\ next' = IF next + 1 > Len(Pool) THEN 1 ELSE next + 1
  BY DEF NewConnection, Wrap
<1>4. \A d \in Conns :
        /\ state'[d] # "none" <=> state[d] # "none" \/ d = c
        /\ loopOf'[d] = IF d = c THEN Pool[next] ELSE loopOf[d]
  BY <1>1, <1>3 DEF LifeTypes, RestTypes
<1>5. ASSUME NEW i \in DOMAIN Pool
      PROVE  /\ IsFiniteSet(Given(Pool[i])')
             /\ Cardinality(Given(Pool[i])') = IF i <= next THEN n + 1 ELSE n
  <2>1. /\ IsFiniteSet(Given(Pool[i]))
        /\ Cardinality(Given(Pool[i])) = IF i < next THEN n + 1 ELSE n
    BY DEF Shares
  <2>2. CASE i = next
    <3>1. Given(Pool[i])' = Given(Pool[i]) \cup {c} /\ c \notin Given(Pool[i])
      BY <1>3, <1>4, <2>2 DEF Given
    <3>2. /\ IsFiniteSet(Given(Pool[i]) \cup {c})
          /\ Cardinality(Given(Pool[i]) \cup {c}) = Cardinality(Given(Pool[i])) + 1
      BY <2>1, <3>1, FS_AddElement
    <3>3. Cardinality(Given(Pool[i])) = n
      BY <1>2, <2>1, <2>2
    <3>4. IsFiniteSet(Given(Pool[i])') /\ Cardinality(Given(Pool[i])') = n + 1
      BY <3>1, <3>2, <3>3
    <3> QED
      BY <1>2, <2>2, <3>4
  <2>3. CASE i # next
    <3>1. Pool[i] # Pool[next]
      BY <1>2, <2>3, PoolAssumption
    <3>2. Given(Pool[i])' = Given(Pool[i])
      BY <1>3, <1>4, <3>1 DEF Given
    <3>3. i < next <=> i <= next
      BY <1>2, <2>3
    <3>4. /\ IsFiniteSet(Given(Pool[i])')
          /\ Cardinality(Given(Pool[i])') = IF i < next THEN n + 1 ELSE n
      BY <2>1, <3>2
    <3> QED
      BY <3>3, <3>4
  <2> QED
    BY <2>2, <2>3
<1>6. CASE next + 1 > Len(Pool)
  <2>1. next' = 1 /\ \A i \in DOMAIN Pool : i <= next /\ ~(i < 1)
    BY <1>2, <1>3, <1>6
  <2>2. Shares(n + 1, next)'
    BY <1>5, <2>1 DEF Shares
  <2> QED
    BY <2>2 DEF RoundRobin
<1>7. CASE ~(next + 1 > Len(Pool))
  <2>1. next' = next + 1 /\ \A i \in DOMAIN Pool : i <= next <=> i < next + 1
    BY <1>2, <1>3, <1>7
  <2>2. Shares(n, next)'
    BY <1>5, <2>1 DEF Shares
  <2> QED
    BY <2>2 DEF RoundRobin
<1> QED
  BY <1>6, <1>7

\* Every step leaves the connections dealt out in turn.
LEMMA RoundRobinStays ==
  ASSUME Users = {}, ServerInv, RoundRobin, [ServerNext]_allVars
  PROVE  RoundRobin'
<1>1. ASSUME NEW c \in Conns, NewConnection(c)
      PROVE  RoundRobin'
  BY <1>1, SharesMove DEF RoundRobin
<1>2. ASSUME UNCHANGED <<loopOf, next>>, \A d \in Conns : state'[d] = "none" <=> state[d] = "none"
      PROVE  RoundRobin'
  <2>1. \A l : Given(l)' = Given(l)
    BY <1>2 DEF Given
  <2> QED
    BY <1>2, <2>1 DEF RoundRobin, Shares
<1>3. CASE InnerStep
  BY <1>2, <1>3, InnerMoves DEF ServerInv, Moves, StateMoves, serverVars
<1>4. CASE \/ \E c \in Conns : StopConnection(c)
           \/ \E l \in Loops : CloseLoop(l)
           \/ RemoveConnectionInLoop
           \/ BaseStep
           \/ UNCHANGED allVars
  BY <1>2, <1>4 DEF StopConnection, CloseLoop, RemoveConnectionInLoop, BaseStep, Stop,
     EnterLoop, QuitLoop, JoinLoop, allVars, vars, lifeVars, loopVars, serverVars
<1> QED
  BY <1>1, <1>3, <1>4, ServerSteps

\* No loop of the pool is ever given two connections more than another,
\* whatever the number of loops and of connections.
THEOREM LoadIsBalanced ==
  ASSUME Users = {}
  PROVE  ServerSafetySpec => []LoadBalanced
<1>1. ServerInit => RoundRobin
  <2> SUFFICES ASSUME ServerInit
               PROVE  Shares(0, 1) /\ next = 1
    BY DEF RoundRobin
  <2>1. \A l : Given(l) = {}
    BY DEF ServerInit, Init, Given
  <2>2. IsFiniteSet({}) /\ Cardinality({}) = 0
    BY FS_EmptySet
  <2>3. \A i \in DOMAIN Pool : ~(i < 1)
    BY PoolAssumption, LenProperties
  <2>4. Shares(0, 1)
    BY <2>1, <2>2, <2>3 DEF Shares
  <2> QED
    BY <2>4 DEF ServerInit
<1>2. ServerInv /\ RoundRobin /\ [ServerNext]_allVars => RoundRobin'
  BY RoundRobinStays
<1>3. RoundRobin => LoadBalanced
  <2> SUFFICES ASSUME RoundRobin, NEW l \in Loops, NEW m \in Loops
               PROVE  Cardinality(Given(l)) <= Cardinality(Given(m)) + 1
    BY DEF LoadBalanced, Given
  <2>1. PICK n \in Nat : Shares(n, next)
    BY DEF RoundRobin
  <2>2. \A k \in Loops : Cardinality(Given(k)) \in {n, n + 1}
    BY <2>1, PoolAssumption DEF Shares
  <2> QED
    BY <2>2
<1> QED
  BY <1>1, <1>2, <1>3, ServerInvHolds, PTL DEF ServerSafetySpec

-----------------------------------------------------------------------------
(* Who holds a connection once stop() was called.                          *)

\* connectDestroyed has still to run for it.
Hot(c) ==
  \/ state[c] \in {"Connecting", "Connected"}
  \/ state[c] = "Disconnected" /\ index[c] # "new"

\* connectEstablished stands in the queue before connectDestroyed.
AheadIn(q, c) ==
  \E i \in DOMAIN q :
    /\ q[i] = Task("established", c)
    /\ \A j \in DOMAIN q : q[j] = Task("destroyed", c) => i < j

\* When callbacks only send, a connection is never half closed, and stop()
\* finds it in the map or being destroyed.
StopHeld(c) ==
  /\ state[c] # "Disconnecting"
  /\ loopOf[c] \notin closed =>
       /\ Hot(c) => c \in owned \/ Leaving(c)
       /\ state[c] = "Connecting" => AheadIn(queue[loopOf[c]], c)

\* While connectEstablished is ahead of connectDestroyed, the latter is not
\* at the head.
LEMMA AheadInTail ==
  ASSUME NEW q \in Seq(Tasks), q # <<>>, NEW c, AheadIn(q, c)
  PROVE  /\ Head(q) # Task("destroyed", c)
         /\ Head(q) # Task("established", c) => AheadIn(Tail(q), c)
<1>1. /\ Len(q) \in Nat \ {0} /\ DOMAIN q = 1 .. Len(q) /\ Head(q) = q[1]
      /\ Tail(q) \in Seq(Tasks) /\ Len(Tail(q)) = Len(q) - 1
      /\ \A i \in 1 .. Len(Tail(q)) : Tail(q)[i] = q[i + 1]
  BY EmptySeq, LenProperties, HeadTailProperties
<1>2. DOMAIN Tail(q) = 1 .. Len(q) - 1
  BY <1>1, LenProperties
<1>3. PICK i \in 1 .. Len(q) :
        /\ q[i] = Task("established", c)
        /\ \A j \in 1 .. Len(q) : q[j] = Task("destroyed", c) => i < j
  BY <1>1 DEF AheadIn
<1>4. Head(q) # Task("destroyed", c)
  BY <1>1, <1>3
<1>5. CASE Head(q) # Task("established", c)
  <2>1. i - 1 \in DOMAIN Tail(q) /\ Tail(q)[i - 1] = Task("established", c)
    BY <1>1, <1>2, <1>3, <1>5
  <2>2. \A j \in DOMAIN Tail(q) : Tail(q)[j] = Task("destroyed", c) => i - 1 < j
    BY <1>1, <1>2, <1>3
  <2> QED
    BY <1>4, <2>1, <2>2 DEF AheadIn
<1> QED
  BY <1>4, <1>5

\* A task that is appended does not overtake.
LEMMA AheadInAppend ==
  ASSUME NEW q \in Seq(Tasks), NEW t \in Tasks, NEW c
  PROVE  /\ AheadIn(q, c) => AheadIn(Append(q, t), c)
         /\ PendingIn(q, c) = {} /\ t = Task("established", c) => AheadIn(Append(q, t), c)
<1>1. /\ Len(q) \in Nat /\ DOMAIN q = 1 .. Len(q)
      /\ DOMAIN Append(q, t) = 1 .. Len(q) + 1
      /\ \A i \in 1 .. Len(q) : Append(q, t)[i] = q[i]
      /\ Append(q, t)[Len(q) + 1] = t
  BY LenProperties, AppendProperties
<1>2. ASSUME AheadIn(q, c)
      PROVE  AheadIn(Append(q, t), c)
  <2>1. PICK i \in 1 .. Len(q) :
          /\ q[i] = Task("established", c)
          /\ \A j \in 1 .. Len(q) : q[j] = Task("destroyed", c) => i < j
    BY <1>1, <1>2 DEF AheadIn
  <2>2. i \in 1 .. Len(q) + 1 /\ Append(q, t)[i] = Task("established", c)
    BY <1>1, <2>1
  <2>3. \A j \in 1 .. Len(q) + 1 : Append(q, t)[j] = Task("destroyed", c) => i < j
    BY <1>1, <2>1
  <2> QED
    BY <1>1, <2>2, <2>3 DEF AheadIn
<1>3. ASSUME PendingIn(q, c) = {}, t = Task("established", c)
      PROVE  AheadIn(Append(q, t), c)
  <2>1. \A j \in 1 .. Len(q) : q[j] # Task("destroyed", c)
    BY <1>1, <1>3 DEF PendingIn
  <2>2. Task("established", c) # Task("destroyed", c)
    BY DEF Task
  <2>3. \A j \in 1 .. Len(q) + 1 : Append(q, t)[j] # Task("destroyed", c)
    BY <1>1, <1>3, <2>1, <2>2
  <2> QED
    BY <1>1, <1>3, <2>3 DEF AheadIn
<1> QED
  BY <1>2, <1>3

\* The poller is not told of a closed connection again.
LEMMA InnerIndex ==
  ASSUME Users = {}, Inv, InnerStep, NEW d \in Conns, state[d] = "Disconnected"
  PROVE  index'[d] \in {index[d], "new"}
<1>1. Typed /\ ChanTypes /\ Closed(d) /\ events[d] = {}
  BY TypedParts DEF Inv, Life, Closed
<1>2. ASSUME NEW c \in Conns, NEW ev \in SUBSET {"read", "write"}, NEW addOk \in BOOLEAN,
             UpdateChannel(c, ev, addOk), c # d
      PROVE  index'[d] = index[d]
  BY <1>1, <1>2, ChannelUpdated DEF SameChannel
<1>3. ASSUME NEW c \in Conns, HandleClose(c)
      PROVE  index'[d] = index[d]
  BY <1>2, <1>3 DEF HandleClose, WasClosed, DisableAll, chanVars
<1>4. ASSUME NEW c \in Conns, NEW e \in {"read", "write"}, state[c] # "Disconnected",
             \/ UpdateChannel(c, events[c] \cup {e}, TRUE)
             \/ UpdateChannel(c, events[c] \ {e}, TRUE)
      PROVE  index'[d] = index[d]
  <2>1. events[c] \cup {e} \in SUBSET {"read", "write"} /\ events[c] \ {e} \in SUBSET {"read", "write"}
    BY <1>1 DEF ChanTypes
  <2> QED
    BY <1>2, <1>4, <2>1
<1>5. ASSUME NEW l \in Loops, RunTask(l)
      PROVE  index'[d] \in {index[d], "new"}
  <2>1. PICK c \in Conns :
          \/ \E addOk \in BOOLEAN : ConnectEstablished(l, c, addOk)
          \/ ConnectDestroyed(l, c)
          \/ ForceCloseInLoop(l, c)
          \/ QueuedShutdown(l, c)
          \/ \E n \in 0 .. Units : QueuedSend(l, c, n)
    BY <1>5 DEF RunTask
  <2>2. ASSUME NEW addOk \in BOOLEAN, ConnectEstablished(l, c, addOk)
        PROVE  index'[d] = index[d]
    <3>1. /\ state[c] = "Connecting"
          /\ UpdateChannel(c, {"read"}, TRUE) \/ UpdateChannel(c, {}, FALSE)
      BY <2>2 DEF ConnectEstablished
    <3>2. {"read"} \in SUBSET {"read", "write"} /\ {} \in SUBSET {"read", "write"}
      OBVIOUS
    <3>3. CASE UpdateChannel(c, {"read"}, TRUE)
      BY <1>2, <3>1, <3>2, <3>3
    <3>4. CASE UpdateChannel(c, {}, FALSE)
      BY <1>2, <3>1, <3>2, <3>4
    <3> QED
      BY <3>1, <3>3, <3>4
  <2>3. CASE ConnectDestroyed(l, c)
    <3>1. index' = [index EXCEPT ![c] = "new"] \/ index' = index
      BY <2>3 DEF ConnectDestroyed, RemoveChannel
    <3> QED
      BY <1>1, <3>1 DEF ChanTypes
  <2>4. CASE ForceCloseInLoop(l, c)
    BY <1>3, <2>4 DEF ForceCloseInLoop, chanVars
  <2>5. CASE QueuedShutdown(l, c)
    BY <2>5 DEF QueuedShutdown, chanVars
  <2> QED
    BY <2>1, <2>2, <2>3, <2>4, <2>5 DEF QueuedSend
<1>6. ASSUME NEW c \in Conns,
             HandleError(c) \/ HandleRead(c) \/ \E n \in 0 .. Units * MaxCalls : HandleWrite(c, n)
      PROVE  index'[d] = index[d]
  <2>1. CASE HandleError(c) \/ HandleRead(c)
    BY <1>3, <2>1 DEF HandleError, HandleRead, chanVars
  <2>2. ASSUME NEW n \in 0 .. Units * MaxCalls, HandleWrite(c, n)
        PROVE  index'[d] = index[d]
    <3>1. CASE "write" \notin events[c]
      BY <2>2, <3>1 DEF HandleWrite, chanVars
    <3>2. CASE "write" \in events[c]
      <4>1. state[c] # "Disconnected"
        BY <3>2 DEF Inv, Life, Closed
      <4>2. HandleClose(c) \/ UNCHANGED chanVars \/ UpdateChannel(c, events[c] \ {"write"}, TRUE)
        BY <2>2, <3>2 DEF HandleWrite
      <4> QED
        BY <1>3, <1>4, <4>1, <4>2 DEF chanVars
    <3> QED
      BY <3>1, <3>2
  <2> QED
    BY <1>6, <2>1, <2>2
<1>7. ASSUME NEW c \in Conns, HereStep(c)
      PROVE  index'[d] = index[d]
  <2>1. ASSUME NEW n \in 0 .. Units, SendHere(c, n)
        PROVE  index'[d] = index[d]
    <3>1. state[c] = "Connected" /\ SendInLoop(c, Message("loop", calls[c] + 1), n)
      BY <2>1 DEF SendHere
    <3>2. UNCHANGED chanVars \/ UpdateChannel(c, events[c] \cup {"write"}, TRUE)
      BY <3>1 DEF SendInLoop
    <3> QED
      BY <1>4, <3>1, <3>2 DEF chanVars
  <2> QED
    BY <1>7, <2>1 DEF HereStep, ShutdownHere, ForceCloseHere, chanVars
<1>8. ASSUME NEW l \in Loops, LoopStep(l)
      PROVE  index'[d] \in {index[d], "new"}
  <2>1. CASE CallbackReturns(l)
    BY <2>1 DEF CallbackReturns, chanVars
  <2> QED
    BY <1>5, <1>6, <1>8, <2>1 DEF LoopStep
<1>9. ASSUME NEW c \in Conns, (\E canWrite \in BOOLEAN : Poll(c, canWrite)) \/ PeerStep(c)
      PROVE  index'[d] = index[d]
  BY <1>9 DEF Poll, PeerStep, PeerSends, PeerEnds, chanVars
<1> QED
  BY <1>7, <1>8, <1>9 DEF InnerStep, ServerLoopStep, ConnectionStep

\* Callbacks that only send half close nothing.
LEMMA InnerNotHalf ==
  ASSUME Users = {}, HereOps \subseteq {"send"}, Inv, InnerStep, NEW d \in Conns,
         state[d] # "Disconnecting"
  PROVE  state'[d] # "Disconnecting"
<1>1. LifeTypes
  BY TypedParts DEF Inv
<1>2. \/ UNCHANGED state
      \/ \E c \in Conns, s \in {"Connected", "Disconnected"} : state' = [state EXCEPT ![c] = s]
  <2>1. ASSUME NEW c \in Conns, HandleClose(c)
        PROVE  UNCHANGED state \/ state' = [state EXCEPT ![c] = "Disconnected"]
    BY <2>1 DEF HandleClose, lifeVars
  <2>2. ASSUME NEW l \in Loops, RunTask(l)
        PROVE  \/ UNCHANGED state
               \/ \E c \in Conns, s \in {"Connected", "Disconnected"} :
                    state' = [state EXCEPT ![c] = s]
    BY <2>1, <2>2 DEF RunTask, ConnectEstablished, ConnectDestroyed, ForceCloseInLoop,
       QueuedShutdown, QueuedSend, lifeVars
  <2>3. ASSUME NEW c \in Conns,
               HandleError(c) \/ HandleRead(c) \/ \E n \in 0 .. Units * MaxCalls : HandleWrite(c, n)
        PROVE  UNCHANGED state \/ state' = [state EXCEPT ![c] = "Disconnected"]
    BY <2>1, <2>3 DEF HandleError, HandleRead, HandleWrite, lifeVars
  <2>4. ASSUME NEW c \in Conns, ConnectionStep(c) \/ PeerStep(c)
        PROVE  UNCHANGED state
    <3>1. ~ShutdownHere(c) /\ ~ForceCloseHere(c)
      BY DEF ShutdownHere, ForceCloseHere
    <3> QED
      BY <2>4, <3>1 DEF ConnectionStep, HereStep, SendHere, Poll, PeerStep, PeerSends,
         PeerEnds, lifeVars
  <2>5. ASSUME NEW l \in Loops, CallbackReturns(l)
        PROVE  UNCHANGED state
    BY <2>5 DEF CallbackReturns, lifeVars
  <2> QED
    BY <2>2, <2>3, <2>4, <2>5 DEF InnerStep, ServerLoopStep, LoopStep
<1> QED
  BY <1>1, <1>2 DEF LifeTypes

\* A step that makes no connection hot, and takes nothing it waits for.
LEMMA StopHeldStays ==
  ASSUME NEW d \in Conns, StopHeld(d), state'[d] # "Disconnecting",
         loopOf[d] \in closed => loopOf'[d] \in closed',
         Hot(d)' => Hot(d),
         state'[d] = "Connecting" => state[d] = "Connecting",
         Hot(d)' /\ (d \in owned \/ Leaving(d)) => d \in owned' \/ Leaving(d)',
         state'[d] = "Connecting" /\ AheadIn(queue[loopOf[d]], d)
           => AheadIn(queue'[loopOf'[d]], d)
  PROVE  StopHeld(d)'
BY DEF StopHeld

\* A step of a connection keeps StopHeld.
LEMMA InnerStopHeld ==
  ASSUME Users = {}, HereOps \subseteq {"send"}, ServerInv, InnerStep,
         NEW d \in Conns, StopHeld(d)
  PROVE  StopHeld(d)'
<1>1. Moves /\ Typed /\ Inv /\ LifeTypes /\ ChanTypes /\ Life(d)
  BY InnerMoves, TypedParts DEF ServerInv, Inv
<1>2. UNCHANGED <<loopOf, closed, owned>> /\ state'[d] # "Disconnecting"
  BY <1>1, InnerNotHalf DEF Moves, serverVars, StopHeld
<1>3. Hot(d)' => Hot(d)
  <2>1. state[d] \in {"none", "Connecting", "Connected", "Disconnected"}
    BY <1>1 DEF LifeTypes, StopHeld
  <2>2. CASE state[d] = "none"
    BY <1>1, <2>2 DEF Moves, StateMoves, Hot
  <2>3. CASE state[d] = "Disconnected"
    <3>1. state'[d] = "Disconnected" /\ index'[d] \in {index[d], "new"}
      BY <1>1, <2>3, InnerIndex DEF Moves, StateMoves
    <3> QED
      BY <2>3, <3>1 DEF Hot
  <2> QED
    BY <2>1, <2>2, <2>3 DEF Hot
<1>4. state'[d] = "Connecting" => state[d] = "Connecting"
  BY <1>1 DEF Moves, StateMoves
<1>5. loopOf[d] \in Loops /\ queue[loopOf[d]] \in Seq(Tasks)
  BY <1>1 DEF Typed, TypeOK, QueueTypes
<1>6. CASE queue'[loopOf[d]] = queue[loopOf[d]]
  BY <1>2, <1>3, <1>4, <1>6, StopHeldStays DEF Leaving
<1>7. ASSUME NEW l \in Loops \ closed, NEW c \in Conns, NEW kind \in StrongKinds,
             Take(l, Task(kind, c)), kind = "established" => state'[c] # "Connecting",
             kind = "destroyed" => ConnectDestroyed(l, c),
             queue'[loopOf[d]] # queue[loopOf[d]]
      PROVE  StopHeld(d)'
  <2>1. /\ l = loopOf[d] /\ queue[l] # <<>> /\ Head(queue[l]) = Task(kind, c)
        /\ queue'[l] = Tail(queue[l])
    BY <1>1, <1>5, <1>7 DEF Take, Typed, QueueTypes
  <2>2. state[d] = "Connecting" => AheadIn(queue[loopOf[d]], d)
    BY <1>7, <2>1 DEF StopHeld
  <2>3. AheadIn(queue[loopOf[d]], d) =>
          /\ Task(kind, c) # Task("destroyed", d)
          /\ Task(kind, c) # Task("established", d) => AheadIn(Tail(queue[loopOf[d]]), d)
    BY <1>5, <2>1, AheadInTail
  <2>4. state'[d] = "Connecting" /\ AheadIn(queue[loopOf[d]], d)
          => AheadIn(queue'[loopOf'[d]], d)
    BY <1>2, <1>7, <2>1, <2>3 DEF Task
  <2>5. CASE Task(kind, c) = Task("destroyed", d)
    <3>1. c = d /\ ConnectDestroyed(l, d)
      BY <1>7, <2>5 DEF Task
    <3>2. state[d] \notin {"Connecting", "Disconnecting"}
      BY <2>2, <2>3, <2>5 DEF StopHeld
    <3>3. ~Hot(d)'
      <4>1. CASE state[d] = "Connected"
        <5>1. state'[d] = "Disconnected" /\ index'[d] = "new"
          BY <1>1, <3>1, <4>1 DEF ConnectDestroyed, LifeTypes, ChanTypes
        <5> QED
          BY <5>1 DEF Hot
      <4>2. CASE state[d] = "Disconnected"
        <5>1. events[d] = {}
          BY <1>1, <4>2 DEF Life, Closed
        <5>2. state'[d] = "Disconnected" /\ index'[d] = "new"
          BY <1>1, <3>1, <4>2, <5>1 DEF ConnectDestroyed, RemoveChannel, lifeVars, ChanTypes
        <5> QED
          BY <5>2 DEF Hot
      <4>3. CASE state[d] = "none"
        BY <1>1, <4>3 DEF Moves, StateMoves, Hot
      <4> QED
        BY <1>1, <3>2, <4>1, <4>2, <4>3 DEF LifeTypes
    <3> QED
      BY <1>2, <1>3, <1>4, <2>4, <3>3, StopHeldStays
  <2>6. CASE Task(kind, c) # Task("destroyed", d)
    <3>1. Leaving(d) => Leaving(d)'
      BY <1>1, <1>2, <1>7, <2>6, TakenLeaving
    <3> QED
      BY <1>2, <1>3, <1>4, <2>4, <3>1, StopHeldStays
  <2> QED
    BY <2>5, <2>6
<1>8. ASSUME NEW c \in Conns, Enqueue(loopOf[c], Task("forceClose", c)),
             queue'[loopOf[d]] # queue[loopOf[d]]
      PROVE  StopHeld(d)'
  <2>1. /\ loopOf[c] \in Loops /\ Task("forceClose", c) \in Tasks
        /\ Task("forceClose", c) \in TasksAt(loopOf[c])
    BY <1>1, TaskTypes DEF StrongKinds
  <2>2. queue'[loopOf[d]] = Append(queue[loopOf[d]], Task("forceClose", c))
    BY <1>1, <1>5, <1>8 DEF Enqueue, Typed, QueueTypes
  <2>3. AheadIn(queue[loopOf[d]], d) => AheadIn(queue'[loopOf'[d]], d)
    BY <1>2, <1>5, <2>1, <2>2, AheadInAppend
  <2>4. Leaving(d) => Leaving(d)'
    BY <1>1, <1>2, <1>8, <2>1, QueuedLeaving
  <2> QED
    BY <1>2, <1>3, <1>4, <2>3, <2>4, StopHeldStays
<1> QED
  BY <1>1, <1>6, <1>7, <1>8 DEF Moves, QueueMoves

\* The base loop queues something on one loop; what was queued stays.
LEMMA GrownStopHeld ==
  ASSUME Typed, NEW l \in Loops, NEW t \in Tasks, Enqueue(l, t),
         NEW d \in Conns, StopHeld(d),
         loopOf'[d] = loopOf[d], state'[d] = state[d], index'[d] = index[d], closed' = closed,
         d \in owned => d \in owned' \/ Task("destroyed", d) \in Range(queue'[loopOf[d]])
  PROVE  StopHeld(d)'
<1>1. /\ loopOf[d] \in Loops /\ queue[l] \in Seq(Tasks)
      /\ queue'[l] = Append(queue[l], t)
      /\ Range(queue'[l]) = Range(queue[l]) \cup {t}
      /\ \A m \in Loops : m # l => queue'[m] = queue[m]
  BY QueuedRange DEF Typed, TypeOK, QueueTypes
<1>2. Range(queue[loopOf[d]]) \subseteq Range(queue'[loopOf[d]])
  BY <1>1
<1>3. AheadIn(queue[loopOf[d]], d) => AheadIn(queue'[loopOf'[d]], d)
  <2>1. CASE loopOf[d] = l
    <3>1. AheadIn(queue[l], d) => AheadIn(Append(queue[l], t), d)
      BY <1>1, AheadInAppend
    <3>2. queue'[loopOf'[d]] = Append(queue[l], t)
      BY <1>1, <2>1
    <3> QED
      BY <2>1, <3>1, <3>2
  <2>2. CASE loopOf[d] # l
    BY <1>1, <2>2
  <2> QED
    BY <2>1, <2>2
<1>4. d \in owned \/ Leaving(d) => d \in owned' \/ Leaving(d)'
  BY <1>2 DEF Leaving
<1>5. Hot(d)' = Hot(d)
  BY DEF Hot
<1>6. state[d] # "Disconnecting"
  BY DEF StopHeld
<1> QED
  BY <1>3, <1>4, <1>5, <1>6, StopHeldStays

\* A step that leaves the queues alone.
LEMMA QuietStopHeld ==
  ASSUME NEW d \in Conns, StopHeld(d), UNCHANGED <<loopOf, state, index, closed, queue>>,
         d \in owned => d \in owned'
  PROVE  StopHeld(d)'
BY DEF StopHeld, Hot, Leaving

\* newConnection keeps StopHeld.
LEMMA NewStopHeld ==
  ASSUME ServerInv, NEW c \in Conns, NewConnection(c), NEW d \in Conns, StopHeld(d)
  PROVE  StopHeld(d)'
<1>1. LifeTypes /\ RestTypes /\ Typed
  BY TypedParts DEF ServerInv, Inv
<1>2. next \in 1 .. Len(Pool) /\ Pool[next] \in Loops
  BY PoolAssumption DEF ServerInv, ServerTypes
<1> PICK l \in Loops : l = Pool[next]
  BY <1>2
<1>3. /\ state[c] = "none"
      /\ state' = [state EXCEPT ![c] = "Connecting"]
      /\ loopOf' = [loopOf EXCEPT ![c] = l]
      /\ owned' = owned \cup {c}
      /\ Enqueue(l, Task("established", c))
      /\ UNCHANGED <<chanVars, closed>>
  BY DEF NewConnection, AddEntry
<1>4. Task("established", c) \in Tasks /\ index' = index
  BY <1>1, <1>3, TaskTypes DEF StrongKinds, chanVars
<1>5. CASE d = c
  <2>1. queue[l] \in Seq(Tasks)
    BY <1>1 DEF Typed, QueueTypes
  <2>2. PendingIn(queue[l], c) = {}
    <3>1. \A t \in Range(queue[l]) : t.conn # c
      BY <1>3 DEF ServerInv, Fresh
    <3>2. \A i \in DOMAIN queue[l] : queue[l][i].conn # c
      BY <3>1 DEF Range
    <3> QED
      BY <3>2 DEF PendingIn, Task
  <2>3. queue'[l] = Append(queue[l], Task("established", c))
    BY <1>1, <1>3, <1>4, QueuedRange
  <2>4. AheadIn(queue'[l], c)
    BY <1>4, <2>1, <2>2, <2>3, AheadInAppend
  <2>5. state'[c] = "Connecting" /\ loopOf'[c] = l /\ c \in owned'
    BY <1>1, <1>3 DEF LifeTypes, RestTypes
  <2> QED
    BY <1>5, <2>4, <2>5 DEF StopHeld
<1>6. CASE d # c
  <2>1. loopOf'[d] = loopOf[d] /\ state'[d] = state[d] /\ index'[d] = index[d]
    BY <1>1, <1>3, <1>4, <1>6 DEF LifeTypes, RestTypes
  <2> QED
    BY <1>1, <1>3, <1>4, <2>1, GrownStopHeld
<1> QED
  BY <1>5, <1>6

\* A connection whose map entry goes has its connectDestroyed queued behind
\* all others.
LEMMA LettingGoHeld ==
  ASSUME Typed, NEW c \in Conns, owned' = owned \ {c},
         c \in owned => DestroyOnItsLoop(c), c \notin owned => UNCHANGED queue,
         UNCHANGED <<loopOf, state, index, closed>>, NEW d \in Conns, StopHeld(d)
  PROVE  StopHeld(d)'
<1>1. CASE c \in owned
  <2>1. /\ Task("destroyed", c) \in Tasks /\ loopOf[c] \in Loops
        /\ Task("destroyed", c) \in Range(queue'[loopOf[c]])
        /\ Enqueue(loopOf[c], Task("destroyed", c))
    BY <1>1, DestroyQueued DEF DestroyOnItsLoop
  <2> QED
    BY <2>1, GrownStopHeld
<1>2. CASE c \notin owned
  BY <1>2, QuietStopHeld
<1> QED
  BY <1>1, <1>2

\* Every step keeps StopHeld, those of stop() included.
LEMMA StopHeldKept ==
  ASSUME Users = {}, HereOps \subseteq {"send"}, ServerInv, [ServerNext]_allVars,
         NEW d \in Conns, StopHeld(d)
  PROVE  StopHeld(d)'
<1>1. Typed
  BY DEF ServerInv, Inv
<1>2. CASE RemoveConnectionInLoop
  <2>1. /\ closing # <<>> /\ closing \in Seq(Conns) /\ keys = owned
        /\ UNCHANGED <<loopOf, state, index, closed>>
    BY <1>1, <1>2 DEF RemoveConnectionInLoop, ServerInv, Places, Typed, TypeOK, chanVars
  <2>2. PICK c \in Conns : c = Head(closing)
    BY <2>1, HeadTailProperties
  <2>3. /\ owned' = owned \ {c}
        /\ IF c \in owned THEN DestroyOnItsLoop(c) ELSE UNCHANGED queue
    BY <1>2, <2>1, <2>2 DEF RemoveConnectionInLoop, EraseEntry
  <2> QED
    BY <1>1, <2>1, <2>3, LettingGoHeld
<1>3. ASSUME NEW c \in Conns, StopConnection(c)
      PROVE  StopHeld(d)'
  <2>1. /\ c \in owned /\ owned' = owned \ {c} /\ DestroyOnItsLoop(c)
        /\ UNCHANGED <<loopOf, state, index, closed>>
    BY <1>3 DEF StopConnection, ResetEntry, chanVars, lifeVars, serverVars
  <2> QED
    BY <1>1, <2>1, LettingGoHeld
<1>4. ASSUME NEW l \in Loops, CloseLoop(l)
      PROVE  StopHeld(d)'
  <2>1. /\ queue' = [queue EXCEPT ![l] = <<>>] /\ closed' = closed \cup {l}
        /\ UNCHANGED <<loopOf, state, index, owned>>
    BY <1>4 DEF CloseLoop, lifeVars, chanVars
  <2>2. CASE loopOf[d] = l
    BY <2>1, <2>2 DEF StopHeld
  <2>3. CASE loopOf[d] # l
    <3>1. queue'[loopOf[d]] = queue[loopOf[d]]
      BY <1>1, <2>1, <2>3 DEF Typed, TypeOK, QueueTypes
    <3> QED
      BY <2>1, <3>1 DEF StopHeld, Hot, Leaving
  <2> QED
    BY <2>2, <2>3
<1>5. CASE BaseStep \/ UNCHANGED allVars
  <2>1. UNCHANGED <<queue, loopOf, state, index, closed, owned>>
    BY <1>5 DEF BaseStep, Stop, EnterLoop, QuitLoop, JoinLoop, allVars, vars, loopVars,
       lifeVars, chanVars, serverVars
  <2> QED
    BY <2>1, QuietStopHeld
<1> QED
  BY <1>2, <1>3, <1>4, <1>5, InnerStopHeld, NewStopHeld, ServerSteps

\* StopHeld of every connection holds all the time.
LEMMA StopHeldHolds ==
  ASSUME Users = {}, HereOps \subseteq {"send"}
  PROVE  ServerSafetySpec => [](ServerInv /\ \A c \in Conns : StopHeld(c))
<1>1. ServerInit => \A c \in Conns : StopHeld(c)
  BY DEF ServerInit, Init, StopHeld, Hot
<1>2. /\ ServerInv /\ (\A c \in Conns : StopHeld(c)) /\ [ServerNext]_allVars
      => (\A c \in Conns : StopHeld(c))'
  BY StopHeldKept
<1> QED
  BY <1>1, <1>2, ServerInvHolds, PTL DEF ServerSafetySpec

\* Without stop() the base loop runs.
LEMMA AlwaysRunning ==
  ASSUME MayStop = FALSE
  PROVE  ServerSafetySpec => [](base = "running")
<1>1. ServerInit => base = "running"
  BY DEF ServerInit
<1>2. base = "running" /\ [ServerNext]_allVars => (base = "running")'
  BY ServerSteps DEF InnerStep, ServerLoopStep, ConnectionStep, PeerStep, NewConnection,
     StopConnection, CloseLoop, RemoveConnectionInLoop, BaseStep, Stop, EnterLoop, QuitLoop,
     JoinLoop, allVars, serverVars
<1> QED
  BY <1>1, <1>2, PTL DEF ServerSafetySpec

\* When the last pointer to a connection goes, the poller of its loop has
\* forgotten its channel, whichever of close and stop() let go of it: always
\* when stop() is not called, and with stop() when callbacks only send.  A
\* connection that stop() finds half closed keeps its channel in the poller.
THEOREM ServerChannelIsGone ==
  ASSUME Users = {}, MayStop = FALSE \/ HereOps \subseteq {"send"}
  PROVE  ServerSafetySpec => []ServerChannelGone
<1>1. ServerInv /\ (\A c \in Conns : state[c] # "none" /\ ~Alive(c) /\ loopOf[c] \notin closed
        => state[c] = "Disconnected" /\ index[c] = "new") => ServerChannelGone
  BY DEF ServerInv, Inv, Life, Closed, ServerChannelGone, Freed
<1>2. CASE MayStop = FALSE
  <2>1. ServerInv /\ RunHeld /\ base = "running" => ServerChannelGone
    BY <1>1, FreedIsClosed DEF ServerInv, RunHeld, Freed
  <2> QED
    BY <1>2, <2>1, RunHeldHolds, AlwaysRunning, PTL
<1>3. CASE HereOps \subseteq {"send"}
  <2>1. ServerInv /\ (\A c \in Conns : StopHeld(c)) => ServerChannelGone
    <3> SUFFICES ASSUME ServerInv, \A c \in Conns : StopHeld(c),
                        NEW c \in Conns, state[c] # "none", ~Alive(c), loopOf[c] \notin closed
                 PROVE  state[c] = "Disconnected" /\ index[c] = "new"
      BY <1>1
    <3>1. c \notin owned /\ \A t \in TasksOf(c) : t.kind \notin StrongKinds
      BY DEF Alive
    <3>2. loopOf[c] \in Loops /\ LifeTypes
      BY TypedParts DEF ServerInv, Inv, RestTypes
    <3>3. ~Leaving(c)
      BY <3>1, <3>2 DEF Leaving, TasksOf, Task, StrongKinds
    <3> QED
      BY <3>1, <3>2, <3>3 DEF StopHeld, Hot, LifeTypes
  <2> QED
    BY <1>3, <2>1, StopHeldHolds, PTL
<1> QED
  BY <1>2, <1>3

=============================================================================
