------------------------- MODULE TcpConnectionProofs -------------------------
(***************************************************************************)
(* Theorems about TcpConnection.  That no byte is lost holds whoever calls *)
(* the public methods.  The others are about connections whose methods are *)
(* called in their own loop, and by other threads only to send: shutdown() *)
(* and forceClose() of another thread race on state_.                      *)
(*                                                                         *)
(* Life says of one connection how its state_, its channel and its buffer  *)
(* go together, Typed what the variables are, Senders what other threads   *)
(* are about to send; together they are inductive.  Kept adds who holds    *)
(* the connection, when the owner does not stop.                           *)
(***************************************************************************)
EXTENDS TcpConnection, SequenceLemmas

Data == [from : Users \cup {"loop"}, call : 1 .. MaxCalls, unit : 1 .. Units]

\* The k-th call on c, a send by u, on its way to the loop.
Send(c, u, k) == [kind |-> "send", conn |-> c, msg |-> Message(u, k)]

Tasks ==
  [kind : StrongKinds, conn : Conns]
    \cup {Send(c, u, k) : c \in Conns, u \in Users, k \in 1 .. MaxCalls}

\* Tasks are queued on the loop of their connection.
TasksAt(l) == {t \in Tasks : loopOf[t.conn] = l}

QueueTypes ==
  /\ queue \in [Loops -> Seq(Tasks)]
  /\ \A l \in Loops : queue[l] \in Seq(TasksAt(l))

Typed ==
  /\ TypeOK
  /\ QueueTypes
  /\ out \in [Conns -> Seq(Data)]
  /\ wire \in [Conns -> Seq(Data)]
  /\ accepted \in [Conns -> Seq(Data)]

\* A connection that is not established yet.
Unborn(c) ==
  /\ events[c] = {} /\ index[c] = "new" /\ c \notin epoll
  /\ out[c] = <<>>
  /\ ups[c] = 0 /\ downs[c] = 0
  /\ revents[c] = {}

\* An open one: the poller has its channel, and waiting output is watched for.
Open(c) ==
  /\ "read" \in events[c] /\ index[c] = "added"
  /\ out[c] # <<>> <=> "write" \in events[c]
  /\ ups[c] = 1 /\ downs[c] = 0

\* One that was closed: the poller watches nothing.
Closed(c) ==
  /\ events[c] = {} /\ c \notin epoll
  /\ ups[c] <= 1 /\ downs[c] = 1
  /\ "in" \in revents[c] => peer[c] = "rst"

Life(c) ==
  /\ state[c] \in {"none", "Connecting"} => Unborn(c)
  /\ state[c] \in {"Connected", "Disconnecting"} => Open(c)
  /\ state[c] = "Disconnected" => Closed(c)
  /\ fin[c] => out[c] = <<>> /\ state[c] \in {"Disconnecting", "Disconnected"}
  /\ "err" \in revents[c] => peer[c] = "rst"
  /\ late[c] => peer[c] = "rst"

Inv == Typed /\ \A c \in Conns : Life(c)

\* A connection that was established, or failed to be.
Known(c) == state[c] \notin {"none", "Connecting"}

\* Other threads send, and on connections they know.
Sender(u) ==
  call[u].op # "none" =>
    /\ call[u].op = "send" /\ call[u].stored
    /\ call[u].conn \in Conns /\ Known(call[u].conn)
    /\ \E k \in 1 .. MaxCalls : call[u].msg = Message(u, k)

Senders ==
  /\ call = [u \in Users |-> call[u]]
  /\ \A u \in Users : Sender(u)
  /\ \A l \in Loops : \A t \in Range(queue[l]) : t.kind = "send" => Known(t.conn)

\* No other thread calls shutdown() or forceClose().
OthersSend == Users = {} \/ UserOps \subseteq {"send"}

-----------------------------------------------------------------------------
(* Sequences.                                                              *)

\* A message is cut into what is written and what is left.
LEMMA CutInTwo ==
  ASSUME NEW S, NEW s \in Seq(S), NEW n \in 0 .. Len(s)
  PROVE  /\ SubSeq(s, 1, n) \in Seq(S) /\ SubSeq(s, n + 1, Len(s)) \in Seq(S)
         /\ SubSeq(s, 1, n) \o SubSeq(s, n + 1, Len(s)) = s
         /\ n = Len(s) <=> SubSeq(s, n + 1, Len(s)) = <<>>
         /\ n = 0 => SubSeq(s, 1, n) = <<>>
<1> DEFINE a == SubSeq(s, 1, n)
           b == SubSeq(s, n + 1, Len(s))
<1>1. Len(s) \in Nat /\ n \in Nat
  OBVIOUS
<1>2. a \in Seq(S) /\ Len(a) = n /\ \A i \in 1 .. n : a[i] = s[i]
  BY <1>1, SubSeqProperties
<1>3. b \in Seq(S) /\ Len(b) = Len(s) - n /\ \A i \in 1 .. Len(s) - n : b[i] = s[n + i]
  BY <1>1, SubSeqProperties
<1> HIDE DEF a, b
<1>4. a \o b = s
  <2>1. /\ a \o b \in Seq(S) /\ Len(a \o b) = Len(a) + Len(b)
        /\ \A i \in 1 .. Len(a) + Len(b) :
             (a \o b)[i] = IF i <= Len(a) THEN a[i] ELSE b[i - Len(a)]
    BY <1>2, <1>3, ConcatProperties
  <2>2. Len(a \o b) = Len(s)
    BY <2>1, <1>1, <1>2, <1>3
  <2>3. ASSUME NEW i \in 1 .. Len(s)
        PROVE  (a \o b)[i] = s[i]
    <3>1. CASE i <= n
      BY <3>1, <2>1, <1>1, <1>2, <1>3
    <3>2. CASE ~(i <= n)
      <4>1. i - n \in 1 .. Len(s) - n
        BY <3>2, <1>1
      <4> QED
        BY <3>2, <4>1, <2>1, <1>1, <1>2, <1>3
    <3> QED
      BY <3>1, <3>2
  <2> QED
    BY <2>1, <2>2, <2>3, SeqEqual
<1>5. n = Len(s) <=> b = <<>>
  BY <1>1, <1>3, EmptySeq
<1>6. n = 0 => a = <<>>
  BY <1>1, <1>2, EmptySeq
<1> QED
  BY <1>2, <1>3, <1>4, <1>5, <1>6 DEF a, b

\* What the head of a sequence is not, its tail holds.
LEMMA RangeTail ==
  ASSUME NEW S, NEW s \in Seq(S), s # <<>>
  PROVE  Range(s) = {Head(s)} \cup Range(Tail(s))
<1>1. Len(s) \in Nat \ {0} /\ DOMAIN s = 1 .. Len(s)
  BY EmptySeq, LenProperties
<1>2. /\ Head(s) = s[1]
      /\ Tail(s) \in Seq(S) /\ Len(Tail(s)) = Len(s) - 1
      /\ \A i \in 1 .. Len(Tail(s)) : Tail(s)[i] = s[i + 1]
  BY HeadTailProperties
<1>3. DOMAIN Tail(s) = 1 .. Len(s) - 1
  BY <1>2, LenProperties
<1>4. ASSUME NEW i \in 1 .. Len(s), i # 1
      PROVE  s[i] \in Range(Tail(s))
  <2>1. i - 1 \in 1 .. Len(s) - 1 /\ Tail(s)[i - 1] = s[i]
    BY <1>1, <1>2, <1>4
  <2> QED
    BY <1>3, <2>1 DEF Range
<1>5. ASSUME NEW i \in 1 .. Len(s) - 1
      PROVE  Tail(s)[i] \in Range(s)
  <2>1. i + 1 \in 1 .. Len(s) /\ Tail(s)[i] = s[i + 1]
    BY <1>1, <1>2
  <2> QED
    BY <1>1, <2>1 DEF Range
<1>6. Head(s) \in Range(s)
  BY <1>1, <1>2 DEF Range
<1> QED
  BY <1>1, <1>2, <1>3, <1>4, <1>5, <1>6 DEF Range

\* A message has Units bytes.
LEMMA MessageType ==
  ASSUME NEW t \in Users \cup {"loop"}, NEW k \in 1 .. MaxCalls
  PROVE  Message(t, k) \in Seq(Data) /\ Len(Message(t, k)) = Units
BY ConnAssumption DEF Message, Data

-----------------------------------------------------------------------------
(* One connection's step leaves the others alone.                          *)

SameChannel(d) ==
  events'[d] = events[d] /\ index'[d] = index[d] /\ (d \in epoll' <=> d \in epoll)

SameLife(d) == state'[d] = state[d] /\ ups'[d] = ups[d] /\ downs'[d] = downs[d]

SameData(d) == out'[d] = out[d]

SameRest(d) ==
  /\ fin'[d] = fin[d] /\ late'[d] = late[d]
  /\ revents'[d] = revents[d] /\ peer'[d] = peer[d]

Same(d) == SameChannel(d) /\ SameLife(d) /\ SameData(d) /\ SameRest(d)

\* A connection that a step leaves alone stays what it was.
LEMMA SameStays ==
  ASSUME NEW d \in Conns, Life(d), Same(d)
  PROVE  Life(d)'
BY DEF Life, Unborn, Open, Closed, Same, SameChannel, SameLife, SameData, SameRest

-----------------------------------------------------------------------------
(* The channel and the close.                                              *)

ChanTypes ==
  /\ events \in [Conns -> SUBSET {"read", "write"}]
  /\ index \in [Conns -> {"new", "added", "deleted"}]
  /\ epoll \subseteq {c \in Conns : index[c] = "added"}

\* What updateChannel does to the channel and the poller.
LEMMA ChannelUpdated ==
  ASSUME Typed, NEW c \in Conns, NEW ev \in SUBSET {"read", "write"},
         NEW addOk \in BOOLEAN, UpdateChannel(c, ev, addOk)
  PROVE  /\ ChanTypes'
         /\ events'[c] = ev
         /\ \A d \in Conns \ {c} : SameChannel(d)
         /\ index[c] # "added" \/ ev # {} => index'[c] = "added"
         /\ index[c] = "added" /\ ev = {} => c \notin epoll'
         /\ ~addOk /\ c \notin epoll => c \notin epoll'
<1>1. ChanTypes
  BY DEF Typed, TypeOK, ChanTypes
<1>2. CASE index[c] # "added"
  BY <1>1, <1>2 DEF UpdateChannel, ChanTypes, SameChannel
<1>3. CASE index[c] = "added" /\ ev = {} /\ c \in epoll
  BY <1>1, <1>3 DEF UpdateChannel, ChanTypes, SameChannel
<1>4. CASE index[c] = "added" /\ ~(ev = {} /\ c \in epoll)
  BY <1>1, <1>4 DEF UpdateChannel, ChanTypes, SameChannel
<1> QED
  BY <1>2, <1>3, <1>4

LifeTypes ==
  /\ state \in [Conns -> {"none", "Connecting", "Connected", "Disconnecting",
                          "Disconnected"}]
  /\ ups \in [Conns -> Nat]
  /\ downs \in [Conns -> Nat]
  /\ closing \in Seq(Conns)

\* handleClose leaves the connection closed and the others alone.
LEMMA CloseCloses ==
  ASSUME Inv, NEW c \in Conns, state[c] \notin {"none", "Connecting"}, HandleClose(c)
  PROVE  /\ ChanTypes' /\ LifeTypes'
         /\ state'[c] = "Disconnected" /\ events'[c] = {} /\ c \notin epoll'
         /\ ups'[c] <= 1 /\ downs'[c] = 1
         /\ \A d \in Conns \ {c} : SameChannel(d) /\ SameLife(d)
<1>1. ChanTypes /\ LifeTypes /\ Typed /\ Life(c)
  BY DEF Inv, Typed, TypeOK, ChanTypes, LifeTypes
<1>2. CASE state[c] = "Disconnected"
  BY <1>1, <1>2 DEF HandleClose, WasClosed, lifeVars, chanVars, Life, Closed,
     ChanTypes, LifeTypes, SameChannel, SameLife
<1>3. CASE state[c] # "Disconnected"
  <2>1. Open(c)
    BY <1>1, <1>3 DEF Life, LifeTypes
  <2>2. /\ state' = [state EXCEPT ![c] = "Disconnected"]
        /\ UpdateChannel(c, {}, TRUE)
        /\ downs' = [downs EXCEPT ![c] = @ + 1]
        /\ closing' = Append(closing, c)
        /\ ups' = ups
    BY <1>3 DEF HandleClose, WasClosed, DisableAll, CloseCallback
  <2>3. /\ ChanTypes' /\ events'[c] = {} /\ c \notin epoll'
        /\ \A d \in Conns \ {c} : SameChannel(d)
    BY <1>1, <2>1, <2>2, ChannelUpdated DEF Open
  <2>4. closing' \in Seq(Conns)
    BY <1>1, <2>2, AppendProperties DEF LifeTypes
  <2>5. LifeTypes' /\ \A d \in Conns \ {c} : SameLife(d)
    BY <1>1, <2>2, <2>4 DEF LifeTypes, SameLife
  <2>6. state'[c] = "Disconnected" /\ ups'[c] <= 1 /\ downs'[c] = 1
    BY <1>1, <2>1, <2>2 DEF LifeTypes, Open
  <2> QED
    BY <2>3, <2>5, <2>6
<1> QED
  BY <1>2, <1>3

-----------------------------------------------------------------------------
(* The queues.                                                             *)

\* Enqueue leaves the queues well typed.
LEMMA Queued ==
  ASSUME Typed, NEW l \in Loops, NEW t \in TasksAt(l), Enqueue(l, t),
         loopOf' = loopOf
  PROVE  QueueTypes'
<1>1. queue' \in [Loops -> Seq(Tasks)]
  <2>1. Append(queue[l], t) \in Seq(Tasks)
    BY AppendProperties DEF Typed, QueueTypes, TasksAt
  <2> QED
    BY <2>1 DEF Typed, QueueTypes, Enqueue
<1>2. ASSUME NEW m \in Loops
      PROVE  queue'[m] \in Seq(TasksAt(m)')
  <2>1. TasksAt(m)' = TasksAt(m)
    BY DEF TasksAt
  <2>2. CASE m = l
    <3>1. Append(queue[l], t) \in Seq(TasksAt(l))
      BY AppendProperties DEF Typed, QueueTypes
    <3> QED
      BY <2>1, <2>2, <3>1 DEF Typed, QueueTypes, Enqueue
  <2>3. CASE m # l
    BY <2>1, <2>3 DEF Typed, QueueTypes, Enqueue
  <2> QED
    BY <2>2, <2>3
<1> QED
  BY <1>1, <1>2 DEF QueueTypes

\* What is known of a task that is taken.
LEMMA Taken ==
  ASSUME Typed, NEW l \in Loops, NEW t, Take(l, t), loopOf' = loopOf
  PROVE  /\ t \in Tasks /\ loopOf[t.conn] = l /\ revents[t.conn] = {}
         /\ callback[l] = "none"
         /\ QueueTypes'
<1>1. /\ queue[l] \in Seq(TasksAt(l)) /\ queue[l] \in Seq(Tasks)
      /\ queue[l] # <<>> /\ t = Head(queue[l])
      /\ queue' = [queue EXCEPT ![l] = Tail(@)]
      /\ Idle(l)
  BY DEF Typed, QueueTypes, Take
<1>2. t \in TasksAt(l) /\ Tail(queue[l]) \in Seq(TasksAt(l)) /\ Tail(queue[l]) \in Seq(Tasks)
  BY <1>1, HeadTailProperties
<1>3. t \in Tasks /\ loopOf[t.conn] = l /\ t.conn \in Conns
  BY <1>2 DEF TasksAt, Tasks, Send
<1>4. queue' \in [Loops -> Seq(Tasks)]
  BY <1>1, <1>2 DEF Typed, QueueTypes
<1>5. ASSUME NEW m \in Loops
      PROVE  queue'[m] \in Seq(TasksAt(m)')
  <2>1. TasksAt(m)' = TasksAt(m)
    BY DEF TasksAt
  <2>2. queue'[m] \in Seq(TasksAt(m))
    BY <1>1, <1>2 DEF Typed, QueueTypes
  <2> QED
    BY <2>1, <2>2
<1> QED
  BY <1>1, <1>3, <1>4, <1>5 DEF QueueTypes, Idle

\* Nobody queues a shutdownInLoop.
LEMMA NoShutdownTask ==
  ASSUME NEW c \in Conns
  PROVE  Task("shutdown", c) \notin Tasks
<1>1. ASSUME NEW t \in Tasks
      PROVE  t.kind \in StrongKinds \cup {"send"}
  BY DEF Tasks, Send
<1>2. Task("shutdown", c).kind = "shutdown"
  BY DEF Task
<1> QED
  BY <1>1, <1>2 DEF StrongKinds

\* What SameRest leaves to say of the types.
RestTypes ==
  /\ fin \in [Conns -> BOOLEAN]
  /\ late \in [Conns -> BOOLEAN]
  /\ loopOf \in [Conns -> Loops]
  /\ revents \in [Conns -> SUBSET {"err", "in", "out"}]
  /\ callback \in [Loops -> Conns \cup {"none"}]
  /\ owned \subseteq Conns
  /\ calls \in [Conns -> 0 .. MaxCalls]
  /\ peer \in [Conns -> {"open", "fin", "rst"}]
  /\ unread \in [Conns -> BOOLEAN]

DataTypes ==
  /\ out \in [Conns -> Seq(Data)]
  /\ wire \in [Conns -> Seq(Data)]
  /\ accepted \in [Conns -> Seq(Data)]

\* The parts of Typed.
LEMMA TypedParts ==
  /\ Typed <=> ChanTypes /\ LifeTypes /\ RestTypes /\ DataTypes /\ QueueTypes
  /\ Typed' <=> ChanTypes' /\ LifeTypes' /\ RestTypes' /\ DataTypes' /\ QueueTypes'
BY DEF Typed, TypeOK, ChanTypes, LifeTypes, RestTypes, DataTypes

-----------------------------------------------------------------------------
(* The tasks.                                                              *)

\* connectEstablished keeps the invariant, whether the poller takes the
\* channel or not.
LEMMA EstablishedKeeps ==
  ASSUME Inv, NEW l \in Loops, NEW c \in Conns, NEW addOk \in BOOLEAN,
         ConnectEstablished(l, c, addOk)
  PROVE  Inv'
<1>1. /\ ChanTypes /\ LifeTypes /\ RestTypes /\ DataTypes /\ QueueTypes /\ Typed
      /\ Unborn(c) /\ Life(c) /\ state[c] = "Connecting"
  BY TypedParts DEF Inv, Life, ConnectEstablished
<1>2. /\ UNCHANGED <<dataVars, peerVars, callVars, loopOf, owned, fin, late, revents>>
      /\ Take(l, Task("established", c))
  BY DEF ConnectEstablished
<1>3. QueueTypes' /\ loopOf[c] = l
  BY <1>1, <1>2, Taken DEF Task
<1>4. DataTypes' /\ \A d \in Conns : SameData(d) /\ SameRest(d)
  BY <1>1, <1>2 DEF dataVars, DataTypes, SameData, SameRest, peerVars
<1>5. CASE addOk
  <2>1. /\ state' = [state EXCEPT ![c] = "Connected"]
        /\ UpdateChannel(c, {"read"}, TRUE)
        /\ ups' = [ups EXCEPT ![c] = @ + 1]
        /\ callback' = [callback EXCEPT ![l] = c]
        /\ UNCHANGED <<downs, closing>>
    BY <1>5 DEF ConnectEstablished
  <2>2. /\ ChanTypes' /\ events'[c] = {"read"} /\ index'[c] = "added"
        /\ \A d \in Conns \ {c} : SameChannel(d)
    BY <1>1, <2>1, ChannelUpdated DEF Unborn
  <2>3. LifeTypes' /\ RestTypes'
    BY <1>1, <1>2, <2>1 DEF LifeTypes, RestTypes, peerVars, callVars
  <2>4. ASSUME NEW d \in Conns \ {c}
        PROVE  Life(d)'
    BY <1>1, <1>4, <2>1, <2>2, SameStays DEF Same, SameLife, Inv, LifeTypes
  <2>5. Life(c)'
    <3>1. state'[c] = "Connected" /\ ups'[c] = 1 /\ downs'[c] = 0
      BY <1>1, <2>1 DEF LifeTypes, Unborn
    <3> QED
      BY <1>1, <1>4, <2>2, <3>1 DEF Life, Unborn, Open, SameData, SameRest
  <2> QED
    BY <1>3, <1>4, <2>2, <2>3, <2>4, <2>5, TypedParts DEF Inv
<1>6. CASE ~addOk
  <2>1. /\ state' = [state EXCEPT ![c] = "Disconnected"]
        /\ UpdateChannel(c, {}, FALSE)
        /\ downs' = [downs EXCEPT ![c] = @ + 1]
        /\ closing' = Append(closing, c)
        /\ UNCHANGED <<ups, callback>>
    BY <1>6 DEF ConnectEstablished
  <2>2. /\ ChanTypes' /\ events'[c] = {} /\ c \notin epoll'
        /\ \A d \in Conns \ {c} : SameChannel(d)
    BY <1>1, <2>1, ChannelUpdated DEF Unborn
  <2>3. closing' \in Seq(Conns)
    BY <1>1, <2>1, AppendProperties DEF LifeTypes
  <2>4. LifeTypes' /\ RestTypes'
    BY <1>1, <1>2, <2>1, <2>3 DEF LifeTypes, RestTypes, peerVars, callVars
  <2>5. ASSUME NEW d \in Conns \ {c}
        PROVE  Life(d)'
    BY <1>1, <1>4, <2>1, <2>2, SameStays DEF Same, SameLife, Inv, LifeTypes
  <2>6. Life(c)'
    <3>1. state'[c] = "Disconnected" /\ ups'[c] <= 1 /\ downs'[c] = 1
      BY <1>1, <2>1 DEF LifeTypes, Unborn
    <3> QED
      BY <1>1, <1>4, <2>2, <3>1 DEF Life, Unborn, Closed, SameData, SameRest
  <2> QED
    BY <1>3, <1>4, <2>2, <2>4, <2>5, <2>6, TypedParts DEF Inv
<1> QED
  BY <1>5, <1>6

\* connectDestroyed keeps the invariant.
LEMMA DestroyedKeeps ==
  ASSUME Inv, NEW l \in Loops, NEW c \in Conns, ConnectDestroyed(l, c)
  PROVE  Inv'
<1>1. /\ ChanTypes /\ LifeTypes /\ RestTypes /\ DataTypes /\ QueueTypes /\ Typed
      /\ Life(c)
  BY TypedParts DEF Inv
<1>2. /\ UNCHANGED <<dataVars, peerVars, callVars, loopOf, owned, fin, late,
                     revents, callback>>
      /\ Take(l, Task("destroyed", c))
  BY DEF ConnectDestroyed
<1>3. QueueTypes' /\ revents[c] = {}
  BY <1>1, <1>2, Taken DEF Task
<1>4. DataTypes' /\ RestTypes' /\ \A d \in Conns : SameData(d) /\ SameRest(d)
  BY <1>1, <1>2 DEF dataVars, DataTypes, RestTypes, callVars, SameData, SameRest, peerVars
<1>5. CASE state[c] = "Connected"
  <2>1. /\ state' = [state EXCEPT ![c] = "Disconnected"]
        /\ events' = [events EXCEPT ![c] = {}]
        /\ index' = [index EXCEPT ![c] = "new"]
        /\ epoll' = epoll \ {c}
        /\ downs' = [downs EXCEPT ![c] = @ + 1]
        /\ UNCHANGED <<ups, closing>>
    BY <1>5 DEF ConnectDestroyed
  <2>2. ChanTypes' /\ LifeTypes'
    BY <1>1, <2>1 DEF ChanTypes, LifeTypes
  <2>3. ASSUME NEW d \in Conns \ {c}
        PROVE  Life(d)'
    <3>1. SameChannel(d) /\ SameLife(d)
      BY <1>1, <2>1 DEF SameChannel, SameLife, ChanTypes, LifeTypes
    <3> QED
      BY <1>4, <3>1, SameStays DEF Same, Inv
  <2>4. Life(c)'
    <3>1. /\ state'[c] = "Disconnected" /\ ups'[c] <= 1 /\ downs'[c] = 1
          /\ events'[c] = {} /\ c \notin epoll'
      BY <1>1, <1>5, <2>1 DEF LifeTypes, ChanTypes, Life, Open
    <3> QED
      BY <1>1, <1>3, <1>4, <1>5, <3>1 DEF Life, Closed, SameData, SameRest
  <2> QED
    BY <1>3, <1>4, <2>2, <2>3, <2>4, TypedParts DEF Inv
<1>6. CASE state[c] # "Connected"
  <2>1. RemoveChannel(c) /\ UNCHANGED lifeVars
    BY <1>6 DEF ConnectDestroyed
  <2>2. ChanTypes' /\ LifeTypes' /\ events' = events
    BY <1>1, <2>1 DEF RemoveChannel, ChanTypes, LifeTypes, lifeVars
  <2>3. ASSUME NEW d \in Conns \ {c}
        PROVE  Life(d)'
    <3>1. SameChannel(d) /\ SameLife(d)
      BY <1>1, <2>1 DEF SameChannel, SameLife, ChanTypes, lifeVars, RemoveChannel
    <3> QED
      BY <1>4, <3>1, SameStays DEF Same, Inv
  <2>4. Life(c)'
    <3>1. events[c] # {} => index'[c] = index[c]
      BY <2>1 DEF RemoveChannel
    <3>2. index[c] = "new" => index'[c] = "new"
      BY <1>1, <2>1 DEF RemoveChannel, ChanTypes
    <3>3. c \notin epoll => c \notin epoll'
      BY <2>1 DEF RemoveChannel
    <3> QED
      BY <1>1, <1>4, <2>1, <2>2, <3>1, <3>2, <3>3 DEF Life, Unborn, Open, Closed,
         SameData, SameRest, lifeVars
  <2> QED
    BY <1>3, <1>4, <2>2, <2>3, <2>4, TypedParts DEF Inv
<1> QED
  BY <1>5, <1>6

\* forceCloseInLoop keeps the invariant.
LEMMA ForceClosedKeeps ==
  ASSUME Inv, NEW l \in Loops, NEW c \in Conns, ForceCloseInLoop(l, c)
  PROVE  Inv'
<1>1. /\ ChanTypes /\ LifeTypes /\ RestTypes /\ DataTypes /\ QueueTypes /\ Typed
      /\ Life(c)
  BY TypedParts DEF Inv
<1>2. /\ UNCHANGED <<dataVars, peerVars, callVars, loopOf, owned, fin, late,
                     revents, callback>>
      /\ Take(l, Task("forceClose", c))
      /\ IF Closable(c) THEN HandleClose(c) ELSE UNCHANGED <<lifeVars, chanVars>>
  BY DEF ForceCloseInLoop
<1>3. QueueTypes' /\ revents[c] = {}
  BY <1>1, <1>2, Taken DEF Task
<1>4. DataTypes' /\ RestTypes' /\ \A d \in Conns : SameData(d) /\ SameRest(d)
  BY <1>1, <1>2 DEF dataVars, DataTypes, RestTypes, callVars, SameData, SameRest, peerVars
<1>5. CASE Closable(c)
  <2>1. /\ ChanTypes' /\ LifeTypes'
        /\ state'[c] = "Disconnected" /\ events'[c] = {} /\ c \notin epoll'
        /\ ups'[c] <= 1 /\ downs'[c] = 1
        /\ \A d \in Conns \ {c} : SameChannel(d) /\ SameLife(d)
    BY <1>2, <1>5, CloseCloses DEF Closable
  <2>2. \A d \in Conns \ {c} : Life(d)'
    BY <1>4, <2>1, SameStays DEF Same, Inv
  <2>3. Life(c)'
    BY <1>1, <1>3, <1>4, <2>1 DEF Life, Closed, SameData, SameRest
  <2> QED
    BY <1>3, <1>4, <2>1, <2>2, <2>3, TypedParts DEF Inv
<1>6. CASE ~Closable(c)
  <2>1. /\ ChanTypes' /\ LifeTypes'
        /\ \A d \in Conns : SameChannel(d) /\ SameLife(d)
    BY <1>1, <1>2, <1>6 DEF lifeVars, chanVars, ChanTypes, LifeTypes, SameChannel, SameLife
  <2>2. \A d \in Conns : Life(d)'
    BY <1>4, <2>1, SameStays DEF Same, Inv
  <2> QED
    BY <1>3, <1>4, <2>1, <2>2, TypedParts DEF Inv
<1> QED
  BY <1>5, <1>6

-----------------------------------------------------------------------------
(* poll and the handlers.                                                  *)

\* An event that is reported keeps the invariant.
LEMMA PollKeeps ==
  ASSUME Inv, NEW c \in Conns, NEW canWrite \in BOOLEAN, Poll(c, canWrite)
  PROVE  Inv'
<1>1. /\ ChanTypes /\ LifeTypes /\ RestTypes /\ DataTypes /\ QueueTypes /\ Life(c)
  BY TypedParts DEF Inv
<1>2. /\ c \in epoll
      /\ revents' = [revents EXCEPT ![c] = Ready(c, canWrite)]
      /\ UNCHANGED <<chanVars, dataVars, lifeVars, peerVars, loopVars, callVars,
                     fin, late, callback>>
  BY DEF Poll
<1>3. /\ Ready(c, canWrite) \in SUBSET {"err", "in", "out"}
      /\ "err" \in Ready(c, canWrite) => peer[c] = "rst"
  BY DEF Ready
<1>4. ChanTypes' /\ LifeTypes' /\ DataTypes' /\ QueueTypes'
  BY <1>1, <1>2 DEF ChanTypes, LifeTypes, DataTypes, QueueTypes, TasksAt, chanVars,
     lifeVars, dataVars, loopVars
<1>5. RestTypes'
  BY <1>1, <1>2, <1>3 DEF RestTypes, peerVars, loopVars, callVars
<1>6. ASSUME NEW d \in Conns
      PROVE  SameChannel(d) /\ SameLife(d) /\ SameData(d)
  BY <1>2 DEF SameChannel, SameLife, SameData, chanVars, lifeVars, dataVars
<1>7. ASSUME NEW d \in Conns \ {c}
      PROVE  Life(d)'
  <2>1. SameRest(d)
    BY <1>1, <1>2 DEF SameRest, RestTypes, peerVars
  <2> QED
    BY <1>6, <2>1, SameStays DEF Same, Inv
<1>8. Life(c)'
  <2>1. state[c] \in {"Connected", "Disconnecting"}
    BY <1>1, <1>2 DEF Life, LifeTypes, Unborn, Closed
  <2>2. /\ revents'[c] = Ready(c, canWrite)
        /\ fin'[c] = fin[c] /\ late'[c] = late[c] /\ peer'[c] = peer[c]
    BY <1>1, <1>2 DEF RestTypes, peerVars
  <2> QED
    BY <1>1, <1>3, <1>6, <2>1, <2>2 DEF Life, Open, SameChannel, SameLife, SameData
<1> QED
  BY <1>4, <1>5, <1>7, <1>8, TypedParts DEF Inv

\* Who is handled was established.
LEMMA HandledIsBorn ==
  ASSUME Inv, NEW c \in Conns, NEW e, Handling(c, e)
  PROVE  /\ state[c] \notin {"none", "Connecting"}
         /\ e \in revents[c] /\ e \in {"err", "in", "out"}
         /\ revents' = [revents EXCEPT ![c] = @ \ {e}]
         /\ e = "out" => "in" \notin revents[c]
BY DEF Inv, Typed, TypeOK, Life, Unborn, Handling

\* handleError keeps the invariant.
LEMMA HandleErrorKeeps ==
  ASSUME Inv, NEW c \in Conns, HandleError(c)
  PROVE  Inv'
<1>1. /\ ChanTypes /\ LifeTypes /\ RestTypes /\ DataTypes /\ QueueTypes /\ Life(c)
  BY TypedParts DEF Inv
<1>2. /\ Handling(c, "err") /\ HandleClose(c)
      /\ UNCHANGED <<dataVars, peerVars, loopVars, callVars, fin, late, callback>>
  BY DEF HandleError
<1>3. /\ state[c] \notin {"none", "Connecting"}
      /\ "err" \in revents[c] /\ revents' = [revents EXCEPT ![c] = @ \ {"err"}]
  BY <1>2, HandledIsBorn
<1>4. /\ ChanTypes' /\ LifeTypes'
      /\ state'[c] = "Disconnected" /\ events'[c] = {} /\ c \notin epoll'
      /\ ups'[c] <= 1 /\ downs'[c] = 1
      /\ \A d \in Conns \ {c} : SameChannel(d) /\ SameLife(d)
  BY <1>2, <1>3, CloseCloses
<1>5. DataTypes' /\ QueueTypes' /\ RestTypes'
  BY <1>1, <1>2, <1>3 DEF DataTypes, QueueTypes, TasksAt, RestTypes, dataVars,
     peerVars, loopVars, callVars
<1>6. ASSUME NEW d \in Conns \ {c}
      PROVE  Life(d)'
  <2>1. SameRest(d) /\ SameData(d)
    BY <1>1, <1>2, <1>3 DEF SameRest, SameData, RestTypes, peerVars, dataVars
  <2> QED
    BY <1>4, <2>1, SameStays DEF Same, Inv
<1>7. Life(c)'
  <2>1. peer'[c] = "rst" /\ fin'[c] = fin[c] /\ SameData(c)
    BY <1>1, <1>2, <1>3 DEF Life, peerVars, SameData, dataVars
  <2> QED
    BY <1>1, <1>4, <2>1 DEF Life, Closed, SameData
<1> QED
  BY <1>4, <1>5, <1>6, <1>7, TypedParts DEF Inv

\* handleRead keeps the invariant.
LEMMA HandleReadKeeps ==
  ASSUME Inv, NEW c \in Conns, HandleRead(c)
  PROVE  Inv'
<1>1. /\ ChanTypes /\ LifeTypes /\ RestTypes /\ DataTypes /\ QueueTypes /\ Life(c)
  BY TypedParts DEF Inv
<1>2. /\ Handling(c, "in")
      /\ UNCHANGED <<dataVars, loopVars, callVars, fin, peer>>
  BY DEF HandleRead
<1>3. /\ state[c] \notin {"none", "Connecting"}
      /\ "in" \in revents[c] /\ revents' = [revents EXCEPT ![c] = @ \ {"in"}]
  BY <1>2, HandledIsBorn
<1>4. DataTypes' /\ QueueTypes' /\ \A d \in Conns : SameData(d)
  BY <1>1, <1>2 DEF DataTypes, QueueTypes, TasksAt, dataVars, loopVars, SameData
<1>5. CASE unread[c]
  <2>1. /\ unread' = [unread EXCEPT ![c] = FALSE]
        /\ callback' = [callback EXCEPT ![loopOf[c]] = c]
        /\ late' = [late EXCEPT ![c] = @ \/ downs[c] > 0]
        /\ UNCHANGED <<lifeVars, chanVars>>
    BY <1>5 DEF HandleRead
  <2>2. ChanTypes' /\ LifeTypes' /\ \A d \in Conns : SameChannel(d) /\ SameLife(d)
    BY <1>1, <2>1 DEF ChanTypes, LifeTypes, chanVars, lifeVars, SameChannel, SameLife
  <2>3. RestTypes'
    BY <1>1, <1>2, <1>3, <2>1 DEF RestTypes, loopVars, callVars
  <2>4. ASSUME NEW d \in Conns \ {c}
        PROVE  Life(d)'
    <3>1. SameRest(d)
      BY <1>1, <1>2, <1>3, <2>1 DEF SameRest, RestTypes
    <3> QED
      BY <1>4, <2>2, <3>1, SameStays DEF Same, Inv
  <2>5. Life(c)'
    <3>1. downs[c] > 0 => peer[c] = "rst"
      BY <1>1, <1>3 DEF Life, Open, Closed, LifeTypes
    <3>2. late'[c] => late[c] \/ downs[c] > 0
      BY <1>1, <2>1 DEF RestTypes
    <3>3. revents'[c] = revents[c] \ {"in"} /\ peer'[c] = peer[c] /\ fin'[c] = fin[c]
      BY <1>1, <1>2, <1>3 DEF RestTypes
    <3> QED
      BY <1>1, <1>3, <1>4, <2>2, <3>1, <3>2, <3>3 DEF Life, Open, Closed, SameChannel,
         SameLife, SameData
  <2> QED
    BY <1>4, <2>2, <2>3, <2>4, <2>5, TypedParts DEF Inv
<1>6. CASE ~unread[c]
  <2>1. HandleClose(c) /\ UNCHANGED <<unread, callback, late>>
    BY <1>6 DEF HandleRead
  <2>2. /\ ChanTypes' /\ LifeTypes'
        /\ state'[c] = "Disconnected" /\ events'[c] = {} /\ c \notin epoll'
        /\ ups'[c] <= 1 /\ downs'[c] = 1
        /\ \A d \in Conns \ {c} : SameChannel(d) /\ SameLife(d)
    BY <1>3, <2>1, CloseCloses
  <2>3. RestTypes'
    BY <1>1, <1>2, <1>3, <2>1 DEF RestTypes, loopVars, callVars
  <2>4. ASSUME NEW d \in Conns \ {c}
        PROVE  Life(d)'
    <3>1. SameRest(d)
      BY <1>1, <1>2, <1>3, <2>1 DEF SameRest, RestTypes
    <3> QED
      BY <1>4, <2>2, <3>1, SameStays DEF Same, Inv
  <2>5. Life(c)'
    <3>1. /\ revents'[c] = revents[c] \ {"in"} /\ peer'[c] = peer[c]
          /\ fin'[c] = fin[c] /\ late'[c] = late[c]
      BY <1>1, <1>2, <1>3, <2>1 DEF RestTypes
    <3> QED
      BY <1>1, <1>3, <1>4, <2>2, <3>1 DEF Life, Closed, SameData
  <2> QED
    BY <1>4, <2>2, <2>3, <2>4, <2>5, TypedParts DEF Inv
<1> QED
  BY <1>5, <1>6

\* What is written leaves the front of the buffer for the end of the wire.
LEMMA WriteMoves ==
  ASSUME NEW S, NEW w \in Seq(S), NEW o \in Seq(S), NEW n \in 0 .. Len(o)
  PROVE  /\ w \o SubSeq(o, 1, n) \in Seq(S)
         /\ SubSeq(o, n + 1, Len(o)) \in Seq(S)
         /\ (w \o SubSeq(o, 1, n)) \o SubSeq(o, n + 1, Len(o)) = w \o o
         /\ n = Len(o) <=> SubSeq(o, n + 1, Len(o)) = <<>>
<1> DEFINE a == SubSeq(o, 1, n)
           b == SubSeq(o, n + 1, Len(o))
<1>1. a \in Seq(S) /\ b \in Seq(S) /\ a \o b = o /\ (n = Len(o) <=> b = <<>>)
  BY CutInTwo
<1> HIDE DEF a, b
<1>2. w \o a \in Seq(S)
  BY <1>1, ConcatProperties
<1>3. a \in Seq(S) /\ b \in Seq(S)
  BY <1>1
<1>4. (w \o a) \o b = w \o (a \o b)
  BY <1>3, ConcatAssociative
<1> QED
  BY <1>1, <1>2, <1>4 DEF a, b

\* handleWrite keeps the invariant, however much the kernel takes.
LEMMA HandleWriteKeeps ==
  ASSUME Inv, NEW c \in Conns, NEW n, HandleWrite(c, n)
  PROVE  Inv'
<1>1. /\ ChanTypes /\ LifeTypes /\ RestTypes /\ DataTypes /\ QueueTypes /\ Life(c)
      /\ Typed
  BY TypedParts DEF Inv
<1>2. /\ Handling(c, "out")
      /\ n \in 0 .. Len(out[c])
      /\ UNCHANGED <<peerVars, loopVars, callVars, late, callback>>
  BY DEF HandleWrite
<1>3. /\ state[c] \notin {"none", "Connecting"}
      /\ "in" \notin revents[c]
      /\ revents' = [revents EXCEPT ![c] = @ \ {"out"}]
  BY <1>2, HandledIsBorn
<1>4. QueueTypes'
  BY <1>1, <1>2 DEF QueueTypes, TasksAt, loopVars
<1>5. fin' \in [Conns -> BOOLEAN] => RestTypes'
  BY <1>1, <1>2, <1>3 DEF RestTypes, loopVars, callVars, peerVars
<1>6. /\ "in" \notin revents'[c]
      /\ "err" \in revents'[c] => "err" \in revents[c]
      /\ peer'[c] = peer[c] /\ late'[c] = late[c]
  BY <1>1, <1>2, <1>3 DEF RestTypes, peerVars
<1>7. ASSUME NEW d \in Conns \ {c}, fin'[d] = fin[d]
      PROVE  SameRest(d)
  BY <1>1, <1>2, <1>3, <1>7 DEF SameRest, RestTypes, peerVars
<1>8. CASE "write" \notin events[c]
  <2>1. UNCHANGED <<lifeVars, chanVars, dataVars, fin>>
    BY <1>8 DEF HandleWrite
  <2>2. /\ ChanTypes' /\ LifeTypes' /\ DataTypes' /\ RestTypes'
        /\ \A d \in Conns : SameChannel(d) /\ SameLife(d) /\ SameData(d)
    BY <1>1, <1>5, <2>1 DEF ChanTypes, LifeTypes, DataTypes, RestTypes, chanVars,
       lifeVars, dataVars, SameChannel, SameLife, SameData
  <2>3. \A d \in Conns \ {c} : Life(d)'
    BY <1>7, <2>1, <2>2, SameStays DEF Same, Inv
  <2>4. Life(c)'
    BY <1>1, <1>3, <1>6, <2>1, <2>2 DEF Life, Open, Closed, SameChannel, SameLife, SameData
  <2> QED
    BY <1>4, <2>2, <2>3, <2>4, TypedParts DEF Inv
<1>9. CASE "write" \in events[c] /\ n = 0
  <2>1. HandleClose(c) /\ UNCHANGED <<dataVars, fin>>
    BY <1>9 DEF HandleWrite
  <2>2. /\ ChanTypes' /\ LifeTypes'
        /\ state'[c] = "Disconnected" /\ events'[c] = {} /\ c \notin epoll'
        /\ ups'[c] <= 1 /\ downs'[c] = 1
        /\ \A d \in Conns \ {c} : SameChannel(d) /\ SameLife(d)
    BY <1>3, <2>1, CloseCloses
  <2>3. DataTypes' /\ RestTypes' /\ \A d \in Conns : SameData(d) /\ fin'[d] = fin[d]
    BY <1>1, <1>5, <2>1 DEF DataTypes, RestTypes, dataVars, SameData
  <2>4. \A d \in Conns \ {c} : Life(d)'
    BY <1>7, <2>2, <2>3, SameStays DEF Same, Inv
  <2>5. Life(c)'
    BY <1>1, <1>6, <2>2, <2>3 DEF Life, Closed, SameData
  <2> QED
    BY <1>4, <2>2, <2>3, <2>4, <2>5, TypedParts DEF Inv
<1>10. CASE "write" \in events[c] /\ n # 0
  <2> DEFINE now == SubSeq(out[c], 1, n)
             rest == SubSeq(out[c], n + 1, Len(out[c]))
  <2>1. /\ wire' = [wire EXCEPT ![c] = @ \o now]
        /\ out' = [out EXCEPT ![c] = rest]
        /\ IF n = Len(out[c])
             THEN /\ UpdateChannel(c, events[c] \ {"write"}, TRUE)
                  /\ fin' = [fin EXCEPT ![c] = @ \/ FinPending(c)]
             ELSE UNCHANGED <<chanVars, fin>>
        /\ UNCHANGED <<lifeVars, accepted>>
    BY <1>10 DEF HandleWrite
  <2>2. out[c] \in Seq(Data) /\ wire[c] \in Seq(Data)
    BY <1>1 DEF DataTypes
  <2>3. /\ wire[c] \o now \in Seq(Data) /\ rest \in Seq(Data)
        /\ (wire[c] \o now) \o rest = wire[c] \o out[c]
        /\ n = Len(out[c]) <=> rest = <<>>
    <3>1. ASSUME NEW w \in Seq(Data), NEW o \in Seq(Data), NEW k \in 0 .. Len(o)
          PROVE  /\ w \o SubSeq(o, 1, k) \in Seq(Data)
                 /\ SubSeq(o, k + 1, Len(o)) \in Seq(Data)
                 /\ (w \o SubSeq(o, 1, k)) \o SubSeq(o, k + 1, Len(o)) = w \o o
                 /\ k = Len(o) <=> SubSeq(o, k + 1, Len(o)) = <<>>
      BY WriteMoves
    <3> QED
      BY <1>2, <2>2, <3>1, Zenon
  <2> HIDE DEF now, rest
  <2>4. DataTypes' /\ out'[c] = rest
    BY <1>1, <2>1, <2>3 DEF DataTypes
  <2>5. state[c] \in {"Connected", "Disconnecting"} /\ Open(c)
    BY <1>1, <1>3, <1>10 DEF LifeTypes, Life, Closed
  <2>6. LifeTypes' /\ \A d \in Conns : SameLife(d)
    BY <1>1, <2>1 DEF LifeTypes, lifeVars, SameLife
  <2>7. ASSUME NEW d \in Conns \ {c}
        PROVE  SameData(d)
    BY <1>1, <2>1 DEF SameData, DataTypes
  <2>8. CASE n = Len(out[c])
    <3>1. /\ ChanTypes'
          /\ events'[c] = events[c] \ {"write"} /\ index'[c] = "added"
          /\ \A d \in Conns \ {c} : SameChannel(d)
      <4>1. events[c] \ {"write"} \in SUBSET {"read", "write"} /\ events[c] \ {"write"} # {}
        BY <1>1, <2>5 DEF ChanTypes, Open
      <4> QED
        BY <1>1, <2>1, <2>8, <4>1, ChannelUpdated
    <3>2. /\ fin' \in [Conns -> BOOLEAN]
          /\ \A d \in Conns \ {c} : fin'[d] = fin[d]
          /\ fin'[c] => state[c] = "Disconnecting"
      <4>1. fin'[c] = (fin[c] \/ FinPending(c))
        BY <1>1, <2>1, <2>8 DEF RestTypes
      <4>2. fin' = [fin EXCEPT ![c] = @ \/ FinPending(c)]
        BY <2>1, <2>8
      <4>3. FinPending(c) \in BOOLEAN
        BY DEF FinPending
      <4> QED
        BY <1>1, <2>5, <4>1, <4>2, <4>3 DEF RestTypes, FinPending, Life
    <3>3. \A d \in Conns \ {c} : Life(d)'
      BY <1>7, <2>6, <2>7, <3>1, <3>2, SameStays DEF Same, Inv
    <3>4. Life(c)'
      <4>1. out'[c] = <<>> /\ "write" \notin events'[c] /\ "read" \in events'[c]
        BY <2>3, <2>4, <2>5, <2>8, <3>1 DEF Open
      <4> QED
        BY <1>1, <1>6, <2>5, <2>6, <3>1, <3>2, <4>1 DEF Life, Open, SameLife
    <3> QED
      BY <1>4, <1>5, <2>4, <2>6, <3>1, <3>2, <3>3, <3>4, TypedParts DEF Inv
  <2>9. CASE n # Len(out[c])
    <3>1. /\ ChanTypes' /\ fin' = fin /\ RestTypes'
          /\ \A d \in Conns : SameChannel(d)
      BY <1>1, <1>5, <2>1, <2>9 DEF ChanTypes, chanVars, RestTypes, SameChannel
    <3>2. \A d \in Conns \ {c} : Life(d)'
      BY <1>7, <2>6, <2>7, <3>1, SameStays DEF Same, Inv
    <3>3. Life(c)'
      <4>1. out[c] # <<>> /\ out'[c] # <<>>
        BY <1>10, <2>3, <2>4, <2>5, <2>9 DEF Open
      <4> QED
        BY <1>1, <1>6, <2>5, <2>6, <3>1, <4>1 DEF Life, Open, SameLife, SameChannel
    <3> QED
      BY <1>4, <2>4, <2>6, <3>1, <3>2, <3>3, TypedParts DEF Inv
  <2> QED
    BY <2>8, <2>9
<1> QED
  BY <1>8, <1>9, <1>10

\* The return of a callback keeps the invariant.
LEMMA CallbackReturnsKeeps ==
  ASSUME Inv, NEW l \in Loops, CallbackReturns(l)
  PROVE  Inv'
<1>1. /\ callback' = [callback EXCEPT ![l] = "none"]
      /\ UNCHANGED <<chanVars, dataVars, lifeVars, peerVars, loopVars, callVars,
                     fin, late, revents>>
  BY DEF CallbackReturns
<1>2. Typed'
  BY <1>1, TypedParts DEF Inv, ChanTypes, LifeTypes, DataTypes, RestTypes, QueueTypes,
     TasksAt, chanVars, dataVars, lifeVars, peerVars, loopVars, callVars
<1>3. ASSUME NEW d \in Conns
      PROVE  Life(d)'
  <2>1. Same(d)
    BY <1>1 DEF Same, SameChannel, SameLife, SameData, SameRest, chanVars, dataVars,
       lifeVars, peerVars
  <2> QED
    BY <2>1, SameStays DEF Inv
<1> QED
  BY <1>2, <1>3 DEF Inv

-----------------------------------------------------------------------------
(* The public methods, in the loop.                                        *)

\* Two sequences with nothing in them together are empty.
LEMMA EmptyConcat ==
  ASSUME NEW S, NEW o \in Seq(S), NEW b \in Seq(S)
  PROVE  o \o b = <<>> <=> o = <<>> /\ b = <<>>
<1>1. /\ o \o b \in Seq(S) /\ Len(o \o b) = Len(o) + Len(b)
      /\ Len(o) \in Nat /\ Len(b) \in Nat
  BY ConcatProperties, LenProperties
<1> QED
  BY <1>1, EmptySeq

\* sendInLoop, called in the loop or queued by another thread.
LEMMA SendKeeps ==
  ASSUME Inv, NEW c \in Conns, Known(c), NEW msg \in Seq(Data), Len(msg) = Units,
         NEW n \in 0 .. Units, SendInLoop(c, msg, n), QueueTypes', RestTypes',
         UNCHANGED <<lifeVars, peer, fin, late, revents>>
  PROVE  Inv'
<1> DEFINE now == SubSeq(msg, 1, n)
           rest == SubSeq(msg, n + 1, Len(msg))
<1>1. /\ ChanTypes /\ LifeTypes /\ RestTypes /\ DataTypes /\ Life(c) /\ Typed
  BY TypedParts DEF Inv
<1>2. now \in Seq(Data) /\ rest \in Seq(Data) /\ now \o rest = msg /\ (n = 0 => now = <<>>)
  BY CutInTwo
<1>3. LifeTypes' /\ \A d \in Conns : SameLife(d) /\ SameRest(d)
  BY <1>1 DEF LifeTypes, SameLife, SameRest, lifeVars
<1>4. CASE state[c] = "Disconnected" \/ (Direct(c) /\ (fin[c] \/ peer[c] = "rst"))
  <2>1. UNCHANGED <<dataVars, chanVars>>
    BY <1>4 DEF SendInLoop
  <2>2. /\ ChanTypes' /\ DataTypes'
        /\ \A d \in Conns : Same(d)
    BY <1>1, <1>3, <2>1 DEF ChanTypes, DataTypes, dataVars, chanVars, Same, SameChannel, SameData
  <2>3. \A d \in Conns : Life(d)'
    BY <2>2, SameStays DEF Inv
  <2> QED
    BY <1>3, <2>2, <2>3, TypedParts DEF Inv
<1>5. CASE ~(state[c] = "Disconnected" \/ (Direct(c) /\ (fin[c] \/ peer[c] = "rst")))
  <2>1. /\ Direct(c) \/ n = 0
        /\ wire' = [wire EXCEPT ![c] = @ \o now]
        /\ out' = [out EXCEPT ![c] = @ \o rest]
        /\ accepted' = [accepted EXCEPT ![c] = @ \o msg]
        /\ IF Arms(c, rest)
             THEN UpdateChannel(c, events[c] \cup {"write"}, TRUE)
             ELSE UNCHANGED chanVars
    BY <1>5 DEF SendInLoop
  <2>2. Open(c) /\ state[c] \in {"Connected", "Disconnecting"}
    BY <1>1, <1>5 DEF Life, LifeTypes, Known
  <2>3. ~fin[c]
    BY <1>1, <1>5, <2>2 DEF Life, Open, Direct
  <2> HIDE DEF now, rest
  <2>4. out[c] \in Seq(Data) /\ wire[c] \in Seq(Data) /\ accepted[c] \in Seq(Data)
    BY <1>1 DEF DataTypes
  <2>5. out[c] \o rest = <<>> <=> out[c] = <<>> /\ rest = <<>>
    BY <1>2, <2>4, EmptyConcat
  <2>6. /\ wire[c] \o now \in Seq(Data) /\ out[c] \o rest \in Seq(Data)
        /\ accepted[c] \o msg \in Seq(Data)
    BY <1>2, <2>4, ConcatProperties
  <2>7. /\ DataTypes'
        /\ out'[c] = out[c] \o rest
        /\ \A d \in Conns \ {c} : SameData(d)
    BY <1>1, <2>1, <2>6 DEF DataTypes, SameData
  <2>8. /\ ChanTypes'
        /\ index'[c] = "added" /\ "read" \in events'[c]
        /\ "write" \in events'[c] <=> "write" \in events[c] \/ rest # <<>>
        /\ \A d \in Conns \ {c} : SameChannel(d)
    <3>1. CASE Arms(c, rest)
      <4>1. /\ events[c] \cup {"write"} \in SUBSET {"read", "write"}
            /\ events[c] \cup {"write"} # {}
        BY <1>1 DEF ChanTypes
      <4>2. /\ ChanTypes' /\ events'[c] = events[c] \cup {"write"} /\ index'[c] = "added"
            /\ \A d \in Conns \ {c} : SameChannel(d)
        BY <1>1, <2>1, <3>1, <4>1, ChannelUpdated
      <4> QED
        BY <2>2, <3>1, <4>2 DEF Arms, Open
    <3>2. CASE ~Arms(c, rest)
      BY <1>1, <2>1, <2>2, <3>2 DEF Arms, Open, ChanTypes, chanVars, SameChannel
    <3> QED
      BY <3>1, <3>2
  <2>9. \A d \in Conns \ {c} : Life(d)'
    BY <1>3, <2>7, <2>8, SameStays DEF Same, Inv
  <2>10. Life(c)'
    <3>1. out'[c] # <<>> <=> "write" \in events'[c]
      BY <2>2, <2>5, <2>7, <2>8 DEF Open
    <3> QED
      BY <1>1, <1>3, <2>2, <2>3, <2>8, <3>1 DEF Life, Open, SameLife, SameRest
  <2> QED
    BY <1>3, <2>7, <2>8, <2>9, <2>10, TypedParts DEF Inv
<1> QED
  BY <1>4, <1>5

\* send in the loop keeps the invariant.
LEMMA SendHereKeeps ==
  ASSUME Inv, NEW c \in Conns, NEW n \in 0 .. Units, SendHere(c, n)
  PROVE  Inv'
<1>1. RestTypes /\ QueueTypes
  BY TypedParts DEF Inv
<1>2. /\ Known(c)
      /\ calls[c] < MaxCalls /\ calls' = [calls EXCEPT ![c] = @ + 1]
      /\ SendInLoop(c, Message("loop", calls[c] + 1), n)
      /\ UNCHANGED <<lifeVars, peerVars, loopVars, call, fin, late, revents, callback>>
  BY DEF SendHere, CountCall, Known
<1>3. PICK msg \in Seq(Data) : msg = Message("loop", calls[c] + 1) /\ Len(msg) = Units
  <2>1. calls[c] + 1 \in 1 .. MaxCalls
    BY <1>1, <1>2, ConnAssumption DEF RestTypes
  <2> QED
    BY <2>1, MessageType
<1>4. QueueTypes'
  BY <1>1, <1>2 DEF QueueTypes, TasksAt, loopVars
<1>5. RestTypes'
  <2>1. calls' \in [Conns -> 0 .. MaxCalls]
    BY <1>1, <1>2, ConnAssumption DEF RestTypes
  <2> QED
    BY <1>1, <1>2, <2>1 DEF RestTypes, peerVars, loopVars
<1> QED
  BY <1>2, <1>3, <1>4, <1>5, SendKeeps DEF peerVars

\* Nothing of the connections changes but who holds them.
LEMMA LettingGoKeeps ==
  ASSUME Inv, owned' \subseteq Conns, closing' \in Seq(Conns), QueueTypes',
         UNCHANGED <<chanVars, dataVars, state, ups, downs, peerVars, loopOf,
                     callVars, fin, late, revents, callback>>
  PROVE  Inv'
<1>1. ChanTypes /\ LifeTypes /\ RestTypes /\ DataTypes
  BY TypedParts DEF Inv
<1>2. ChanTypes' /\ LifeTypes' /\ RestTypes' /\ DataTypes'
  BY <1>1 DEF ChanTypes, LifeTypes, RestTypes, DataTypes, chanVars, dataVars, peerVars,
     callVars
<1>3. ASSUME NEW d \in Conns
      PROVE  Life(d)'
  <2>1. Same(d)
    BY DEF Same, SameChannel, SameLife, SameData, SameRest, chanVars, dataVars, peerVars
  <2> QED
    BY <2>1, SameStays DEF Inv
<1> QED
  BY <1>2, <1>3, TypedParts DEF Inv

\* So does the send of another thread when it is run: its connection has been
\* established.
LEMMA QueuedSendKeeps ==
  ASSUME Inv, Senders, NEW l \in Loops, NEW c \in Conns, NEW n \in 0 .. Units,
         QueuedSend(l, c, n)
  PROVE  Inv'
<1>1. RestTypes /\ QueueTypes /\ Typed
  BY TypedParts DEF Inv
<1>2. PICK u \in Users, k \in 1 .. MaxCalls :
        /\ Take(l, Send(c, u, k))
        /\ IF Alive(c)
             THEN SendInLoop(c, Message(u, k), n)
             ELSE n = 0 /\ UNCHANGED <<dataVars, chanVars>>
        /\ UNCHANGED <<lifeVars, peerVars, callVars, loopOf, owned, fin, late,
                       revents, callback>>
  BY DEF QueuedSend, Send
<1>3. QueueTypes'
  BY <1>1, <1>2, Taken
<1>4. RestTypes'
  BY <1>1, <1>2 DEF RestTypes, peerVars, callVars
<1>5. Known(c)
  <2>1. queue[l] \in Seq(Tasks) /\ queue[l] # <<>> /\ Send(c, u, k) = Head(queue[l])
    BY <1>1, <1>2 DEF QueueTypes, Take
  <2>2. Send(c, u, k) \in Range(queue[l])
    BY <2>1, RangeTail
  <2> QED
    BY <2>2 DEF Senders, Send
<1>6. CASE Alive(c)
  <2>1. PICK msg \in Seq(Data) : msg = Message(u, k) /\ Len(msg) = Units
    BY MessageType
  <2> QED
    BY <1>2, <1>3, <1>4, <1>5, <1>6, <2>1, SendKeeps DEF peerVars
<1>7. CASE ~Alive(c)
  <2>1. UNCHANGED <<chanVars, dataVars, state, ups, downs, peerVars, loopOf,
                    callVars, fin, late, revents, callback>>
    BY <1>2, <1>7 DEF lifeVars
  <2>2. owned' \subseteq Conns /\ closing' \in Seq(Conns)
    BY <1>1, <1>2 DEF Typed, TypeOK, lifeVars
  <2> QED
    BY <1>3, <2>1, <2>2, LettingGoKeeps
<1> QED
  BY <1>6, <1>7

\* shutdown in the loop keeps the invariant.
LEMMA ShutdownHereKeeps ==
  ASSUME Inv, NEW c \in Conns, ShutdownHere(c)
  PROVE  Inv'
<1>1. /\ ChanTypes /\ LifeTypes /\ RestTypes /\ DataTypes /\ QueueTypes /\ Life(c)
  BY TypedParts DEF Inv
<1>2. /\ state[c] = "Connected"
      /\ calls[c] < MaxCalls /\ calls' = [calls EXCEPT ![c] = @ + 1]
      /\ state' = [state EXCEPT ![c] = "Disconnecting"]
      /\ fin' = [fin EXCEPT ![c] = @ \/ "write" \notin events[c]]
      /\ UNCHANGED <<chanVars, dataVars, ups, downs, closing, peerVars, loopVars,
                     call, late, revents, callback>>
  BY DEF ShutdownHere, ShutdownInLoop, CountCall
<1>3. ChanTypes' /\ LifeTypes' /\ DataTypes' /\ QueueTypes'
  BY <1>1, <1>2 DEF ChanTypes, LifeTypes, DataTypes, QueueTypes, TasksAt, chanVars,
     dataVars, loopVars
<1>4. RestTypes'
  <2>1. calls' \in [Conns -> 0 .. MaxCalls]
    BY <1>1, <1>2, ConnAssumption DEF RestTypes
  <2>2. fin' \in [Conns -> BOOLEAN]
    BY <1>1, <1>2 DEF RestTypes
  <2> QED
    BY <1>1, <1>2, <2>1, <2>2 DEF RestTypes, peerVars, loopVars
<1>5. ASSUME NEW d \in Conns \ {c}
      PROVE  Life(d)'
  <2>1. Same(d)
    BY <1>1, <1>2 DEF Same, SameChannel, SameLife, SameData, SameRest, chanVars,
       dataVars, peerVars, LifeTypes, RestTypes
  <2> QED
    BY <2>1, SameStays DEF Inv
<1>6. Life(c)'
  <2>1. state'[c] = "Disconnecting" /\ (fin'[c] => fin[c] \/ "write" \notin events[c])
    BY <1>1, <1>2 DEF LifeTypes, RestTypes
  <2>2. /\ SameChannel(c) /\ SameData(c) /\ ups'[c] = ups[c] /\ downs'[c] = downs[c]
        /\ revents'[c] = revents[c] /\ peer'[c] = peer[c] /\ late'[c] = late[c]
    BY <1>2 DEF SameChannel, SameData, chanVars, dataVars, peerVars
  <2> QED
    BY <1>1, <1>2, <2>1, <2>2 DEF Life, Open, SameChannel, SameData
<1> QED
  BY <1>3, <1>4, <1>5, <1>6, TypedParts DEF Inv

\* forceClose in the loop keeps the invariant.
LEMMA ForceCloseHereKeeps ==
  ASSUME Inv, NEW c \in Conns, ForceCloseHere(c)
  PROVE  Inv'
<1>1. /\ ChanTypes /\ LifeTypes /\ RestTypes /\ DataTypes /\ QueueTypes /\ Life(c)
      /\ Typed
  BY TypedParts DEF Inv
<1>2. /\ state[c] \in {"Connected", "Disconnecting"}
      /\ calls[c] < MaxCalls /\ calls' = [calls EXCEPT ![c] = @ + 1]
      /\ state' = [state EXCEPT ![c] = "Disconnecting"]
      /\ Enqueue(loopOf[c], Task("forceClose", c))
      /\ UNCHANGED <<chanVars, dataVars, ups, downs, closing, peerVars, loopOf,
                     owned, call, fin, late, revents, callback>>
  BY DEF ForceCloseHere, Closable, CountCall
<1>3. QueueTypes'
  <2>1. loopOf[c] \in Loops /\ Task("forceClose", c) \in TasksAt(loopOf[c])
    BY <1>1 DEF RestTypes, TasksAt, Tasks, Task, StrongKinds
  <2> QED
    BY <1>1, <1>2, <2>1, Queued
<1>4. ChanTypes' /\ LifeTypes' /\ DataTypes'
  BY <1>1, <1>2 DEF ChanTypes, LifeTypes, DataTypes, chanVars, dataVars
<1>5. RestTypes'
  <2>1. calls' \in [Conns -> 0 .. MaxCalls]
    BY <1>1, <1>2, ConnAssumption DEF RestTypes
  <2> QED
    BY <1>1, <1>2, <2>1 DEF RestTypes, peerVars
<1>6. ASSUME NEW d \in Conns \ {c}
      PROVE  Life(d)'
  <2>1. Same(d)
    BY <1>1, <1>2 DEF Same, SameChannel, SameLife, SameData, SameRest, chanVars,
       dataVars, peerVars, LifeTypes
  <2> QED
    BY <2>1, SameStays DEF Inv
<1>7. Life(c)'
  <2>1. state'[c] = "Disconnecting"
    BY <1>1, <1>2 DEF LifeTypes
  <2>2. SameChannel(c) /\ SameData(c) /\ SameRest(c) /\ ups'[c] = ups[c] /\ downs'[c] = downs[c]
    BY <1>2 DEF SameChannel, SameData, SameRest, chanVars, dataVars, peerVars
  <2> QED
    BY <1>1, <1>2, <2>1, <2>2 DEF Life, Open, SameChannel, SameData, SameRest
<1> QED
  BY <1>3, <1>4, <1>5, <1>6, <1>7, TypedParts DEF Inv

-----------------------------------------------------------------------------
(* The peer and the owner.                                                 *)

\* The peer keeps the invariant.
LEMMA PeerKeeps ==
  ASSUME Inv, NEW c \in Conns, PeerSends(c) \/ PeerEnds(c)
  PROVE  Inv'
<1>1. /\ ChanTypes /\ LifeTypes /\ RestTypes /\ DataTypes /\ QueueTypes
  BY TypedParts DEF Inv
<1>2. /\ UNCHANGED <<chanVars, dataVars, lifeVars, loopVars, callVars, fin, late,
                     revents, callback>>
      /\ peer' \in [Conns -> {"open", "fin", "rst"}]
      /\ unread' \in [Conns -> BOOLEAN]
      /\ \A d \in Conns : peer[d] = "rst" => peer'[d] = "rst"
  <2>1. CASE PeerSends(c)
    BY <1>1, <2>1 DEF PeerSends, RestTypes
  <2>2. CASE PeerEnds(c)
    BY <1>1, <2>2 DEF PeerEnds, RestTypes
  <2> QED
    BY <2>1, <2>2
<1>3. ChanTypes' /\ LifeTypes' /\ RestTypes' /\ DataTypes' /\ QueueTypes'
  BY <1>1, <1>2 DEF ChanTypes, LifeTypes, RestTypes, DataTypes, QueueTypes, TasksAt,
     chanVars, dataVars, lifeVars, loopVars, callVars
<1>4. ASSUME NEW d \in Conns
      PROVE  Life(d)'
  <2>1. /\ SameChannel(d) /\ SameLife(d) /\ SameData(d)
        /\ fin'[d] = fin[d] /\ late'[d] = late[d] /\ revents'[d] = revents[d]
        /\ peer[d] = "rst" => peer'[d] = "rst"
    BY <1>2 DEF SameChannel, SameLife, SameData, chanVars, dataVars, lifeVars
  <2>2. Life(d)
    BY DEF Inv
  <2> QED
    BY <2>1, <2>2 DEF Life, Unborn, Open, Closed, SameChannel, SameLife, SameData
<1> QED
  BY <1>3, <1>4, TypedParts DEF Inv

\* The owner that creates a connection keeps the invariant.
LEMMA OwnerCreatesKeeps ==
  ASSUME Inv, NEW c \in Conns, OwnerCreates(c)
  PROVE  Inv'
<1>1. /\ ChanTypes /\ LifeTypes /\ RestTypes /\ DataTypes /\ QueueTypes /\ Life(c)
      /\ Typed
  BY TypedParts DEF Inv
<1>2. /\ state[c] = "none"
      /\ state' = [state EXCEPT ![c] = "Connecting"]
      /\ owned' = owned \cup {c}
      /\ Enqueue(loopOf[c], Task("established", c))
      /\ UNCHANGED <<chanVars, dataVars, ups, downs, closing, peerVars, loopOf,
                     callVars, fin, late, revents, callback>>
  BY DEF OwnerCreates
<1>3. QueueTypes'
  <2>1. loopOf[c] \in Loops /\ Task("established", c) \in TasksAt(loopOf[c])
    BY <1>1 DEF RestTypes, TasksAt, Tasks, Task, StrongKinds
  <2> QED
    BY <1>1, <1>2, <2>1, Queued
<1>4. ChanTypes' /\ LifeTypes' /\ DataTypes' /\ RestTypes'
  BY <1>1, <1>2 DEF ChanTypes, LifeTypes, DataTypes, RestTypes, chanVars, dataVars,
     peerVars, callVars
<1>5. ASSUME NEW d \in Conns \ {c}
      PROVE  Life(d)'
  <2>1. Same(d)
    BY <1>1, <1>2 DEF Same, SameChannel, SameLife, SameData, SameRest, chanVars,
       dataVars, peerVars, LifeTypes
  <2> QED
    BY <2>1, SameStays DEF Inv
<1>6. Life(c)'
  <2>1. state'[c] = "Connecting"
    BY <1>1, <1>2 DEF LifeTypes
  <2>2. SameChannel(c) /\ SameData(c) /\ SameRest(c) /\ ups'[c] = ups[c] /\ downs'[c] = downs[c]
    BY <1>2 DEF SameChannel, SameData, SameRest, chanVars, dataVars, peerVars
  <2> QED
    BY <1>1, <1>2, <2>1, <2>2 DEF Life, Unborn, SameChannel, SameData, SameRest
<1> QED
  BY <1>3, <1>4, <1>5, <1>6, TypedParts DEF Inv

\* connectDestroyed belongs in the queue of the connection's loop.
LEMMA DestroyTask ==
  ASSUME Typed, NEW c \in Conns
  PROVE  loopOf[c] \in Loops /\ Task("destroyed", c) \in TasksAt(loopOf[c])
BY DEF Typed, TypeOK, TasksAt, Tasks, Task, StrongKinds

\* The owner that removes a connection keeps the invariant.
LEMMA OwnerRemovesKeeps ==
  ASSUME Inv, OwnerRemoves
  PROVE  Inv'
<1> DEFINE c == Head(closing)
<1>1. /\ closing \in Seq(Conns) /\ closing # <<>> /\ closing' = Tail(closing)
      /\ owned' = owned \ {c}
      /\ IF c \in owned THEN Enqueue(loopOf[c], Task("destroyed", c)) ELSE UNCHANGED queue
      /\ UNCHANGED <<chanVars, dataVars, state, ups, downs, peerVars, loopOf,
                     callVars, fin, late, revents, callback>>
      /\ Typed /\ owned \subseteq Conns
  BY DEF OwnerRemoves, Inv, Typed, TypeOK
<1>2. c \in Conns /\ closing' \in Seq(Conns)
  BY <1>1, HeadTailProperties
<1>3. QueueTypes'
  <2>1. CASE c \in owned
    BY <1>1, <1>2, <2>1, DestroyTask, Queued
  <2>2. CASE c \notin owned
    BY <1>1, <2>2 DEF Typed, QueueTypes, TasksAt
  <2> QED
    BY <2>1, <2>2
<1> QED
  BY <1>1, <1>2, <1>3, LettingGoKeeps

\* The owner that stops keeps the invariant.
LEMMA OwnerStopsKeeps ==
  ASSUME Inv, NEW c \in Conns, OwnerStops(c)
  PROVE  Inv'
<1>1. /\ owned' = owned \ {c}
      /\ Enqueue(loopOf[c], Task("destroyed", c))
      /\ UNCHANGED <<chanVars, dataVars, state, ups, downs, closing, peerVars, loopOf,
                     callVars, fin, late, revents, callback>>
      /\ Typed /\ owned \subseteq Conns /\ closing \in Seq(Conns)
  BY DEF OwnerStops, Inv, Typed, TypeOK, lifeVars
<1>2. QueueTypes'
  BY <1>1, DestroyTask, Queued
<1> QED
  BY <1>1, <1>2, LettingGoKeeps

-----------------------------------------------------------------------------
(* The whole specification.                                                *)

\* The invariant holds where the program starts.
LEMMA InitHolds ==
  ASSUME Init
  PROVE  Inv
<1>1. <<>> \in Seq(Data) /\ <<>> \in Seq(Tasks) /\ <<>> \in Seq(Conns)
      /\ (\A l \in Loops : <<>> \in Seq(TasksAt(l)))
  OBVIOUS
<1>2. ChanTypes /\ LifeTypes /\ DataTypes /\ QueueTypes
  BY <1>1 DEF Init, ChanTypes, LifeTypes, DataTypes, QueueTypes
<1>3. RestTypes
  BY ConnAssumption DEF Init, RestTypes
<1>4. ASSUME NEW c \in Conns
      PROVE  Life(c)
  <2>1. /\ state[c] = "none" /\ events[c] = {} /\ index[c] = "new" /\ c \notin epoll
        /\ out[c] = <<>> /\ ups[c] = 0 /\ downs[c] = 0 /\ revents[c] = {}
        /\ ~fin[c] /\ ~late[c]
    BY DEF Init
  <2> QED
    BY <2>1 DEF Life, Unborn
<1> QED
  BY <1>2, <1>3, <1>4, TypedParts DEF Inv

\* A task that is run keeps the invariant.
LEMMA RunTaskKeeps ==
  ASSUME Users = {} \/ Senders, Inv, NEW l \in Loops, RunTask(l)
  PROVE  Inv'
<1>1. PICK c \in Conns :
        \/ \E addOk \in BOOLEAN : ConnectEstablished(l, c, addOk)
        \/ ConnectDestroyed(l, c)
        \/ ForceCloseInLoop(l, c)
        \/ QueuedShutdown(l, c)
        \/ \E n \in 0 .. Units : QueuedSend(l, c, n)
  BY DEF RunTask
<1>2. CASE \E addOk \in BOOLEAN : ConnectEstablished(l, c, addOk)
  BY <1>2, EstablishedKeeps
<1>3. CASE ConnectDestroyed(l, c)
  BY <1>3, DestroyedKeeps
<1>4. CASE ForceCloseInLoop(l, c)
  BY <1>4, ForceClosedKeeps
<1>5. CASE QueuedShutdown(l, c)
  <2>1. Take(l, Task("shutdown", c)) /\ loopOf' = loopOf
    BY <1>5 DEF QueuedShutdown
  <2>2. Task("shutdown", c) \in Tasks
    BY <2>1, Taken DEF Inv
  <2> QED
    BY <2>2, NoShutdownTask
<1>6. CASE \E n \in 0 .. Units : QueuedSend(l, c, n)
  <2>1. Users # {}
    BY <1>6 DEF QueuedSend
  <2> QED
    BY <1>6, <2>1, QueuedSendKeeps
<1> QED
  BY <1>1, <1>2, <1>3, <1>4, <1>5, <1>6

\* The steps of a thread that sends: the test, and the queueing.
LEMMA UserStepIs ==
  ASSUME Senders, OthersSend, NEW u \in Users, UserStep(u)
  PROVE  \/ \E c \in Conns : UserTests(u, c, "send")
         \/ \E c \in Conns, k \in 1 .. MaxCalls :
              /\ call[u].conn = c /\ Known(c)
              /\ Enqueue(loopOf[c], Send(c, u, k))
              /\ call' = [call EXCEPT ![u] = NoCall]
              /\ UNCHANGED <<chanVars, dataVars, lifeVars, peerVars, loopOf, owned,
                             calls, fin, late, revents, callback>>
<1>1. Sender(u)
  BY DEF Senders
<1>2. CASE \E c \in Conns, op \in UserOps : UserTests(u, c, op)
  BY <1>2 DEF OthersSend
<1>3. CASE UserStores(u)
  BY <1>1, <1>3 DEF UserStores, Sender
<1>4. CASE UserQueues(u)
  BY <1>1, <1>4 DEF UserQueues, Sender, Send
<1> QED
  BY <1>2, <1>3, <1>4 DEF UserStep

\* The send of another thread belongs in the queue of the connection's loop.
LEMMA SendTask ==
  ASSUME Typed, NEW c \in Conns, NEW u \in Users, NEW k \in 1 .. MaxCalls
  PROVE  loopOf[c] \in Loops /\ Send(c, u, k) \in TasksAt(loopOf[c])
BY DEF Typed, TypeOK, TasksAt, Tasks, Send

\* A step of a thread that sends keeps the invariant.
LEMMA UserStepKeeps ==
  ASSUME Inv, Senders, OthersSend, NEW u \in Users, UserStep(u)
  PROVE  Inv'
<1>1. ChanTypes /\ LifeTypes /\ RestTypes /\ DataTypes /\ QueueTypes /\ Typed
  BY TypedParts DEF Inv
<1>2. ASSUME NEW c \in Conns, UserTests(u, c, "send")
      PROVE  Inv'
  <2>1. /\ CountCall(c)
        /\ UNCHANGED <<chanVars, dataVars, lifeVars, peerVars, loopVars, fin, late,
                       revents, callback>>
    BY <1>2 DEF UserTests
  <2>2. calls' \in [Conns -> 0 .. MaxCalls]
    BY <1>1, <2>1, ConnAssumption DEF CountCall, RestTypes
  <2>3. ChanTypes' /\ LifeTypes' /\ RestTypes' /\ DataTypes' /\ QueueTypes'
    BY <1>1, <2>1, <2>2 DEF ChanTypes, LifeTypes, RestTypes, DataTypes, QueueTypes,
       TasksAt, chanVars, dataVars, lifeVars, peerVars, loopVars
  <2>4. ASSUME NEW d \in Conns
        PROVE  Life(d)'
    <3>1. Same(d)
      BY <2>1 DEF Same, SameChannel, SameLife, SameData, SameRest, chanVars, dataVars,
         lifeVars, peerVars
    <3> QED
      BY <3>1, SameStays DEF Inv
  <2> QED
    BY <2>3, <2>4, TypedParts DEF Inv
<1>3. ASSUME NEW c \in Conns, NEW k \in 1 .. MaxCalls, Enqueue(loopOf[c], Send(c, u, k)),
             UNCHANGED <<chanVars, dataVars, lifeVars, peerVars, loopOf, owned, calls,
                         fin, late, revents, callback>>
      PROVE  Inv'
  <2>1. QueueTypes'
    BY <1>1, <1>3, SendTask, Queued
  <2>2. ChanTypes' /\ LifeTypes' /\ RestTypes' /\ DataTypes'
    BY <1>1, <1>3 DEF ChanTypes, LifeTypes, RestTypes, DataTypes, chanVars, dataVars,
       lifeVars, peerVars
  <2>3. ASSUME NEW d \in Conns
        PROVE  Life(d)'
    <3>1. Same(d)
      BY <1>3 DEF Same, SameChannel, SameLife, SameData, SameRest, chanVars, dataVars,
         lifeVars, peerVars
    <3> QED
      BY <3>1, SameStays DEF Inv
  <2> QED
    BY <2>1, <2>2, <2>3, TypedParts DEF Inv
<1> QED
  BY <1>2, <1>3, UserStepIs

\* Every step keeps the invariant.
LEMMA NextKeeps ==
  ASSUME Users = {} \/ Senders, OthersSend, Inv, [Next]_vars
  PROVE  Inv'
<1>1. CASE \E l \in Loops : LoopStep(l)
  <2>1. PICK l \in Loops : LoopStep(l)
    BY <1>1
  <2>2. CASE RunTask(l)
    BY <2>2, RunTaskKeeps
  <2>3. CASE CallbackReturns(l)
    BY <2>3, CallbackReturnsKeeps
  <2>4. ASSUME NEW c \in Conns, HandleError(c)
        PROVE  Inv'
    BY <2>4, HandleErrorKeeps
  <2>5. ASSUME NEW c \in Conns, HandleRead(c)
        PROVE  Inv'
    BY <2>5, HandleReadKeeps
  <2>6. ASSUME NEW c \in Conns, NEW n \in 0 .. Units * MaxCalls, HandleWrite(c, n)
        PROVE  Inv'
    BY <2>6, HandleWriteKeeps
  <2> QED
    BY <2>1, <2>2, <2>3, <2>4, <2>5, <2>6 DEF LoopStep
<1>2. ASSUME NEW c \in Conns, NEW canWrite \in BOOLEAN, Poll(c, canWrite)
      PROVE  Inv'
  BY <1>2, PollKeeps
<1>3. ASSUME NEW c \in Conns, HereStep(c)
      PROVE  Inv'
  BY <1>3, SendHereKeeps, ShutdownHereKeeps, ForceCloseHereKeeps DEF HereStep
<1>4. ASSUME NEW c \in Conns, PeerSends(c) \/ PeerEnds(c)
      PROVE  Inv'
  BY <1>4, PeerKeeps
<1>5. ASSUME NEW c \in Conns, OwnerCreates(c)
      PROVE  Inv'
  BY <1>5, OwnerCreatesKeeps
<1>6. ASSUME NEW c \in Conns, OwnerStops(c)
      PROVE  Inv'
  BY <1>6, OwnerStopsKeeps
<1>7. CASE OwnerRemoves
  BY <1>7, OwnerRemovesKeeps
<1>8. CASE UNCHANGED vars
  <2>1. /\ UNCHANGED <<chanVars, dataVars, state, ups, downs, peerVars, loopOf,
                       callVars, fin, late, revents, callback>>
        /\ UNCHANGED <<owned, closing, queue>>
    BY <1>8 DEF vars, lifeVars, loopVars
  <2>2. owned' \subseteq Conns /\ closing' \in Seq(Conns) /\ QueueTypes'
    BY <2>1, TypedParts DEF Inv, RestTypes, LifeTypes, QueueTypes, TasksAt
  <2> QED
    BY <2>1, <2>2, LettingGoKeeps
<1>9. ASSUME NEW u \in Users, UserStep(u)
      PROVE  Inv'
  BY <1>9, UserStepKeeps
<1> QED
  BY <1>1, <1>2, <1>3, <1>4, <1>5, <1>6, <1>7, <1>8, <1>9 DEF Next, AllGone

\* A connection that was established stays so, or closes.
LEMMA KnownStays ==
  ASSUME Inv, Senders, OthersSend, [Next]_vars, NEW d \in Conns, Known(d)
  PROVE  Known(d)'
<1> DEFINE To(c, s) == state' = [state EXCEPT ![c] = s]
           Moves(c) == \/ state' = state
                       \/ \E s \in {"Connected", "Disconnecting", "Disconnected"} : To(c, s)
                       \/ state[c] = "none" /\ To(c, "Connecting")
<1>1. LifeTypes
  BY TypedParts DEF Inv
<1>2. ASSUME NEW c \in Conns, HandleClose(c)
      PROVE  Moves(c)
  BY <1>2 DEF HandleClose, lifeVars
<1>3. ASSUME NEW c \in Conns, NEW l \in Loops,
             \/ \E addOk \in BOOLEAN : ConnectEstablished(l, c, addOk)
             \/ ConnectDestroyed(l, c)
             \/ ForceCloseInLoop(l, c)
             \/ QueuedShutdown(l, c)
             \/ \E n \in 0 .. Units : QueuedSend(l, c, n)
      PROVE  Moves(c)
  <2>1. CASE \E addOk \in BOOLEAN : ConnectEstablished(l, c, addOk)
    BY <2>1 DEF ConnectEstablished
  <2>2. CASE ConnectDestroyed(l, c)
    BY <2>2 DEF ConnectDestroyed, lifeVars
  <2>3. CASE ForceCloseInLoop(l, c)
    BY <1>2, <2>3 DEF ForceCloseInLoop, lifeVars
  <2>4. CASE QueuedShutdown(l, c) \/ \E n \in 0 .. Units : QueuedSend(l, c, n)
    BY <2>4 DEF QueuedShutdown, QueuedSend, lifeVars
  <2> QED
    BY <1>3, <2>1, <2>2, <2>3, <2>4
<1>4. ASSUME NEW c \in Conns,
             \/ HandleError(c)
             \/ HandleRead(c)
             \/ \E n \in 0 .. Units * MaxCalls : HandleWrite(c, n)
      PROVE  Moves(c)
  BY <1>2, <1>4 DEF HandleError, HandleRead, HandleWrite, lifeVars
<1>5. ASSUME NEW c \in Conns,
             \/ \E canWrite \in BOOLEAN : Poll(c, canWrite)
             \/ HereStep(c)
             \/ PeerSends(c)
             \/ PeerEnds(c)
             \/ OwnerCreates(c)
             \/ OwnerStops(c)
      PROVE  Moves(c)
  BY <1>5 DEF Poll, HereStep, SendHere, ShutdownHere, ForceCloseHere, PeerSends, PeerEnds,
     OwnerCreates, OwnerStops, lifeVars
<1>6. ASSUME \/ \E l \in Loops : CallbackReturns(l)
             \/ \E u \in Users : UserStep(u)
             \/ OwnerRemoves
             \/ UNCHANGED vars
      PROVE  state' = state
  <2>1. CASE \E l \in Loops : CallbackReturns(l)
    BY <2>1 DEF CallbackReturns, lifeVars
  <2>2. CASE \E u \in Users : UserStep(u)
    BY <2>2, UserStepIs DEF UserTests, lifeVars
  <2>3. CASE OwnerRemoves \/ UNCHANGED vars
    BY <2>3 DEF OwnerRemoves, vars, lifeVars
  <2> QED
    BY <1>6, <2>1, <2>2, <2>3
<1>7. state' = state \/ \E c \in Conns : Moves(c)
  <2> HIDE DEF Moves
  <2> QED
    BY <1>3, <1>4, <1>5, <1>6 DEF Next, AllGone, LoopStep, RunTask
<1> QED
  BY <1>1, <1>7 DEF LifeTypes, Known

\* What suffices for Senders to go on: known connections stay known, and new
\* sends are theirs.
LEMMA SendersGoOn ==
  ASSUME Typed, Senders, \A d \in Conns : Known(d) => Known(d)',
         call' = [u \in Users |-> call'[u]],
         \A u \in Users : call'[u] = call[u] \/ Sender(u)',
         \A l \in Loops : \A t \in Range(queue'[l]) :
           t \in Range(queue[l]) \/ (t.kind = "send" => Known(t.conn)')
  PROVE  Senders'
<1>1. ASSUME NEW l \in Loops, NEW t \in Range(queue[l])
      PROVE  t.conn \in Conns
  <2>1. queue[l] \in Seq(Tasks)
    BY DEF Typed, QueueTypes
  <2>2. t \in Tasks
    BY <2>1, LenProperties DEF Range
  <2> QED
    BY <2>2 DEF Tasks, Send
<1>2. ASSUME NEW u \in Users
      PROVE  Sender(u)'
  <2>1. CASE call'[u] = call[u]
    BY <2>1 DEF Senders, Sender
  <2> QED
    BY <2>1
<1> QED
  BY <1>1, <1>2 DEF Senders

\* What other threads are about to send goes to connections they know.
LEMMA SendersStay ==
  ASSUME Inv, Senders, OthersSend, [Next]_vars
  PROVE  Senders'
<1>1. Typed /\ LifeTypes /\ RestTypes
  BY TypedParts DEF Inv
<1>2. \A d \in Conns : Known(d) => Known(d)'
  BY KnownStays
<1>3. ASSUME call' = call,
             \A l \in Loops : \A t \in Range(queue'[l]) :
               t \in Range(queue[l]) \/ t.kind # "send"
      PROVE  Senders'
  <2>1. call' = [u \in Users |-> call'[u]]
    BY <1>3 DEF Senders
  <2> QED
    BY <1>1, <1>2, <1>3, <2>1, SendersGoOn
<1>4. ASSUME NEW l \in Loops, NEW t, Take(l, t), call' = call
      PROVE  Senders'
  <2>1. queue[l] \in Seq(Tasks) /\ queue[l] # <<>> /\ queue' = [queue EXCEPT ![l] = Tail(@)]
    BY <1>1, <1>4 DEF Typed, QueueTypes, Take
  <2>2. \A m \in Loops : Range(queue'[m]) \subseteq Range(queue[m])
    BY <1>1, <2>1, RangeTail DEF Typed, QueueTypes
  <2> QED
    BY <1>3, <1>4, <2>2
<1>5. ASSUME NEW l \in Loops, NEW t \in TasksAt(l), Enqueue(l, t)
      PROVE  \A m \in Loops : Range(queue'[m]) \subseteq Range(queue[m]) \cup {t}
  <2>1. queue[l] \in Seq(TasksAt(l)) /\ queue' = [queue EXCEPT ![l] = Append(@, t)]
    BY <1>1, <1>5 DEF Typed, QueueTypes, Enqueue
  <2>2. Range(Append(queue[l], t)) = Range(queue[l]) \cup {t}
    BY <2>1, RangeAppend
  <2> QED
    BY <1>1, <2>1, <2>2 DEF Typed, QueueTypes
<1>6. ASSUME NEW c \in Conns, NEW kind \in StrongKinds, Enqueue(loopOf[c], Task(kind, c)),
             call' = call
      PROVE  Senders'
  <2>1. loopOf[c] \in Loops /\ Task(kind, c) \in TasksAt(loopOf[c])
    BY <1>1 DEF RestTypes, TasksAt, Tasks, Task
  <2>2. Task(kind, c).kind # "send"
    BY DEF Task, StrongKinds
  <2> QED
    BY <1>5, <1>6, <1>3, <2>1, <2>2
<1>7. ASSUME queue' = queue, call' = call
      PROVE  Senders'
  BY <1>7, <1>3
<1>8. ASSUME NEW l \in Loops, LoopStep(l)
      PROVE  Senders'
  <2>1. CASE RunTask(l)
    BY <1>4, <2>1 DEF RunTask, ConnectEstablished, ConnectDestroyed, ForceCloseInLoop,
       QueuedShutdown, QueuedSend, callVars
  <2>2. CASE ~RunTask(l)
    BY <1>7, <1>8, <2>2 DEF LoopStep, CallbackReturns, HandleError, HandleRead,
       HandleWrite, callVars, loopVars
  <2> QED
    BY <2>1, <2>2
<1>9. ASSUME NEW c \in Conns,
             \/ \E canWrite \in BOOLEAN : Poll(c, canWrite)
             \/ PeerSends(c) \/ PeerEnds(c)
             \/ \E n \in 0 .. Units : SendHere(c, n)
             \/ ShutdownHere(c)
      PROVE  Senders'
  BY <1>7, <1>9 DEF Poll, PeerSends, PeerEnds, SendHere, ShutdownHere, callVars, loopVars
<1>10. ASSUME NEW c \in Conns, ForceCloseHere(c) \/ OwnerCreates(c) \/ OwnerStops(c)
      PROVE  Senders'
  BY <1>6, <1>10 DEF ForceCloseHere, OwnerCreates, OwnerStops, callVars, StrongKinds
<1>11. CASE OwnerRemoves
  <2>1. PICK c \in Conns : c = Head(closing)
    BY <1>1, <1>11, HeadTailProperties DEF OwnerRemoves, LifeTypes
  <2>2. /\ IF c \in owned THEN Enqueue(loopOf[c], Task("destroyed", c)) ELSE UNCHANGED queue
        /\ call' = call
    BY <1>11, <2>1 DEF OwnerRemoves, callVars
  <2> QED
    BY <1>6, <1>7, <2>2 DEF StrongKinds
<1>12. CASE UNCHANGED vars
  BY <1>7, <1>12 DEF vars, loopVars, callVars
<1>13. ASSUME NEW u \in Users, UserStep(u)
      PROVE  Senders'
  <2>1. CASE \E c \in Conns : UserTests(u, c, "send")
    <3>1. PICK c \in Conns : UserTests(u, c, "send")
      BY <2>1
    <3>2. /\ call' = [call EXCEPT ![u] = [op |-> "send", conn |-> c,
                         msg |-> Message(u, calls[c] + 1), stored |-> TRUE]]
          /\ queue' = queue
      BY <3>1 DEF UserTests, loopVars
    <3>3. Known(c)
      BY <3>1 DEF UserTests, Known
    <3>4. calls[c] + 1 \in 1 .. MaxCalls
      <4>1. calls[c] < MaxCalls
        BY <3>1 DEF UserTests, CountCall
      <4> QED
        BY <1>1, <4>1, ConnAssumption DEF RestTypes
    <3>5. /\ call' = [v \in Users |-> call'[v]]
          /\ \A v \in Users \ {u} : call'[v] = call[v]
          /\ call'[u] = [op |-> "send", conn |-> c, msg |-> Message(u, calls[c] + 1),
                         stored |-> TRUE]
      BY <3>2 DEF Senders
    <3>6. Known(c)'
      BY <1>2, <3>3
    <3>7. Sender(u)'
      BY <3>4, <3>5, <3>6 DEF Sender
    <3> QED
      BY <1>1, <1>2, <3>2, <3>5, <3>7, SendersGoOn
  <2>2. ASSUME NEW c \in Conns, NEW k \in 1 .. MaxCalls, Known(c),
               Enqueue(loopOf[c], Send(c, u, k)), call' = [call EXCEPT ![u] = NoCall]
        PROVE  Senders'
    <3>1. /\ call' = [v \in Users |-> call'[v]]
          /\ \A v \in Users \ {u} : call'[v] = call[v]
          /\ call'[u] = NoCall
      BY <2>2 DEF Senders
    <3>2. Sender(u)'
      BY <3>1 DEF Sender, NoCall
    <3>3. \A l \in Loops : Range(queue'[l]) \subseteq Range(queue[l]) \cup {Send(c, u, k)}
      BY <1>1, <1>5, <2>2, SendTask
    <3>4. Send(c, u, k).conn = c /\ Known(c)'
      BY <1>2, <2>2 DEF Send
    <3> QED
      BY <1>1, <1>2, <3>1, <3>2, <3>3, <3>4, SendersGoOn
  <2> QED
    BY <1>13, <2>1, <2>2, UserStepIs
<1> QED
  BY <1>8, <1>9, <1>10, <1>11, <1>12, <1>13 DEF Next, AllGone, HereStep

\* Nobody sends where the program starts.
LEMMA InitSenders ==
  ASSUME Init
  PROVE  Senders
BY DEF Init, Senders, Sender, NoCall, Range

\* The invariant, from which the theorems below follow state by state.
LEMMA InvHolds ==
  ASSUME OthersSend
  PROVE  SafetySpec => [](Inv /\ Senders)
<1>1. Init => Inv /\ Senders
  BY InitHolds, InitSenders
<1>2. Inv /\ Senders /\ [Next]_vars => Inv' /\ Senders'
  BY NextKeeps, SendersStay
<1> QED
  BY <1>1, <1>2, PTL DEF SafetySpec

\* Every variable of TcpConnection keeps its type.
THEOREM TypeCorrect ==
  ASSUME OthersSend
  PROVE  SafetySpec => []TypeOK
<1>1. Inv => TypeOK
  BY DEF Inv, Typed
<1> QED
  BY <1>1, InvHolds, PTL

\* Waiting output of an open connection is always watched for, and nothing
\* else is: sendInLoop and handleWrite keep EPOLLOUT in step with
\* outputBuffer_, whatever the peer, the poller and the callbacks do.
THEOREM OutputIsArmed ==
  ASSUME OthersSend
  PROVE  SafetySpec => []OutputArmed
<1>1. Inv => OutputArmed
  BY DEF Inv, Life, Open, OutputArmed
<1> QED
  BY <1>1, InvHolds, PTL

\* shutdownWrite is called behind the last byte: shutdownInLoop waits for
\* isWriting() to end, handleWrite completes it, and nothing is sent after.
THEOREM FinIsLast ==
  ASSUME OthersSend
  PROVE  SafetySpec => []FinAfterFlush
<1>1. Inv => FinAfterFlush
  BY DEF Inv, Life, FinAfterFlush
<1> QED
  BY <1>1, InvHolds, PTL

\* messageCallback_ after the connection went down means that the peer reset
\* the connection: handleEventWithGuard had the error and the bytes at once.
THEOREM LateMeansReset ==
  ASSUME OthersSend
  PROVE  SafetySpec => []LateOnlyAfterReset
<1>1. Inv => LateOnlyAfterReset
  BY DEF Inv, Life, LateOnlyAfterReset
<1> QED
  BY <1>1, InvHolds, PTL

-----------------------------------------------------------------------------
(* No byte is lost, whoever calls: this needs no assumption about Users.   *)

StreamInv ==
  /\ DataTypes
  /\ calls \in [Conns -> 0 .. MaxCalls]
  /\ StreamIntact

\* sendInLoop loses no byte, whatever the kernel takes.
LEMMA SendKeepsStream ==
  ASSUME DataTypes, StreamIntact, NEW c \in Conns, NEW msg \in Seq(Data),
         NEW n \in 0 .. Len(msg), SendInLoop(c, msg, n)
  PROVE  DataTypes' /\ StreamIntact'
<1> DEFINE now == SubSeq(msg, 1, n)
           rest == SubSeq(msg, n + 1, Len(msg))
           w == wire[c]
           o == out[c]
<1>1. now \in Seq(Data) /\ rest \in Seq(Data) /\ now \o rest = msg /\ (n = 0 => now = <<>>)
  BY CutInTwo
<1>2. CASE UNCHANGED dataVars
  BY <1>2 DEF dataVars, DataTypes, StreamIntact
<1>3. CASE ~UNCHANGED dataVars
  <2>1. /\ Direct(c) \/ n = 0
        /\ wire' = [wire EXCEPT ![c] = @ \o now]
        /\ out' = [out EXCEPT ![c] = @ \o rest]
        /\ accepted' = [accepted EXCEPT ![c] = @ \o msg]
    BY <1>3 DEF SendInLoop
  <2> HIDE DEF now, rest
  <2>2. w \in Seq(Data) /\ o \in Seq(Data) /\ accepted[c] \in Seq(Data) /\ accepted[c] = w \o o
    BY DEF DataTypes, StreamIntact
  <2>3. o = <<>> \/ now = <<>>
    BY <1>1, <2>1 DEF Direct
  <2>4. /\ w \o now \in Seq(Data) /\ o \o rest \in Seq(Data)
        /\ accepted[c] \o msg \in Seq(Data)
    BY <1>1, <2>2, ConcatProperties
  <2>5. DataTypes'
    BY <2>1, <2>4 DEF DataTypes
  <2>6. wire'[c] = w \o now /\ out'[c] = o \o rest /\ accepted'[c] = (w \o o) \o (now \o rest)
    BY <1>1, <2>1, <2>2 DEF DataTypes
  <2>7. (w \o o) \o (now \o rest) = (w \o now) \o (o \o rest)
    <3>1. w \in Seq(Data) /\ now \in Seq(Data) /\ rest \in Seq(Data)
      BY <1>1, <2>2
    <3>2. w \in Seq(Data) /\ o \in Seq(Data) /\ rest \in Seq(Data)
      BY <1>1, <2>2
    <3>3. o = <<>> \/ now = <<>>
      BY <2>3
    <3> HIDE DEF w, o
    <3>4. (w \o now) \o rest = w \o (now \o rest)
      BY <3>1, ConcatAssociative
    <3>5. (w \o o) \o rest = w \o (o \o rest)
      BY <3>2, ConcatAssociative
    <3>6. /\ w \o <<>> = w /\ <<>> \o rest = rest
          /\ now \o rest \in Seq(Data) /\ o \o rest \in Seq(Data)
      BY <3>1, <3>2, ConcatEmptySeq, ConcatProperties
    <3>7. CASE o = <<>>
      BY <3>4, <3>6, <3>7
    <3>8. CASE now = <<>>
      BY <3>5, <3>6, <3>8
    <3> QED
      BY <3>3, <3>7, <3>8
  <2>8. ASSUME NEW d \in Conns
        PROVE  accepted'[d] = wire'[d] \o out'[d]
    <3>1. CASE d = c
      BY <2>6, <2>7, <3>1
    <3>2. CASE d # c
      BY <2>1, <3>2 DEF DataTypes, StreamIntact
    <3> QED
      BY <3>1, <3>2
  <2> QED
    BY <2>5, <2>8 DEF StreamIntact
<1> QED
  BY <1>2, <1>3

\* handleWrite loses no byte.
LEMMA WriteKeepsStream ==
  ASSUME StreamInv, NEW c \in Conns, NEW n, HandleWrite(c, n)
  PROVE  StreamInv'
<1>1. n \in 0 .. Len(out[c]) /\ calls' = calls
  BY DEF HandleWrite, callVars
<1>2. CASE UNCHANGED dataVars
  BY <1>1, <1>2 DEF StreamInv, DataTypes, StreamIntact, dataVars
<1>3. CASE ~UNCHANGED dataVars
  <2> DEFINE a == SubSeq(out[c], 1, n)
             b == SubSeq(out[c], n + 1, Len(out[c]))
  <2>1. /\ wire' = [wire EXCEPT ![c] = @ \o a]
        /\ out' = [out EXCEPT ![c] = b]
        /\ accepted' = accepted
    BY <1>3 DEF HandleWrite
  <2>2. wire[c] \in Seq(Data) /\ out[c] \in Seq(Data)
    BY DEF StreamInv, DataTypes
  <2>3. ASSUME NEW w \in Seq(Data), NEW o \in Seq(Data), NEW k \in 0 .. Len(o)
        PROVE  /\ w \o SubSeq(o, 1, k) \in Seq(Data)
               /\ SubSeq(o, k + 1, Len(o)) \in Seq(Data)
               /\ (w \o SubSeq(o, 1, k)) \o SubSeq(o, k + 1, Len(o)) = w \o o
               /\ k = Len(o) <=> SubSeq(o, k + 1, Len(o)) = <<>>
    BY WriteMoves
  <2>4. /\ wire[c] \o a \in Seq(Data) /\ b \in Seq(Data)
        /\ (wire[c] \o a) \o b = wire[c] \o out[c]
    BY <1>1, <2>2, <2>3, Zenon
  <2> HIDE DEF a, b
  <2>5. DataTypes'
    BY <2>1, <2>4 DEF StreamInv, DataTypes
  <2>6. wire'[c] = wire[c] \o a /\ out'[c] = b
    BY <2>1 DEF StreamInv, DataTypes
  <2>7. ASSUME NEW d \in Conns
        PROVE  accepted'[d] = wire'[d] \o out'[d]
    <3>1. CASE d = c
      BY <2>1, <2>4, <2>6, <3>1 DEF StreamInv, StreamIntact
    <3>2. CASE d # c
      BY <2>1, <3>2 DEF StreamInv, DataTypes, StreamIntact
    <3> QED
      BY <3>1, <3>2
  <2> QED
    BY <1>1, <2>5, <2>7 DEF StreamInv, StreamIntact
<1> QED
  BY <1>2, <1>3

\* A send loses no byte, whoever called it.
LEMMA SendsKeepStream ==
  ASSUME StreamInv, NEW c \in Conns, NEW n \in 0 .. Units,
         SendHere(c, n) \/ \E l \in Loops : QueuedSend(l, c, n)
  PROVE  StreamInv'
<1>1. CASE SendHere(c, n)
  <2> DEFINE msg == Message("loop", calls[c] + 1)
  <2>1. /\ calls[c] < MaxCalls /\ calls' = [calls EXCEPT ![c] = @ + 1]
        /\ SendInLoop(c, msg, n)
    BY <1>1 DEF SendHere, CountCall
  <2>2. calls[c] + 1 \in 1 .. MaxCalls /\ calls' \in [Conns -> 0 .. MaxCalls]
    BY <2>1, ConnAssumption DEF StreamInv
  <2>3. msg \in Seq(Data) /\ Len(msg) = Units
    BY <2>2, MessageType
  <2> HIDE DEF msg
  <2> QED
    BY <2>1, <2>2, <2>3, SendKeepsStream DEF StreamInv
<1>2. CASE \E l \in Loops : QueuedSend(l, c, n)
  <2>1. PICK l \in Loops, u \in Users, k \in 1 .. MaxCalls :
          /\ IF Alive(c)
               THEN SendInLoop(c, Message(u, k), n)
               ELSE n = 0 /\ UNCHANGED <<dataVars, chanVars>>
          /\ UNCHANGED callVars
    BY <1>2 DEF QueuedSend
  <2>2. Message(u, k) \in Seq(Data) /\ Len(Message(u, k)) = Units
    BY MessageType
  <2>3. CASE Alive(c)
    BY <2>1, <2>2, <2>3, SendKeepsStream DEF StreamInv, callVars
  <2>4. CASE ~Alive(c)
    BY <2>1, <2>4 DEF StreamInv, DataTypes, StreamIntact, dataVars, callVars
  <2> QED
    BY <2>3, <2>4
<1> QED
  BY <1>1, <1>2

\* A step that moves no data, and may count a call.
LEMMA OthersKeepStream ==
  ASSUME StreamInv, UNCHANGED dataVars,
         UNCHANGED calls \/ \E c \in Conns : CountCall(c)
  PROVE  StreamInv'
<1>1. calls' \in [Conns -> 0 .. MaxCalls]
  BY ConnAssumption DEF StreamInv, CountCall
<1> QED
  BY <1>1 DEF StreamInv, DataTypes, StreamIntact, dataVars

\* No step loses a byte.
LEMMA NextKeepsStream ==
  ASSUME StreamInv, [Next]_vars
  PROVE  StreamInv'
<1>1. ASSUME NEW l \in Loops, RunTask(l)
      PROVE  StreamInv'
  <2>1. PICK c \in Conns :
          \/ \E addOk \in BOOLEAN : ConnectEstablished(l, c, addOk)
          \/ ConnectDestroyed(l, c)
          \/ ForceCloseInLoop(l, c)
          \/ QueuedShutdown(l, c)
          \/ \E n \in 0 .. Units : QueuedSend(l, c, n)
    BY <1>1 DEF RunTask
  <2>2. CASE \E n \in 0 .. Units : QueuedSend(l, c, n)
    BY <2>2, SendsKeepStream
  <2>3. CASE ~\E n \in 0 .. Units : QueuedSend(l, c, n)
    <3>1. UNCHANGED dataVars /\ UNCHANGED calls
      BY <2>1, <2>3 DEF ConnectEstablished, ConnectDestroyed, ForceCloseInLoop,
         QueuedShutdown, callVars
    <3> QED
      BY <3>1, OthersKeepStream
  <2> QED
    BY <2>2, <2>3
<1>2. ASSUME NEW c \in Conns, HandleError(c) \/ HandleRead(c)
      PROVE  StreamInv'
  <2>1. UNCHANGED dataVars /\ UNCHANGED calls
    BY <1>2 DEF HandleError, HandleRead, callVars
  <2> QED
    BY <2>1, OthersKeepStream
<1>3. ASSUME NEW l \in Loops, LoopStep(l)
      PROVE  StreamInv'
  <2>1. CASE RunTask(l)
    BY <1>1, <2>1
  <2>2. CASE CallbackReturns(l)
    <3>1. UNCHANGED dataVars /\ UNCHANGED calls
      BY <2>2 DEF CallbackReturns, callVars
    <3> QED
      BY <3>1, OthersKeepStream
  <2>3. ASSUME NEW c \in Conns, NEW n \in 0 .. Units * MaxCalls, HandleWrite(c, n)
        PROVE  StreamInv'
    BY <2>3, WriteKeepsStream
  <2> QED
    BY <1>2, <1>3, <2>1, <2>2, <2>3 DEF LoopStep
<1>4. ASSUME NEW c \in Conns, HereStep(c)
      PROVE  StreamInv'
  <2>1. CASE \E n \in 0 .. Units : SendHere(c, n)
    BY <2>1, SendsKeepStream
  <2>2. CASE ShutdownHere(c) \/ ForceCloseHere(c)
    <3>1. UNCHANGED dataVars /\ CountCall(c)
      BY <2>2 DEF ShutdownHere, ForceCloseHere
    <3> QED
      BY <3>1, OthersKeepStream
  <2> QED
    BY <1>4, <2>1, <2>2 DEF HereStep
<1>5. ASSUME NEW c \in Conns,
             \/ \E canWrite \in BOOLEAN : Poll(c, canWrite)
             \/ PeerSends(c) \/ PeerEnds(c) \/ OwnerCreates(c) \/ OwnerStops(c)
      PROVE  StreamInv'
  <2>1. UNCHANGED dataVars /\ UNCHANGED calls
    BY <1>5 DEF Poll, PeerSends, PeerEnds, OwnerCreates, OwnerStops, callVars
  <2> QED
    BY <2>1, OthersKeepStream
<1>6. ASSUME NEW u \in Users, UserStep(u)
      PROVE  StreamInv'
  <2>1. /\ UNCHANGED dataVars
        /\ UNCHANGED calls \/ \E c \in Conns : CountCall(c)
    BY <1>6 DEF UserStep, UserTests, UserStores, UserQueues
  <2> QED
    BY <2>1, OthersKeepStream
<1>7. CASE OwnerRemoves \/ UNCHANGED vars
  <2>1. UNCHANGED dataVars /\ UNCHANGED calls
    BY <1>7 DEF OwnerRemoves, vars, callVars
  <2> QED
    BY <2>1, OthersKeepStream
<1> QED
  BY <1>3, <1>4, <1>5, <1>6, <1>7 DEF Next, AllGone

\* What sendInLoop accepted is what the kernel took followed by what waits in
\* outputBuffer_, however writes are split, whichever threads call send(),
\* shutdown() and forceClose(), and whatever fails: no byte is lost, doubled or
\* overtaken.
THEOREM StreamIsIntact == SafetySpec => []StreamIntact
<1>1. Init => StreamInv
  <2>1. <<>> \in Seq(Data) /\ <<>> \o <<>> = <<>>
    BY ConcatEmptySeq
  <2> QED
    BY <2>1, ConnAssumption DEF Init, StreamInv, DataTypes, StreamIntact
<1>2. StreamInv /\ [Next]_vars => StreamInv'
  BY NextKeepsStream
<1>3. StreamInv => StreamIntact
  BY DEF StreamInv
<1> QED
  BY <1>1, <1>2, <1>3, PTL DEF SafetySpec

-----------------------------------------------------------------------------
(* Who holds a connection, when the owner never stops early.               *)

\* connectDestroyed is queued on the connection's loop.
Leaving(c) == Task("destroyed", c) \in Range(queue[loopOf[c]])

\* An open connection is in the owner's map; a closed one is in it until the
\* owner has served closeCallback_ and queued connectDestroyed, which takes
\* the channel out of the poller.
Kept(c) ==
  /\ state[c] \in {"Connecting", "Connected", "Disconnecting"} => c \in owned
  /\ c \in Range(closing) => state[c] = "Disconnected"
  /\ state[c] = "Disconnected" /\ index[c] # "new" =>
       (c \in owned /\ c \in Range(closing)) \/ Leaving(c)

KeptInv == \A c \in Conns : Kept(c)

\* A connectDestroyed that is queued is on its way.
LEMMA QueuedLeaving ==
  ASSUME Typed, NEW l \in Loops, NEW t \in TasksAt(l), Enqueue(l, t), loopOf' = loopOf
  PROVE  /\ \A d \in Conns : Leaving(d) => Leaving(d)'
         /\ \A d \in Conns : t = Task("destroyed", d) => Leaving(d)'
<1>1. queue[l] \in Seq(TasksAt(l)) /\ queue' = [queue EXCEPT ![l] = Append(@, t)]
  BY DEF Typed, QueueTypes, Enqueue
<1>2. Range(Append(queue[l], t)) = Range(queue[l]) \cup {t}
  BY <1>1, RangeAppend
<1>3. \A m \in Loops : queue'[m] = IF m = l THEN Append(queue[l], t) ELSE queue[m]
  BY <1>1 DEF Typed, QueueTypes
<1>4. ASSUME NEW d \in Conns, Leaving(d) \/ t = Task("destroyed", d)
      PROVE  Leaving(d)'
  <2>1. loopOf[d] \in Loops /\ (t = Task("destroyed", d) => loopOf[d] = l)
    BY DEF Typed, TypeOK, TasksAt, Task
  <2> QED
    BY <1>2, <1>3, <1>4, <2>1 DEF Leaving
<1> QED
  BY <1>4

\* It stays on its way until it is taken.
LEMMA TakenLeaving ==
  ASSUME Typed, NEW l \in Loops, NEW t, Take(l, t), loopOf' = loopOf
  PROVE  \A d \in Conns : Leaving(d) /\ t # Task("destroyed", d) => Leaving(d)'
<1>1. /\ queue[l] \in Seq(TasksAt(l)) /\ queue[l] # <<>> /\ t = Head(queue[l])
      /\ queue' = [queue EXCEPT ![l] = Tail(@)]
  BY DEF Typed, QueueTypes, Take
<1>2. Range(queue[l]) = {t} \cup Range(Tail(queue[l]))
  BY <1>1, RangeTail
<1>3. \A m \in Loops : queue'[m] = IF m = l THEN Tail(queue[l]) ELSE queue[m]
  BY <1>1 DEF Typed, QueueTypes
<1>4. \A d \in Conns : loopOf[d] \in Loops
  BY DEF Typed, TypeOK
<1> QED
  BY <1>2, <1>3, <1>4 DEF Leaving

\* A connection stays kept while its state and its owner do.
LEMMA KeptStays ==
  ASSUME NEW d \in Conns, Kept(d), state'[d] = state[d],
         state[d] = "Disconnected" => index'[d] \in {index[d], "new"},
         d \in owned' <=> d \in owned, d \in Range(closing') <=> d \in Range(closing),
         Leaving(d) => Leaving(d)'
  PROVE  Kept(d)'
BY DEF Kept

\* A step that leaves states, owners and queues alone.
LEMMA QuietKeeps ==
  ASSUME KeptInv, UNCHANGED <<state, closing, owned, queue, loopOf>>,
         \A d \in Conns : state[d] = "Disconnected" => index'[d] \in {index[d], "new"}
  PROVE  KeptInv'
<1>1. ASSUME NEW d \in Conns
      PROVE  Kept(d)'
  <2>1. Leaving(d) => Leaving(d)'
    BY DEF Leaving
  <2> QED
    BY <2>1, KeptStays DEF KeptInv
<1> QED
  BY <1>1 DEF KeptInv

\* handleClose leaves the connection held: the owner still has to remove it.
LEMMA CloseKept ==
  ASSUME Inv, KeptInv, NEW c \in Conns, state[c] \notin {"none", "Connecting"},
         HandleClose(c), owned' = owned, \A d \in Conns : Leaving(d) => Leaving(d)'
  PROVE  KeptInv'
<1>1. ChanTypes /\ LifeTypes /\ Typed
  BY DEF Inv, Typed, TypeOK, ChanTypes, LifeTypes
<1>2. CASE WasClosed(c)
  <2>1. UNCHANGED <<state, closing, index>>
    BY <1>2 DEF HandleClose, lifeVars, chanVars
  <2> QED
    BY <2>1, KeptStays DEF KeptInv
<1>3. CASE ~WasClosed(c)
  <2>1. /\ state' = [state EXCEPT ![c] = "Disconnected"]
        /\ UpdateChannel(c, {}, TRUE)
        /\ closing' = Append(closing, c)
    BY <1>3 DEF HandleClose, DisableAll, CloseCallback
  <2>2. Range(closing') = Range(closing) \cup {c}
    BY <1>1, <2>1, RangeAppend DEF LifeTypes
  <2>3. \A d \in Conns \ {c} : SameChannel(d) /\ state'[d] = state[d]
    BY <1>1, <2>1, ChannelUpdated DEF LifeTypes
  <2>4. ASSUME NEW d \in Conns \ {c}
        PROVE  Kept(d)'
    BY <2>2, <2>3, KeptStays DEF KeptInv, SameChannel
  <2>5. Kept(c)'
    <3>1. state'[c] = "Disconnected" /\ c \in owned
      BY <1>1, <1>3, <2>1 DEF LifeTypes, WasClosed, KeptInv, Kept
    <3> QED
      BY <2>2, <3>1 DEF Kept
  <2> QED
    BY <2>4, <2>5 DEF KeptInv
<1> QED
  BY <1>2, <1>3

\* connectEstablished keeps what is said of the holders.
LEMMA EstablishedKept ==
  ASSUME Inv, KeptInv, NEW l \in Loops, NEW c \in Conns, NEW addOk \in BOOLEAN,
         ConnectEstablished(l, c, addOk)
  PROVE  KeptInv'
<1>1. ChanTypes /\ LifeTypes /\ Typed
  BY DEF Inv, Typed, TypeOK, ChanTypes, LifeTypes
<1>2. /\ Take(l, Task("established", c)) /\ loopOf' = loopOf /\ owned' = owned
      /\ state[c] = "Connecting"
  BY DEF ConnectEstablished
<1>3. \A d \in Conns : Leaving(d) => Leaving(d)'
  BY <1>1, <1>2, TakenLeaving DEF Task
<1>4. c \in owned /\ c \notin Range(closing)
  BY <1>2 DEF KeptInv, Kept
<1>5. CASE addOk
  <2>1. /\ state' = [state EXCEPT ![c] = "Connected"]
        /\ UpdateChannel(c, {"read"}, TRUE) /\ closing' = closing
    BY <1>5 DEF ConnectEstablished
  <2>2. \A d \in Conns \ {c} : SameChannel(d) /\ state'[d] = state[d]
    BY <1>1, <2>1, ChannelUpdated DEF LifeTypes
  <2>3. ASSUME NEW d \in Conns \ {c}
        PROVE  Kept(d)'
    BY <1>2, <1>3, <2>1, <2>2, KeptStays DEF KeptInv, SameChannel
  <2>4. Kept(c)'
    <3>1. state'[c] = "Connected"
      BY <1>1, <2>1 DEF LifeTypes
    <3> QED
      BY <1>2, <1>4, <2>1, <3>1 DEF Kept
  <2> QED
    BY <2>3, <2>4 DEF KeptInv
<1>6. CASE ~addOk
  <2>1. /\ state' = [state EXCEPT ![c] = "Disconnected"]
        /\ UpdateChannel(c, {}, FALSE) /\ closing' = Append(closing, c)
    BY <1>6 DEF ConnectEstablished
  <2>2. Range(closing') = Range(closing) \cup {c}
    BY <1>1, <2>1, RangeAppend DEF LifeTypes
  <2>3. \A d \in Conns \ {c} : SameChannel(d) /\ state'[d] = state[d]
    BY <1>1, <2>1, ChannelUpdated DEF LifeTypes
  <2>4. ASSUME NEW d \in Conns \ {c}
        PROVE  Kept(d)'
    BY <1>2, <1>3, <2>2, <2>3, KeptStays DEF KeptInv, SameChannel
  <2>5. Kept(c)'
    <3>1. state'[c] = "Disconnected"
      BY <1>1, <2>1 DEF LifeTypes
    <3> QED
      BY <1>2, <1>4, <2>2, <3>1 DEF Kept
  <2> QED
    BY <2>4, <2>5 DEF KeptInv
<1> QED
  BY <1>5, <1>6

\* connectDestroyed keeps what is said of the holders.
LEMMA DestroyedKept ==
  ASSUME Inv, KeptInv, NEW l \in Loops, NEW c \in Conns, ConnectDestroyed(l, c)
  PROVE  KeptInv'
<1>1. ChanTypes /\ LifeTypes /\ Typed /\ Life(c)
  BY DEF Inv, Typed, TypeOK, ChanTypes, LifeTypes
<1>2. /\ Take(l, Task("destroyed", c)) /\ loopOf' = loopOf /\ owned' = owned
      /\ closing' = closing
  BY DEF ConnectDestroyed, lifeVars
<1>3. \A d \in Conns \ {c} : Leaving(d) => Leaving(d)'
  BY <1>1, <1>2, TakenLeaving DEF Task
<1>4. /\ state' = [state EXCEPT ![c] = IF @ = "Connected" THEN "Disconnected" ELSE @]
      /\ index' = [index EXCEPT ![c] = IF state[c] = "Connected" \/ events[c] = {}
                                         THEN "new" ELSE @]
  <2>1. CASE state[c] = "Connected"
    BY <1>1, <2>1 DEF ConnectDestroyed, ChanTypes, LifeTypes
  <2>2. CASE state[c] # "Connected"
    BY <1>1, <2>2 DEF ConnectDestroyed, RemoveChannel, ChanTypes, LifeTypes, lifeVars
  <2> QED
    BY <2>1, <2>2
<1>5. \A d \in Conns \ {c} : state'[d] = state[d] /\ index'[d] = index[d]
  BY <1>1, <1>4 DEF LifeTypes, ChanTypes
<1>6. ASSUME NEW d \in Conns \ {c}
      PROVE  Kept(d)'
  BY <1>2, <1>3, <1>5, KeptStays DEF KeptInv
<1>7. Kept(c)'
  <2>1. CASE state[c] = "Connected"
    <3>1. state'[c] = "Disconnected" /\ index'[c] = "new"
      BY <1>1, <1>4, <2>1 DEF LifeTypes, ChanTypes
    <3> QED
      BY <3>1 DEF Kept
  <2>2. CASE state[c] # "Connected"
    <3>1. state'[c] = state[c] /\ (state[c] = "Disconnected" => index'[c] = "new")
      BY <1>1, <1>4, <2>2 DEF LifeTypes, ChanTypes, Life, Closed
    <3> QED
      BY <1>2, <3>1 DEF KeptInv, Kept
  <2> QED
    BY <2>1, <2>2
<1> QED
  BY <1>6, <1>7 DEF KeptInv

\* forceCloseInLoop keeps what is said of the holders.
LEMMA ForceClosedKept ==
  ASSUME Inv, KeptInv, NEW l \in Loops, NEW c \in Conns, ForceCloseInLoop(l, c)
  PROVE  KeptInv'
<1>1. /\ Take(l, Task("forceClose", c)) /\ loopOf' = loopOf /\ owned' = owned /\ Typed
  BY DEF ForceCloseInLoop, Inv
<1>2. \A d \in Conns : Leaving(d) => Leaving(d)'
  BY <1>1, TakenLeaving DEF Task
<1>3. CASE Closable(c)
  BY <1>1, <1>2, <1>3, CloseKept DEF ForceCloseInLoop, Closable
<1>4. CASE ~Closable(c)
  <2>1. UNCHANGED <<state, closing, index>>
    BY <1>4 DEF ForceCloseInLoop, lifeVars, chanVars
  <2> QED
    BY <1>1, <1>2, <2>1, KeptStays DEF KeptInv
<1> QED
  BY <1>3, <1>4

\* The handlers of events keep what is said of the holders.
LEMMA HandlersKept ==
  ASSUME Inv, KeptInv, NEW c \in Conns,
         HandleError(c) \/ HandleRead(c) \/ \E n \in 0 .. Units * MaxCalls : HandleWrite(c, n)
  PROVE  KeptInv'
<1>1. UNCHANGED loopVars /\ state[c] \notin {"none", "Connecting"}
  BY HandledIsBorn DEF HandleError, HandleRead, HandleWrite
<1>2. UNCHANGED <<owned, queue, loopOf>> /\ \A d \in Conns : Leaving(d) => Leaving(d)'
  BY <1>1 DEF loopVars, Leaving
<1>3. CASE HandleClose(c)
  BY <1>1, <1>2, <1>3, CloseKept
<1>4. CASE UNCHANGED <<lifeVars, chanVars>>
  BY <1>2, <1>4, QuietKeeps DEF lifeVars, chanVars
<1>5. ASSUME NEW n \in 0 .. Units * MaxCalls, HandleWrite(c, n), "write" \in events[c], n # 0
      PROVE  KeptInv'
  <2>1. /\ UNCHANGED lifeVars
        /\ UpdateChannel(c, events[c] \ {"write"}, TRUE) \/ UNCHANGED chanVars
    BY <1>5 DEF HandleWrite
  <2>2. Typed /\ state[c] # "Disconnected"
    BY <1>5 DEF Inv, Life, Closed
  <2>3. \A d \in Conns \ {c} : index'[d] = index[d]
    <3>1. CASE UpdateChannel(c, events[c] \ {"write"}, TRUE)
      <4>1. events[c] \ {"write"} \in SUBSET {"read", "write"}
        BY <2>2 DEF Typed, TypeOK
      <4> QED
        BY <2>2, <3>1, <4>1, ChannelUpdated DEF SameChannel
    <3>2. CASE UNCHANGED chanVars
      BY <3>2 DEF chanVars
    <3> QED
      BY <2>1, <3>1, <3>2
  <2> QED
    BY <1>2, <2>1, <2>2, <2>3, QuietKeeps DEF lifeVars
<1>6. CASE HandleError(c)
  BY <1>3, <1>6 DEF HandleError
<1>7. CASE HandleRead(c)
  BY <1>3, <1>4, <1>7 DEF HandleRead
<1>8. CASE \E n \in 0 .. Units * MaxCalls : HandleWrite(c, n)
  <2>1. PICK n \in 0 .. Units * MaxCalls : HandleWrite(c, n)
    BY <1>8
  <2>2. CASE "write" \notin events[c]
    BY <1>4, <2>1, <2>2 DEF HandleWrite
  <2>3. CASE "write" \in events[c] /\ n = 0
    BY <1>3, <2>1, <2>3 DEF HandleWrite
  <2>4. CASE "write" \in events[c] /\ n # 0
    BY <1>5, <2>1, <2>4
  <2> QED
    BY <2>2, <2>3, <2>4
<1> QED
  BY <1>6, <1>7, <1>8

\* The public methods, called in the loop, keep what is said of the holders.
LEMMA HereKept ==
  ASSUME Inv, KeptInv, NEW c \in Conns, HereStep(c)
  PROVE  KeptInv'
<1>1. ChanTypes /\ LifeTypes /\ RestTypes /\ Typed
  BY TypedParts DEF Inv
<1>2. ASSUME NEW n \in 0 .. Units, SendHere(c, n)
      PROVE  KeptInv'
  <2>1. /\ UNCHANGED <<lifeVars, loopVars>> /\ state[c] = "Connected"
        /\ \/ UpdateChannel(c, events[c] \cup {"write"}, TRUE)
           \/ UNCHANGED chanVars
    BY <1>2 DEF SendHere, SendInLoop
  <2>2. events[c] \cup {"write"} \in SUBSET {"read", "write"}
    BY <1>1 DEF ChanTypes
  <2>3. \A d \in Conns \ {c} : index'[d] = index[d]
    BY <1>1, <2>1, <2>2, ChannelUpdated DEF SameChannel, chanVars
  <2> QED
    BY <2>1, <2>3, QuietKeeps DEF lifeVars, loopVars
<1>3. CASE ShutdownHere(c) \/ ForceCloseHere(c)
  <2>1. /\ state[c] \in {"Connected", "Disconnecting"}
        /\ state' = [state EXCEPT ![c] = "Disconnecting"]
        /\ UNCHANGED <<chanVars, closing, owned, loopOf>>
    BY <1>3 DEF ShutdownHere, ForceCloseHere, Closable, loopVars
  <2>2. \A d \in Conns : Leaving(d) => Leaving(d)'
    <3>1. CASE ShutdownHere(c)
      BY <3>1 DEF ShutdownHere, loopVars, Leaving
    <3>2. CASE ForceCloseHere(c)
      <4>1. loopOf[c] \in Loops /\ Task("forceClose", c) \in TasksAt(loopOf[c])
        BY <1>1 DEF RestTypes, TasksAt, Tasks, Task, StrongKinds
      <4> QED
        BY <1>1, <3>2, <4>1, QueuedLeaving DEF ForceCloseHere
    <3> QED
      BY <1>3, <3>1, <3>2
  <2>3. ASSUME NEW d \in Conns \ {c}
        PROVE  Kept(d)'
    <3>1. state'[d] = state[d] /\ index'[d] = index[d]
      BY <1>1, <2>1 DEF LifeTypes, chanVars
    <3> QED
      BY <2>1, <2>2, <3>1, KeptStays DEF KeptInv
  <2>4. Kept(c)'
    <3>1. state'[c] = "Disconnecting" /\ c \in owned /\ c \notin Range(closing)
      BY <1>1, <2>1 DEF LifeTypes, KeptInv, Kept
    <3> QED
      BY <2>1, <3>1 DEF Kept
  <2> QED
    BY <2>3, <2>4 DEF KeptInv
<1> QED
  BY <1>2, <1>3 DEF HereStep

\* The owner that creates a connection holds it.
LEMMA CreatesKept ==
  ASSUME Inv, KeptInv, NEW c \in Conns, OwnerCreates(c)
  PROVE  KeptInv'
<1>1. ChanTypes /\ LifeTypes /\ RestTypes /\ Typed
  BY TypedParts DEF Inv
<1>2. /\ state[c] = "none"
      /\ state' = [state EXCEPT ![c] = "Connecting"]
      /\ owned' = owned \cup {c}
      /\ Enqueue(loopOf[c], Task("established", c))
      /\ UNCHANGED <<chanVars, closing, loopOf>>
  BY DEF OwnerCreates
<1>3. \A d \in Conns : Leaving(d) => Leaving(d)'
  <2>1. loopOf[c] \in Loops /\ Task("established", c) \in TasksAt(loopOf[c])
    BY <1>1 DEF RestTypes, TasksAt, Tasks, Task, StrongKinds
  <2> QED
    BY <1>1, <1>2, <2>1, QueuedLeaving
<1>4. ASSUME NEW d \in Conns \ {c}
      PROVE  Kept(d)'
  <2>1. state'[d] = state[d] /\ index'[d] = index[d] /\ (d \in owned' <=> d \in owned)
    BY <1>1, <1>2 DEF LifeTypes, chanVars
  <2> QED
    BY <1>2, <1>3, <2>1, KeptStays DEF KeptInv
<1>5. Kept(c)'
  <2>1. state'[c] = "Connecting" /\ c \in owned' /\ c \notin Range(closing)
    BY <1>1, <1>2 DEF LifeTypes, KeptInv, Kept
  <2> QED
    BY <1>2, <2>1 DEF Kept
<1> QED
  BY <1>4, <1>5 DEF KeptInv

\* The owner that removes a connection hands it to its connectDestroyed.
LEMMA RemovesKept ==
  ASSUME Inv, KeptInv, OwnerRemoves
  PROVE  KeptInv'
<1>1. /\ closing \in Seq(Conns) /\ closing # <<>> /\ closing' = Tail(closing)
      /\ UNCHANGED <<chanVars, state, loopOf>>
      /\ Typed
  BY DEF OwnerRemoves, Inv, Typed, TypeOK
<1>2. PICK c \in Conns : c = Head(closing)
  BY <1>1, HeadTailProperties
<1>3. /\ owned' = owned \ {c}
      /\ IF c \in owned THEN Enqueue(loopOf[c], Task("destroyed", c)) ELSE UNCHANGED queue
  BY <1>2 DEF OwnerRemoves
<1>4. Range(closing) = {c} \cup Range(closing')
  BY <1>1, <1>2, RangeTail
<1>5. /\ \A d \in Conns : Leaving(d) => Leaving(d)'
      /\ c \in owned => Leaving(c)'
  <2>1. CASE c \in owned
    <3>1. loopOf[c] \in Loops /\ Task("destroyed", c) \in TasksAt(loopOf[c])
      BY <1>1, DestroyTask
    <3> QED
      BY <1>1, <1>3, <2>1, <3>1, QueuedLeaving
  <2>2. CASE c \notin owned
    BY <1>1, <1>3, <2>2 DEF Leaving
  <2> QED
    BY <2>1, <2>2
<1>6. ASSUME NEW d \in Conns \ {c}
      PROVE  Kept(d)'
  BY <1>1, <1>3, <1>4, <1>5, KeptStays DEF KeptInv, chanVars
<1>7. Kept(c)'
  BY <1>1, <1>3, <1>4, <1>5 DEF KeptInv, Kept, chanVars
<1> QED
  BY <1>6, <1>7 DEF KeptInv

\* A send that another thread queued.
LEMMA QueuedSendKept ==
  ASSUME Senders, Inv, KeptInv, NEW l \in Loops, NEW c \in Conns, NEW n \in 0 .. Units,
         QueuedSend(l, c, n)
  PROVE  KeptInv'
<1>1. ChanTypes /\ LifeTypes /\ RestTypes /\ Typed
  BY TypedParts DEF Inv
<1>2. PICK u \in Users, k \in 1 .. MaxCalls :
        /\ Take(l, Send(c, u, k)) /\ loopOf' = loopOf
        /\ Alive(c) => SendInLoop(c, Message(u, k), n)
        /\ ~Alive(c) => UNCHANGED chanVars
        /\ UNCHANGED <<lifeVars, owned>>
  BY DEF QueuedSend, Send
<1>3. \A d \in Conns : Leaving(d) => Leaving(d)'
  BY <1>1, <1>2, TakenLeaving DEF Send, Task
<1>4. \A d \in Conns : state[d] = "Disconnected" => index'[d] = index[d]
  <2>1. CASE UNCHANGED chanVars
    BY <2>1 DEF chanVars
  <2>2. CASE ~UNCHANGED chanVars
    <3>1. /\ state[c] # "Disconnected"
          /\ UpdateChannel(c, events[c] \cup {"write"}, TRUE)
      BY <1>2, <2>2 DEF SendInLoop
    <3>2. events[c] \cup {"write"} \in SUBSET {"read", "write"}
      BY <1>1 DEF ChanTypes
    <3> QED
      BY <1>1, <3>1, <3>2, ChannelUpdated DEF SameChannel
  <2> QED
    BY <2>1, <2>2
<1> QED
  BY <1>2, <1>3, <1>4, KeptStays DEF KeptInv, lifeVars

\* Another thread tests state_, or queues its send.
LEMMA UserKept ==
  ASSUME Senders, OthersSend, Inv, KeptInv, NEW u \in Users, UserStep(u)
  PROVE  KeptInv'
<1>1. Typed
  BY DEF Inv
<1>2. ASSUME NEW c \in Conns, UserTests(u, c, "send")
      PROVE  KeptInv'
  BY <1>2, QuietKeeps DEF UserTests, lifeVars, loopVars, chanVars
<1>3. ASSUME NEW c \in Conns, NEW k \in 1 .. MaxCalls, Enqueue(loopOf[c], Send(c, u, k)),
             UNCHANGED <<chanVars, lifeVars, loopOf, owned>>
      PROVE  KeptInv'
  <2>1. \A d \in Conns : Leaving(d) => Leaving(d)'
    BY <1>1, <1>3, SendTask, QueuedLeaving
  <2> QED
    BY <1>3, <2>1, KeptStays DEF KeptInv, lifeVars, chanVars
<1> QED
  BY <1>2, <1>3, UserStepIs

\* The steps of the connections and their peers, the owner's aside.
LEMMA StepKept ==
  ASSUME Users = {} \/ Senders, Inv, KeptInv,
         \/ \E l \in Loops : LoopStep(l)
         \/ \E c \in Conns : \/ \E canWrite \in BOOLEAN : Poll(c, canWrite)
                             \/ HereStep(c) \/ PeerSends(c) \/ PeerEnds(c)
         \/ UNCHANGED vars
  PROVE  KeptInv'
<1>1. ASSUME NEW l \in Loops, RunTask(l)
      PROVE  KeptInv'
  <2>1. PICK c \in Conns :
          \/ \E addOk \in BOOLEAN : ConnectEstablished(l, c, addOk)
          \/ ConnectDestroyed(l, c)
          \/ ForceCloseInLoop(l, c)
          \/ QueuedShutdown(l, c)
          \/ \E n \in 0 .. Units : QueuedSend(l, c, n)
    BY <1>1 DEF RunTask
  <2>2. ~QueuedShutdown(l, c)
    <3>1. Take(l, Task("shutdown", c)) /\ loopOf' = loopOf => Task("shutdown", c) \in Tasks
      BY Taken DEF Inv
    <3> QED
      BY <3>1, NoShutdownTask DEF QueuedShutdown
  <2>3. Users # {} \/ ~\E n \in 0 .. Units : QueuedSend(l, c, n)
    BY DEF QueuedSend
  <2> QED
    BY <2>1, <2>2, <2>3, QueuedSendKept, EstablishedKept, DestroyedKept, ForceClosedKept
<1>2. ASSUME NEW l \in Loops, LoopStep(l)
      PROVE  KeptInv'
  <2>1. CASE CallbackReturns(l)
    <3>1. UNCHANGED <<state, closing, owned, queue, loopOf, index>>
      BY <2>1 DEF CallbackReturns, lifeVars, loopVars, chanVars
    <3> QED
      BY <3>1, QuietKeeps
  <2>2. ASSUME NEW c \in Conns,
               \/ HandleError(c)
               \/ HandleRead(c)
               \/ \E n \in 0 .. Units * MaxCalls : HandleWrite(c, n)
        PROVE  KeptInv'
    BY <2>2, HandlersKept
  <2> QED
    BY <1>1, <1>2, <2>1, <2>2 DEF LoopStep
<1>3. ASSUME NEW c \in Conns,
             (\E canWrite \in BOOLEAN : Poll(c, canWrite)) \/ PeerSends(c) \/ PeerEnds(c)
      PROVE  KeptInv'
  <2>1. UNCHANGED <<state, closing, owned, queue, loopOf, index>>
    BY <1>3 DEF Poll, PeerSends, PeerEnds, lifeVars, loopVars, chanVars
  <2> QED
    BY <2>1, QuietKeeps
<1>4. CASE UNCHANGED vars
  <2>1. UNCHANGED <<state, closing, owned, queue, loopOf, index>>
    BY <1>4 DEF vars, lifeVars, loopVars, chanVars
  <2> QED
    BY <2>1, QuietKeeps
<1> QED
  BY <1>2, <1>3, <1>4, HereKept

\* Every step keeps what is said of the holders, if the owner does not stop.
LEMMA NextKept ==
  ASSUME Senders, OthersSend, MayStop = FALSE, Inv, KeptInv, [Next]_vars
  PROVE  KeptInv'
<1>1. \A c \in Conns : ~OwnerStops(c)
  BY DEF OwnerStops
<1> QED
  BY <1>1, StepKept, CreatesKept, RemovesKept, UserKept DEF Next, AllGone

\* Both invariants hold all the time, if the owner does not stop.
LEMMA KeptHolds ==
  ASSUME OthersSend, MayStop = FALSE
  PROVE  SafetySpec => [](Inv /\ KeptInv)
<1>1. Init => KeptInv
  BY DEF Init, KeptInv, Kept, Range
<1>2. Inv /\ Senders /\ KeptInv /\ [Next]_vars => KeptInv'
  BY NextKept
<1> QED
  BY <1>1, <1>2, InvHolds, PTL DEF SafetySpec

\* A connection nobody holds any more was closed, and the poller has
\* forgotten its channel.
LEMMA FreedIsClosed ==
  ASSUME Inv, KeptInv, NEW c \in Conns, Freed(c)
  PROVE  state[c] = "Disconnected" /\ index[c] = "new"
<1>1. state[c] # "none" /\ c \notin owned /\ LifeTypes /\ loopOf[c] \in Loops /\ Kept(c)
  BY DEF Freed, Alive, Inv, Typed, TypeOK, LifeTypes, KeptInv
<1>2. state[c] = "Disconnected"
  BY <1>1 DEF LifeTypes, Kept
<1>3. ~Leaving(c)
  <2>1. \A t \in TasksOf(c) : t.kind \notin StrongKinds
    BY DEF Freed, Alive
  <2>2. Leaving(c) => Task("destroyed", c) \in TasksOf(c)
    BY <1>1 DEF Leaving, TasksOf, Task
  <2> QED
    BY <2>1, <2>2 DEF Task, StrongKinds
<1> QED
  BY <1>1, <1>2, <1>3 DEF Kept

\* connectionCallback_ reports every connection up at most once and down
\* exactly once before its destructor runs, through every pair of close paths.
THEOREM CallbacksArePaired ==
  ASSUME OthersSend, MayStop = FALSE
  PROVE  SafetySpec => []CallbacksPaired
<1>1. Inv /\ KeptInv => CallbacksPaired
  BY FreedIsClosed DEF Inv, Life, Unborn, Open, Closed, CallbacksPaired
<1> QED
  BY <1>1, KeptHolds, PTL

\* When the last shared_ptr to a connection goes, its channel is out of the
\* poller: closeCallback_, the owner and connectDestroyed come in this order
\* on every path, so the poller never calls into a destroyed connection.
THEOREM ChannelIsGone ==
  ASSUME OthersSend, MayStop = FALSE
  PROVE  SafetySpec => []ChannelGone
<1>1. Inv /\ KeptInv => ChannelGone
  BY FreedIsClosed DEF Inv, Life, Closed, ChannelGone
<1> QED
  BY <1>1, KeptHolds, PTL

=============================================================================
