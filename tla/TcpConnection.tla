---------------------------- MODULE TcpConnection ----------------------------
(***************************************************************************)
(* net/TcpConnection.cpp with its net/Channel.cpp and the part of          *)
(* net/EpollPoller.cpp it drives: connections, each served by one I/O      *)
(* loop, their peers, and other threads that call the public methods.      *)
(*                                                                         *)
(* A loop is used through what EventLoop is shown to implement,            *)
(* FunctorQueue: tasks run one at a time in the order they were queued.    *)
(* Between two tasks the loop may handle the events poll reported for one  *)
(* connection.  A shared_ptr is not a variable: Alive says who holds one.  *)
(* The owner of the connections (TcpServer) is here only what a connection *)
(* sees of it; module TcpServer puts the real one in its place.            *)
(***************************************************************************)
EXTENDS Naturals, Sequences, FiniteSets, Functions

CONSTANTS
  Conns,          \* connections
  Loops,          \* I/O loops
  Users,          \* threads other than the loops that hold connections
  HereOps,        \* the public methods callbacks call in the loop, and
  UserOps,        \* those Users call: "send", "shutdown", "forceClose"
  Units,          \* the length of a message, in units a write can split
  MaxCalls,       \* bound: public calls that get past their state_ test
  MayStop         \* the owner may destroy connections that are still open

ASSUME ConnAssumption ==
  /\ Units \in Nat \ {0}
  /\ MaxCalls \in Nat
  /\ HereOps \cup UserOps \subseteq {"send", "shutdown", "forceClose"}
  /\ MayStop \in BOOLEAN
  /\ "none" \notin Conns
  /\ "loop" \notin Users

VARIABLES
  state,          \* state_; "none" before the constructor
  events,         \* the channel's events_
  index,          \* the channel's index_: is it in the poller's channels_
  epoll,          \* connections whose descriptor is in the epoll set
  out,            \* outputBuffer_
  fin,            \* socket_->shutdownWrite() was called
  ups,            \* connectionCallback_ calls with the connection up ...
  downs,          \* ... and with the connection down
  late,           \* messageCallback_ was called after a down
  loopOf,         \* loop_
  revents,        \* what poll reported and the handlers still have to see
  callback,       \* the connection whose callback each loop is in, or "none"
  queue,          \* each loop's tasks, oldest first
  closing,        \* the owner's queue: closeCallback_ calls it has to serve
  owned,          \* connections the owner still has a shared_ptr to
  call,           \* what each user is in the middle of
  calls,          \* public calls that got past their state_ test
  peer,           \* "open", "fin" (sent FIN) or "rst" (sent RST)
  unread,         \* there are bytes in the socket's receive buffer
  wire,           \* history: units the kernel took, in order
  accepted        \* history: units sendInLoop took responsibility for

chanVars == <<events, index, epoll>>
dataVars == <<out, wire, accepted>>
lifeVars == <<state, ups, downs, closing>>
peerVars == <<peer, unread>>
loopVars == <<loopOf, queue, owned>>
callVars == <<call, calls>>
vars == <<chanVars, dataVars, lifeVars, peerVars, loopVars, callVars,
          fin, late, revents, callback>>

NoCall == [op |-> "none"]
Task(kind, c) == [kind |-> kind, conn |-> c]
\* The k-th call on its connection is a send by thread t.
Message(t, k) == [i \in 1 .. Units |-> [from |-> t, call |-> k, unit |-> i]]

Init ==
  /\ state = [c \in Conns |-> "none"]
  /\ events = [c \in Conns |-> {}]
  /\ index = [c \in Conns |-> "new"]
  /\ epoll = {}
  /\ out = [c \in Conns |-> <<>>]
  /\ fin = [c \in Conns |-> FALSE]
  /\ ups = [c \in Conns |-> 0]
  /\ downs = [c \in Conns |-> 0]
  /\ late = [c \in Conns |-> FALSE]
  /\ loopOf \in [Conns -> Loops]
  /\ revents = [c \in Conns |-> {}]
  /\ callback = [l \in Loops |-> "none"]
  /\ queue = [l \in Loops |-> <<>>]
  /\ closing = <<>>
  /\ owned = {}
  /\ call = [u \in Users |-> NoCall]
  /\ calls = [c \in Conns |-> 0]
  /\ peer = [c \in Conns |-> "open"]
  /\ unread = [c \in Conns |-> FALSE]
  /\ wire = [c \in Conns |-> <<>>]
  /\ accepted = [c \in Conns |-> <<>>]

-----------------------------------------------------------------------------
(* Who keeps a connection alive.                                           *)

\* Tasks bound to shared_from_this(); the others are bound to a raw this.
StrongKinds == {"established", "destroyed", "forceClose"}

TasksOf(c) == {t \in UNION {Range(queue[l]) : l \in Loops} : t.conn = c}

Alive(c) ==
  \/ c \in owned
  \/ c \in Range(closing)
  \/ \E t \in TasksOf(c) : t.kind \in StrongKinds
  \/ revents[c] # {}
  \/ callback[loopOf[c]] = c
  \/ \E u \in Users : call[u].op # "none" /\ call[u].conn = c

Freed(c) == state[c] # "none" /\ ~Alive(c)

\* The loop is in no handler and in no callback.
Idle(l) ==
  /\ callback[l] = "none"
  /\ \A c \in Conns : loopOf[c] = l => revents[c] = {}

Enqueue(l, t) == queue' = [queue EXCEPT ![l] = Append(@, t)]

-----------------------------------------------------------------------------
(* The channel: Channel::update, EPollPoller::updateChannel and            *)
(* removeChannel.  epoll_ctl fails only where a parameter says so.         *)

\* events_ becomes ev: ADD for a channel that is not in epoll (even with no
\* events at all), DEL when nothing is left to watch, MOD otherwise.
UpdateChannel(c, ev, addOk) ==
  /\ events' = [events EXCEPT ![c] = ev]
  /\ CASE index[c] # "added" ->
            /\ index' = [index EXCEPT ![c] = "added"]
            /\ epoll' = IF addOk THEN epoll \cup {c} ELSE epoll
       [] index[c] = "added" /\ ev = {} /\ c \in epoll ->
            /\ index' = [index EXCEPT ![c] = "deleted"]
            /\ epoll' = epoll \ {c}
       [] OTHER -> UNCHANGED <<index, epoll>>

\* Mutant: the channel is left as it is.
DisableAllNot(c) == UNCHANGED chanVars

DisableAll(c) == UpdateChannel(c, {}, TRUE)

\* Channel::remove does nothing while events_ is not empty.
RemoveChannel(c) ==
  /\ IF events[c] = {}
       THEN /\ index' = [index EXCEPT ![c] = "new"]
            /\ epoll' = epoll \ {c}
       ELSE UNCHANGED <<index, epoll>>
  /\ UNCHANGED events

-----------------------------------------------------------------------------
(* Steps of connections inside their loop.                                 *)

\* Mutant: kDisconnected is not tested, so the second call closes again.
WasClosedNever(c) == FALSE

\* The second call of a pair finds kDisconnected and returns.
WasClosed(c) == state[c] = "Disconnected"

\* Mutant: closeCallback_ is not called.
CloseCallbackNot(c) == UNCHANGED closing

\* closeCallback_ queues removeConnectionInLoop on the owner's loop.
CloseCallback(c) == closing' = Append(closing, c)

\* handleClose
HandleClose(c) ==
  IF WasClosed(c)
    THEN UNCHANGED <<lifeVars, chanVars>>
    ELSE /\ state' = [state EXCEPT ![c] = "Disconnected"]
         /\ DisableAll(c)
         /\ downs' = [downs EXCEPT ![c] = @ + 1]
         /\ CloseCallback(c)
         /\ UNCHANGED ups

\* Mutant: the message is written at once, whatever waits in outputBuffer_.
DirectAlways(c) == TRUE

\* Nothing waits, so a message may go past outputBuffer_.
Direct(c) == "write" \notin events[c] /\ out[c] = <<>>

\* Mutant: enableWriting() is called whether bytes are left or not.
ArmsEarly(c, rest) == "write" \notin events[c]

Arms(c, rest) == rest # <<>> /\ "write" \notin events[c]

\* sendInLoop of message msg: n units go to the kernel at once if nothing is
\* waiting, the rest waits in outputBuffer_ with writing enabled.  A write to
\* a socket that is shut or was reset fails with EPIPE or ECONNRESET, and the
\* message is dropped; after any other error all of it waits, n = 0.
SendInLoop(c, msg, n) ==
  LET broken == fin[c] \/ peer[c] = "rst"
      now == SubSeq(msg, 1, n)
      rest == SubSeq(msg, n + 1, Len(msg))
  IN  IF state[c] = "Disconnected" \/ (Direct(c) /\ broken)
        THEN n = 0 /\ UNCHANGED <<dataVars, chanVars>>
        ELSE /\ Direct(c) \/ n = 0
             /\ wire' = [wire EXCEPT ![c] = @ \o now]
             /\ out' = [out EXCEPT ![c] = @ \o rest]
             /\ accepted' = [accepted EXCEPT ![c] = @ \o msg]
             /\ IF Arms(c, rest)
                  THEN UpdateChannel(c, events[c] \cup {"write"}, TRUE)
                  ELSE UNCHANGED chanVars

\* Mutant: isWriting() is not tested.
ShutdownInLoopAtOnce(c) == fin' = [fin EXCEPT ![c] = TRUE]

\* shutdownInLoop: the FIN waits while output does.
ShutdownInLoop(c) ==
  fin' = [fin EXCEPT ![c] = @ \/ "write" \notin events[c]]

\* Mutant: the task queued last is taken.
TakeNewest(l, t) ==
  /\ Idle(l)
  /\ queue[l] # <<>>
  /\ t = queue[l][Len(queue[l])]
  /\ queue' = [queue EXCEPT ![l] = SubSeq(@, 1, Len(@) - 1)]

\* The task at the head of loop l is t, and the loop takes it.
Take(l, t) ==
  /\ Idle(l)
  /\ queue[l] # <<>>
  /\ t = Head(queue[l])
  /\ queue' = [queue EXCEPT ![l] = Tail(@)]

\* connectEstablished, where registering the descriptor may fail.
ConnectEstablished(l, c, addOk) ==
  /\ Take(l, Task("established", c))
  /\ state[c] = "Connecting"
  /\ IF addOk
       THEN /\ state' = [state EXCEPT ![c] = "Connected"]
            /\ UpdateChannel(c, {"read"}, TRUE)
            /\ ups' = [ups EXCEPT ![c] = @ + 1]
            /\ callback' = [callback EXCEPT ![l] = c]
            /\ UNCHANGED <<downs, closing>>
       ELSE /\ state' = [state EXCEPT ![c] = "Disconnected"]
            /\ UpdateChannel(c, {}, FALSE)
            /\ downs' = [downs EXCEPT ![c] = @ + 1]
            /\ closing' = Append(closing, c)
            /\ UNCHANGED <<ups, callback>>
  /\ UNCHANGED <<dataVars, peerVars, callVars, loopOf, owned, fin, late, revents>>

\* connectDestroyed: a connection that is still kConnected goes down here,
\* with no closeCallback_; then the channel is removed.
ConnectDestroyed(l, c) ==
  /\ Take(l, Task("destroyed", c))
  /\ IF state[c] = "Connected"
       THEN /\ state' = [state EXCEPT ![c] = "Disconnected"]
            /\ events' = [events EXCEPT ![c] = {}]
            /\ index' = [index EXCEPT ![c] = "new"]
            /\ epoll' = epoll \ {c}
            /\ downs' = [downs EXCEPT ![c] = @ + 1]
            /\ UNCHANGED <<ups, closing>>
       ELSE /\ RemoveChannel(c)
            /\ UNCHANGED lifeVars
  /\ UNCHANGED <<dataVars, peerVars, callVars, loopOf, owned, fin, late,
                 revents, callback>>

\* The test of forceClose and of forceCloseInLoop.
Closable(c) == state[c] \in {"Connected", "Disconnecting"}

\* forceCloseInLoop
ForceCloseInLoop(l, c) ==
  /\ Take(l, Task("forceClose", c))
  /\ IF Closable(c) THEN HandleClose(c) ELSE UNCHANGED <<lifeVars, chanVars>>
  /\ UNCHANGED <<dataVars, peerVars, callVars, loopOf, owned, fin, late,
                 revents, callback>>

\* A shutdownInLoop or sendInLoop that another thread queued on a raw this;
\* on a connection that is gone its effect is undefined, here none.
QueuedShutdown(l, c) ==
  /\ Take(l, Task("shutdown", c))
  /\ IF Alive(c) THEN ShutdownInLoop(c) ELSE UNCHANGED fin
  /\ UNCHANGED <<chanVars, dataVars, lifeVars, peerVars, callVars, loopOf,
                 owned, late, revents, callback>>

QueuedSend(l, c, n) ==
  \E u \in Users, k \in 1 .. MaxCalls :
  /\ Take(l, [kind |-> "send", conn |-> c, msg |-> Message(u, k)])
  /\ IF Alive(c)
       THEN SendInLoop(c, Message(u, k), n)
       ELSE n = 0 /\ UNCHANGED <<dataVars, chanVars>>
  /\ UNCHANGED <<lifeVars, peerVars, callVars, loopOf, owned, fin, late,
                 revents, callback>>

RunTask(l) ==
  \E c \in Conns :
    \/ \E addOk \in BOOLEAN : ConnectEstablished(l, c, addOk)
    \/ ConnectDestroyed(l, c)
    \/ ForceCloseInLoop(l, c)
    \/ QueuedShutdown(l, c)
    \/ \E n \in 0 .. Units : QueuedSend(l, c, n)

\* What epoll reports for c: EPOLLERR always, the rest if it is asked for.  A
\* hangup comes with EPOLLIN, for which HandleIn stands; canWrite says whether
\* the socket's send buffer has room.
Ready(c, canWrite) ==
  {e \in {"err", "in", "out"} :
     \/ e = "err" /\ peer[c] = "rst"
     \/ e = "in" /\ "read" \in events[c] /\ (unread[c] \/ peer[c] # "open")
     \/ e = "out" /\ "write" \in events[c] /\ (canWrite \/ peer[c] = "rst")}

\* poll puts the channel into activeChannels_.
Poll(c, canWrite) ==
  /\ c \in epoll
  /\ Alive(c)
  /\ Idle(loopOf[c])
  /\ Ready(c, canWrite) # {}
  /\ revents' = [revents EXCEPT ![c] = Ready(c, canWrite)]
  /\ UNCHANGED <<chanVars, dataVars, lifeVars, peerVars, loopVars, callVars,
                 fin, late, callback>>

\* handleEventWithGuard calls the error, read and write handlers in this
\* order, all of them for the events that were reported, whatever the earlier
\* ones did.
Handling(c, e) ==
  /\ callback[loopOf[c]] = "none"
  /\ e \in revents[c]
  /\ \A d \in revents[c] : <<d, e>> \notin {<<"err", "in">>, <<"err", "out">>, <<"in", "out">>}
  /\ revents' = [revents EXCEPT ![c] = @ \ {e}]

\* handleError
HandleError(c) ==
  /\ Handling(c, "err")
  /\ HandleClose(c)
  /\ UNCHANGED <<dataVars, peerVars, loopVars, callVars, fin, late, callback>>

\* handleRead: bytes go to messageCallback_, their end closes.
HandleRead(c) ==
  /\ Handling(c, "in")
  /\ IF unread[c]
       THEN /\ unread' = [unread EXCEPT ![c] = FALSE]
            /\ callback' = [callback EXCEPT ![loopOf[c]] = c]
            /\ late' = [late EXCEPT ![c] = @ \/ downs[c] > 0]
            /\ UNCHANGED <<lifeVars, chanVars>>
       ELSE /\ HandleClose(c)
            /\ UNCHANGED <<unread, callback, late>>
  /\ UNCHANGED <<dataVars, loopVars, callVars, fin, peer>>

\* Mutant: the shutdown that waited for the output is forgotten.
FinPendingNever(c) == FALSE

\* shutdown() was called while output waited.
FinPending(c) == state[c] = "Disconnecting"

\* handleWrite: n units leave the buffer, none if the write fails.  When the
\* buffer empties writing is disabled, and a pending shutdown is completed.
HandleWrite(c, n) ==
  /\ Handling(c, "out")
  /\ n \in 0 .. Len(out[c])
  /\ n = 0 <=> peer[c] = "rst" \/ "write" \notin events[c]
  /\ IF "write" \notin events[c]
       THEN UNCHANGED <<lifeVars, chanVars, dataVars, fin>>
       ELSE IF n = 0
         THEN HandleClose(c) /\ UNCHANGED <<dataVars, fin>>
         ELSE /\ wire' = [wire EXCEPT ![c] = @ \o SubSeq(out[c], 1, n)]
              /\ out' = [out EXCEPT ![c] = SubSeq(@, n + 1, Len(@))]
              /\ IF n = Len(out[c])
                   THEN /\ UpdateChannel(c, events[c] \ {"write"}, TRUE)
                        /\ fin' = [fin EXCEPT ![c] = @ \/ FinPending(c)]
                   ELSE UNCHANGED <<chanVars, fin>>
              /\ UNCHANGED <<lifeVars, accepted>>
  /\ UNCHANGED <<peerVars, loopVars, callVars, late, callback>>

\* connectionCallback_ or messageCallback_ returns.
CallbackReturns(l) ==
  /\ callback[l] # "none"
  /\ callback' = [callback EXCEPT ![l] = "none"]
  /\ UNCHANGED <<chanVars, dataVars, lifeVars, peerVars, loopVars, callVars,
                 fin, late, revents>>

LoopStep(l) ==
  \/ RunTask(l)
  \/ CallbackReturns(l)
  \/ \E c \in Conns :
       /\ loopOf[c] = l
       /\ \/ HandleError(c)
          \/ HandleRead(c)
          \/ \E n \in 0 .. Units * MaxCalls : HandleWrite(c, n)

-----------------------------------------------------------------------------
(* Public methods called by a callback, in the connection's own loop.      *)

CountCall(c) ==
  /\ calls[c] < MaxCalls
  /\ calls' = [calls EXCEPT ![c] = @ + 1]

\* send
SendHere(c, n) ==
  /\ callback[loopOf[c]] = c
  /\ state[c] = "Connected"
  /\ "send" \in HereOps
  /\ CountCall(c)
  /\ SendInLoop(c, Message("loop", calls[c] + 1), n)
  /\ UNCHANGED <<lifeVars, peerVars, loopVars, call, fin, late, revents, callback>>

\* shutdown: shutdownInLoop runs inside the call.
ShutdownHere(c) ==
  /\ callback[loopOf[c]] = c
  /\ state[c] = "Connected"
  /\ "shutdown" \in HereOps
  /\ CountCall(c)
  /\ state' = [state EXCEPT ![c] = "Disconnecting"]
  /\ ShutdownInLoop(c)
  /\ UNCHANGED <<chanVars, dataVars, ups, downs, closing, peerVars, loopVars,
                 call, late, revents, callback>>

\* forceClose: always queued, to run after the events being handled.
ForceCloseHere(c) ==
  /\ callback[loopOf[c]] = c
  /\ Closable(c)
  /\ "forceClose" \in HereOps
  /\ CountCall(c)
  /\ state' = [state EXCEPT ![c] = "Disconnecting"]
  /\ Enqueue(loopOf[c], Task("forceClose", c))
  /\ UNCHANGED <<chanVars, dataVars, ups, downs, closing, peerVars, loopOf,
                 owned, call, fin, late, revents, callback>>

HereStep(c) ==
  \/ \E n \in 0 .. Units : SendHere(c, n)
  \/ ShutdownHere(c)
  \/ ForceCloseHere(c)

-----------------------------------------------------------------------------
(* The same methods called by another thread, which holds a shared_ptr     *)
(* until the call returns.  state_ is read and written with no lock: test, *)
(* store and queueing are three steps.                                     *)

\* The test of state_ lets the call through.
UserTests(u, c, op) ==
  /\ call[u].op = "none"
  /\ Alive(c)
  /\ IF op = "forceClose" THEN Closable(c) ELSE state[c] = "Connected"
  /\ CountCall(c)
  /\ call' = [call EXCEPT ![u] = [op |-> op, conn |-> c, msg |-> Message(u, calls[c] + 1),
                                  stored |-> op = "send"]]
  /\ UNCHANGED <<chanVars, dataVars, lifeVars, peerVars, loopVars, fin, late,
                 revents, callback>>

\* setState(kDisconnecting)
UserStores(u) ==
  /\ call[u].op # "none"
  /\ ~call[u].stored
  /\ state' = [state EXCEPT ![call[u].conn] = "Disconnecting"]
  /\ call' = [call EXCEPT ![u].stored = TRUE]
  /\ UNCHANGED <<chanVars, dataVars, ups, downs, closing, peerVars, loopVars,
                 calls, fin, late, revents, callback>>

\* runInLoop or queueInLoop, and the caller drops its pointer.
UserQueues(u) ==
  /\ call[u].op # "none"
  /\ call[u].stored
  /\ LET c == call[u].conn
         t == IF call[u].op = "send"
                THEN [kind |-> "send", conn |-> c, msg |-> call[u].msg]
                ELSE Task(call[u].op, c)
     IN  Enqueue(loopOf[c], t)
  /\ call' = [call EXCEPT ![u] = NoCall]
  /\ UNCHANGED <<chanVars, dataVars, lifeVars, peerVars, loopOf, owned, calls,
                 fin, late, revents, callback>>

UserStep(u) ==
  \/ \E c \in Conns, op \in UserOps : UserTests(u, c, op)
  \/ UserStores(u)
  \/ UserQueues(u)

-----------------------------------------------------------------------------
(* The peer, and the owner as the connection sees it.                      *)

PeerSends(c) ==
  /\ state[c] # "none"
  /\ peer[c] = "open"
  /\ ~unread[c]
  /\ unread' = [unread EXCEPT ![c] = TRUE]
  /\ UNCHANGED <<chanVars, dataVars, lifeVars, loopVars, callVars, fin, late,
                 revents, callback, peer>>

PeerEnds(c) ==
  /\ state[c] # "none"
  /\ \/ peer[c] = "open" /\ peer' = [peer EXCEPT ![c] = "fin"]
     \/ peer[c] # "rst" /\ peer' = [peer EXCEPT ![c] = "rst"]
  /\ UNCHANGED <<chanVars, dataVars, lifeVars, loopVars, callVars, fin, late,
                 revents, callback, unread>>

\* The constructor, and connectEstablished queued on the loop.
OwnerCreates(c) ==
  /\ state[c] = "none"
  /\ state' = [state EXCEPT ![c] = "Connecting"]
  /\ owned' = owned \cup {c}
  /\ Enqueue(loopOf[c], Task("established", c))
  /\ UNCHANGED <<chanVars, dataVars, ups, downs, closing, peerVars, loopOf,
                 callVars, fin, late, revents, callback>>

\* The owner serves a closeCallback_: it lets go of the connection once.
OwnerRemoves ==
  /\ closing # <<>>
  /\ closing' = Tail(closing)
  /\ LET c == Head(closing)
     IN  /\ owned' = owned \ {c}
         /\ IF c \in owned
              THEN Enqueue(loopOf[c], Task("destroyed", c))
              ELSE UNCHANGED queue
  /\ UNCHANGED <<chanVars, dataVars, state, ups, downs, peerVars, loopOf,
                 callVars, fin, late, revents, callback>>

\* The owner shuts down: it lets go of a connection that is still open.
OwnerStops(c) ==
  /\ MayStop
  /\ c \in owned
  /\ owned' = owned \ {c}
  /\ Enqueue(loopOf[c], Task("destroyed", c))
  /\ UNCHANGED <<chanVars, dataVars, lifeVars, peerVars, loopOf, callVars, fin,
                 late, revents, callback>>

\* Every connection there is has come and gone.
AllGone ==
  /\ \A c \in Conns : Freed(c)
  /\ UNCHANGED vars

Next ==
  \/ \E l \in Loops : LoopStep(l)
  \/ \E c \in Conns :
       \/ \E canWrite \in BOOLEAN : Poll(c, canWrite)
       \/ HereStep(c)
       \/ PeerSends(c)
       \/ PeerEnds(c)
       \/ OwnerCreates(c)
       \/ OwnerStops(c)
  \/ \E u \in Users : UserStep(u)
  \/ OwnerRemoves
  \/ AllGone

SafetySpec == Init /\ [][Next]_vars

\* The loops run, the owner's loop too, callbacks return, and a thread inside
\* a public method finishes it.  Every iteration of loop() comes to its queued
\* tasks, however many events it handles.  poll is level-triggered, and a peer
\* that does not go away keeps reading: a descriptor that is again and again
\* ready is reported, writing included.  Nobody has to connect, call or close.
Fairness ==
  /\ \A l \in Loops : WF_vars(LoopStep(l)) /\ SF_vars(RunTask(l))
  /\ \A c \in Conns : SF_vars(Poll(c, TRUE))
  /\ \A u \in Users : WF_vars(UserStores(u) \/ UserQueues(u))
  /\ WF_vars(OwnerRemoves)

Spec == SafetySpec /\ Fairness

-----------------------------------------------------------------------------
(* Properties.                                                             *)

TypeOK ==
  /\ state \in [Conns -> {"none", "Connecting", "Connected", "Disconnecting",
                          "Disconnected"}]
  /\ events \in [Conns -> SUBSET {"read", "write"}]
  /\ index \in [Conns -> {"new", "added", "deleted"}]
  /\ epoll \subseteq {c \in Conns : index[c] = "added"}
  /\ fin \in [Conns -> BOOLEAN]
  /\ ups \in [Conns -> Nat]
  /\ downs \in [Conns -> Nat]
  /\ late \in [Conns -> BOOLEAN]
  /\ loopOf \in [Conns -> Loops]
  /\ revents \in [Conns -> SUBSET {"err", "in", "out"}]
  /\ callback \in [Loops -> Conns \cup {"none"}]
  /\ closing \in Seq(Conns)
  /\ owned \subseteq Conns
  /\ calls \in [Conns -> 0 .. MaxCalls]
  /\ peer \in [Conns -> {"open", "fin", "rst"}]
  /\ unread \in [Conns -> BOOLEAN]

\* What sendInLoop accepted is what the kernel took followed by what waits in
\* outputBuffer_: no byte is lost, doubled or overtaken by a later message,
\* however writes are split (TcpConnection.cpp:143-192, 343-380).
StreamIntact == \A c \in Conns : accepted[c] = wire[c] \o out[c]

\* What one thread sends is sent in the order of its calls, whether it calls
\* from the loop or queues.
SenderOrder ==
  \A c \in Conns : \A i, j \in DOMAIN accepted[c] :
    i < j /\ accepted[c][i].from = accepted[c][j].from
      => accepted[c][i].call <= accepted[c][j].call

\* Waiting output of an open connection is always watched for: a buffer with
\* bytes and no EPOLLOUT would never drain, EPOLLOUT with an empty buffer
\* would make handleWrite close the connection on a write of 0 bytes.
OutputArmed ==
  \A c \in Conns : state[c] \in {"Connected", "Disconnecting"} =>
    (out[c] # <<>> <=> "write" \in events[c])

\* The FIN is sent only behind the last byte: no output waits once
\* shutdownWrite was called, so a graceful shutdown() truncates nothing.
FinAfterFlush == \A c \in Conns : fin[c] => out[c] = <<>>

\* connectionCallback_ reports an open connection up once and not yet down, a
\* closed one down exactly once, through every pair of close paths (error,
\* end of stream, failed write, forceClose, connectDestroyed), and none goes
\* without its down: TcpConnection.cpp:51 wants kDisconnected in the destructor.
\* So kDisconnected is final.  A connection whose registration failed goes
\* down without having been up.
CallbacksPaired ==
  \A c \in Conns :
    /\ state[c] \in {"none", "Connecting"} => ups[c] = 0 /\ downs[c] = 0
    /\ state[c] \in {"Connected", "Disconnecting"} => ups[c] = 1 /\ downs[c] = 0
    /\ state[c] = "Disconnected" => ups[c] <= 1 /\ downs[c] = 1
    /\ Freed(c) => downs[c] = 1

\* When the last shared_ptr goes, the poller has forgotten the channel: it
\* never calls a handler of a connection that was destroyed.  Channel.cpp:34
\* has it as a commented-out assertion of the destructor.
ChannelGone == \A c \in Conns : Freed(c) => index[c] = "new" /\ c \notin epoll

\* A message reaches the session after the session was told that the
\* connection is down only when a reset overtakes bytes that were not read:
\* then one epoll report holds the error and the bytes.
LateOnlyAfterReset == \A c \in Conns : late[c] => peer[c] = "rst"

\* A connection that goes down is destroyed: closeCallback_, the owner's map
\* and connectDestroyed leave no pointer behind.
ClosedIsFreed == \A c \in Conns : state[c] = "Disconnected" ~> Freed(c)

\* shutdown() and forceClose() get their way: the output drains and the FIN
\* goes out, or the connection closes.
ShutdownFinishes ==
  \A c \in Conns : state[c] = "Disconnecting" ~> fin[c] \/ state[c] = "Disconnected"

=============================================================================
