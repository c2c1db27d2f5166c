-------------------------- MODULE SenderOrderProofs --------------------------
(***************************************************************************)
(* SenderOrder of TcpConnection, for any number of threads that call the   *)
(* public methods.                                                         *)
(***************************************************************************)
EXTENDS TcpConnectionProofs

-----------------------------------------------------------------------------
(* What one thread sends keeps its order, whoever else calls.  A message   *)
(* is in one of three places: inside a call, queued, or accepted.          *)

AnyTask ==
  [kind : StrongKinds \cup {"shutdown"}, conn : Conns]
    \cup {Send(c, u, k) : c \in Conns, u \in Users, k \in 1 .. MaxCalls}

Calling(u, c, op, k, b) ==
  [op |-> op, conn |-> c, msg |-> Message(u, k), stored |-> b]

\* The public methods a user can be in.
InMethod(u) ==
  \E c \in Conns, op \in UserOps, k \in 1 .. MaxCalls, b \in BOOLEAN :
    call[u] = Calling(u, c, op, k, b)

CallTypes ==
  /\ loopOf \in [Conns -> Loops]
  /\ queue \in [Loops -> Seq(AnyTask)]
  /\ call = [u \in Users |-> call[u]]
  /\ \A u \in Users : call[u] = NoCall \/ InMethod(u)

InCall(c, u, k) == \E b \in BOOLEAN : call[u] = Calling(u, c, "send", k, b)

InQueue(c, u, k) == Send(c, u, k) \in Range(queue[loopOf[c]])

\* s stands before t in the queue q.
Before(q, s, t) == \E i, j \in DOMAIN q : i < j /\ q[i] = s /\ q[j] = t

\* No message of u that was accepted is younger than its k-th.
Past(c, u, k) ==
  \A j \in DOMAIN accepted[c] : accepted[c][j].from = u => accepted[c][j].call <= k

InOrder(c, u) ==
  /\ \A l \in Loops, k \in 1 .. MaxCalls :
       Send(c, u, k) \in Range(queue[l]) => l = loopOf[c]
  /\ \A k \in 1 .. MaxCalls :
       InQueue(c, u, k) \/ InCall(c, u, k) => k <= calls[c] /\ Past(c, u, k)
  /\ \A k, m \in 1 .. MaxCalls :
       /\ InQueue(c, u, k) /\ InCall(c, u, m) => k <= m
       /\ Before(queue[loopOf[c]], Send(c, u, k), Send(c, u, m)) => k <= m

AcceptedInOrder(c) ==
  /\ \A i \in DOMAIN accepted[c] : accepted[c][i].call <= calls[c]
  /\ \A i, j \in DOMAIN accepted[c] :
       i < j /\ accepted[c][i].from = accepted[c][j].from
         => accepted[c][i].call <= accepted[c][j].call

OrderInv ==
  /\ StreamInv
  /\ CallTypes
  /\ \A c \in Conns : AcceptedInOrder(c) /\ \A u \in Users : InOrder(c, u)

\* A queued send tells the connection, the sender and the number of its call.
LEMMA SendNamesIt ==
  ASSUME NEW c, NEW u, NEW k, NEW d, NEW v, NEW m, Send(c, u, k) = Send(d, v, m)
  PROVE  c = d /\ u = v /\ k = m
<1>1. c = d /\ Message(u, k) = Message(v, m)
  BY DEF Send
<1>2. 1 \in 1 .. Units
  BY ConnAssumption
<1>3. /\ Message(u, k)[1] = [from |-> u, call |-> k, unit |-> 1]
      /\ Message(v, m)[1] = [from |-> v, call |-> m, unit |-> 1]
  BY <1>2 DEF Message
<1> QED
  BY <1>1, <1>3

\* So does a call that has not queued its send yet.
LEMMA CallNamesIt ==
  ASSUME NEW c, NEW u, NEW k, NEW o, NEW b, NEW d, NEW v, NEW m, NEW p, NEW e,
         Calling(u, c, o, k, b) = Calling(v, d, p, m, e)
  PROVE  c = d /\ u = v /\ k = m /\ o = p
<1>1. c = d /\ o = p /\ Message(u, k) = Message(v, m)
  BY DEF Calling
<1>2. 1 \in 1 .. Units
  BY ConnAssumption
<1>3. /\ Message(u, k)[1] = [from |-> u, call |-> k, unit |-> 1]
      /\ Message(v, m)[1] = [from |-> v, call |-> m, unit |-> 1]
  BY <1>2 DEF Message
<1> QED
  BY <1>1, <1>3

\* Head comes before the rest, and the rest keeps its order.
LEMMA BeforeTail ==
  ASSUME NEW S, NEW q \in Seq(S), q # <<>>
  PROVE  /\ Range(Tail(q)) \subseteq Range(q)
         /\ \A s, t : Before(Tail(q), s, t) => Before(q, s, t)
         /\ \A t \in Range(Tail(q)) : Before(q, Head(q), t)
<1>1. /\ Len(q) \in Nat \ {0} /\ DOMAIN q = 1 .. Len(q) /\ Head(q) = q[1]
      /\ Tail(q) \in Seq(S) /\ Len(Tail(q)) = Len(q) - 1
      /\ \A i \in 1 .. Len(Tail(q)) : Tail(q)[i] = q[i + 1]
  BY EmptySeq, LenProperties, HeadTailProperties
<1>2. DOMAIN Tail(q) = 1 .. Len(q) - 1
  BY <1>1, LenProperties
<1>3. \A i \in DOMAIN Tail(q) : i + 1 \in DOMAIN q /\ 1 < i + 1 /\ Tail(q)[i] = q[i + 1]
  BY <1>1, <1>2
<1>4. Range(Tail(q)) \subseteq Range(q)
  BY <1>3 DEF Range
<1>5. ASSUME NEW s, NEW t, Before(Tail(q), s, t)
      PROVE  Before(q, s, t)
  <2>1. PICK i \in DOMAIN Tail(q), j \in DOMAIN Tail(q) :
          i < j /\ Tail(q)[i] = s /\ Tail(q)[j] = t
    BY <1>5 DEF Before
  <2>2. i + 1 < j + 1
    BY <1>1, <1>2, <2>1
  <2> QED
    BY <1>3, <2>1, <2>2 DEF Before
<1>6. ASSUME NEW t \in Range(Tail(q))
      PROVE  Before(q, Head(q), t)
  <2>1. PICK j \in DOMAIN Tail(q) : Tail(q)[j] = t
    BY DEF Range
  <2>2. 1 \in DOMAIN q /\ q[1] = Head(q)
    BY <1>1
  <2> QED
    BY <1>3, <2>1, <2>2 DEF Before
<1> QED
  BY <1>4, <1>5, <1>6

\* What is appended comes last.
LEMMA BeforeAppend ==
  ASSUME NEW S, NEW q \in Seq(S), NEW e \in S, NEW s, NEW t, Before(Append(q, e), s, t)
  PROVE  Before(q, s, t) \/ (t = e /\ s \in Range(q))
<1>1. /\ Len(q) \in Nat /\ DOMAIN q = 1 .. Len(q)
      /\ DOMAIN Append(q, e) = 1 .. Len(q) + 1
      /\ \A i \in 1 .. Len(q) : Append(q, e)[i] = q[i]
      /\ Append(q, e)[Len(q) + 1] = e
  BY LenProperties, AppendProperties
<1>2. PICK i \in 1 .. Len(q) + 1, j \in 1 .. Len(q) + 1 :
        i < j /\ Append(q, e)[i] = s /\ Append(q, e)[j] = t
  BY <1>1 DEF Before
<1>3. i \in DOMAIN q /\ q[i] = s
  BY <1>1, <1>2
<1>4. CASE j \in 1 .. Len(q)
  BY <1>1, <1>2, <1>3, <1>4 DEF Before
<1>5. CASE j = Len(q) + 1
  BY <1>1, <1>2, <1>3, <1>5 DEF Range
<1> QED
  BY <1>1, <1>4, <1>5

-----------------------------------------------------------------------------
(* Steps that accept nothing.                                              *)

\* A queue keeps its messages in their order, or loses its first.
Shrinks(q, p) ==
  \A c \in Conns, u \in Users, k \in 1 .. MaxCalls :
    /\ Send(c, u, k) \in Range(p) => Send(c, u, k) \in Range(q)
    /\ \A m \in 1 .. MaxCalls :
         Before(p, Send(c, u, k), Send(c, u, m)) => Before(q, Send(c, u, k), Send(c, u, m))

\* A step that accepts nothing and neither begins a call nor queues a send
\* keeps the order.
LEMMA QuietOrder ==
  ASSUME OrderInv, StreamInv', CallTypes', UNCHANGED <<loopOf, accepted>>,
         \A c \in Conns : calls[c] <= calls'[c],
         \A l \in Loops : Shrinks(queue[l], queue'[l]),
         \A c \in Conns, u \in Users, k \in 1 .. MaxCalls : InCall(c, u, k)' => InCall(c, u, k)
  PROVE  OrderInv'
<1>1. /\ \A c \in Conns : calls[c] \in Nat /\ calls'[c] \in Nat /\ loopOf[c] \in Loops
      /\ \A c \in Conns : \A i \in DOMAIN accepted[c] : accepted[c][i].call \in Nat
  <2>1. ASSUME NEW c \in Conns, NEW i \in DOMAIN accepted[c]
        PROVE  accepted[c][i].call \in Nat
    <3>1. accepted[c] \in Seq(Data)
      BY DEF OrderInv, StreamInv, DataTypes
    <3>2. accepted[c][i] \in Data
      BY <3>1
    <3> QED
      BY <3>2, ConnAssumption DEF Data
  <2> QED
    BY <2>1, ConnAssumption DEF OrderInv, StreamInv, CallTypes
<1>2. ASSUME NEW c \in Conns
      PROVE  AcceptedInOrder(c)'
  BY <1>1 DEF OrderInv, AcceptedInOrder
<1>3. ASSUME NEW c \in Conns, NEW u \in Users
      PROVE  InOrder(c, u)'
  <2>1. InOrder(c, u)
    BY DEF OrderInv
  <2>2. \A k \in 1 .. MaxCalls : /\ InQueue(c, u, k)' => InQueue(c, u, k)
                                 /\ Past(c, u, k)' = Past(c, u, k)
    BY <1>1 DEF InQueue, Past, Shrinks
  <2>3. \A l \in Loops, k \in 1 .. MaxCalls :
          Send(c, u, k) \in Range(queue'[l]) => l = loopOf'[c]
    BY <2>1 DEF InOrder, Shrinks
  <2>4. ASSUME NEW k \in 1 .. MaxCalls, InQueue(c, u, k)' \/ InCall(c, u, k)'
        PROVE  k <= calls'[c] /\ Past(c, u, k)'
    <3>1. k <= calls[c] /\ Past(c, u, k)
      BY <2>1, <2>2, <2>4 DEF InOrder
    <3> QED
      BY <1>1, <2>2, <3>1, ConnAssumption
  <2>5. \A k, m \in 1 .. MaxCalls :
          /\ InQueue(c, u, k)' /\ InCall(c, u, m)' => k <= m
          /\ Before(queue'[loopOf'[c]], Send(c, u, k), Send(c, u, m)) => k <= m
    BY <1>1, <2>1, <2>2 DEF InOrder, Shrinks
  <2> QED
    BY <2>3, <2>4, <2>5 DEF InOrder
<1> QED
  BY <1>2, <1>3 DEF OrderInv

\* A queue that is left alone has lost nothing and kept its order.
LEMMA SameShrinks == \A q : Shrinks(q, q)
BY DEF Shrinks

\* Taking a task shrinks the queue of its loop and leaves the others alone.
LEMMA TakeShrinks ==
  ASSUME CallTypes, NEW l \in Loops, NEW t, Take(l, t)
  PROVE  /\ queue' \in [Loops -> Seq(AnyTask)]
         /\ queue'[l] = Tail(queue[l])
         /\ \A m \in Loops : Shrinks(queue[m], queue'[m])
<1>1. /\ queue[l] \in Seq(AnyTask) /\ queue[l] # <<>>
      /\ queue' = [queue EXCEPT ![l] = Tail(@)]
  BY DEF CallTypes, Take
<1>2. Tail(queue[l]) \in Seq(AnyTask)
  BY <1>1, HeadTailProperties
<1>3. \A m \in Loops : queue'[m] = IF m = l THEN Tail(queue[l]) ELSE queue[m]
  BY <1>1 DEF CallTypes
<1>4. Shrinks(queue[l], Tail(queue[l]))
  BY <1>1, BeforeTail DEF Shrinks
<1>5. queue' \in [Loops -> Seq(AnyTask)]
  BY <1>1, <1>2 DEF CallTypes
<1>6. ASSUME NEW m \in Loops
      PROVE  Shrinks(queue[m], queue'[m])
  <2>1. CASE m = l
    BY <1>3, <1>4, <2>1
  <2>2. CASE m # l
    BY <1>3, <2>2, SameShrinks
  <2> QED
    BY <2>1, <2>2
<1> QED
  BY <1>3, <1>5, <1>6

\* What Enqueue does to the queues.
LEMMA QueuedTask ==
  ASSUME CallTypes, NEW l \in Loops, NEW t \in AnyTask, Enqueue(l, t)
  PROVE  /\ queue' \in [Loops -> Seq(AnyTask)]
         /\ queue[l] \in Seq(AnyTask) /\ queue'[l] = Append(queue[l], t)
         /\ Range(queue'[l]) = Range(queue[l]) \cup {t}
         /\ \A m \in Loops : m # l => queue'[m] = queue[m]
<1>1. queue[l] \in Seq(AnyTask) /\ queue' = [queue EXCEPT ![l] = Append(@, t)]
  BY DEF CallTypes, Enqueue
<1>2. Append(queue[l], t) \in Seq(AnyTask) /\ Range(Append(queue[l], t)) = Range(queue[l]) \cup {t}
  BY <1>1, AppendProperties, RangeAppend
<1> QED
  BY <1>1, <1>2 DEF CallTypes

\* A task that is not a send adds no send to a queue.
LEMMA TaskShrinks ==
  ASSUME CallTypes, NEW l \in Loops, NEW c \in Conns, NEW kind \in StrongKinds \cup {"shutdown"},
         Enqueue(l, Task(kind, c))
  PROVE  /\ queue' \in [Loops -> Seq(AnyTask)]
         /\ \A m \in Loops : Shrinks(queue[m], queue'[m])
<1>1. Task(kind, c) \in AnyTask
  BY DEF AnyTask, Task
<1>2. \A d, u, k : Send(d, u, k) # Task(kind, c)
  <2>1. kind # "send"
    BY DEF StrongKinds
  <2> QED
    BY <2>1 DEF Send, Task
<1>3. /\ queue' \in [Loops -> Seq(AnyTask)]
      /\ queue[l] \in Seq(AnyTask) /\ queue'[l] = Append(queue[l], Task(kind, c))
      /\ Range(queue'[l]) = Range(queue[l]) \cup {Task(kind, c)}
      /\ \A m \in Loops : m # l => queue'[m] = queue[m]
  BY <1>1, QueuedTask
<1>4. Shrinks(queue[l], queue'[l])
  <2>1. ASSUME NEW s, NEW t, Before(queue'[l], s, t), t # Task(kind, c)
        PROVE  Before(queue[l], s, t)
    BY <1>1, <1>3, <2>1, BeforeAppend
  <2> QED
    BY <1>2, <1>3, <2>1 DEF Shrinks
<1>5. ASSUME NEW m \in Loops
      PROVE  Shrinks(queue[m], queue'[m])
  BY <1>3, <1>4, SameShrinks
<1> QED
  BY <1>3, <1>5

-----------------------------------------------------------------------------
(* Steps that accept a message.                                            *)

\* Each element of a concatenation is one of the first part, or comes after
\* them all and is one of the second.
LEMMA ConcatElements ==
  ASSUME NEW S, NEW s \in Seq(S), NEW r \in Seq(S)
  PROVE  /\ \A i \in DOMAIN s : i \in Nat
         /\ \A i \in DOMAIN (s \o r) :
              \/ i \in DOMAIN s /\ (s \o r)[i] = s[i]
              \/ i \in Nat /\ (\A j \in DOMAIN s : j < i) /\ (s \o r)[i] \in Range(r)
<1>1. /\ s \o r \in Seq(S) /\ Len(s \o r) = Len(s) + Len(r)
      /\ \A i \in 1 .. Len(s) + Len(r) :
           (s \o r)[i] = IF i <= Len(s) THEN s[i] ELSE r[i - Len(s)]
  BY ConcatProperties
<1>2. /\ Len(s) \in Nat /\ Len(r) \in Nat
      /\ DOMAIN s = 1 .. Len(s) /\ DOMAIN r = 1 .. Len(r)
      /\ DOMAIN (s \o r) = 1 .. Len(s) + Len(r)
  BY <1>1, LenProperties
<1>3. ASSUME NEW i \in 1 .. Len(s) + Len(r), ~(i <= Len(s))
      PROVE  i \in Nat /\ (\A j \in DOMAIN s : j < i) /\ (s \o r)[i] \in Range(r)
  <2>1. i - Len(s) \in DOMAIN r
    BY <1>2, <1>3
  <2>2. (s \o r)[i] = r[i - Len(s)]
    BY <1>1, <1>3
  <2>3. i \in Nat /\ \A j \in DOMAIN s : j < i
    BY <1>2, <1>3
  <2> QED
    BY <2>1, <2>2, <2>3 DEF Range
<1>4. ASSUME NEW i \in 1 .. Len(s) + Len(r), i <= Len(s)
      PROVE  i \in DOMAIN s /\ (s \o r)[i] = s[i]
  BY <1>1, <1>2, <1>4
<1> QED
  BY <1>2, <1>3, <1>4

\* A message may be accepted if its sender's earlier ones were, and none of
\* them is on its way.
LEMMA AcceptOrder ==
  ASSUME OrderInv, StreamInv', CallTypes', UNCHANGED loopOf,
         NEW c \in Conns, NEW t \in Users \cup {"loop"}, NEW k \in 1 .. MaxCalls,
         accepted' = [accepted EXCEPT ![c] = @ \o Message(t, k)],
         k <= calls'[c], Past(c, t, k),
         \A m \in 1 .. MaxCalls : InQueue(c, t, m)' \/ InCall(c, t, m)' => t = "loop" \/ k <= m,
         \A d \in Conns : calls[d] <= calls'[d],
         \A l \in Loops : Shrinks(queue[l], queue'[l]),
         \A d \in Conns, u \in Users, m \in 1 .. MaxCalls : InCall(d, u, m)' => InCall(d, u, m)
  PROVE  OrderInv'
<1>1. /\ \A d \in Conns : calls[d] \in Nat /\ calls'[d] \in Nat /\ loopOf[d] \in Loops
      /\ \A d \in Conns : \A i \in DOMAIN accepted[d] : accepted[d][i].call \in Nat
      /\ accepted[c] \in Seq(Data)
  <2>1. ASSUME NEW d \in Conns, NEW i \in DOMAIN accepted[d]
        PROVE  accepted[d][i].call \in Nat
    <3>1. accepted[d] \in Seq(Data)
      BY DEF OrderInv, StreamInv, DataTypes
    <3>2. accepted[d][i] \in Data
      BY <3>1
    <3> QED
      BY <3>2, ConnAssumption DEF Data
  <2> QED
    BY <2>1, ConnAssumption DEF OrderInv, StreamInv, CallTypes, DataTypes
<1>2. /\ accepted'[c] = accepted[c] \o Message(t, k)
      /\ \A d \in Conns \ {c} : accepted'[d] = accepted[d]
  BY DEF OrderInv, StreamInv, DataTypes
<1>3. /\ \A i \in DOMAIN accepted'[c] :
           \/ i \in DOMAIN accepted[c] /\ accepted'[c][i] = accepted[c][i]
           \/ /\ i \in Nat /\ \A j \in DOMAIN accepted[c] : j < i
              /\ accepted'[c][i].from = t /\ accepted'[c][i].call = k
      /\ \A i \in DOMAIN accepted[c] : i \in Nat
  <2>1. Message(t, k) \in Seq(Data)
    BY MessageType
  <2>2. \A e \in Range(Message(t, k)) : e.from = t /\ e.call = k
    BY DEF Message, Range
  <2>3. ASSUME NEW s \in Seq(Data), NEW r \in Seq(Data)
        PROVE  /\ \A i \in DOMAIN s : i \in Nat
               /\ \A i \in DOMAIN (s \o r) :
                    \/ i \in DOMAIN s /\ (s \o r)[i] = s[i]
                    \/ i \in Nat /\ (\A j \in DOMAIN s : j < i) /\ (s \o r)[i] \in Range(r)
    BY ConcatElements
  <2>4. /\ \A i \in DOMAIN accepted[c] : i \in Nat
        /\ \A i \in DOMAIN accepted'[c] :
             \/ i \in DOMAIN accepted[c] /\ accepted'[c][i] = accepted[c][i]
             \/ /\ i \in Nat /\ \A j \in DOMAIN accepted[c] : j < i
                /\ accepted'[c][i] \in Range(Message(t, k))
    <3>1. \A i \in DOMAIN accepted[c] : i \in Nat
      BY <1>1, <2>1, <2>3
    <3>2. \A i \in DOMAIN (accepted[c] \o Message(t, k)) :
             \/ /\ i \in DOMAIN accepted[c]
                /\ (accepted[c] \o Message(t, k))[i] = accepted[c][i]
             \/ /\ i \in Nat /\ (\A j \in DOMAIN accepted[c] : j < i)
                /\ (accepted[c] \o Message(t, k))[i] \in Range(Message(t, k))
      BY <1>1, <2>1, <2>3, Zenon
    <3> QED
      BY <1>2, <3>1, <3>2
  <2> QED
    BY <2>2, <2>4
<1>4. ASSUME NEW u, NEW m \in Nat, Past(c, u, m), u = t => k <= m
      PROVE  Past(c, u, m)'
  BY <1>3, <1>4 DEF Past
<1>5. ASSUME NEW d \in Conns
      PROVE  AcceptedInOrder(d)'
  <2>1. CASE d = c
    <3>1. \A i \in DOMAIN accepted'[c] : accepted'[c][i].call <= calls'[c]
      BY <1>1, <1>3 DEF OrderInv, AcceptedInOrder
    <3>2. ASSUME NEW i \in DOMAIN accepted'[c], NEW j \in DOMAIN accepted'[c],
                 i < j, accepted'[c][i].from = accepted'[c][j].from
          PROVE  accepted'[c][i].call <= accepted'[c][j].call
      <4>1. CASE j \in DOMAIN accepted[c] /\ accepted'[c][j] = accepted[c][j]
        <5>1. i \in DOMAIN accepted[c] /\ accepted'[c][i] = accepted[c][i]
          BY <1>3, <3>2, <4>1
        <5> QED
          BY <3>2, <4>1, <5>1 DEF OrderInv, AcceptedInOrder
      <4>2. CASE accepted'[c][j].from = t /\ accepted'[c][j].call = k
        <5>1. k \in Nat
          BY ConnAssumption
        <5>2. CASE i \in DOMAIN accepted[c] /\ accepted'[c][i] = accepted[c][i]
          <6>1. accepted[c][i].from = t
            BY <3>2, <4>2, <5>2
          <6>2. accepted[c][i].call <= k
            BY <5>2, <6>1 DEF Past
          <6> QED
            BY <4>2, <5>2, <6>2
        <5>3. CASE accepted'[c][i].call = k
          BY <4>2, <5>1, <5>3
        <5> QED
          BY <1>3, <5>2, <5>3
      <4> QED
        BY <1>3, <4>1, <4>2
    <3>3. AcceptedInOrder(c)'
      BY <3>1, <3>2 DEF AcceptedInOrder
    <3> QED
      BY <2>1, <3>3
  <2>2. CASE d # c
    BY <1>1, <1>2, <2>2 DEF OrderInv, AcceptedInOrder
  <2> QED
    BY <2>1, <2>2
<1>6. ASSUME NEW d \in Conns, NEW u \in Users
      PROVE  InOrder(d, u)'
  <2>1. InOrder(d, u) /\ u # "loop"
    BY ConnAssumption DEF OrderInv
  <2>2. \A m \in 1 .. MaxCalls : InQueue(d, u, m)' => InQueue(d, u, m)
    BY <1>1 DEF InQueue, Shrinks
  <2>3. \A l \in Loops, m \in 1 .. MaxCalls :
          Send(d, u, m) \in Range(queue'[l]) => l = loopOf'[d]
    BY <2>1 DEF InOrder, Shrinks
  <2>4. ASSUME NEW m \in 1 .. MaxCalls, InQueue(d, u, m)' \/ InCall(d, u, m)'
        PROVE  m <= calls'[d] /\ Past(d, u, m)'
    <3>1. m <= calls[d] /\ Past(d, u, m)
      BY <2>1, <2>2, <2>4 DEF InOrder
    <3>2. m <= calls'[d]
      BY <1>1, <3>1, ConnAssumption
    <3>3. CASE d # c
      BY <1>2, <3>1, <3>2, <3>3 DEF Past
    <3>4. CASE d = c
      <4>1. u = t => k <= m
        BY <2>1, <2>4, <3>4
      <4> QED
        BY <1>4, <3>1, <3>2, <3>4, <4>1
    <3> QED
      BY <3>3, <3>4
  <2>5. \A m, n \in 1 .. MaxCalls :
          /\ InQueue(d, u, m)' /\ InCall(d, u, n)' => m <= n
          /\ Before(queue'[loopOf'[d]], Send(d, u, m), Send(d, u, n)) => m <= n
    BY <1>1, <2>1, <2>2 DEF InOrder, Shrinks
  <2> QED
    BY <2>3, <2>4, <2>5 DEF InOrder
<1> QED
  BY <1>5, <1>6 DEF OrderInv

\* sendInLoop accepts the whole message or nothing of it.
LEMMA SendAccepts ==
  ASSUME NEW c, NEW msg, NEW n, SendInLoop(c, msg, n)
  PROVE  UNCHANGED accepted \/ accepted' = [accepted EXCEPT ![c] = @ \o msg]
BY DEF SendInLoop, dataVars

\* The calls on a connection are counted, and its loop is a loop.
LEMMA CallsTyped ==
  ASSUME OrderInv
  PROVE  \A c \in Conns : calls[c] \in Nat /\ calls[c] \in 0 .. MaxCalls /\ loopOf[c] \in Loops
BY ConnAssumption DEF OrderInv, StreamInv, CallTypes

\* A queued send that is run keeps the order.
LEMMA QueuedSendOrder ==
  ASSUME OrderInv, NEW l \in Loops, NEW c \in Conns, NEW n \in 0 .. Units, QueuedSend(l, c, n)
  PROVE  OrderInv'
<1>1. StreamInv /\ StreamInv' /\ CallTypes
  BY SendsKeepStream DEF OrderInv
<1>2. PICK u \in Users, k \in 1 .. MaxCalls :
        /\ Take(l, Send(c, u, k))
        /\ UNCHANGED accepted \/ accepted' = [accepted EXCEPT ![c] = @ \o Message(u, k)]
        /\ UNCHANGED <<callVars, loopOf>>
  BY SendAccepts DEF QueuedSend, Send, dataVars
<1>3. /\ queue' \in [Loops -> Seq(AnyTask)]
      /\ queue'[l] = Tail(queue[l])
      /\ \A m \in Loops : Shrinks(queue[m], queue'[m])
  BY <1>1, <1>2, TakeShrinks
<1>4. CallTypes'
  BY <1>1, <1>2, <1>3 DEF CallTypes, InMethod, callVars
<1>5. /\ \A d \in Conns : calls[d] <= calls'[d]
      /\ \A d \in Conns, v \in Users, m \in 1 .. MaxCalls : InCall(d, v, m)' => InCall(d, v, m)
  BY <1>2, CallsTyped DEF callVars, InCall
<1>6. CASE UNCHANGED accepted
  BY <1>1, <1>2, <1>3, <1>4, <1>5, <1>6, QuietOrder
<1>7. CASE accepted' = [accepted EXCEPT ![c] = @ \o Message(u, k)]
  <2>1. queue[l] \in Seq(AnyTask) /\ queue[l] # <<>> /\ Head(queue[l]) = Send(c, u, k)
    BY <1>1, <1>2 DEF CallTypes, Take
  <2>2. Send(c, u, k) \in Range(queue[l])
    BY <2>1, RangeTail
  <2>3. InOrder(c, u)
    BY DEF OrderInv
  <2>4. l = loopOf[c] /\ InQueue(c, u, k)
    BY <2>2, <2>3 DEF InOrder, InQueue
  <2>5. k <= calls'[c] /\ Past(c, u, k)
    BY <1>2, <2>3, <2>4 DEF InOrder, callVars
  <2>6. ASSUME NEW m \in 1 .. MaxCalls, InQueue(c, u, m)' \/ InCall(c, u, m)'
        PROVE  k <= m
    <3>1. CASE InQueue(c, u, m)'
      <4>1. Send(c, u, m) \in Range(Tail(queue[l]))
        BY <1>2, <1>3, <2>4, <3>1 DEF InQueue
      <4>2. Before(queue[l], Send(c, u, k), Send(c, u, m))
        BY <2>1, <4>1, BeforeTail
      <4> QED
        BY <2>3, <2>4, <4>2 DEF InOrder
    <3>2. CASE InCall(c, u, m)'
      BY <1>5, <2>3, <2>4, <3>2 DEF InOrder
    <3> QED
      BY <2>6, <3>1, <3>2
  <2> QED
    BY <1>1, <1>2, <1>3, <1>4, <1>5, <1>7, <2>5, <2>6, AcceptOrder
<1> QED
  BY <1>2, <1>6, <1>7

\* A send in the loop keeps the order.
LEMMA SendHereOrder ==
  ASSUME OrderInv, NEW c \in Conns, NEW n \in 0 .. Units, SendHere(c, n)
  PROVE  OrderInv'
<1>1. StreamInv /\ StreamInv' /\ CallTypes
  BY SendsKeepStream DEF OrderInv
<1>2. /\ calls[c] < MaxCalls /\ calls' = [calls EXCEPT ![c] = @ + 1]
      /\ \/ UNCHANGED accepted
         \/ accepted' = [accepted EXCEPT ![c] = @ \o Message("loop", calls[c] + 1)]
      /\ UNCHANGED <<loopOf, queue, call>>
  BY SendAccepts DEF SendHere, CountCall, loopVars
<1>3. CallTypes' /\ \A m \in Loops : Shrinks(queue[m], queue'[m])
  BY <1>1, <1>2, SameShrinks DEF CallTypes, InMethod
<1>4. calls'[c] = calls[c] + 1 /\ calls[c] + 1 \in 1 .. MaxCalls
  BY <1>1, <1>2, ConnAssumption DEF StreamInv
<1>5. /\ \A d \in Conns : calls[d] <= calls'[d]
      /\ \A d \in Conns, v \in Users, m \in 1 .. MaxCalls : InCall(d, v, m)' => InCall(d, v, m)
  BY <1>1, <1>2, CallsTyped DEF StreamInv, InCall
<1>6. CASE UNCHANGED accepted
  BY <1>1, <1>2, <1>3, <1>5, <1>6, QuietOrder
<1>7. CASE accepted' = [accepted EXCEPT ![c] = @ \o Message("loop", calls[c] + 1)]
  <2>1. Past(c, "loop", calls[c] + 1)
    <3>1. ASSUME NEW j \in DOMAIN accepted[c]
          PROVE  accepted[c][j].call <= calls[c] + 1
      <4>1. accepted[c] \in Seq(Data)
        BY <1>1 DEF StreamInv, DataTypes
      <4>2. accepted[c][j] \in Data
        BY <4>1
      <4>3. accepted[c][j].call \in Nat /\ accepted[c][j].call <= calls[c]
        BY <4>2, ConnAssumption DEF Data, OrderInv, AcceptedInOrder
      <4> QED
        BY <4>3, CallsTyped
    <3> QED
      BY <3>1 DEF Past
  <2>2. calls[c] + 1 <= calls'[c]
    BY <1>4, CallsTyped
  <2> QED
    BY <1>1, <1>2, <1>3, <1>4, <1>5, <1>7, <2>1, <2>2, AcceptOrder
<1> QED
  BY <1>2, <1>6, <1>7

-----------------------------------------------------------------------------
(* The calls of the users.                                                 *)

\* How the steps below show that what the users' calls do not touch stays.
LEMMA UserOrder ==
  ASSUME OrderInv, StreamInv', CallTypes', UNCHANGED <<loopOf, accepted>>,
         \A c \in Conns : calls[c] <= calls'[c],
         \A c \in Conns, u \in Users : InOrder(c, u)'
  PROVE  OrderInv'
<1>1. ASSUME NEW c \in Conns, NEW i \in DOMAIN accepted[c]
      PROVE  accepted[c][i].call <= calls'[c]
  <2>1. accepted[c] \in Seq(Data)
    BY DEF OrderInv, StreamInv, DataTypes
  <2>2. accepted[c][i] \in Data
    BY <2>1
  <2>3. accepted[c][i].call \in Nat /\ accepted[c][i].call <= calls[c]
    BY <2>2, ConnAssumption DEF Data, OrderInv, AcceptedInOrder
  <2>4. calls[c] \in Nat /\ calls'[c] \in Nat
    BY ConnAssumption DEF OrderInv, StreamInv
  <2> QED
    BY <2>3, <2>4
<1>2. \A c \in Conns : AcceptedInOrder(c)'
  BY <1>1 DEF OrderInv, AcceptedInOrder
<1> QED
  BY <1>2 DEF OrderInv

\* A call that begins in another thread keeps the order: its number is the
\* highest so far.
LEMMA UserTestsOrder ==
  ASSUME OrderInv, NEW u \in Users, NEW c \in Conns, NEW op \in UserOps, UserTests(u, c, op)
  PROVE  OrderInv'
<1>1. /\ calls[c] < MaxCalls /\ calls' = [calls EXCEPT ![c] = @ + 1]
      /\ call' = [call EXCEPT ![u] = Calling(u, c, op, calls[c] + 1, op = "send")]
      /\ UNCHANGED <<loopOf, queue, accepted, dataVars>>
  BY DEF UserTests, CountCall, Calling, loopVars, dataVars
<1>2. StreamInv /\ CallTypes /\ StreamInv'
  BY OthersKeepStream DEF OrderInv, UserTests
<1>3. calls'[c] = calls[c] + 1 /\ calls[c] + 1 \in 1 .. MaxCalls /\ calls[c] \in Nat
  BY <1>1, <1>2, ConnAssumption DEF StreamInv
<1>4. /\ call'[u] = Calling(u, c, op, calls[c] + 1, op = "send")
      /\ \A v \in Users \ {u} : call'[v] = call[v]
      /\ call' = [v \in Users |-> call'[v]]
  BY <1>1, <1>2 DEF CallTypes
<1>5. CallTypes'
  <2>1. InMethod(u)'
    BY <1>3, <1>4 DEF InMethod
  <2>2. \A v \in Users \ {u} : call'[v] = NoCall \/ InMethod(v)'
    BY <1>2, <1>4 DEF CallTypes, InMethod
  <2> QED
    BY <1>1, <1>2, <1>4, <2>1, <2>2 DEF CallTypes
<1>6. \A d \in Conns : calls[d] <= calls'[d] /\ calls[d] \in Nat /\ calls'[d] \in Nat
  BY <1>1, <1>2, CallsTyped DEF StreamInv
<1>7. ASSUME NEW d \in Conns, NEW v \in Users, NEW k \in 1 .. MaxCalls, InCall(d, v, k)'
      PROVE  InCall(d, v, k) \/ (d = c /\ v = u /\ k = calls[c] + 1)
  <2>1. CASE v = u
    <3>1. PICK b \in BOOLEAN : call'[u] = Calling(u, d, "send", k, b)
      BY <1>7, <2>1 DEF InCall
    <3> QED
      BY <1>4, <2>1, <3>1, CallNamesIt
  <2>2. CASE v # u
    BY <1>4, <1>7, <2>2 DEF InCall
  <2> QED
    BY <2>1, <2>2
<1>8. ASSUME NEW d \in Conns, NEW v \in Users
      PROVE  InOrder(d, v)'
  <2>1. InOrder(d, v) /\ AcceptedInOrder(d)
    BY DEF OrderInv
  <2>2. \A k \in 1 .. MaxCalls : InQueue(d, v, k)' = InQueue(d, v, k) /\ Past(d, v, k)' = Past(d, v, k)
    BY <1>1 DEF InQueue, Past
  <2>3. Past(c, u, calls[c] + 1)
    <3>1. ASSUME NEW j \in DOMAIN accepted[c]
          PROVE  accepted[c][j].call <= calls[c] + 1
      <4>1. accepted[c] \in Seq(Data)
        BY <1>2 DEF StreamInv, DataTypes
      <4>2. accepted[c][j] \in Data
        BY <4>1
      <4>3. accepted[c][j].call \in Nat /\ accepted[c][j].call <= calls[c]
        BY <4>2, ConnAssumption DEF Data, OrderInv, AcceptedInOrder
      <4> QED
        BY <1>3, <4>3
    <3> QED
      BY <3>1 DEF Past
  <2>4. ASSUME NEW k \in 1 .. MaxCalls, InQueue(d, v, k)' \/ InCall(d, v, k)'
        PROVE  k <= calls'[d] /\ Past(d, v, k)'
    <3>1. CASE InQueue(d, v, k) \/ InCall(d, v, k)
      <4>1. k <= calls[d] /\ Past(d, v, k)
        BY <2>1, <3>1 DEF InOrder
      <4> QED
        BY <1>6, <2>2, <4>1, ConnAssumption
    <3>2. CASE d = c /\ v = u /\ k = calls[c] + 1
      BY <1>3, <2>2, <2>3, <3>2
    <3> QED
      BY <1>7, <2>2, <2>4, <3>1, <3>2
  <2>5. ASSUME NEW k \in 1 .. MaxCalls, NEW m \in 1 .. MaxCalls,
               InQueue(d, v, k)', InCall(d, v, m)'
        PROVE  k <= m
    <3>1. InQueue(d, v, k)
      BY <2>2, <2>5
    <3>2. CASE InCall(d, v, m)
      BY <2>1, <3>1, <3>2 DEF InOrder
    <3>3. CASE d = c /\ v = u /\ m = calls[c] + 1
      <4>1. k <= calls[c]
        BY <2>1, <3>1, <3>3 DEF InOrder
      <4> QED
        BY <1>3, <3>3, <4>1
    <3> QED
      BY <1>7, <2>5, <3>2, <3>3
  <2>6. \A k, m \in 1 .. MaxCalls :
          Before(queue'[loopOf'[d]], Send(d, v, k), Send(d, v, m)) => k <= m
    BY <1>1, <2>1 DEF InOrder
  <2>7. \A l \in Loops, k \in 1 .. MaxCalls :
          Send(d, v, k) \in Range(queue'[l]) => l = loopOf'[d]
    BY <1>1, <2>1 DEF InOrder
  <2> QED
    BY <2>4, <2>5, <2>6, <2>7 DEF InOrder
<1> QED
  BY <1>1, <1>2, <1>5, <1>6, <1>8, UserOrder

\* A call keeps its name while it stores the state.
LEMMA CallStored ==
  ASSUME NEW o, NEW c, NEW m, NEW b, NEW t, NEW r,
         r = [op |-> o, conn |-> c, msg |-> m, stored |-> b]
  PROVE  [r EXCEPT !.stored = t] = [op |-> o, conn |-> c, msg |-> m, stored |-> t]
OBVIOUS

\* The store of a call to shutdown or forceClose keeps the order.
LEMMA UserStoresOrder ==
  ASSUME OrderInv, NEW u \in Users, UserStores(u)
  PROVE  OrderInv'
<1>1. /\ call[u].op # "none"
      /\ call' = [call EXCEPT ![u].stored = TRUE]
      /\ UNCHANGED <<loopOf, queue, accepted, calls, dataVars>>
  BY DEF UserStores, loopVars, dataVars
<1>2. StreamInv /\ CallTypes /\ StreamInv'
  BY <1>1, OthersKeepStream DEF OrderInv
<1>3. PICK c \in Conns, op \in UserOps, k \in 1 .. MaxCalls, b \in BOOLEAN :
        call[u] = Calling(u, c, op, k, b)
  BY <1>1, <1>2 DEF CallTypes, NoCall, InMethod
<1>4. PICK a \in BOOLEAN : call' = [call EXCEPT ![u].stored = a]
  BY <1>1
<1>5. /\ call'[u] = Calling(u, c, op, k, a)
      /\ \A v \in Users \ {u} : call'[v] = call[v]
      /\ call' = [v \in Users |-> call'[v]]
  <2>1. [call[u] EXCEPT !.stored = a] = Calling(u, c, op, k, a)
    BY <1>3, CallStored DEF Calling
  <2>2. /\ call'[u] = [call[u] EXCEPT !.stored = a]
        /\ \A v \in Users \ {u} : call'[v] = call[v]
        /\ call' = [v \in Users |-> call'[v]]
    BY <1>2, <1>4 DEF CallTypes
  <2> QED
    BY <2>1, <2>2
<1>6. CallTypes'
  <2>1. InMethod(u)'
    BY <1>5 DEF InMethod
  <2>2. \A v \in Users \ {u} : call'[v] = NoCall \/ InMethod(v)'
    BY <1>2, <1>5 DEF CallTypes, InMethod
  <2> QED
    BY <1>1, <1>2, <1>5, <2>1, <2>2 DEF CallTypes
<1>7. ASSUME NEW d \in Conns, NEW v \in Users, NEW m \in 1 .. MaxCalls, InCall(d, v, m)'
      PROVE  InCall(d, v, m)
  <2>1. CASE v = u
    <3>1. PICK e \in BOOLEAN : call'[u] = Calling(u, d, "send", m, e)
      BY <1>7, <2>1 DEF InCall
    <3>2. Calling(u, c, op, k, a) = Calling(u, d, "send", m, e)
      BY <1>5, <3>1
    <3>3. d = c /\ m = k /\ op = "send"
      BY <3>2, CallNamesIt
    <3> QED
      BY <1>3, <2>1, <3>3 DEF InCall
  <2>2. CASE v # u
    BY <1>5, <1>7, <2>2 DEF InCall
  <2> QED
    BY <2>1, <2>2
<1>8. /\ \A d \in Conns : calls[d] <= calls'[d]
      /\ \A m \in Loops : Shrinks(queue[m], queue'[m])
  BY <1>1, CallsTyped, SameShrinks
<1> QED
  BY <1>1, <1>2, <1>6, <1>7, <1>8, QuietOrder

\* A call that queues its task keeps the order: the earlier sends of the
\* thread are ahead of it.
LEMMA UserQueuesOrder ==
  ASSUME OrderInv, NEW u \in Users, UserQueues(u)
  PROVE  OrderInv'
<1>1. /\ call[u].op # "none"
      /\ call' = [call EXCEPT ![u] = NoCall]
      /\ UNCHANGED <<loopOf, accepted, calls, dataVars>>
  BY DEF UserQueues, dataVars
<1>2. StreamInv /\ CallTypes /\ StreamInv'
  BY <1>1, OthersKeepStream DEF OrderInv
<1>3. PICK c \in Conns, op \in UserOps, k \in 1 .. MaxCalls, b \in BOOLEAN :
        call[u] = Calling(u, c, op, k, b)
  BY <1>1, <1>2 DEF CallTypes, NoCall, InMethod
<1>4. Enqueue(loopOf[c], IF op = "send" THEN Send(c, u, k) ELSE Task(op, c))
  <2>1. call[u].op = op /\ call[u].conn = c /\ call[u].msg = Message(u, k)
    BY <1>3 DEF Calling
  <2> QED
    BY <2>1 DEF UserQueues, Send
<1>5. /\ call'[u] = NoCall
      /\ \A v \in Users \ {u} : call'[v] = call[v]
      /\ call' = [v \in Users |-> call'[v]]
  BY <1>1, <1>2 DEF CallTypes
<1>6. ASSUME NEW d \in Conns, NEW v \in Users, NEW m \in 1 .. MaxCalls, InCall(d, v, m)'
      PROVE  InCall(d, v, m) /\ v # u
  <2>1. v # u
    BY <1>5, <1>6 DEF InCall, NoCall, Calling
  <2> QED
    BY <1>5, <1>6, <2>1 DEF InCall
<1>7. \A d \in Conns : calls[d] <= calls'[d] /\ calls[d] \in Nat /\ loopOf[d] \in Loops
  BY <1>1, CallsTyped
<1>8. ASSUME queue' \in [Loops -> Seq(AnyTask)]
      PROVE  CallTypes'
  BY <1>1, <1>2, <1>5, <1>8 DEF CallTypes, InMethod
<1>9. CASE op # "send"
  <2>1. op \in StrongKinds \cup {"shutdown"} /\ Enqueue(loopOf[c], Task(op, c))
    BY <1>4, <1>9, ConnAssumption DEF StrongKinds
  <2>2. /\ queue' \in [Loops -> Seq(AnyTask)]
        /\ \A m \in Loops : Shrinks(queue[m], queue'[m])
    BY <1>2, <1>7, <2>1, TaskShrinks
  <2> QED
    BY <1>1, <1>2, <1>6, <1>7, <1>8, <2>2, QuietOrder
<1>10. CASE op = "send"
  <2>1. Send(c, u, k) \in AnyTask /\ Enqueue(loopOf[c], Send(c, u, k)) /\ InCall(c, u, k)
    BY <1>3, <1>4, <1>10 DEF AnyTask, InCall
  <2>2. /\ queue' \in [Loops -> Seq(AnyTask)]
        /\ queue[loopOf[c]] \in Seq(AnyTask)
        /\ queue'[loopOf[c]] = Append(queue[loopOf[c]], Send(c, u, k))
        /\ Range(queue'[loopOf[c]]) = Range(queue[loopOf[c]]) \cup {Send(c, u, k)}
        /\ \A m \in Loops : m # loopOf[c] => queue'[m] = queue[m]
    BY <1>2, <1>7, <2>1, QueuedTask
  <2>3. ASSUME NEW d \in Conns, NEW v \in Users
        PROVE  InOrder(d, v)'
    <3>1. InOrder(d, v)
      BY DEF OrderInv
    <3>2. ASSUME NEW l \in Loops, NEW m \in 1 .. MaxCalls, Send(d, v, m) \in Range(queue'[l])
          PROVE  \/ Send(d, v, m) \in Range(queue[l])
                 \/ l = loopOf[c] /\ d = c /\ v = u /\ m = k
      <4>1. CASE l = loopOf[c]
        <5>1. Send(d, v, m) \in Range(queue[l]) \/ Send(d, v, m) = Send(c, u, k)
          BY <2>2, <3>2, <4>1
        <5>2. Send(d, v, m) = Send(c, u, k) => d = c /\ v = u /\ m = k
          BY SendNamesIt
        <5> QED
          BY <4>1, <5>1, <5>2
      <4>2. CASE l # loopOf[c]
        BY <2>2, <3>2, <4>2
      <4> QED
        BY <4>1, <4>2
    <3>3. \A l \in Loops, m \in 1 .. MaxCalls :
            Send(d, v, m) \in Range(queue'[l]) => l = loopOf'[d]
      BY <1>1, <3>1, <3>2 DEF InOrder
    <3>4. \A m \in 1 .. MaxCalls :
            InQueue(d, v, m)' => InQueue(d, v, m) \/ (d = c /\ v = u /\ m = k)
      BY <1>1, <1>7, <3>2 DEF InQueue
    <3>5. \A m \in 1 .. MaxCalls : Past(d, v, m)' = Past(d, v, m)
      BY <1>1 DEF Past
    <3>6. ASSUME NEW m \in 1 .. MaxCalls, InQueue(d, v, m)' \/ InCall(d, v, m)'
          PROVE  m <= calls'[d] /\ Past(d, v, m)'
      <4>1. InQueue(d, v, m) \/ InCall(d, v, m)
        BY <1>6, <2>1, <3>4, <3>6
      <4> QED
        BY <1>1, <3>1, <3>5, <4>1 DEF InOrder
    <3>7. ASSUME NEW m \in 1 .. MaxCalls, NEW n \in 1 .. MaxCalls,
                 InQueue(d, v, m)', InCall(d, v, n)'
          PROVE  m <= n
      <4>1. InCall(d, v, n) /\ v # u
        BY <1>6, <3>7
      <4> QED
        BY <3>1, <3>4, <3>7, <4>1 DEF InOrder
    <3>8. ASSUME NEW m \in 1 .. MaxCalls, NEW n \in 1 .. MaxCalls,
                 Before(queue'[loopOf'[d]], Send(d, v, m), Send(d, v, n))
          PROVE  m <= n
      <4>1. CASE Before(queue[loopOf[d]], Send(d, v, m), Send(d, v, n))
        BY <3>1, <4>1 DEF InOrder
      <4>2. CASE ~Before(queue[loopOf[d]], Send(d, v, m), Send(d, v, n))
        <5>1. loopOf[d] = loopOf[c]
          BY <1>1, <1>7, <2>2, <3>8, <4>2
        <5>2. Before(Append(queue[loopOf[c]], Send(c, u, k)), Send(d, v, m), Send(d, v, n))
          BY <1>1, <2>2, <3>8, <5>1
        <5>3. Send(d, v, n) = Send(c, u, k) /\ Send(d, v, m) \in Range(queue[loopOf[c]])
          BY <2>1, <2>2, <4>2, <5>1, <5>2, BeforeAppend
        <5>4. d = c /\ v = u /\ n = k
          BY <5>3, SendNamesIt
        <5>5. InQueue(c, u, m)
          BY <5>3, <5>4 DEF InQueue
        <5> QED
          BY <2>1, <3>1, <5>4, <5>5 DEF InOrder
      <4> QED
        BY <4>1, <4>2
    <3> QED
      BY <3>3, <3>6, <3>7, <3>8 DEF InOrder
  <2> QED
    BY <1>1, <1>2, <1>7, <1>8, <2>2, <2>3, UserOrder
<1> QED
  BY <1>9, <1>10

-----------------------------------------------------------------------------
(* Every step.                                                             *)

\* A step that accepts nothing and queues no message.
LEMMA QuietStep ==
  ASSUME OrderInv, StreamInv', UNCHANGED <<loopOf, accepted, call>>,
         UNCHANGED calls \/ \E c \in Conns : CountCall(c),
         \/ UNCHANGED queue
         \/ \E l \in Loops : \E t : Take(l, t)
         \/ \E l \in Loops, c \in Conns, kind \in StrongKinds \cup {"shutdown"} :
              Enqueue(l, Task(kind, c))
  PROVE  OrderInv'
<1>1. CallTypes
  BY DEF OrderInv
<1>2. /\ queue' \in [Loops -> Seq(AnyTask)]
      /\ \A m \in Loops : Shrinks(queue[m], queue'[m])
  <2>1. CASE UNCHANGED queue
    BY <1>1, <2>1, SameShrinks DEF CallTypes
  <2>2. CASE \E l \in Loops : \E t : Take(l, t)
    BY <1>1, <2>2, TakeShrinks
  <2>3. CASE \E l \in Loops, c \in Conns, kind \in StrongKinds \cup {"shutdown"} :
               Enqueue(l, Task(kind, c))
    BY <1>1, <2>3, TaskShrinks
  <2> QED
    BY <2>1, <2>2, <2>3
<1>3. CallTypes'
  BY <1>1, <1>2 DEF CallTypes, InMethod
<1>4. \A c \in Conns : calls[c] <= calls'[c]
  BY CallsTyped DEF CountCall, OrderInv, StreamInv
<1>5. \A c \in Conns, u \in Users, k \in 1 .. MaxCalls : InCall(c, u, k)' => InCall(c, u, k)
  BY DEF InCall
<1> QED
  BY <1>2, <1>3, <1>4, <1>5, QuietOrder

\* A task that is run keeps the order.
LEMMA RunTaskOrder ==
  ASSUME OrderInv, StreamInv', NEW l \in Loops, RunTask(l)
  PROVE  OrderInv'
<1>1. PICK c \in Conns :
        \/ \E addOk \in BOOLEAN : ConnectEstablished(l, c, addOk)
        \/ ConnectDestroyed(l, c)
        \/ ForceCloseInLoop(l, c)
        \/ QueuedShutdown(l, c)
        \/ \E n \in 0 .. Units : QueuedSend(l, c, n)
  BY DEF RunTask
<1>2. CASE \E n \in 0 .. Units : QueuedSend(l, c, n)
  BY <1>2, QueuedSendOrder
<1>3. CASE ~\E n \in 0 .. Units : QueuedSend(l, c, n)
  <2>1. UNCHANGED <<loopOf, accepted, call, calls>>
    BY <1>1, <1>3 DEF ConnectEstablished, ConnectDestroyed, ForceCloseInLoop,
       QueuedShutdown, callVars, dataVars
  <2>2. \E t : Take(l, t)
    BY <1>1, <1>3 DEF ConnectEstablished, ConnectDestroyed, ForceCloseInLoop,
       QueuedShutdown
  <2> QED
    BY <2>1, <2>2, QuietStep
<1> QED
  BY <1>2, <1>3

\* What the owner has to serve are connections.
LEMMA ClosingStays ==
  ASSUME closing \in Seq(Conns), [Next]_vars
  PROVE  closing' \in Seq(Conns)
<1>1. \A c \in Conns : Append(closing, c) \in Seq(Conns)
  BY AppendProperties
<1>2. closing # <<>> => Tail(closing) \in Seq(Conns)
  BY HeadTailProperties
<1>3. \A c \in Conns : HandleClose(c) => closing' \in Seq(Conns)
  BY <1>1 DEF HandleClose, CloseCallback, lifeVars
<1>4. ASSUME NEW l \in Loops, LoopStep(l)
      PROVE  closing' \in Seq(Conns)
  <2>1. CASE RunTask(l)
    BY <1>1, <1>3, <2>1 DEF RunTask, ConnectEstablished, ConnectDestroyed,
       ForceCloseInLoop, QueuedShutdown, QueuedSend, lifeVars
  <2>2. CASE ~RunTask(l)
    BY <1>3, <1>4, <2>2 DEF LoopStep, CallbackReturns, HandleError, HandleRead,
       HandleWrite, lifeVars
  <2> QED
    BY <2>1, <2>2
<1>5. ASSUME ~\E l \in Loops : LoopStep(l), ~OwnerRemoves
      PROVE  UNCHANGED closing
  BY <1>5 DEF Next, Poll, HereStep, SendHere, ShutdownHere, ForceCloseHere, PeerSends,
     PeerEnds, OwnerCreates, OwnerStops, UserStep, UserTests, UserStores, UserQueues,
     AllGone, vars, lifeVars
<1> QED
  BY <1>2, <1>4, <1>5 DEF OwnerRemoves

Ordered == OrderInv /\ closing \in Seq(Conns)

\* Every step keeps the order.
LEMMA NextOrder ==
  ASSUME OrderInv, closing \in Seq(Conns), [Next]_vars
  PROVE  OrderInv'
<1>1. StreamInv'
  BY NextKeepsStream DEF OrderInv
<1>2. ASSUME NEW l \in Loops, LoopStep(l)
      PROVE  OrderInv'
  <2>1. CASE RunTask(l)
    BY <1>1, <2>1, RunTaskOrder
  <2>2. CASE ~RunTask(l)
    <3>1. UNCHANGED <<loopOf, queue, accepted, call, calls>>
      BY <1>2, <2>2 DEF LoopStep, CallbackReturns, HandleError, HandleRead,
         HandleWrite, loopVars, callVars, dataVars
    <3> QED
      BY <1>1, <3>1, QuietStep
  <2> QED
    BY <2>1, <2>2
<1>3. ASSUME NEW c \in Conns, HereStep(c)
      PROVE  OrderInv'
  <2>1. CASE \E n \in 0 .. Units : SendHere(c, n)
    BY <2>1, SendHereOrder
  <2>2. CASE ShutdownHere(c)
    <3>1. CountCall(c) /\ UNCHANGED <<loopOf, queue, accepted, call>>
      BY <2>2 DEF ShutdownHere, loopVars, dataVars
    <3> QED
      BY <1>1, <3>1, QuietStep
  <2>3. CASE ForceCloseHere(c)
    <3>1. /\ CountCall(c) /\ UNCHANGED <<loopOf, accepted, call>>
          /\ Enqueue(loopOf[c], Task("forceClose", c))
      BY <2>3 DEF ForceCloseHere, dataVars
    <3>2. loopOf[c] \in Loops /\ "forceClose" \in StrongKinds
      BY CallsTyped DEF StrongKinds
    <3> QED
      BY <1>1, <3>1, <3>2, QuietStep
  <2> QED
    BY <1>3, <2>1, <2>2, <2>3 DEF HereStep
<1>4. ASSUME NEW c \in Conns,
             (\E canWrite \in BOOLEAN : Poll(c, canWrite)) \/ PeerSends(c) \/ PeerEnds(c)
      PROVE  OrderInv'
  <2>1. UNCHANGED <<loopOf, queue, accepted, call, calls>>
    BY <1>4 DEF Poll, PeerSends, PeerEnds, loopVars, callVars, dataVars
  <2> QED
    BY <1>1, <2>1, QuietStep
<1>5. ASSUME OwnerRemoves \/ \E c \in Conns : OwnerCreates(c) \/ OwnerStops(c)
      PROVE  OrderInv'
  <2>1. UNCHANGED <<loopOf, accepted, call, calls>>
    BY <1>5 DEF OwnerRemoves, OwnerCreates, OwnerStops, callVars, dataVars
  <2>2. closing # <<>> => Head(closing) \in Conns
    BY HeadTailProperties
  <2>3. \/ UNCHANGED queue
        \/ \E c \in Conns, kind \in {"established", "destroyed"} :
             Enqueue(loopOf[c], Task(kind, c))
    BY <1>5, <2>2 DEF OwnerRemoves, OwnerCreates, OwnerStops
  <2>4. \/ UNCHANGED queue
        \/ \E l \in Loops, c \in Conns, kind \in StrongKinds \cup {"shutdown"} :
             Enqueue(l, Task(kind, c))
    BY <2>3, CallsTyped DEF StrongKinds
  <2> QED
    BY <1>1, <2>1, <2>4, QuietStep
<1>6. ASSUME NEW u \in Users, UserStep(u)
      PROVE  OrderInv'
  BY <1>6, UserTestsOrder, UserStoresOrder, UserQueuesOrder DEF UserStep
<1>7. CASE UNCHANGED vars
  <2>1. UNCHANGED <<loopOf, queue, accepted, call, calls>>
    BY <1>7 DEF vars, loopVars, callVars, dataVars
  <2> QED
    BY <1>1, <2>1, QuietStep
<1> QED
  BY <1>2, <1>3, <1>4, <1>5, <1>6, <1>7 DEF Next, AllGone

\* What one thread sends on a connection is accepted in the order of its calls,
\* whether it sends from the connection's loop or queues sendInLoop from any
\* number of other threads: the queue, the calls still on their way to it and
\* what was accepted stay in one order for each sender.
THEOREM SendersKeepOrder == SafetySpec => []SenderOrder
<1>1. Init => Ordered
  <2>1. Init => StreamInv
    <3>1. <<>> \in Seq(Data) /\ <<>> \o <<>> = <<>>
      BY ConcatEmptySeq
    <3> QED
      BY <3>1, ConnAssumption DEF Init, StreamInv, DataTypes, StreamIntact
  <2>2. ASSUME Init
        PROVE  CallTypes /\ closing \in Seq(Conns)
    BY <2>2 DEF Init, CallTypes
  <2>3. ASSUME Init, NEW c \in Conns
        PROVE  AcceptedInOrder(c) /\ \A u \in Users : InOrder(c, u)
    <3>1. /\ accepted[c] = <<>> /\ loopOf[c] \in Loops
          /\ \A l \in Loops : queue[l] = <<>>
          /\ \A u \in Users : call[u] = NoCall
      BY <2>3 DEF Init
    <3>2. DOMAIN <<>> = {} /\ Range(<<>>) = {}
      BY DEF Range
    <3>3. ASSUME NEW u \in Users, NEW k \in 1 .. MaxCalls, InCall(c, u, k)
          PROVE  FALSE
      <4>1. PICK b \in BOOLEAN : NoCall = Calling(u, c, "send", k, b)
        BY <3>1, <3>3 DEF InCall
      <4>2. NoCall.op = "none" /\ Calling(u, c, "send", k, b).op = "send"
        BY DEF NoCall, Calling
      <4> QED
        BY <4>1, <4>2
    <3> QED
      BY <3>1, <3>2, <3>3 DEF AcceptedInOrder, InOrder, InQueue, Before
  <2> QED
    BY <2>1, <2>2, <2>3 DEF OrderInv, Ordered
<1>2. Ordered /\ [Next]_vars => Ordered'
  BY NextOrder, ClosingStays DEF Ordered
<1>3. Ordered => SenderOrder
  BY DEF Ordered, OrderInv, AcceptedInOrder, SenderOrder
<1> QED
  BY <1>1, <1>2, <1>3, PTL DEF SafetySpec

=============================================================================
