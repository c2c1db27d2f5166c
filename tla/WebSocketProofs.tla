--------------------------- MODULE WebSocketProofs ---------------------------
(***************************************************************************)
(* Theorems about WebSocketSession and its Buffer.                         *)
(***************************************************************************)
EXTENDS WebSocketSession, FiniteSetTheorems, SequenceLemmas, TLAPS

\* ensureWritableBytes makes room for len bytes and leaves the content alone:
\* the early return of makeSpace is never taken when room is missing.
LEMMA EnsureWritableMakesRoom ==
  ASSUME NEW b, BufferOK(b), NEW len \in Nat
  PROVE  /\ BufferOK(EnsureWritable(b, len))
         /\ FirstByte(EnsureWritable(b, len)) = FirstByte(b)
         /\ NextByte(EnsureWritable(b, len)) = NextByte(b)
         /\ len <= Writable(EnsureWritable(b, len))
<1> DEFINE e == EnsureWritable(b, len)
<1> USE BufferAssumption
        DEF BufferOK, Buffers, FirstByte, NextByte, Writable, Readable, Prependable
<1>1. CASE len <= Writable(b)
  BY <1>1 DEF EnsureWritable
<1>2. CASE ~(len <= Writable(b)) /\ Writable(b) + Prependable(b) < len + CheapPrepend
  <2>1. e = [b EXCEPT !.size = b.writer + len]
    BY <1>2 DEF EnsureWritable, MakeSpace
  <2> QED  BY <1>2, <2>1
<1>3. CASE ~(len <= Writable(b)) /\ ~(Writable(b) + Prependable(b) < len + CheapPrepend)
  <2>1. ~(CheapPrepend >= b.reader)
    BY <1>3
  <2>2. e = [reader |-> CheapPrepend, writer |-> CheapPrepend + Readable(b),
             size |-> b.size, shift |-> FirstByte(b) - CheapPrepend]
    BY <1>3, <2>1 DEF EnsureWritable, MakeSpace
  <2> QED  BY <1>3, <2>1, <2>2
<1> QED  BY <1>1, <1>2, <1>3

\* append puts len bytes behind the content and leaves the content alone.
LEMMA AppendGrows ==
  ASSUME NEW b, BufferOK(b), NEW len \in Nat
  PROVE  /\ BufferOK(AppendBytes(b, len))
         /\ FirstByte(AppendBytes(b, len)) = FirstByte(b)
         /\ NextByte(AppendBytes(b, len)) = NextByte(b) + len
<1> DEFINE e == EnsureWritable(b, len)
<1> HIDE DEF e
<1>1. /\ BufferOK(e) /\ FirstByte(e) = FirstByte(b) /\ NextByte(e) = NextByte(b)
      /\ len <= Writable(e)
  BY EnsureWritableMakesRoom DEF e
<1>2. AppendBytes(b, len) = [e EXCEPT !.writer = @ + len]
  BY <1>1 DEF AppendBytes, HasWritten, e, Writable, BufferOK, Buffers
<1> QED
  BY <1>1, <1>2 DEF BufferOK, Buffers, FirstByte, NextByte, Writable

\* readFd leaves the content alone and puts n more bytes behind it, whether
\* they fit, make the vector grow or move the content down.
LEMMA ReadFdAppends ==
  ASSUME NEW b, BufferOK(b), NEW n \in Nat
  PROVE  /\ BufferOK(ReadFd(b, n))
         /\ FirstByte(ReadFd(b, n)) = FirstByte(b)
         /\ NextByte(ReadFd(b, n)) = NextByte(b) + n
<1>1. CASE n <= Writable(b)
  BY <1>1 DEF ReadFd, BufferOK, Buffers, FirstByte, NextByte, Writable
<1>2. CASE ~(n <= Writable(b))
  <2> DEFINE full == [b EXCEPT !.writer = b.size]
             rest == n - Writable(b)
  <2>1. /\ BufferOK(full) /\ rest \in Nat
        /\ FirstByte(full) = FirstByte(b) /\ NextByte(full) + rest = NextByte(b) + n
    BY <1>2 DEF BufferOK, Buffers, FirstByte, NextByte, Writable
  <2>2. ReadFd(b, n) = AppendBytes(full, rest)
    BY <1>2 DEF ReadFd
  <2> HIDE DEF full, rest
  <2> QED  BY <2>1, <2>2, AppendGrows
<1> QED  BY <1>1, <1>2

\* retrieve of what is there takes it from the front and from nowhere else.
LEMMA RetrieveConsumes ==
  ASSUME NEW b, BufferOK(b), NEW n \in Nat, n <= Readable(b)
  PROVE  /\ BufferOK(Retrieve(b, n))
         /\ FirstByte(Retrieve(b, n)) = FirstByte(b) + n
         /\ NextByte(Retrieve(b, n)) = NextByte(b)
BY BufferAssumption
   DEF BufferOK, Buffers, Retrieve, RetrieveAll, Readable, FirstByte, NextByte

-----------------------------------------------------------------------------
(* The frames of the stream.                                               *)

\* The size of a frame, and what decodePackage takes for it: the same unless
\* the frame is empty, that is, its second byte gives it the length 0.
LEMMA FrameSizes ==
  ASSUME NEW f \in Frames
  PROVE  /\ f.length \in Nat /\ HeaderSize(f) \in Nat \ {0} /\ FrameSize(f) \in Nat \ {0}
         /\ f.code > 0 => /\ HeaderSize(f) + f.length = FrameSize(f)
                          /\ MinHeader <= HeaderSize(f)
<1>1. f.length \in Nat /\ f.code \in 0 .. 127
  BY SessionAssumption
<1>2. CASE f.code = 0
  BY <1>1, <1>2 DEF HeaderSize, FrameSize, LengthBytes
<1>3. CASE f.code \in 1 .. 125
  BY <1>1, <1>3 DEF HeaderSize, FrameSize, LengthBytes, MinHeader
<1>4. CASE f.code = 126
  BY <1>1, <1>4 DEF HeaderSize, FrameSize, LengthBytes, MinHeader
<1>5. CASE f.code = 127
  BY <1>1, <1>5 DEF HeaderSize, FrameSize, LengthBytes, MinHeader
<1> QED  BY <1>1, <1>2, <1>3, <1>4, <1>5

\* decodePackage refuses exactly the lengths that are not in the shortest form.
LEMMA Illegals ==
  ASSUME NEW f \in Frames
  PROVE  Illegal(f) <=> ~Shortest(f)
<1>1. /\ f.length \in Nat /\ f.code \in 0 .. 127
      /\ f.code < 126 => f.code = f.length
      /\ f.code = 126 => f.length < 65536
  BY SessionAssumption
<1> QED  BY <1>1 DEF Illegal, Shortest

\* start says where the frames start.
LaidOut ==
  /\ stream \in Seq(Frames)
  /\ start \in Seq(Nat)
  /\ Len(start) = Len(stream) + 1
  /\ start[1] = RequestSize
  /\ \A i \in DOMAIN stream : start[i + 1] = start[i] + FrameSize(stream[i])
  /\ \A i, j \in DOMAIN start : i < j => start[i] < start[j]

\* Later frames start later.
LEMMA Ordered ==
  ASSUME LaidOut, NEW i \in DOMAIN start, NEW j \in DOMAIN start
  PROVE  /\ i \in Nat \ {0} /\ j \in Nat \ {0} /\ start[i] \in Nat /\ start[j] \in Nat
         /\ start[i] < start[j] <=> i < j
<1>1. i \in Nat \ {0} /\ j \in Nat \ {0} /\ start[i] \in Nat /\ start[j] \in Nat
  BY DEF LaidOut
<1>2. /\ i < j => start[i] < start[j]
      /\ j < i => start[j] < start[i]
      /\ i = j => start[i] = start[j]
  BY DEF LaidOut
<1> QED  BY <1>1, <1>2

\* The stream is laid out from the start, and every step leaves it so.
LEMMA LaidOutStays ==
  /\ Init => LaidOut
  /\ LaidOut /\ [Next]_vars => LaidOut'
<1>1. Init => LaidOut
  BY SessionAssumption DEF Init, LaidOut
<1>2. ASSUME LaidOut, NEW f \in Frames, ClientSends(f) PROVE LaidOut'
  <2> DEFINE last == Len(start)
             size == FrameSize(f)
  <2>1. size \in Nat \ {0}
    BY FrameSizes
  <2>2. /\ stream' = Append(stream, f) /\ start' = Append(start, start[last] + size)
        /\ stream \in Seq(Frames) /\ start \in Seq(Nat)
        /\ last = Len(stream) + 1 /\ last \in DOMAIN start /\ start[last] \in Nat
    BY <1>2 DEF ClientSends, LaidOut
  <2> HIDE DEF size
  <2>3. /\ stream' \in Seq(Frames) /\ start' \in Seq(Nat)
        /\ Len(start') = Len(stream') + 1 /\ Len(start') = last + 1
        /\ \A i \in DOMAIN start : start'[i] = start[i]
        /\ start'[last + 1] = start[last] + size
        /\ DOMAIN start' = 1 .. last + 1 /\ DOMAIN start = 1 .. last
    BY <2>1, <2>2
  <2>4. start'[1] = RequestSize
    BY <1>2, <2>2, <2>3 DEF LaidOut
  <2>5. ASSUME NEW i \in DOMAIN stream'
        PROVE  start'[i + 1] = start'[i] + FrameSize(stream'[i])
    <3>1. CASE i = last
      <4>1. stream'[i] = f
        BY <2>2, <3>1
      <4> QED  BY <2>2, <2>3, <3>1, <4>1 DEF size
    <3>2. CASE i # last
      <4>1. /\ i \in DOMAIN stream /\ stream'[i] = stream[i]
            /\ i \in 1 .. last /\ i + 1 \in 1 .. last
        BY <2>2, <3>2
      <4>2. start[i + 1] = start[i] + FrameSize(stream[i])
        BY <1>2, <4>1 DEF LaidOut
      <4> QED  BY <2>3, <4>1, <4>2
    <3> QED  BY <3>1, <3>2
  <2>6. ASSUME NEW i \in DOMAIN start', NEW j \in DOMAIN start', i < j
        PROVE  start'[i] < start'[j]
    <3>1. ASSUME NEW k \in 1 .. last PROVE start[k] \in Nat /\ start[k] <= start[last]
      <4>1. k \in DOMAIN start /\ start[k] \in Nat
        BY <2>2, <2>3
      <4>2. CASE k = last
        BY <2>2, <4>2
      <4>3. CASE k # last
        <5>1. k < last
          BY <2>2, <4>3
        <5>2. start[k] < start[last]
          BY <1>2, <2>2, <4>1, <5>1 DEF LaidOut
        <5> QED  BY <2>2, <4>1, <5>2
      <4> QED  BY <4>2, <4>3
    <3>2. CASE j = last + 1
      BY <2>1, <2>2, <2>3, <2>6, <3>1, <3>2
    <3>3. CASE j # last + 1
      <4>1. i \in 1 .. last /\ j \in 1 .. last
        BY <2>2, <2>3, <2>6, <3>3
      <4>2. start[i] < start[j]
        BY <1>2, <2>3, <2>6, <4>1 DEF LaidOut
      <4> QED  BY <2>3, <4>1, <4>2
    <3> QED  BY <3>2, <3>3
  <2> QED  BY <2>3, <2>4, <2>5, <2>6 DEF LaidOut
<1>3. ASSUME LaidOut, UNCHANGED <<stream, start>> PROVE LaidOut'
  BY <1>3 DEF LaidOut
<1>4. ASSUME LaidOut, [Next]_vars PROVE LaidOut'
  <2>1. (\E f \in Frames : ClientSends(f)) \/ UNCHANGED <<stream, start>>
    BY <1>4 DEF Next, OnRead, HandleRead, Overrun, AwaitRequest, Handshake, AwaitFrame,
                RefuseFrame, ServeFrame, Finished, Looks, vars
  <2> QED  BY <1>2, <1>3, <1>4, <2>1
<1> QED  BY <1>1, <1>4

\* What serving frame i takes out of the buffer.
LEMMA ServeConsumes ==
  ASSUME LaidOut, BufferOK(buffer), NEW i \in DOMAIN stream, ServeFrame(i)
  PROVE  /\ stream[i] \in Frames /\ i \in DOMAIN start /\ i + 1 \in DOMAIN start
         /\ BufferOK(buffer')
         /\ FirstByte(buffer') = start[i] + HeaderSize(stream[i]) + stream[i].length
         /\ NextByte(buffer') = NextByte(buffer)
<1> DEFINE f == stream[i]
           head == HeaderSize(f)
           after == Retrieve(buffer, head)
<1>1. f \in Frames /\ i \in DOMAIN start /\ i + 1 \in DOMAIN start
  BY DEF LaidOut
<1>2. f.length \in Nat /\ head \in Nat
  BY <1>1, FrameSizes
<1>3. /\ buffer' = Retrieve(after, f.length)
      /\ start[i] = FirstByte(buffer) /\ Readable(buffer) >= head + f.length
  BY DEF ServeFrame, At, Arrived
<1> HIDE DEF head
<1>4. Readable(buffer) \in Nat
  BY DEF BufferOK, Buffers, Readable
<1>5. /\ BufferOK(after) /\ FirstByte(after) = FirstByte(buffer) + head
      /\ NextByte(after) = NextByte(buffer)
  BY <1>2, <1>3, <1>4, RetrieveConsumes
<1>6. f.length <= Readable(after)
  BY <1>2, <1>3, <1>4, <1>5
     DEF Readable, FirstByte, NextByte, BufferOK, Buffers
<1> HIDE DEF after
<1>7. /\ BufferOK(buffer') /\ FirstByte(buffer') = FirstByte(after) + f.length
      /\ NextByte(buffer') = NextByte(after)
  BY <1>2, <1>3, <1>5, <1>6, RetrieveConsumes
<1> QED
  BY <1>1, <1>3, <1>5, <1>7 DEF head

\* A call of onRead that takes nothing from the buffer.
Idle == Return /\ Looks /\ closing' \in {TRUE, closing}

\* The turns of the loop in onRead that are such calls.
LEMMA Idling ==
  /\ Overrun \/ AwaitRequest \/ AwaitFrame => Idle
  /\ \A i \in DOMAIN stream : RefuseFrame(i) => Idle
BY DEF Overrun, AwaitRequest, AwaitFrame, RefuseFrame, Idle

-----------------------------------------------------------------------------
(* Every byte keeps its place.                                             *)

\* BytesInPlace with what it rests on: the indices are in order.
Held ==
  /\ BufferOK(buffer)
  /\ received \in Nat
  /\ BytesInPlace

\* The buffer holds nothing where a session starts.
LEMMA HeldInitially == Init => Held
BY BufferAssumption
   DEF Init, Held, BytesInPlace, BufferOK, Buffers, EmptyBuffer, NextByte

\* A read appends and a retrieve consumes; nothing else touches the buffer.
LEMMA HeldStays == LaidOut /\ Held /\ [Next]_vars => Held'
<1> SUFFICES ASSUME LaidOut, Held, [Next]_vars PROVE Held'
  OBVIOUS
<1>1. ASSUME NEW f \in Frames, ClientSends(f) PROVE Held'
  BY <1>1 DEF Held, BytesInPlace, ClientSends
<1>2. ASSUME NEW n, HandleRead(n) PROVE Held'
  <2>1. n \in Nat
    BY <1>2 DEF HandleRead
  <2>2. /\ BufferOK(ReadFd(buffer, n))
        /\ NextByte(ReadFd(buffer, n)) = NextByte(buffer) + n
    BY <2>1, ReadFdAppends DEF Held
  <2> QED  BY <1>2, <2>1, <2>2 DEF Held, BytesInPlace, HandleRead
<1>3. CASE Idle
  BY <1>3 DEF Held, BytesInPlace, Idle, Looks
<1>4. CASE Handshake
  <2>1. RequestSize \in Nat /\ RequestSize <= Readable(buffer)
    BY <1>4, SessionAssumption DEF Handshake, Held, BufferOK, Buffers, Readable
  <2>2. /\ BufferOK(Retrieve(buffer, RequestSize))
        /\ NextByte(Retrieve(buffer, RequestSize)) = NextByte(buffer)
    BY <2>1, RetrieveConsumes DEF Held
  <2> QED  BY <1>4, <2>2 DEF Held, BytesInPlace, Handshake
<1>5. ASSUME NEW i \in DOMAIN stream, ServeFrame(i) PROVE Held'
  <2>1. BufferOK(buffer') /\ NextByte(buffer') = NextByte(buffer)
    BY <1>5, ServeConsumes DEF Held
  <2>2. received' = received
    BY <1>5 DEF ServeFrame
  <2> QED  BY <2>1, <2>2 DEF Held, BytesInPlace
<1>6. CASE Finished \/ UNCHANGED vars
  BY <1>6 DEF Held, BytesInPlace, Finished, vars
<1> QED
  BY <1>1, <1>2, <1>3, <1>4, <1>5, <1>6, Idling DEF Next, OnRead

\* BytesInPlace: for every size of the buffer and every way to cut the stream,
\* the buffer holds the bytes that were read and not yet taken, each at its
\* place.
THEOREM EveryByteInPlace == Spec => []BytesInPlace
<1>1. Init => LaidOut /\ Held
  BY LaidOutStays, HeldInitially
<1>2. LaidOut /\ Held /\ [Next]_vars => (LaidOut /\ Held)'
  BY LaidOutStays, HeldStays
<1>3. Held => BytesInPlace
  BY DEF Held
<1> QED  BY <1>1, <1>2, <1>3, PTL DEF Spec

-----------------------------------------------------------------------------
(* The session and the stream stay in step, unless a frame is empty.       *)

\* FramesInStep with what it rests on: the handshake takes the request once.
Stepping ==
  /\ valid \in BOOLEAN /\ upgraded \in BOOLEAN
  /\ closing => ~reading
  /\ IF upgraded THEN InStep
     ELSE FirstByte(buffer) = 0 \/ (closing /\ FirstByte(buffer) = RequestSize)

\* What was served is below the limit, and its length in the shortest form.
Bounded ==
  upgraded => \A i \in DOMAIN stream :
                start[i] < FirstByte(buffer) =>
                  FrameSize(stream[i]) < Limit /\ Shortest(stream[i])

\* A session starts at the first byte, and has served nothing.
LEMMA SteppingInitially == Init => Stepping /\ Bounded
<1> SUFFICES ASSUME Init PROVE Stepping /\ Bounded
  OBVIOUS
<1>1. FirstByte(buffer) = 0
  BY BufferAssumption DEF Init, FirstByte, EmptyBuffer
<1>2. valid \in BOOLEAN /\ upgraded = FALSE /\ closing = FALSE
  BY DEF Init
<1> QED  BY <1>1, <1>2 DEF Stepping, Bounded

\* A new frame starts behind everything served.
LEMMA SteppingSends ==
  ASSUME LaidOut, LaidOut', Stepping, Bounded, NEW f \in Frames, ClientSends(f)
  PROVE  Stepping' /\ Bounded'
<1>1. /\ UNCHANGED <<valid, upgraded, buffer, reading, closing>>
      /\ FirstByte(buffer') = FirstByte(buffer)
  BY DEF ClientSends
<1>2. /\ stream' = Append(stream, f)
      /\ start' = Append(start, start[Len(start)] + FrameSize(f))
      /\ stream \in Seq(Frames) /\ start \in Seq(Nat) /\ Len(start) = Len(stream) + 1
  BY DEF ClientSends, LaidOut
<1>3. FrameSize(f) \in Nat
  BY FrameSizes
<1>4. \A k \in DOMAIN start : k \in DOMAIN start' /\ start'[k] = start[k]
  BY <1>2, <1>3
<1>5. InStep => InStep'
  BY <1>1, <1>4 DEF InStep, Range
<1>6. Stepping'
  BY <1>1, <1>5 DEF Stepping
<1>7. ASSUME upgraded', NEW i \in DOMAIN stream', start'[i] < FirstByte(buffer')
      PROVE  FrameSize(stream'[i]) < Limit /\ Shortest(stream'[i])
  <2>1. PICK k \in DOMAIN start : start[k] = FirstByte(buffer)
    BY <1>1, <1>7 DEF Stepping, InStep, Range
  <2>2. i \in DOMAIN start /\ i \in Nat /\ k \in Nat
    BY <1>2, <1>7, <2>1
  <2>3. start[i] < start[k]
    BY <1>1, <1>4, <1>7, <2>1, <2>2
  <2>4. i < k
    BY <2>1, <2>2, <2>3, Ordered
  <2>5. i \in DOMAIN stream /\ stream'[i] = stream[i]
    BY <1>2, <1>7, <2>1, <2>2, <2>4
  <2> QED  BY <1>1, <1>7, <2>1, <2>3, <2>5 DEF Bounded
<1> QED  BY <1>6, <1>7 DEF Bounded

\* The handshake takes the request, so the first frame is next.
LEMMA SteppingUpgrades ==
  ASSUME LaidOut, Held, Stepping, Handshake
  PROVE  Stepping' /\ Bounded'
<1>1. RequestSize \in Nat \ {0} /\ RequestSize <= Readable(buffer)
  BY SessionAssumption DEF Handshake, Held, BufferOK, Buffers, Readable
<1>2. FirstByte(buffer) = 0
  BY DEF Stepping, Handshake
<1>3. FirstByte(Retrieve(buffer, RequestSize)) = FirstByte(buffer) + RequestSize
  BY <1>1, RetrieveConsumes DEF Held
<1>4. FirstByte(buffer') = RequestSize
  BY <1>1, <1>2, <1>3 DEF Handshake
<1>5. /\ 1 \in DOMAIN start /\ start[1] = RequestSize
      /\ stream' = stream /\ start' = start
  BY DEF LaidOut, Handshake
<1>6. CASE valid
  <2>1. InStep'
    BY <1>4, <1>5 DEF InStep, Range
  <2>2. upgraded' /\ upgraded' \in BOOLEAN /\ valid' \in BOOLEAN /\ ~closing'
    BY <1>6 DEF Handshake, Stepping
  <2>3. Stepping'
    BY <2>1, <2>2 DEF Stepping
  <2>4. ASSUME NEW i \in DOMAIN stream PROVE ~(start[i] < RequestSize)
    <3>1. i \in DOMAIN start
      BY DEF LaidOut
    <3> QED  BY <1>5, <3>1, Ordered
  <2> QED  BY <1>4, <1>5, <2>3, <2>4 DEF Bounded
<1>7. CASE ~valid
  <2>1. upgraded' = valid /\ closing' = TRUE /\ reading' = valid
    BY <1>7 DEF Handshake
  <2>2. ~upgraded' /\ upgraded' \in BOOLEAN /\ valid' \in BOOLEAN /\ closing' /\ ~reading'
    BY <1>7, <2>1 DEF Stepping, Handshake
  <2> QED  BY <1>4, <1>5, <2>2 DEF Stepping, Bounded
<1> QED  BY <1>6, <1>7 DEF Stepping

\* Serving a frame that is not empty ends where the next one starts.
LEMMA SteppingServes ==
  ASSUME LaidOut, Held, Stepping, Bounded, NEW i \in DOMAIN stream, ServeFrame(i),
         stream[i].code > 0
  PROVE  Stepping' /\ Bounded'
<1>1. /\ stream[i] \in Frames /\ i \in DOMAIN start /\ i + 1 \in DOMAIN start
      /\ FirstByte(buffer') = start[i] + HeaderSize(stream[i]) + stream[i].length
  BY ServeConsumes DEF Held
<1>2. /\ stream[i].length \in Nat /\ HeaderSize(stream[i]) \in Nat
      /\ HeaderSize(stream[i]) + stream[i].length = FrameSize(stream[i])
  BY <1>1, FrameSizes
<1>3. start[i] \in Nat /\ start[i + 1] = start[i] + FrameSize(stream[i])
  BY <1>1 DEF LaidOut
<1>4. FirstByte(buffer') = start[i + 1]
  BY <1>1, <1>2, <1>3
<1>5. /\ UNCHANGED <<stream, start, valid, upgraded>> /\ upgraded /\ reading' = FALSE
      /\ start[i] = FirstByte(buffer)
      /\ Readable(buffer) >= HeaderSize(stream[i]) + stream[i].length
      /\ ~(Readable(buffer) >= Limit) /\ ~Illegal(stream[i])
  BY DEF ServeFrame, Return, TooLong, At, Arrived
<1>6. InStep'
  BY <1>1, <1>4, <1>5 DEF InStep, Range
<1>7. Stepping'
  BY <1>5, <1>6 DEF Stepping
<1>8. ASSUME NEW j \in DOMAIN stream, start[j] < start[i + 1]
      PROVE  FrameSize(stream[j]) < Limit /\ Shortest(stream[j])
  <2>1. j \in DOMAIN start /\ j \in Nat /\ i \in Nat
    BY DEF LaidOut
  <2>2. j < i + 1
    BY <1>1, <1>8, <2>1, Ordered
  <2>3. CASE j = i
    <3>1. Readable(buffer) \in Nat /\ Limit \in Nat /\ FrameSize(stream[i]) \in Nat
      BY <1>1, FrameSizes, SessionAssumption DEF Held, BufferOK, Buffers, Readable
    <3>2. Shortest(stream[i])
      BY <1>1, <1>5, Illegals
    <3> QED  BY <1>2, <1>5, <2>3, <3>1, <3>2
  <2>4. CASE j # i
    <3>1. start[j] < start[i]
      BY <1>1, <2>1, <2>2, <2>4, Ordered
    <3> QED  BY <1>5, <3>1 DEF Bounded
  <2> QED  BY <2>3, <2>4
<1> QED  BY <1>4, <1>5, <1>7, <1>8 DEF Bounded

\* Every step leaves the session in step, if no frame is empty.
LEMMA SteppingStays ==
  ASSUME \A f \in Frames : f.code > 0
  PROVE  LaidOut /\ LaidOut' /\ Held /\ Stepping /\ Bounded /\ [Next]_vars
           => Stepping' /\ Bounded'
<1> SUFFICES ASSUME LaidOut, LaidOut', Held, Stepping, Bounded, [Next]_vars
             PROVE  Stepping' /\ Bounded'
  OBVIOUS
<1>1. ASSUME NEW f \in Frames, ClientSends(f) PROVE Stepping' /\ Bounded'
  BY <1>1, SteppingSends
<1>2. ASSUME NEW n, HandleRead(n) PROVE Stepping' /\ Bounded'
  <2>1. n \in Nat
    BY <1>2 DEF HandleRead
  <2>2. FirstByte(buffer') = FirstByte(buffer)
    BY <1>2, <2>1, ReadFdAppends DEF Held, HandleRead
  <2>3. UNCHANGED <<stream, start, valid, upgraded, closing>> /\ ~closing
    BY <1>2 DEF HandleRead
  <2> QED  BY <2>2, <2>3 DEF Stepping, Bounded, InStep
<1>3. CASE Idle
  <2>1. UNCHANGED <<stream, start, valid, upgraded, buffer>> /\ reading' = FALSE
    BY <1>3 DEF Idle, Looks, Return
  <2>2. closing => closing'
    BY <1>3 DEF Idle
  <2>3. Stepping'
    BY <2>1, <2>2 DEF Stepping, InStep
  <2> QED  BY <2>1, <2>3 DEF Bounded
<1>4. CASE Handshake
  BY <1>4, SteppingUpgrades
<1>5. ASSUME NEW i \in DOMAIN stream, ServeFrame(i) PROVE Stepping' /\ Bounded'
  <2>1. stream[i].code > 0
    BY DEF LaidOut
  <2> QED  BY <1>5, <2>1, SteppingServes
<1>6. CASE Finished \/ UNCHANGED vars
  BY <1>6 DEF Stepping, Bounded, InStep, Finished, vars
<1> QED
  BY <1>1, <1>2, <1>3, <1>4, <1>5, <1>6, Idling DEF Next, OnRead

\* The session is closed for nothing else than ClosedForCause names.
Caused == upgraded /\ closing => ClosedForCause

\* Every step keeps the cause: nothing follows it, and it stays in the buffer.
LEMMA CausedStays ==
  LaidOut /\ Held /\ Stepping /\ Caused /\ [Next]_vars => Caused'
<1> SUFFICES ASSUME LaidOut, Held, Stepping, Caused, [Next]_vars, upgraded', closing'
             PROVE  ClosedForCause'
  BY DEF Caused
<1>1. ASSUME UNCHANGED <<buffer, stream, start>>, ClosedForCause
      PROVE  ClosedForCause'
  BY <1>1 DEF ClosedForCause, TooLong, At, Served
<1>2. CASE Overrun
  BY <1>1, <1>2 DEF Overrun, Looks, ClosedForCause
<1>3. ASSUME NEW i \in DOMAIN stream, RefuseFrame(i)
      PROVE  ClosedForCause'
  <2>1. stream[i] \in Frames
    BY DEF LaidOut
  <2>2. At(i) /\ ~Shortest(stream[i])
    BY <1>3, <2>1, Illegals DEF RefuseFrame
  <2> QED  BY <1>1, <1>3, <2>2 DEF RefuseFrame, Looks, ClosedForCause
<1>4. ASSUME NEW i \in DOMAIN stream, ServeFrame(i)
      PROVE  ClosedForCause'
  <2>1. /\ stream[i] \in Frames /\ i \in DOMAIN start
        /\ FirstByte(buffer') = start[i] + HeaderSize(stream[i]) + stream[i].length
    BY <1>4, ServeConsumes DEF Held
  <2>2. start[i] < FirstByte(buffer')
    BY <2>1, FrameSizes, Ordered
  <2>3. UNCHANGED <<stream, start>> /\ stream[i].opcode = "close"
    BY <1>4 DEF ServeFrame
  <2> QED  BY <2>2, <2>3 DEF ClosedForCause, Served
<1>5. CASE AwaitRequest \/ AwaitFrame
  BY <1>5 DEF AwaitRequest, AwaitFrame, Return, Stepping
<1>6. CASE Handshake
  BY <1>6 DEF Handshake, Stepping
<1>7. ASSUME NEW f \in Frames, ClientSends(f) PROVE FALSE
  BY <1>7 DEF ClientSends
<1>8. ASSUME NEW n, HandleRead(n) PROVE FALSE
  BY <1>8 DEF HandleRead
<1>9. CASE Finished \/ UNCHANGED vars
  BY <1>1, <1>9 DEF Finished, vars, Caused
<1> QED
  BY <1>2, <1>3, <1>4, <1>5, <1>6, <1>7, <1>8, <1>9 DEF Next, OnRead

\* FramesInStep, for every cut of every stream without a frame whose second
\* byte gives it no payload: with one it is refuted.
THEOREM SessionInStep ==
  ASSUME \A f \in Frames : f.code > 0
  PROVE  Spec => []FramesInStep
<1> DEFINE Inv == LaidOut /\ Held /\ Stepping /\ Bounded /\ Caused
<1>1. Init => Inv
  BY LaidOutStays, HeldInitially, SteppingInitially DEF Init, Caused
<1>2. Inv /\ [Next]_vars => Inv'
  BY LaidOutStays, HeldStays, SteppingStays, CausedStays
<1>3. Inv => FramesInStep
  BY DEF Stepping, Bounded, Caused, FramesInStep, Served
<1> QED  BY <1>1, <1>2, <1>3, PTL DEF Spec

\* OversizedRefused: what stays in step never serves a frame that does not fit
\* below the limit.
THEOREM SessionBounded ==
  ASSUME \A f \in Frames : f.code > 0
  PROVE  Spec => []OversizedRefused
<1> DEFINE Inv == LaidOut /\ Held /\ Stepping /\ Bounded
<1>1. Init => Inv
  BY LaidOutStays, HeldInitially, SteppingInitially
<1>2. Inv /\ [Next]_vars => Inv'
  BY LaidOutStays, HeldStays, SteppingStays
<1>3. Inv => OversizedRefused
  BY DEF Bounded, OversizedRefused, Served
<1> QED  BY <1>1, <1>2, <1>3, PTL DEF Spec

-----------------------------------------------------------------------------
(* How many frames were completed.                                         *)

\* The frames complete between two bytes are finitely many.
LEMMA FramesFinite ==
  ASSUME LaidOut, NEW a, NEW b
  PROVE  /\ IsFiniteSet(Completed(a, b))
         /\ Cardinality(Completed(a, b)) \in Nat
         /\ Cardinality(Completed(a, b)) <= Len(stream)
<1>1. Len(stream) \in Nat /\ DOMAIN stream = 1 .. Len(stream)
  BY DEF LaidOut
<1>2. IsFiniteSet(1 .. Len(stream)) /\ Cardinality(1 .. Len(stream)) = Len(stream)
  <2>1. ASSUME NEW n \in Nat
        PROVE  IsFiniteSet(1 .. n) /\ Cardinality(1 .. n) = n
    <3>1. 1 \in Int /\ n \in Int
      OBVIOUS
    <3>2. IsFiniteSet(1 .. n) /\ Cardinality(1 .. n) = IF 1 > n THEN 0 ELSE n - 1 + 1
      BY <3>1, FS_Interval
    <3> QED
      BY <3>2
  <2> QED
    BY <1>1, <2>1
<1>3. Completed(a, b) \in SUBSET (1 .. Len(stream))
  BY <1>1 DEF Completed
<1>4. /\ IsFiniteSet(Completed(a, b))
      /\ Cardinality(Completed(a, b)) <= Len(stream)
  BY <1>2, <1>3, FS_Subset
<1> QED
  BY <1>4, FS_CardinalityType

\* What is completed up to c is completed up to b or from there on.
LEMMA FramesSplit ==
  ASSUME LaidOut, NEW a \in Nat, NEW b \in Nat, NEW c \in Nat, a <= b, b <= c
  PROVE  Cardinality(Completed(a, c))
           = Cardinality(Completed(a, b)) + Cardinality(Completed(b, c))
<1>1. \A i \in DOMAIN stream : start[i + 1] \in Nat
  BY DEF LaidOut
<1>2. /\ Completed(a, c) = Completed(a, b) \cup Completed(b, c)
      /\ Completed(a, b) \cap Completed(b, c) = {}
  BY <1>1 DEF Completed
<1>3. /\ IsFiniteSet(Completed(a, b)) /\ IsFiniteSet(Completed(b, c))
      /\ Cardinality(Completed(a, b)) \in Nat /\ Cardinality(Completed(b, c)) \in Nat
  BY FramesFinite
<1>4. Cardinality(Completed(a, b) \cup Completed(b, c))
        = Cardinality(Completed(a, b)) + Cardinality(Completed(b, c))
          - Cardinality(Completed(a, b) \cap Completed(b, c))
  BY <1>3, FS_Union
<1>5. Cardinality(Completed(a, b) \cap Completed(b, c)) = 0
  BY <1>2, FS_EmptySet
<1> QED
  BY <1>2, <1>3, <1>4, <1>5

\* Every frame starts behind the request.
LEMMA BehindRequest ==
  ASSUME LaidOut
  PROVE  /\ 1 \in DOMAIN start /\ RequestSize \in Nat \ {0}
         /\ Len(start) \in DOMAIN start /\ start[Len(start)] \in Nat
         /\ \A i \in DOMAIN start : start[i] \in Nat /\ RequestSize <= start[i]
                                    /\ start[i] <= start[Len(start)]
<1>1. /\ 1 \in DOMAIN start /\ start[1] = RequestSize /\ RequestSize \in Nat \ {0}
      /\ Len(start) \in DOMAIN start
  BY SessionAssumption DEF LaidOut
<1>2. ASSUME NEW i \in DOMAIN start
      PROVE  /\ start[i] \in Nat /\ RequestSize <= start[i]
             /\ start[i] <= start[Len(start)]
  <2>1. i \in 1 .. Len(start) /\ Len(start) \in Nat
    BY DEF LaidOut
  <2>2. i = 1 \/ 1 < i
    BY <2>1
  <2>3. i = Len(start) \/ i < Len(start)
    BY <2>1
  <2>4. start[i] \in Nat /\ (1 < i => start[1] < start[i])
    BY <1>1, Ordered
  <2>5. i < Len(start) => start[i] < start[Len(start)]
    BY <1>1, Ordered
  <2>6. start[Len(start)] \in Nat
    BY <1>1, Ordered
  <2> QED
    BY <1>1, <2>2, <2>3, <2>4, <2>5, <2>6
<1> QED
  BY <1>1, <1>2

\* A new frame is not complete before its own bytes are read.
LEMMA FramesStay ==
  ASSUME LaidOut, LaidOut', NEW f \in Frames, ClientSends(f),
         NEW a \in Nat, NEW b \in Nat, b <= start[Len(start)]
  PROVE  {i \in DOMAIN stream' : a < start'[i + 1] /\ start'[i + 1] <= b} = Completed(a, b)
<1>1. /\ stream' = Append(stream, f)
      /\ start' = Append(start, start[Len(start)] + FrameSize(f))
      /\ stream \in Seq(Frames) /\ start \in Seq(Nat) /\ Len(start) = Len(stream) + 1
  BY DEF ClientSends, LaidOut
<1>2. FrameSize(f) \in Nat \ {0} /\ start[Len(start)] \in Nat
  BY FrameSizes, BehindRequest
<1>3. /\ DOMAIN stream' = DOMAIN stream \cup {Len(stream) + 1}
      /\ \A i \in DOMAIN stream : start'[i + 1] = start[i + 1]
      /\ start'[Len(stream) + 1 + 1] = start[Len(start)] + FrameSize(f)
  <2>1. DOMAIN stream' = DOMAIN stream \cup {Len(stream) + 1}
    BY <1>1
  <2>2. start[Len(start)] + FrameSize(f) \in Nat
    BY <1>2
  <2>3. /\ \A i \in 1 .. Len(start) : start'[i] = start[i]
        /\ start'[Len(start) + 1] = start[Len(start)] + FrameSize(f)
    BY <1>1, <2>2
  <2>4. \A i \in DOMAIN stream : i + 1 \in 1 .. Len(start)
    BY <1>1
  <2>5. Len(stream) + 1 + 1 = Len(start) + 1
    BY <1>1
  <2> QED
    BY <2>1, <2>3, <2>4, <2>5
<1>4. ~(start'[Len(stream) + 1 + 1] <= b)
  BY <1>2, <1>3
<1> QED
  BY <1>3, <1>4 DEF Completed

-----------------------------------------------------------------------------
(* The types.                                                              *)

\* TypeOK but for what LaidOut and Held say: the flags and what is kept of a
\* fragmented message ...
Flags ==
  /\ valid \in BOOLEAN /\ upgraded \in BOOLEAN
  /\ reading \in BOOLEAN /\ closing \in BOOLEAN
  /\ upgraded => valid
  /\ partial \in Seq(Nat) /\ Range(partial) \subseteq DOMAIN stream

\* ... and the counts, with what their bounds rest on: a read counts no frame
\* that it did not complete.
Counted ==
  /\ Len(stream) <= MaxFrames
  /\ received <= start[Len(start)]
  /\ crowded \in Nat /\ crowded <= Cardinality(Completed(0, received))

\* A read that completes k frames leaves all but one of them waiting.
LEMMA CrowdedByRead ==
  ASSUME NEW k \in Nat
  PROVE  Max({0, k - 1}) = IF k = 0 THEN 0 ELSE k - 1
<1> DEFINE m == IF k = 0 THEN 0 ELSE k - 1
<1>1. m \in {0, k - 1} /\ \A y \in {0, k - 1} : m >= y
  OBVIOUS
<1>2. \A x \in {0, k - 1} : (\A y \in {0, k - 1} : x >= y) => x = m
  OBVIOUS
<1> QED
  BY <1>1, <1>2 DEF Max

\* Nothing is counted where the program starts.
LEMMA CountedInitially == Init => Flags /\ Counted
<1> SUFFICES ASSUME Init PROVE Flags /\ Counted
  OBVIOUS
<1>1. DOMAIN <<>> = {} /\ Range(<<>>) = {} /\ <<>> \in Seq(Nat)
  BY DEF Range
<1>2. Completed(0, received) = {}
  BY <1>1 DEF Init, Completed
<1>3. Cardinality(Completed(0, received)) = 0
  BY <1>2, FS_EmptySet
<1>4. Len(stream) = 0 /\ received = 0 /\ start[Len(start)] = RequestSize
  BY DEF Init
<1>5. Flags
  BY <1>1 DEF Init, Flags
<1> QED
  BY <1>3, <1>4, <1>5, SessionAssumption DEF Init, Counted

\* Answers and fragments: what the session does with a frame.
LEMMA FlagsStay == LaidOut /\ LaidOut' /\ Flags /\ [Next]_vars => Flags'
<1> SUFFICES ASSUME LaidOut, LaidOut', Flags, [Next]_vars PROVE Flags'
  OBVIOUS
<1>1. ASSUME NEW f \in Frames, ClientSends(f)
      PROVE  Flags'
  <2>1. stream' = Append(stream, f) /\ stream \in Seq(Frames)
    BY <1>1 DEF ClientSends, LaidOut
  <2>2. DOMAIN stream \subseteq DOMAIN stream'
    BY <2>1
  <2> QED
    BY <1>1, <2>2 DEF ClientSends, Flags
<1>2. ASSUME NEW n, HandleRead(n)
      PROVE  Flags'
  BY <1>2 DEF HandleRead, Flags
<1>3. CASE Idle
  <2>1. UNCHANGED <<stream, valid, upgraded, partial>> /\ reading' = FALSE
    BY <1>3 DEF Idle, Return, Looks
  <2>2. closing' \in BOOLEAN
    BY <1>3 DEF Idle, Flags
  <2> QED
    BY <2>1, <2>2 DEF Flags
<1>4. CASE Handshake
  BY <1>4 DEF Handshake, Flags
<1>5. ASSUME NEW i \in DOMAIN stream, ServeFrame(i)
      PROVE  Flags'
  <2>1. /\ UNCHANGED <<stream, valid, upgraded>> /\ reading' = FALSE
        /\ closing' \in BOOLEAN
        /\ partial' = Append(partial, i) \/ partial' = <<>>
    BY <1>5 DEF ServeFrame, Return
  <2>2. i \in Nat
    BY DEF LaidOut
  <2>3. Append(partial, i) \in Seq(Nat) /\ Range(Append(partial, i)) = Range(partial) \cup {i}
    BY <2>2, RangeAppend, AppendProperties DEF Flags
  <2>4. <<>> \in Seq(Nat) /\ Range(<<>>) = {}
    BY DEF Range
  <2> QED
    BY <2>1, <2>3, <2>4 DEF Flags
<1>6. CASE Finished \/ UNCHANGED vars
  BY <1>6 DEF Finished, vars, Flags
<1> QED
  BY <1>1, <1>2, <1>3, <1>4, <1>5, <1>6, Idling DEF Next, OnRead

\* A read counts the frames it completes.
LEMMA CountedReads ==
  ASSUME LaidOut, Held, Counted, NEW n, HandleRead(n)
  PROVE  Counted'
<1> DEFINE old == Completed(0, received)
           new == Completed(received, received + n)
<1>1. n \in Nat /\ received \in Nat /\ received + n \in Nat
  BY DEF HandleRead, Held
<1>2. /\ UNCHANGED <<stream, start>>
      /\ received' = received + n /\ received + n <= start[Len(start)]
      /\ crowded' = crowded + Max({0, Cardinality(new) - 1})
  BY DEF HandleRead
<1>3. Cardinality(old) \in Nat /\ Cardinality(new) \in Nat
  BY FramesFinite
<1>4. Cardinality(Completed(0, received + n)) = Cardinality(old) + Cardinality(new)
  BY <1>1, FramesSplit
<1>5. Completed(0, received)' = Completed(0, received + n)
  BY <1>2 DEF Completed
<1> HIDE DEF old, new
<1>6. Max({0, Cardinality(new) - 1}) = IF Cardinality(new) = 0 THEN 0 ELSE Cardinality(new) - 1
  BY <1>3, CrowdedByRead
<1>7. crowded \in Nat /\ crowded <= Cardinality(old) /\ Len(stream) <= MaxFrames
  BY DEF Counted, old
<1>8. crowded' \in Nat /\ crowded' <= crowded + Cardinality(new)
  BY <1>2, <1>3, <1>6, <1>7
<1>9. crowded' <= Cardinality(Completed(0, received))'
  BY <1>3, <1>4, <1>5, <1>7, <1>8
<1> QED
  BY <1>2, <1>7, <1>8, <1>9 DEF Counted

\* Every step keeps the count.
LEMMA CountedStays == LaidOut /\ LaidOut' /\ Held /\ Counted /\ [Next]_vars => Counted'
<1> SUFFICES ASSUME LaidOut, LaidOut', Held, Counted, [Next]_vars PROVE Counted'
  OBVIOUS
<1>1. ASSUME NEW f \in Frames, ClientSends(f)
      PROVE  Counted'
  <2>1. /\ UNCHANGED <<received, crowded>>
        /\ stream' = Append(stream, f)
        /\ start' = Append(start, start[Len(start)] + FrameSize(f))
        /\ Len(stream) < MaxFrames
        /\ stream \in Seq(Frames) /\ start \in Seq(Nat)
    BY <1>1 DEF ClientSends, LaidOut
  <2>2. FrameSize(f) \in Nat /\ start[Len(start)] \in Nat
    BY FrameSizes, BehindRequest
  <2>3. /\ Len(stream') <= MaxFrames
        /\ start'[Len(start')] = start[Len(start)] + FrameSize(f)
    BY <2>1, <2>2, SessionAssumption
  <2>4. received \in Nat /\ received <= start[Len(start)] /\ received' <= start'[Len(start')]
    BY <2>1, <2>2, <2>3 DEF Held, Counted
  <2>5. Completed(0, received)' = Completed(0, received)
    <3>1. {i \in DOMAIN stream' : 0 < start'[i + 1] /\ start'[i + 1] <= received}
            = Completed(0, received)
      BY <1>1, <2>4, FramesStay
    <3> QED
      BY <2>1, <3>1 DEF Completed
  <2> QED
    BY <2>1, <2>3, <2>4, <2>5 DEF Counted
<1>2. ASSUME NEW n, HandleRead(n)
      PROVE  Counted'
  BY <1>2, CountedReads
<1>3. ASSUME UNCHANGED <<stream, start, received, crowded>>
      PROVE  Counted'
  <2>1. Completed(0, received)' = Completed(0, received)
    BY <1>3 DEF Completed
  <2> QED
    BY <1>3, <2>1 DEF Counted
<1>4. \/ \E f \in Frames : ClientSends(f)
      \/ \E n : HandleRead(n)
      \/ UNCHANGED <<stream, start, received, crowded>>
  BY DEF Next, OnRead, Overrun, AwaitRequest, Handshake, AwaitFrame, RefuseFrame, ServeFrame,
         Finished, Looks, vars
<1> QED
  BY <1>1, <1>2, <1>3, <1>4

\* TypeOK: for every size of the buffer and every stream, empty frames included,
\* the indices of the input buffer keep their order, the frames kept of a
\* fragmented message are frames of the stream, and no read gets ahead of it.
THEOREM TypeCorrect == Spec => []TypeOK
<1> DEFINE Inv == LaidOut /\ Held /\ Flags /\ Counted
<1>1. Init => Inv
  BY LaidOutStays, HeldInitially, CountedInitially
<1>2. Inv /\ [Next]_vars => Inv'
  BY LaidOutStays, HeldStays, FlagsStay, CountedStays
<1>3. Inv => TypeOK
  <2> SUFFICES ASSUME Inv PROVE TypeOK
    OBVIOUS
  <2>1. /\ Cardinality(Completed(0, received)) \in Nat
        /\ Cardinality(Completed(0, received)) <= Len(stream)
        /\ Len(stream) \in Nat /\ start[Len(start)] \in Nat
    BY FramesFinite, BehindRequest DEF LaidOut
  <2>2. received \in 0 .. start[Len(start)] /\ crowded \in 0 .. MaxFrames
    BY <2>1, SessionAssumption DEF Held, Counted
  <2> QED
    BY <2>2 DEF TypeOK, LaidOut, Held, Flags
<1> QED
  BY <1>1, <1>2, <1>3, PTL DEF Spec

-----------------------------------------------------------------------------
(* Frames that wait.                                                       *)

\* BacklogIsCrowding with the frame that a call of onRead still has to serve.
Crowding ==
  ~closing => Cardinality(Completed(FirstByte(buffer), received))
                <= IF reading THEN crowded + 1 ELSE crowded

\* Where the session looks for the next frame.
LEMMA FirstByteType ==
  ASSUME LaidOut, Held, Stepping
  PROVE  /\ FirstByte(buffer) \in Nat /\ received \in Nat
         /\ Readable(buffer) = received - FirstByte(buffer)
         /\ FirstByte(buffer) <= received
<1>1. FirstByte(buffer) \in Nat
  <2>1. \A i \in DOMAIN start : start[i] \in Nat
    BY BehindRequest
  <2> QED
    BY <2>1, SessionAssumption DEF Stepping, InStep, Range
<1>2. /\ received \in Nat /\ NextByte(buffer) = received
      /\ buffer \in Buffers /\ buffer.reader <= buffer.writer
  BY DEF Held, BytesInPlace, BufferOK
<1> QED
  BY <1>1, <1>2 DEF Buffers, FirstByte, NextByte, Readable

\* A read keeps the bound: the frames it completes beyond one are counted as
\* crowded.
LEMMA CrowdingReads ==
  ASSUME LaidOut, Held, Stepping, Counted, Crowding, NEW n, HandleRead(n)
  PROVE  Crowding'
<1> DEFINE first == FirstByte(buffer)
           old == Completed(first, received)
           new == Completed(received, received + n)
<1>1. n \in Nat /\ received + n \in Nat
  BY DEF HandleRead, Held
<1>2. first \in Nat /\ received \in Nat /\ first <= received
  BY FirstByteType
<1>3. /\ UNCHANGED <<stream, start, closing>> /\ ~closing /\ ~reading /\ reading'
      /\ received' = received + n
      /\ crowded' = crowded + Max({0, Cardinality(new) - 1})
  BY DEF HandleRead
<1>4. FirstByte(buffer') = first
  BY <1>1, ReadFdAppends DEF HandleRead, Held
<1>5. Cardinality(old) \in Nat /\ Cardinality(new) \in Nat
  BY FramesFinite
<1>6. Cardinality(Completed(first, received + n)) = Cardinality(old) + Cardinality(new)
  <2> HIDE DEF first
  <2> QED
    BY <1>1, <1>2, FramesSplit
<1>7. Completed(FirstByte(buffer), received)' = Completed(first, received + n)
  BY <1>3, <1>4 DEF Completed
<1>8. Cardinality(old) <= crowded /\ crowded \in Nat
  BY <1>3 DEF Crowding, Counted
<1> HIDE DEF old, new
<1>9. Max({0, Cardinality(new) - 1}) = IF Cardinality(new) = 0 THEN 0 ELSE Cardinality(new) - 1
  BY <1>5, CrowdedByRead
<1>10. Cardinality(Completed(first, received + n)) <= crowded' + 1
  BY <1>3, <1>5, <1>6, <1>8, <1>9
<1> QED
  BY <1>3, <1>7, <1>10 DEF Crowding

\* The handshake leaves all frames, serving one leaves the others.
LEMMA CrowdingMoves ==
  ASSUME LaidOut, NEW a \in Nat, NEW b \in Nat, NEW c \in Nat, a <= b, b <= c
  PROVE  /\ Cardinality(Completed(b, c)) <= Cardinality(Completed(a, c))
         /\ \A i \in Completed(a, b) :
              Cardinality(Completed(b, c)) + 1 <= Cardinality(Completed(a, c))
<1>1. Cardinality(Completed(a, c)) = Cardinality(Completed(a, b)) + Cardinality(Completed(b, c))
  BY FramesSplit
<1>2. /\ IsFiniteSet(Completed(a, b)) /\ Cardinality(Completed(a, b)) \in Nat
      /\ Cardinality(Completed(b, c)) \in Nat
  BY FramesFinite
<1>3. Completed(a, b) # {} => Cardinality(Completed(a, b)) # 0
  BY <1>2, FS_EmptySet
<1> QED
  BY <1>1, <1>2, <1>3

\* The handshake keeps the bound.
LEMMA CrowdingUpgrades ==
  ASSUME LaidOut, Held, Stepping, Counted, Crowding, Handshake
  PROVE  Crowding'
<1>1. /\ UNCHANGED <<stream, start, received, crowded>> /\ reading /\ ~upgraded
      /\ RequestSize <= Readable(buffer)
      /\ closing' = ~valid /\ reading' = valid
      /\ buffer' = Retrieve(buffer, RequestSize)
  BY SessionAssumption DEF Handshake, Held, BufferOK, Buffers, Readable
<1>2. ~closing /\ FirstByte(buffer) = 0
  BY <1>1 DEF Stepping
<1>3. RequestSize \in Nat /\ received \in Nat /\ RequestSize <= received
  BY <1>1, <1>2, FirstByteType, SessionAssumption
<1>4. FirstByte(buffer') = RequestSize
  BY <1>1, <1>2, <1>3, RetrieveConsumes DEF Held
<1>5. Cardinality(Completed(RequestSize, received)) <= Cardinality(Completed(0, received))
  BY <1>3, CrowdingMoves
<1>6. /\ Cardinality(Completed(RequestSize, received)) \in Nat
      /\ Cardinality(Completed(0, received)) \in Nat
  BY FramesFinite
<1>7. Cardinality(Completed(0, received)) <= crowded + 1 /\ crowded \in Nat
  BY <1>1, <1>2 DEF Crowding, Counted
<1>8. Completed(FirstByte(buffer), received)' = Completed(RequestSize, received)
  BY <1>1, <1>4 DEF Completed
<1>9. Cardinality(Completed(RequestSize, received)) <= crowded' + 1
  BY <1>1, <1>5, <1>6, <1>7
<1> QED
  BY <1>1, <1>8, <1>9 DEF Crowding

\* A frame that is served waits no longer.
LEMMA CrowdingServes ==
  ASSUME LaidOut, Held, Stepping, Counted, Crowding, NEW i \in DOMAIN stream, ServeFrame(i),
         stream[i].code > 0
  PROVE  Crowding'
<1>1. /\ UNCHANGED <<stream, start, received, crowded>> /\ reading /\ reading' = FALSE
      /\ start[i] = FirstByte(buffer)
      /\ Readable(buffer) >= HeaderSize(stream[i]) + stream[i].length
  BY DEF ServeFrame, Return, At, Arrived
<1>2. /\ stream[i] \in Frames /\ i \in DOMAIN start /\ i + 1 \in DOMAIN start
      /\ FirstByte(buffer') = start[i] + HeaderSize(stream[i]) + stream[i].length
  BY ServeConsumes DEF Held
<1>3. /\ stream[i].length \in Nat /\ HeaderSize(stream[i]) \in Nat
      /\ FrameSize(stream[i]) \in Nat \ {0}
      /\ HeaderSize(stream[i]) + stream[i].length = FrameSize(stream[i])
  BY <1>2, FrameSizes
<1>4. /\ start[i] \in Nat /\ start[i + 1] \in Nat
      /\ start[i + 1] = start[i] + FrameSize(stream[i])
  BY <1>2, <1>3 DEF LaidOut
<1>5. FirstByte(buffer') = start[i + 1] /\ start[i] <= start[i + 1] /\ start[i] < start[i + 1]
  BY <1>2, <1>3, <1>4
<1>6. received \in Nat /\ start[i + 1] <= received
  BY <1>1, <1>3, <1>4, FirstByteType
<1>7. i \in Completed(start[i], start[i + 1])
  BY <1>4, <1>5 DEF Completed
<1>8. Cardinality(Completed(start[i + 1], received)) + 1
        <= Cardinality(Completed(start[i], received))
  BY <1>4, <1>5, <1>6, <1>7, CrowdingMoves
<1>9. /\ Cardinality(Completed(start[i + 1], received)) \in Nat
      /\ Cardinality(Completed(start[i], received)) \in Nat
  BY FramesFinite
<1>10. Cardinality(Completed(start[i], received)) <= crowded + 1 /\ crowded \in Nat
  BY <1>1 DEF Crowding, Counted, Stepping
<1>11. Completed(FirstByte(buffer), received)' = Completed(start[i + 1], received)
  BY <1>1, <1>5 DEF Completed
<1>12. Cardinality(Completed(start[i + 1], received)) <= crowded'
  BY <1>1, <1>8, <1>9, <1>10
<1> QED
  BY <1>1, <1>11, <1>12 DEF Crowding

\* A call of onRead that serves no frame leaves none that is complete.
LEMMA NoneWaits ==
  ASSUME \A f \in Frames : f.code > 0, LaidOut, Held, Stepping,
         AwaitRequest \/ AwaitFrame
  PROVE  Completed(FirstByte(buffer), received) = {}
<1>1. /\ FirstByte(buffer) \in Nat /\ received \in Nat
      /\ Readable(buffer) = received - FirstByte(buffer)
  BY FirstByteType
<1>2. SUFFICES ASSUME NEW j \in Completed(FirstByte(buffer), received)
               PROVE  FALSE
  OBVIOUS
<1>3. /\ j \in DOMAIN stream /\ j \in DOMAIN start /\ j + 1 \in DOMAIN start
      /\ j \in Nat
      /\ FirstByte(buffer) < start[j + 1] /\ start[j + 1] <= received
  BY DEF Completed, LaidOut
<1>4. CASE AwaitRequest
  <2>1. Readable(buffer) < RequestSize /\ FirstByte(buffer) = 0
    BY <1>4 DEF AwaitRequest, Return, Stepping
  <2>2. RequestSize <= start[j + 1] /\ start[j + 1] \in Nat /\ RequestSize \in Nat
    BY <1>3, BehindRequest
  <2> QED
    BY <1>1, <1>3, <2>1, <2>2
<1>5. CASE AwaitFrame
  <2>1. PICK k \in DOMAIN start : start[k] = FirstByte(buffer)
    BY <1>5 DEF AwaitFrame, Stepping, InStep, Range
  <2>2. k \in Nat \ {0} /\ k < j + 1
    BY <1>3, <2>1, Ordered
  <2>3. k \in DOMAIN stream /\ k + 1 \in DOMAIN start /\ stream[k] \in Frames
    BY <1>3, <2>2 DEF LaidOut
  <2>4. /\ start[k + 1] = start[k] + FrameSize(stream[k])
        /\ stream[k].code > 0 /\ stream[k].length \in Nat
        /\ HeaderSize(stream[k]) + stream[k].length = FrameSize(stream[k])
        /\ HeaderSize(stream[k]) \in Nat /\ MinHeader <= HeaderSize(stream[k])
    <3>1. stream[k].code > 0 /\ stream[k].length \in Nat
      BY <2>3, FrameSizes
    <3> QED
      BY <2>3, <3>1, FrameSizes DEF LaidOut
  <2>5. start[k + 1] <= start[j + 1] /\ start[k + 1] \in Nat /\ start[j + 1] \in Nat
    <3>1. k + 1 = j + 1 \/ k + 1 < j + 1
      BY <1>3, <2>2
    <3>2. k + 1 < j + 1 => start[k + 1] < start[j + 1]
      BY <1>3, <2>3, Ordered
    <3>3. \A i \in DOMAIN start : start[i] \in Nat
      BY BehindRequest
    <3>4. start[k + 1] \in Nat /\ start[j + 1] \in Nat
      BY <1>3, <2>3, <3>3
    <3>5. CASE k + 1 = j + 1
      BY <3>4, <3>5
    <3>6. CASE k + 1 < j + 1
      BY <3>2, <3>4, <3>6
    <3> QED
      BY <3>1, <3>4, <3>5, <3>6
  <2>6. start[k] \in Nat /\ Readable(buffer) >= FrameSize(stream[k]) /\ FrameSize(stream[k]) \in Nat
    BY <1>1, <1>3, <2>1, <2>3, <2>4, <2>5, FrameSizes
  <2>7. Readable(buffer) >= MinHeader /\ Arrived(stream[k])
    BY <2>4, <2>6, <1>1 DEF Arrived, MinHeader
  <2>8. ASSUME NEW i \in DOMAIN stream, At(i)
        PROVE  i = k
    <3>1. i \in DOMAIN start /\ start[i] = start[k]
      BY <2>1, <2>8 DEF LaidOut, At
    <3>2. /\ i \in Nat /\ start[i] \in Nat
          /\ (start[i] < start[k] <=> i < k) /\ (start[k] < start[i] <=> k < i)
      BY <3>1, Ordered
    <3> QED
      BY <2>2, <3>1, <3>2
  <2> QED
    BY <1>1, <1>5, <2>7, <2>8 DEF AwaitFrame, MinHeader
<1> QED
  BY <1>4, <1>5

\* Every step keeps the bound, if no frame is empty.
LEMMA CrowdingStays ==
  ASSUME \A f \in Frames : f.code > 0
  PROVE  LaidOut /\ LaidOut' /\ Held /\ Stepping /\ Counted /\ Crowding /\ [Next]_vars
           => Crowding'
<1> SUFFICES ASSUME LaidOut, LaidOut', Held, Stepping, Counted, Crowding, [Next]_vars
             PROVE  Crowding'
  OBVIOUS
<1>1. ASSUME NEW f \in Frames, ClientSends(f)
      PROVE  Crowding'
  <2>1. UNCHANGED <<buffer, received, reading, closing, crowded>>
    BY <1>1 DEF ClientSends
  <2>2. /\ FirstByte(buffer) \in Nat /\ received \in Nat /\ received <= start[Len(start)]
    BY FirstByteType DEF Counted
  <2>3. {i \in DOMAIN stream' : FirstByte(buffer) < start'[i + 1] /\ start'[i + 1] <= received}
          = Completed(FirstByte(buffer), received)
    BY <1>1, <2>2, FramesStay
  <2>4. Completed(FirstByte(buffer), received)' = Completed(FirstByte(buffer), received)
    BY <2>1, <2>3 DEF Completed
  <2> QED
    BY <2>1, <2>4 DEF Crowding
<1>2. ASSUME NEW n, HandleRead(n)
      PROVE  Crowding'
  BY <1>2, CrowdingReads
<1>3. CASE closing'
  BY <1>3 DEF Crowding
<1>4. CASE Handshake
  BY <1>4, CrowdingUpgrades
<1>5. CASE AwaitRequest \/ AwaitFrame
  <2>1. UNCHANGED <<stream, start, received, buffer, crowded>> /\ reading' = FALSE
    BY <1>5 DEF AwaitRequest, AwaitFrame, Return, Looks
  <2>2. Completed(FirstByte(buffer), received) = {}
    BY <1>5, NoneWaits
  <2>3. Completed(FirstByte(buffer), received)' = {}
    BY <2>1, <2>2 DEF Completed
  <2>4. Cardinality(Completed(FirstByte(buffer), received))' = 0
    BY <2>3, FS_EmptySet
  <2> QED
    BY <2>1, <2>4 DEF Crowding, Counted
<1>6. ASSUME NEW i \in DOMAIN stream, ServeFrame(i)
      PROVE  Crowding'
  <2>1. stream[i].code > 0
    BY DEF LaidOut
  <2> QED
    BY <1>6, <2>1, CrowdingServes
<1>7. CASE Finished \/ UNCHANGED vars
  <2>1. UNCHANGED vars
    BY <1>7 DEF Finished, vars
  <2>2. Completed(FirstByte(buffer), received)' = Completed(FirstByte(buffer), received)
    BY <2>1 DEF vars, Completed
  <2> QED
    BY <2>1, <2>2 DEF vars, Crowding
<1> QED
  BY <1>1, <1>2, <1>3, <1>4, <1>5, <1>6, <1>7 DEF Next, OnRead, Overrun, RefuseFrame

\* BacklogIsCrowding: for every stream without an empty frame and every cut of
\* it, what waits in the input buffer after a call of onRead are frames that
\* one read completed beside the one it was served.
THEOREM BacklogBounded ==
  ASSUME \A f \in Frames : f.code > 0
  PROVE  Spec => []BacklogIsCrowding
<1> DEFINE Inv == LaidOut /\ Held /\ Stepping /\ Bounded /\ Counted /\ Crowding
<1>1. Init => Inv
  <2> SUFFICES ASSUME Init PROVE Crowding
    BY LaidOutStays, HeldInitially, SteppingInitially, CountedInitially
  <2>1. DOMAIN stream = {}
    BY DEF Init
  <2>2. Completed(FirstByte(buffer), received) = {}
    BY <2>1 DEF Completed
  <2>3. Cardinality(Completed(FirstByte(buffer), received)) = 0
    BY <2>2, FS_EmptySet
  <2> QED
    BY <2>3 DEF Init, Crowding
<1>2. Inv /\ [Next]_vars => Inv'
  BY LaidOutStays, HeldStays, SteppingStays, CountedStays, CrowdingStays
<1>3. Inv => BacklogIsCrowding
  BY DEF Crowding, BacklogIsCrowding
<1> QED
  BY <1>1, <1>2, <1>3, PTL DEF Spec

-----------------------------------------------------------------------------
(* FlattenSeq, one sequence at a time.  Where a proof needs induction it   *)
(* looks at the least number for which a fact would fail.                  *)

\* f holds the first n steps of FlattenSeq(s).
Flattens(f, s, n) ==
  f = [i \in 1 .. n |-> IF i = 1 THEN s[i] ELSE f[i - 1] \o s[i]]

Flatten(s) == CHOOSE f : Flattens(f, s, Len(s))

\* The steps exist: the next one is added to those there are.
LEMMA FlattensExist ==
  ASSUME NEW s, NEW n \in Nat
  PROVE  \E f : Flattens(f, s, n)
<1> DEFINE Without == {m \in Nat : ~ \E f : Flattens(f, s, m)}
<1>1. SUFFICES ASSUME n \in Without
               PROVE  FALSE
  OBVIOUS
<1>2. PICK m \in Without : \A k \in Without : m <= k
  <2>1. Without \subseteq Nat /\ Without # {}
    BY <1>1
  <2> HIDE DEF Without
  <2> QED
    BY <2>1, LeastNat
<1>3. m \in Nat /\ ~ \E f : Flattens(f, s, m)
  BY <1>2
<1>4. m # 0
  <2>1. Flattens([i \in 1 .. 0 |-> s[i]], s, 0)
    BY DEF Flattens
  <2> QED
    BY <1>3, <2>1
<1>5. PICK f : Flattens(f, s, m - 1)
  <2>1. m - 1 \in Nat /\ ~(m <= m - 1)
    BY <1>3, <1>4
  <2> QED
    BY <1>2, <2>1
<1> DEFINE g == [i \in 1 .. m |-> IF i # m THEN f[i] ELSE IF m = 1 THEN s[m] ELSE f[m - 1] \o s[m]]
<1>6. ASSUME NEW i \in 1 .. m
      PROVE  g[i] = IF i = 1 THEN s[i] ELSE g[i - 1] \o s[i]
  <2>1. i # 1 => i - 1 \in 1 .. m - 1 /\ g[i - 1] = f[i - 1]
    BY <1>3
  <2>2. CASE i = m
    BY <2>1, <2>2
  <2>3. CASE i # m
    <3>1. i \in 1 .. m - 1
      BY <1>3, <2>3
    <3>2. f[i] = IF i = 1 THEN s[i] ELSE f[i - 1] \o s[i]
      BY <1>5, <3>1 DEF Flattens
    <3> QED
      BY <2>1, <2>3, <3>2
  <2> QED
    BY <2>2, <2>3
<1>7. Flattens(g, s, m)
  <2>1. g = [i \in 1 .. m |-> g[i]]
    OBVIOUS
  <2> HIDE DEF g
  <2> QED
    BY <1>6, <2>1 DEF Flattens
<1> QED
  BY <1>3, <1>7

\* They depend on what was flattened only.
LEMMA FlattensAgree ==
  ASSUME NEW f, NEW s, NEW n \in Nat, Flattens(f, s, n),
         NEW g, NEW t, NEW k \in Nat, Flattens(g, t, k),
         n <= k, \A i \in 1 .. n : s[i] = t[i]
  PROVE  \A i \in 1 .. n : f[i] = g[i]
<1> DEFINE Apart == {i \in 1 .. n : f[i] # g[i]}
<1>1. SUFFICES ASSUME Apart # {}
               PROVE  FALSE
  OBVIOUS
<1>2. PICK m \in Apart : \A i \in Apart : m <= i
  <2>1. Apart \subseteq Nat /\ Apart # {}
    BY <1>1
  <2> HIDE DEF Apart
  <2> QED
    BY <2>1, LeastNat
<1>3. m \in 1 .. n /\ m \in 1 .. k /\ f[m] # g[m] /\ s[m] = t[m]
  BY <1>2
<1>4. /\ f[m] = IF m = 1 THEN s[m] ELSE f[m - 1] \o s[m]
      /\ g[m] = IF m = 1 THEN t[m] ELSE g[m - 1] \o t[m]
  BY <1>3 DEF Flattens
<1>5. m # 1 => f[m - 1] = g[m - 1]
  <2>1. m # 1 => m - 1 \in 1 .. n /\ ~(m <= m - 1)
    BY <1>3
  <2> QED
    BY <1>2, <2>1
<1> QED
  BY <1>3, <1>4, <1>5

\* The steps of FlattenSeq are sequences of the same things.
LEMMA FlattensType ==
  ASSUME NEW S, NEW f, NEW s, NEW n \in Nat, Flattens(f, s, n),
         \A i \in 1 .. n : s[i] \in Seq(S)
  PROVE  \A i \in 1 .. n : f[i] \in Seq(S)
<1> DEFINE Bad == {i \in 1 .. n : f[i] \notin Seq(S)}
<1>1. SUFFICES ASSUME Bad # {}
               PROVE  FALSE
  OBVIOUS
<1>2. PICK m \in Bad : \A i \in Bad : m <= i
  <2>1. Bad \subseteq Nat /\ Bad # {}
    BY <1>1
  <2> HIDE DEF Bad
  <2> QED
    BY <2>1, LeastNat
<1>3. m \in 1 .. n /\ f[m] \notin Seq(S) /\ s[m] \in Seq(S)
  BY <1>2
<1>4. f[m] = IF m = 1 THEN s[m] ELSE f[m - 1] \o s[m]
  BY <1>3 DEF Flattens
<1>5. m # 1 => f[m - 1] \in Seq(S)
  <2>1. m # 1 => m - 1 \in 1 .. n /\ ~(m <= m - 1)
    BY <1>3
  <2> QED
    BY <1>2, <2>1
<1> QED
  BY <1>3, <1>4, <1>5, ConcatProperties

\* FlattenSeq is the last of its steps.
LEMMA FlattenSeqIs ==
  ASSUME NEW S, NEW s \in Seq(S)
  PROVE  /\ FlattenSeq(s) = IF Len(s) = 0 THEN s ELSE Flatten(s)[Len(s)]
         /\ Flattens(Flatten(s), s, Len(s))
<1>1. FlattenSeq(s) = IF Len(s) = 0 THEN s ELSE Flatten(s)[Len(s)]
  BY DEF FlattenSeq, Flatten, Flattens
<1>2. Len(s) \in Nat
  BY LenProperties
<1>3. \E f : Flattens(f, s, Len(s))
  BY <1>2, FlattensExist
<1> QED
  BY <1>1, <1>3 DEF Flatten

\* What is flattened last comes last.
LEMMA FlattenAppend ==
  ASSUME NEW S, NEW s \in Seq(Seq(S)), NEW x \in Seq(S)
  PROVE  /\ FlattenSeq(s) \in Seq(S)
         /\ FlattenSeq(Append(s, x)) = FlattenSeq(s) \o x
<1> DEFINE t == Append(s, x)
           n == Len(s)
<1>1. /\ n \in Nat /\ t \in Seq(Seq(S)) /\ Len(t) = n + 1
      /\ t[n + 1] = x /\ \A i \in 1 .. n : s[i] = t[i] /\ s[i] \in Seq(S)
  BY AppendProperties, LenProperties
<1> HIDE DEF t
<1>2. /\ FlattenSeq(s) = IF n = 0 THEN s ELSE Flatten(s)[n]
      /\ Flattens(Flatten(s), s, n)
  BY FlattenSeqIs
<1>3. /\ FlattenSeq(t) = Flatten(t)[n + 1]
      /\ Flattens(Flatten(t), t, n + 1)
  BY <1>1, FlattenSeqIs
<1> HIDE DEF n
<1>q. PICK f, g : f = Flatten(s) /\ g = Flatten(t)
  OBVIOUS
<1>4. g[n + 1] = IF n = 0 THEN x ELSE g[n] \o x
  <2>1. g = [i \in 1 .. n + 1 |-> IF i = 1 THEN t[i] ELSE g[i - 1] \o t[i]]
    BY <1>3, <1>q DEF Flattens
  <2>2. n + 1 \in 1 .. n + 1 /\ (n + 1) - 1 = n /\ (n + 1 = 1 <=> n = 0)
    BY <1>1
  <2>3. g[n + 1] = IF n + 1 = 1 THEN t[n + 1] ELSE g[(n + 1) - 1] \o t[n + 1]
    BY <2>1, <2>2
  <2> QED
    BY <1>1, <2>2, <2>3
<1>5. CASE n = 0
  <2>1. s = <<>>
    BY <1>5, EmptySeq DEF n
  <2>2. <<>> \o x = x
    BY ConcatEmptySeq
  <2> QED
    BY <1>2, <1>3, <1>4, <1>5, <1>q, <2>1, <2>2 DEF t
<1>6. CASE n # 0
  <2>1. n \in 1 .. n /\ n <= n + 1 /\ n + 1 \in Nat
    BY <1>1, <1>6
  <2>2. \A i \in 1 .. n : f[i] = g[i]
    <3>1. Flattens(f, s, n) /\ Flattens(g, t, n + 1)
      BY <1>2, <1>3, <1>q
    <3>2. \A i \in 1 .. n : s[i] = t[i]
      BY <1>1
    <3>3. n \in Nat /\ n + 1 \in Nat /\ n <= n + 1
      BY <1>1, <2>1
    <3> QED
      BY <3>1, <3>2, <3>3, FlattensAgree
  <2>3. f[n] \in Seq(S)
    <3>1. Flattens(f, s, n) /\ \A i \in 1 .. n : s[i] \in Seq(S)
      BY <1>1, <1>2, <1>q
    <3> QED
      BY <1>1, <2>1, <3>1, FlattensType
  <2>4. FlattenSeq(s) = f[n] /\ FlattenSeq(t) = g[n] \o x
    BY <1>2, <1>3, <1>4, <1>6, <1>q
  <2>5. f[n] = g[n]
    BY <2>1, <2>2
  <2> QED
    BY <2>3, <2>4, <2>5 DEF t
<1> QED
  BY <1>5, <1>6
-----------------------------------------------------------------------------
(* The answers.                                                            *)

\* What the i-th frame of the stream is to be answered with.
Due(i) ==
  CASE stream[i].fin /\ stream[i].opcode = "text" -> <<Reply("echo", <<i>>)>>
    [] stream[i].opcode = "ping" -> <<Reply("pong", <<>>)>>
    [] OTHER -> <<>>

Dues(n) == [i \in 1 .. n |-> Due(i)]

Hello == <<Reply("response", <<>>), Reply("welcome", <<>>)>>

Replies ==
  {Reply("response", <<>>), Reply("welcome", <<>>), Reply("pong", <<>>)}
    \cup {Reply("echo", <<i>>) : i \in Nat}

\* A fragmented message is open behind the first n frames.
InsideAt(n) ==
  \E j \in 1 .. n :
    /\ IsData(stream[j]) /\ ~stream[j].fin
    /\ \A k \in j + 1 .. n : ~IsData(stream[k])

\* The first n frames were served: what they are due was sent, and fragments
\* are kept only of a message that is open.
ServedTo(n) ==
  /\ start[n + 1] = FirstByte(buffer)
  /\ sent = Hello \o FlattenSeq(Dues(n))
  /\ closing \/ partial = <<>> \/ InsideAt(n)

\* AnsweredInOrder, with what the client keeps to.
Answering ==
  /\ Compliant(stream)
  /\ IF upgraded THEN \E n \in 0 .. Len(stream) : ServedTo(n)
     ELSE sent = <<>> /\ partial = <<>>

\* What a frame is due are replies.
LEMMA DueType ==
  ASSUME NEW i \in Nat
  PROVE  Due(i) \in Seq(Replies)
<1>1. ASSUME NEW r \in Replies
      PROVE  <<r>> \in Seq(Replies)
  OBVIOUS
<1>2. Reply("echo", <<i>>) \in Replies /\ Reply("pong", <<>>) \in Replies
  BY DEF Replies
<1>3. /\ <<Reply("echo", <<i>>)>> \in Seq(Replies)
      /\ <<Reply("pong", <<>>)>> \in Seq(Replies)
      /\ <<>> \in Seq(Replies)
  BY <1>1, <1>2
<1>4. \/ Due(i) = <<Reply("echo", <<i>>)>>
      \/ Due(i) = <<Reply("pong", <<>>)>>
      \/ Due(i) = <<>>
  BY Zenon DEF Due
<1> QED
  BY <1>3, <1>4

\* So is what the handshake is answered with.
LEMMA HelloType == Hello \in Seq(Replies)
<1>1. ASSUME NEW r \in Replies, NEW q \in Replies
      PROVE  <<r, q>> \in Seq(Replies)
  OBVIOUS
<1>2. Reply("response", <<>>) \in Replies /\ Reply("welcome", <<>>) \in Replies
  BY DEF Replies
<1> QED
  BY <1>1, <1>2 DEF Hello

\* Three sequences in a row.
LEMMA Reassociated ==
  ASSUME NEW S, NEW a \in Seq(S), NEW b \in Seq(S), NEW c \in Seq(S)
  PROVE  (a \o b) \o c = a \o (b \o c)
BY ConcatAssociative

\* What n + 1 frames are due is what n are due and what the last of them is
\* due.
LEMMA DuesGrow ==
  ASSUME NEW n \in Nat
  PROVE  /\ FlattenSeq(Dues(n)) \in Seq(Replies)
         /\ FlattenSeq(Dues(n + 1)) = FlattenSeq(Dues(n)) \o Due(n + 1)
<1> DEFINE s == Dues(n)
           x == Due(n + 1)
<1>1. \A i \in 1 .. n + 1 : Due(i) \in Seq(Replies)
  BY DueType
<1>2. s \in Seq(Seq(Replies)) /\ Len(s) = n /\ \A i \in 1 .. n : s[i] = Due(i)
  BY <1>1 DEF Dues
<1>3. x \in Seq(Replies)
  BY <1>1
<1>4. Append(s, x) = Dues(n + 1)
  <2>1. /\ Dues(n + 1) \in Seq(Seq(Replies)) /\ Len(Dues(n + 1)) = n + 1
        /\ \A i \in 1 .. n + 1 : Dues(n + 1)[i] = Due(i)
    BY <1>1 DEF Dues
  <2> HIDE DEF s, x
  <2>2. /\ Append(s, x) \in Seq(Seq(Replies)) /\ Len(Append(s, x)) = n + 1
        /\ Append(s, x)[n + 1] = x /\ \A i \in 1 .. n : Append(s, x)[i] = s[i]
    BY <1>2, <1>3, AppendProperties
  <2>3. ASSUME NEW i \in 1 .. n + 1
        PROVE  Append(s, x)[i] = Dues(n + 1)[i]
    BY <1>2, <2>1, <2>2 DEF x
  <2> QED
    BY <2>1, <2>2, <2>3, SeqEqual
<1> HIDE DEF s, x
<1>5. /\ FlattenSeq(s) \in Seq(Replies)
      /\ FlattenSeq(Append(s, x)) = FlattenSeq(s) \o x
  BY <1>2, <1>3, FlattenAppend
<1> QED
  BY <1>4, <1>5 DEF s, x

\* No frames are due nothing.
LEMMA NothingDue == FlattenSeq(Dues(0)) = <<>>
<1>1. Dues(0) \in Seq(Nat) /\ Len(Dues(0)) = 0
  BY DEF Dues
<1>2. Dues(0) = <<>>
  BY <1>1, EmptySeq
<1> QED
  BY <1>1, <1>2, FlattenSeqIs

\* Nothing is sent where the program starts.
LEMMA AnsweringInitially == Init => Answering
BY DEF Init, Answering, Compliant

\* The client's own rules, frame by frame.
LEMMA ClientComplies ==
  ASSUME LaidOut, Compliant(stream), NEW n \in Nat, n + 1 \in DOMAIN stream
  PROVE  LET f == stream[n + 1]
         IN  /\ f \in Frames /\ f.fin \in BOOLEAN
             /\ f.opcode \in {"text", "continuation", "ping", "pong", "close"}
             /\ f.opcode = "text" => ~InsideAt(n)
             /\ ~IsData(f) => f.fin
<1>1. stream[n + 1] \in Frames
  BY DEF LaidOut
<1>2. (n + 1) - 1 = n
  OBVIOUS
<1>3. /\ stream[n + 1].opcode = "text" => ~InsideAt(n)
      /\ ~IsData(stream[n + 1]) => stream[n + 1].fin
  BY <1>2 DEF Compliant, IsData, InsideAt
<1> QED
  BY <1>1, <1>3, SessionAssumption

\* A frame that is served is answered with what it is due.
LEMMA AnsweringServes ==
  ASSUME LaidOut, Held, Stepping, Flags, Answering, NEW i \in DOMAIN stream, ServeFrame(i),
         stream[i].code > 0
  PROVE  Answering'
<1> DEFINE f == stream[i]
           payload == Append(partial, i)
<1>1. /\ UNCHANGED <<stream, start, upgraded>> /\ reading /\ upgraded /\ ~closing
      /\ start[i] = FirstByte(buffer)
      /\ sent' = sent \o Answer(f, payload)
      /\ partial' = IF Keeps(f) THEN payload ELSE <<>>
      /\ closing' = (f.fin /\ f.opcode = "close")
  BY DEF ServeFrame, Return, At, Stepping
<1>2. PICK n \in 0 .. Len(stream) : ServedTo(n)
  BY <1>1 DEF Answering
<1>3. i = n + 1 /\ n \in Nat
  <2>1. i \in DOMAIN start /\ n + 1 \in DOMAIN start /\ start[i] = start[n + 1]
    BY <1>1, <1>2 DEF LaidOut, ServedTo
  <2>2. /\ i \in Nat /\ n + 1 \in Nat /\ start[i] \in Nat
        /\ (start[i] < start[n + 1] <=> i < n + 1) /\ (start[n + 1] < start[i] <=> n + 1 < i)
    BY <2>1, Ordered
  <2> QED
    BY <2>1, <2>2
<1>4. /\ f \in Frames /\ f.fin \in BOOLEAN
      /\ f.opcode \in {"text", "continuation", "ping", "pong", "close"}
      /\ f.opcode = "text" => ~InsideAt(n)
      /\ ~IsData(f) => f.fin
  BY <1>3, ClientComplies DEF Answering
<1>5. partial \in Seq(Nat) /\ (partial = <<>> \/ InsideAt(n))
  BY <1>1, <1>2 DEF ServedTo, Flags
<1>6. Answer(f, payload) = Due(i)
  <2>1. CASE f.fin /\ f.opcode = "text"
    <3>1. partial = <<>>
      BY <1>4, <1>5, <2>1
    <3>2. payload = <<i>>
      BY <3>1
    <3> QED
      BY <2>1, <3>2 DEF Answer, Due
  <2>2. CASE f.opcode = "ping"
    BY <1>4, <2>2 DEF Answer, Due, IsData
  <2>3. CASE ~(f.fin /\ f.opcode = "text") /\ f.opcode # "ping"
    BY <2>3 DEF Answer, Due
  <2> QED
    BY <2>1, <2>2, <2>3
<1>7. sent' = Hello \o FlattenSeq(Dues(n + 1))
  <2>1. /\ FlattenSeq(Dues(n)) \in Seq(Replies)
        /\ FlattenSeq(Dues(n + 1)) = FlattenSeq(Dues(n)) \o Due(n + 1)
    BY <1>3, DuesGrow
  <2>2. Hello \in Seq(Replies) /\ Due(n + 1) \in Seq(Replies)
    BY <1>3, DueType, HelloType
  <2>3. (Hello \o FlattenSeq(Dues(n))) \o Due(n + 1) = Hello \o (FlattenSeq(Dues(n)) \o Due(n + 1))
    BY <2>1, <2>2, Reassociated
  <2> QED
    BY <1>1, <1>2, <1>3, <1>6, <2>1, <2>3 DEF ServedTo
<1>8. Dues(n + 1)' = Dues(n + 1) /\ InsideAt(n + 1)' = InsideAt(n + 1)
  BY <1>1 DEF Dues, Due, InsideAt
<1>9. start[n + 2] = FirstByte(buffer')
  <2>1. /\ FirstByte(buffer') = start[i] + HeaderSize(f) + f.length
        /\ HeaderSize(f) + f.length = FrameSize(f) /\ f.length \in Nat /\ HeaderSize(f) \in Nat
    BY <1>4, ServeConsumes, FrameSizes DEF Held
  <2>2. start[i + 1] = start[i] + FrameSize(f) /\ start[i] \in Nat
    BY DEF LaidOut
  <2> QED
    BY <1>3, <2>1, <2>2
<1>10. closing' \/ partial' = <<>> \/ InsideAt(n + 1)
  <2>1. CASE ~f.fin
    <3>1. IsData(f) /\ n + 1 \in 1 .. n + 1 /\ (n + 1) + 1 .. n + 1 = {}
      BY <1>3, <1>4, <2>1
    <3> QED
      BY <1>3, <2>1, <3>1 DEF InsideAt
  <2>2. CASE f.fin /\ f.opcode = "close"
    BY <1>1, <2>2
  <2>3. CASE f.fin /\ f.opcode # "close"
    BY <1>1, <2>3 DEF Keeps
  <2> QED
    BY <2>1, <2>2, <2>3
<1>11. n + 1 \in 0 .. Len(stream)
  BY <1>3 DEF LaidOut
<1>12. ServedTo(n + 1)'
  BY <1>1, <1>3, <1>7, <1>8, <1>9, <1>10 DEF ServedTo, Hello
<1> QED
  BY <1>1, <1>11, <1>12 DEF Answering

\* A handshake is answered before the first frame.
LEMMA AnsweringUpgrades ==
  ASSUME LaidOut, Held, Stepping, Answering, Handshake
  PROVE  Answering'
<1>1. /\ UNCHANGED <<stream, start, partial>> /\ ~upgraded /\ ~closing
      /\ buffer' = Retrieve(buffer, RequestSize) /\ upgraded' = valid
      /\ sent' = IF valid THEN sent \o Hello ELSE sent
      /\ RequestSize <= Readable(buffer)
  BY SessionAssumption DEF Handshake, Hello, Stepping, Held, BufferOK, Buffers, Readable
<1>2. sent = <<>> /\ partial = <<>> /\ Compliant(stream)
  BY <1>1 DEF Answering
<1>3. CASE ~valid
  BY <1>1, <1>2, <1>3 DEF Answering
<1>4. CASE valid
  <2>1. FirstByte(buffer') = RequestSize /\ start[1] = RequestSize
    BY <1>1, RetrieveConsumes, SessionAssumption DEF Held, Stepping, LaidOut
  <2>2. Hello \in Seq(Replies) /\ Dues(0)' = Dues(0)
    BY <1>1 DEF Hello, Replies, Dues, Due
  <2>3. sent' = Hello \o FlattenSeq(Dues(0))
    BY <1>1, <1>2, <1>4, <2>2, NothingDue, ConcatEmptySeq
  <2>4. ServedTo(0)'
    BY <1>1, <1>2, <2>1, <2>2, <2>3 DEF ServedTo, Hello
  <2>5. 0 \in 0 .. Len(stream)
    BY DEF LaidOut
  <2> QED
    BY <1>1, <1>2, <1>4, <2>4, <2>5 DEF Answering
<1> QED
  BY <1>3, <1>4

\* What the client sends later changes nothing about the frames that were
\* served.
LEMMA AnsweringSends ==
  ASSUME LaidOut, Answering, NEW f \in Frames, ClientSends(f)
  PROVE  Answering'
<1>1. /\ stream' = Append(stream, f) /\ stream \in Seq(Frames)
      /\ start' = Append(start, start[Len(start)] + FrameSize(f)) /\ start \in Seq(Nat)
      /\ Len(start) = Len(stream) + 1 /\ Compliant(stream')
      /\ UNCHANGED <<buffer, sent, partial, closing, upgraded>>
  BY DEF ClientSends, LaidOut
<1>2. CASE ~upgraded
  BY <1>1, <1>2 DEF Answering
<1>3. CASE upgraded
  <2>1. PICK n \in 0 .. Len(stream) : ServedTo(n)
    BY <1>3 DEF Answering
  <2>2. /\ n \in 0 .. Len(stream') /\ start'[n + 1] = start[n + 1]
        /\ \A i \in 1 .. n : stream'[i] = stream[i]
    BY <1>1
  <2>3. Dues(n)' = Dues(n)
    BY <2>2 DEF Dues, Due
  <2>4. InsideAt(n) => InsideAt(n)'
    BY <2>2 DEF InsideAt
  <2>5. ServedTo(n)'
    BY <1>1, <2>1, <2>2, <2>3, <2>4 DEF ServedTo, Hello
  <2> QED
    BY <1>1, <1>3, <2>2, <2>5 DEF Answering
<1> QED
  BY <1>2, <1>3

\* A step that takes nothing from the buffer and answers nothing.
LEMMA AnsweringRests ==
  ASSUME Answering, UNCHANGED <<stream, start, upgraded, sent, partial>>,
         FirstByte(buffer') = FirstByte(buffer), closing => closing'
  PROVE  Answering'
<1>1. ASSUME NEW n, ServedTo(n)
      PROVE  ServedTo(n)'
  <2>1. Dues(n)' = Dues(n) /\ InsideAt(n)' = InsideAt(n)
    BY DEF Dues, Due, InsideAt
  <2> QED
    BY <1>1, <2>1 DEF ServedTo, Hello
<1> QED
  BY <1>1 DEF Answering

\* Every step keeps the answers, if no frame is empty.
LEMMA AnsweringStays ==
  ASSUME \A f \in Frames : f.code > 0
  PROVE  LaidOut /\ LaidOut' /\ Held /\ Stepping /\ Flags /\ Answering /\ [Next]_vars
           => Answering'
<1> SUFFICES ASSUME LaidOut, LaidOut', Held, Stepping, Flags, Answering, [Next]_vars
             PROVE  Answering'
  OBVIOUS
<1>1. ASSUME NEW f \in Frames, ClientSends(f)
      PROVE  Answering'
  BY <1>1, AnsweringSends
<1>2. ASSUME NEW n, HandleRead(n)
      PROVE  Answering'
  <2>1. n \in Nat
    BY <1>2 DEF HandleRead
  <2>2. FirstByte(buffer') = FirstByte(buffer)
    BY <1>2, <2>1, ReadFdAppends DEF Held, HandleRead
  <2> QED
    BY <1>2, <2>2, AnsweringRests DEF HandleRead
<1>3. CASE Idle
  <2>1. UNCHANGED <<stream, start, upgraded, sent, partial, buffer>>
    BY <1>3 DEF Idle, Looks
  <2>2. FirstByte(buffer') = FirstByte(buffer)
    BY <2>1
  <2>3. closing => closing'
    BY <1>3 DEF Idle
  <2> QED
    BY <2>1, <2>2, <2>3, AnsweringRests
<1>4. CASE Handshake
  BY <1>4, AnsweringUpgrades
<1>5. ASSUME NEW i \in DOMAIN stream, ServeFrame(i)
      PROVE  Answering'
  <2>1. stream[i].code > 0
    BY DEF LaidOut
  <2> QED
    BY <1>5, <2>1, AnsweringServes
<1>6. CASE Finished \/ UNCHANGED vars
  BY <1>6, AnsweringRests DEF Finished, vars
<1> QED
  BY <1>1, <1>2, <1>3, <1>4, <1>5, <1>6, Idling DEF Next, OnRead

\* What was sent in answer to the frames served is in the order of
\* AnsweredInOrder.
LEMMA AnsweringAnswers == LaidOut /\ Answering => AnsweredInOrder
<1> SUFFICES ASSUME LaidOut, Answering, upgraded
             PROVE  sent = Hello \o FlattenSeq(Dues(Cardinality(Served)))
  BY DEF AnsweredInOrder, Hello, Dues, Due
<1>1. PICK n \in 0 .. Len(stream) : ServedTo(n)
  BY DEF Answering
<1>2. Served = 1 .. n
  <2>1. n + 1 \in DOMAIN start /\ DOMAIN stream = 1 .. Len(stream) /\ Len(stream) \in Nat
    BY DEF LaidOut
  <2>2. \A i \in DOMAIN stream : i \in DOMAIN start /\ i \in Nat
    BY DEF LaidOut
  <2>3. \A i \in DOMAIN stream : start[i] < start[n + 1] <=> i < n + 1
    BY <2>1, <2>2, Ordered
  <2> QED
    BY <1>1, <2>1, <2>2, <2>3 DEF Served, ServedTo
<1>3. Cardinality(1 .. n) = n
  <2>1. 1 \in Int /\ n \in Int
    OBVIOUS
  <2>2. Cardinality(1 .. n) = IF 1 > n THEN 0 ELSE n - 1 + 1
    BY <2>1, FS_Interval
  <2> QED
    BY <2>2
<1> QED
  BY <1>1, <1>2, <1>3 DEF ServedTo

\* AnsweredInOrder: for every stream without an empty frame and every cut of
\* it, each message of a single frame and each ping is answered once, in order
\* and with its own bytes, and nothing else is: a fragmented message never is.
THEOREM AnswersInOrder ==
  ASSUME \A f \in Frames : f.code > 0
  PROVE  Spec => []AnsweredInOrder
<1> DEFINE Inv == LaidOut /\ Held /\ Stepping /\ Bounded /\ Flags /\ Answering
<1>1. Init => Inv
  BY LaidOutStays, HeldInitially, SteppingInitially, CountedInitially, AnsweringInitially
<1>2. Inv /\ [Next]_vars => Inv'
  BY LaidOutStays, HeldStays, SteppingStays, FlagsStay, AnsweringStays
<1>3. Inv => AnsweredInOrder
  BY AnsweringAnswers
<1> QED
  BY <1>1, <1>2, <1>3, PTL DEF Spec

=============================================================================
