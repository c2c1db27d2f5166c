-------------------------- MODULE WebSocketSession --------------------------
(***************************************************************************)
(* websocketsrc/MyWebSocketSession.cpp with appsrc/BusinessSession.cpp on  *)
(* the input buffer of its connection: a session takes the request of the  *)
(* handshake and then frames out of a byte stream that reads cut anywhere, *)
(* and answers.  All of it runs in the connection's loop.                  *)
(*                                                                         *)
(* The client masks its frames and does not mix fragments of two messages, *)
(* as RFC 6455 has it, but may spend more bytes on a length than it needs. *)
(* A frame is its FIN bit, its opcode, the low seven bits of its second    *)
(* byte and the length of its payload; compression is left out.            *)
(***************************************************************************)
EXTENDS Buffer, SequencesExt

CONSTANTS
  Frames,         \* the frames the client chooses from
  MaxFrames,      \* bound: how many it sends
  RequestSize,    \* the length of the request, its empty line included
  Limit,          \* MAX_WEBSOCKET_CLIENT_PACKAGE_LENGTH
  CutPoints       \* bound: where reads may end, from the start of a frame

ASSUME SessionAssumption ==
  /\ \A f \in Frames :
       /\ f.fin \in BOOLEAN
       /\ f.opcode \in {"text", "continuation", "ping", "pong", "close"}
       /\ f.length \in Nat
       /\ f.code \in 0 .. 127
       /\ f.code < 126 => f.code = f.length
       /\ f.code = 126 => f.length < 65536
  /\ MaxFrames \in Nat
  /\ RequestSize \in Nat \ {0}
  /\ Limit \in Nat
  /\ CutPoints \subseteq Nat

VARIABLES
  stream,         \* the frames the client has sent behind its request
  start,          \* where each starts, and where the next one would
  valid,          \* the request passes handleHandshake
  received,       \* how many bytes of the stream were read
  buffer,         \* inputBuffer_
  upgraded,       \* m_bUpdateToWebSocket
  partial,        \* m_strParsedData, as the frames whose payload it holds
  sent,           \* what the session sent, as records
  reading,        \* onRead is running
  closing,        \* forceClose was called
  crowded         \* history: frames that one read completed beside the first

vars == <<stream, start, valid, received, buffer, upgraded, partial, sent,
          reading, closing, crowded>>

-----------------------------------------------------------------------------
(* The client's side: RFC 6455.                                            *)

IsData(f) == f.opcode \in {"text", "continuation"}

\* A continuation follows a fragment that is not final, control frames may
\* come in between, and nothing comes behind a close.
Compliant(s) ==
  \A i \in DOMAIN s :
    LET inside == \E j \in 1 .. i - 1 :
          /\ IsData(s[j]) /\ ~s[j].fin
          /\ \A k \in j + 1 .. i - 1 : ~IsData(s[k])
    IN  IF IsData(s[i]) THEN s[i].opcode = "continuation" <=> inside
        ELSE s[i].fin /\ (s[i].opcode = "close" => i = Len(s))

\* The bytes of a length that the second byte of the frame does not hold.
LengthBytes(f) == IF f.code = 126 THEN 2 ELSE IF f.code = 127 THEN 8 ELSE 0

\* Two bytes, the longer length, the mask and the payload.
FrameSize(f) == 2 + LengthBytes(f) + 4 + f.length

\* RFC 6455, 5.2: the length takes as few bytes as it can.
Shortest(f) ==
  f.code = IF f.length < 126 THEN f.length ELSE IF f.length < 65536 THEN 126 ELSE 127

Completed(from, to) ==
  {i \in DOMAIN stream : from < start[i + 1] /\ start[i + 1] <= to}

\* Where a read may end.
Cuts == {RequestSize - 1} \cup {start[i] + d : i \in DOMAIN start, d \in CutPoints}

Init ==
  /\ stream = <<>>
  /\ start = <<RequestSize>>
  /\ valid \in BOOLEAN
  /\ received = 0
  /\ buffer = EmptyBuffer
  /\ upgraded = FALSE
  /\ partial = <<>>
  /\ sent = <<>>
  /\ reading = FALSE
  /\ closing = FALSE
  /\ crowded = 0

ClientSends(f) ==
  /\ ~reading /\ ~closing
  /\ Len(stream) < MaxFrames
  /\ Compliant(Append(stream, f))
  /\ stream' = Append(stream, f)
  /\ start' = Append(start, start[Len(start)] + FrameSize(f))
  /\ UNCHANGED <<valid, received, buffer, upgraded, partial, sent, reading,
                 closing, crowded>>

-----------------------------------------------------------------------------
(* handleRead of the connection, which calls onRead.                       *)

\* readv brings n bytes of the stream.
HandleRead(n) ==
  /\ ~reading /\ ~closing
  /\ n \in 1 .. MaxRead(buffer)
  /\ received + n <= start[Len(start)]
  /\ buffer' = ReadFd(buffer, n)
  /\ received' = received + n
  /\ crowded' = crowded + Max({0, Cardinality(Completed(received, received + n)) - 1})
  /\ reading' = TRUE
  /\ UNCHANGED <<stream, start, valid, upgraded, partial, sent, closing>>

\* One turn of the loop in onRead that ends the call ...
Return == reading /\ reading' = FALSE

\* ... and what it leaves alone when it only looks.
Looks == UNCHANGED <<stream, start, valid, received, buffer, upgraded, partial, sent, crowded>>

TooLong == Readable(buffer) >= Limit

\* close()
Overrun ==
  /\ Return
  /\ TooLong
  /\ closing' = TRUE
  /\ Looks

\* No empty line yet.
AwaitRequest ==
  /\ Return
  /\ ~TooLong /\ ~upgraded
  /\ Readable(buffer) < RequestSize
  /\ Looks /\ UNCHANGED closing

\* What goes to the client: its kind and, if it echoes, the frames echoed.
Reply(kind, payload) == [kind |-> kind, payload |-> payload]

\* handleHandshake, onConnect included.  After a good one the loop goes
\* round: frames may have come with the request.
Handshake ==
  /\ reading
  /\ ~TooLong /\ ~upgraded
  /\ Readable(buffer) >= RequestSize
  /\ buffer' = Retrieve(buffer, RequestSize)
  /\ upgraded' = valid
  /\ sent' = IF valid THEN sent \o <<Reply("response", <<>>), Reply("welcome", <<>>)>> ELSE sent
  /\ closing' = ~valid
  /\ reading' = valid
  /\ UNCHANGED <<stream, start, valid, received, partial, crowded>>

-----------------------------------------------------------------------------
(* decodePackage.  What it decodes once it is out of step with the frames  *)
(* depends on payload bytes; the model ends there.                         *)

InStep == FirstByte(buffer) \in Range(start)

At(i) == i \in DOMAIN stream /\ start[i] = FirstByte(buffer)

\* Mutant: the two bytes of a longer length are not counted.
HeaderSizeShort(f) ==
  CASE f.code = 0   -> 4
    [] f.code = 127 -> 14
    [] OTHER        -> 6

\* headerSize of a masked frame, by payloadLength: the first two bytes are
\* counted with each form of the length, and not at all when it is 0.
HeaderSize(f) ==
  CASE f.code = 0            -> 4
    [] f.code \in 1 .. 125   -> 6
    [] f.code = 126          -> 8
    [] f.code = 127          -> 14

\* illegal extendedPayloadLength
Illegal(f) ==
  \/ f.code = 126 /\ (f.length < 126 \/ f.length > 65535)
  \/ f.code = 127 /\ f.length <= 65535

\* Mutant: more than the shortest frame is asked for.
MinHeaderPlusTwo == 8

\* MIN_WEBSOCKET_PACKAGE_HEADER_LENGTH
MinHeader == 6

\* An illegal length is seen as soon as the header is there.
Arrived(f) ==
  /\ Readable(buffer) >= MinHeader
  /\ Readable(buffer) >= HeaderSize(f) + (IF Illegal(f) THEN 0 ELSE f.length)

\* No whole frame yet.
AwaitFrame ==
  /\ Return
  /\ ~TooLong /\ upgraded
  /\ \/ Readable(buffer) < MinHeader
     \/ \E i \in DOMAIN stream : At(i) /\ ~Arrived(stream[i])
  /\ Looks /\ UNCHANGED closing

\* decodePackage fails before it takes anything, and onRead closes.
RefuseFrame(i) ==
  /\ Return
  /\ ~TooLong /\ upgraded
  /\ At(i) /\ Arrived(stream[i]) /\ Illegal(stream[i])
  /\ closing' = TRUE
  /\ Looks

\* Mutant: m_strParsedData is not cleared behind a control frame.
KeepsPartial(f) == ~f.fin \/ ~IsData(f)

\* m_strParsedData is cleared behind a final frame that is no close.
Keeps(f) == ~f.fin \/ f.opcode = "close"

\* processPackage: what a final frame is answered with is decided by its own
\* opcode, so the end of a fragmented message, a continuation, is ignored.
Answer(f, payload) ==
  CASE f.fin /\ f.opcode = "text" -> <<Reply("echo", payload)>>
    [] f.fin /\ f.opcode = "ping" -> <<Reply("pong", <<>>)>>
    [] OTHER -> <<>>

\* One frame is taken, and onRead returns even if another one is there.
ServeFrame(i) ==
  /\ Return
  /\ ~TooLong /\ upgraded
  /\ At(i) /\ Arrived(stream[i]) /\ ~Illegal(stream[i])
  /\ LET f == stream[i]
         payload == Append(partial, i)
     IN  /\ buffer' = Retrieve(Retrieve(buffer, HeaderSize(f)), f.length)
         /\ sent' = sent \o Answer(f, payload)
         /\ partial' = IF Keeps(f) THEN payload ELSE <<>>
         /\ closing' = (f.fin /\ f.opcode = "close")
  /\ UNCHANGED <<stream, start, valid, received, upgraded, crowded>>

OnRead ==
  \/ Overrun
  \/ AwaitRequest
  \/ Handshake
  \/ AwaitFrame
  \/ \E i \in DOMAIN stream : RefuseFrame(i) \/ ServeFrame(i)

\* The client has no more to send, or the session has closed.
Finished ==
  /\ ~reading
  /\ closing \/ received = start[Len(start)]
  /\ UNCHANGED vars

Next ==
  \/ \E f \in Frames : ClientSends(f)
  \/ \E to \in Cuts : HandleRead(to - received)
  \/ OnRead
  \/ Finished

Spec == Init /\ [][Next]_vars

-----------------------------------------------------------------------------
(* Properties.                                                             *)

TypeOK ==
  /\ BufferOK(buffer)
  /\ stream \in Seq(Frames)
  /\ start \in Seq(Nat)
  /\ Len(start) = Len(stream) + 1
  /\ received \in 0 .. start[Len(start)]
  /\ \A v \in {valid, upgraded, reading, closing} : v \in BOOLEAN
  /\ upgraded => valid
  /\ Range(partial) \subseteq DOMAIN stream
  /\ crowded \in 0 .. MaxFrames

\* Growing, moving and reading in two parts keep every byte in its place: the
\* buffer ends where the stream was read to, and no byte is moved without
\* its index or lost with it.
BytesInPlace == NextByte(buffer) = received

Served == {i \in DOMAIN stream : start[i] < FirstByte(buffer)}

\* A session that was upgraded is closed for a full buffer, for the frame at
\* its front or for a close frame.
ClosedForCause ==
  \/ TooLong
  \/ \E i \in DOMAIN stream : At(i) /\ ~Shortest(stream[i])
  \/ \E i \in Served : stream[i].opcode = "close"

\* decodePackage finds the header of a frame where it looks for one, however
\* reads cut the stream; it serves no frame whose length takes more bytes than
\* it needs, and the session is closed over no other frame than that.
FramesInStep ==
  IF upgraded THEN /\ InStep
                   /\ \A i \in Served : Shortest(stream[i])
                   /\ closing => ClosedForCause
  ELSE FirstByte(buffer) \in {0, RequestSize}

\* A message of a single frame and a ping are each answered once, in their
\* order and behind the handshake, with the message's own bytes, and nothing
\* else is answered: no fragment gets into another message, and the end of a
\* fragmented message, which processPackage takes for a continuation, brings
\* no answer either.
AnsweredInOrder ==
  upgraded =>
    sent = <<Reply("response", <<>>), Reply("welcome", <<>>)>> \o
           FlattenSeq([i \in 1 .. Cardinality(Served) |->
             CASE stream[i].fin /\ stream[i].opcode = "text" -> <<Reply("echo", <<i>>)>>
               [] stream[i].opcode = "ping" -> <<Reply("pong", <<>>)>>
               [] OTHER -> <<>>])

\* Frames wait in the buffer only because one read completed several: each
\* read serves one frame if there is one, and nothing else comes back to it.
BacklogIsCrowding ==
  upgraded /\ ~reading /\ ~closing =>
    Cardinality(Completed(FirstByte(buffer), received)) <= crowded

\* No frame of the limit's size or more is ever served.
OversizedRefused == \A i \in Served : upgraded => FrameSize(stream[i]) < Limit

=============================================================================
