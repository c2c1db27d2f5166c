------------------------- MODULE MCWebSocketSession -------------------------
(***************************************************************************)
(* Frames for TLC: every form of the length with its smallest or largest   *)
(* value, lengths in a longer form than they need, a payload beyond the    *)
(* limit, fragments, and control frames.                                   *)
(***************************************************************************)
EXTENDS WebSocketSession

\* A frame whose second byte says code, and one in the shortest form.
Coded(fin, opcode, length, code) ==
  [fin |-> fin, opcode |-> opcode, length |-> length, code |-> code]

Frame(fin, opcode, length) ==
  Coded(fin, opcode, length,
        IF length < 126 THEN length ELSE IF length < 65536 THEN 126 ELSE 127)

MCFrames ==
  {Frame(TRUE, "text", n) : n \in {1, 125, 126, 65536, 80000}} \cup
  {Frame(FALSE, "text", 2), Frame(FALSE, "continuation", 65535),
   Frame(TRUE, "continuation", 3), Frame(TRUE, "ping", 4), Frame(TRUE, "close", 2),
   Coded(TRUE, "text", 125, 126), Coded(TRUE, "text", 65535, 127)}

MCCutPoints == {0, 1, 6, 10, 60000}

EmptyPing == {Frame(TRUE, "ping", 0), Frame(TRUE, "text", 1)}

=============================================================================
