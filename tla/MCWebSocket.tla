----------------------------- MODULE MCWebSocket -----------------------------
(***************************************************************************)
(* An instance of WebSocket for TLC with frames of each sort; a message    *)
(* may have 2 units.                                                       *)
(***************************************************************************)
EXTENDS WebSocket

Piece(op, fin, size) == [op |-> op, fin |-> fin, size |-> size, code |-> "none"]
Closing(code) == [op |-> "close", fin |-> TRUE, size |-> 1, code |-> code]

\* Whole messages, fragments that fit or do not fit together, control frames
\* and, with size 3, a frame that receiveFrame refuses.
AnyFrames ==
  {Piece("text", TRUE, 1), Piece("text", FALSE, 1), Piece("cont", FALSE, 1),
   Piece("cont", TRUE, 1), Piece("binary", TRUE, 3), Piece("ping", TRUE, 1),
   Piece("pong", TRUE, 1), Piece("reserved", TRUE, 1), Closing("other")}
=============================================================================
