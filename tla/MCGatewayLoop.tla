---------------------------- MODULE MCGatewayLoop ----------------------------
(***************************************************************************)
(* Instances of GatewayLoop for TLC.                                       *)
(***************************************************************************)
EXTENDS GatewayLoop, MCWebSocket

\* What a gateway sends: messages, pings and close codes.
GatewayFrames ==
  {Piece("text", TRUE, 1), Piece("ping", TRUE, 1), Piece("pong", TRUE, 1),
   Closing("terminal"), Closing("expired")}

\* A HELLO and the code of a refused token.
TerminalFrames == {Piece("text", TRUE, 1), Closing("terminal")}
=============================================================================
