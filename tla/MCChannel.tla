------------------------------ MODULE MCChannel -------------------------------
(***************************************************************************)
(* Instances of Channel for TLC.  The main program and two workers share   *)
(* the channel; the menus make each select meet the ones it races with.    *)
(***************************************************************************)
EXTENDS Channel

MCProcs == {"main", "w1", "w2"}

\* Two senders of different kinds, a receiver, and main, which closes.
CallMenu == [p \in MCProcs |->
  CASE p = "w1"   -> {"send", "send_timeout"}
    [] p = "w2"   -> {"try_send", "try_receive", "receive_timeout"}
    [] p = "main" -> {"receive", "close"}]

\* Enough calls to fill the buffer, block on it, and race with one close.
CallBound == [p \in MCProcs |-> IF p = "main" THEN 1 ELSE 2]
=============================================================================
