----------------------------- MODULE BoundedQueue -----------------------------
(***************************************************************************)
(* What a Kryndel channel promises to the processes that use it: a bounded *)
(* first-in first-out queue that can be closed once and for all.  Every    *)
(* call takes effect in a single step somewhere between its invocation and *)
(* its return, and the answer it gives is justified by the queue's state   *)
(* in that step.  A send that looks at the closed flag first never         *)
(* succeeds when it was called after the close.                            *)
(***************************************************************************)
EXTENDS Integers, Sequences

CONSTANTS
  Procs,      \* processes sharing the channel: the main program and workers
  Cap         \* capacity of the queue

SendOps      == {"send", "try_send", "send_timeout"}
ReceiveOps   == {"receive", "try_receive", "receive_timeout"}
Ops          == SendOps \cup ReceiveOps
CheckedOps   == {"send", "try_send"}                \* look at Closed before the select
BlockingOps  == {"send", "receive"}                 \* wait on the caller's context too
TimedOps     == {"send_timeout", "receive_timeout"}

VARIABLES
  queue,      \* values accepted and not yet delivered
  closed,
  call,       \* call[p]: the call p is inside of
  results     \* results[p]: the answers p got, oldest first

vars == <<queue, closed, call, results>>

NoCall == [op |-> "none", late |-> FALSE]

\* The k-th call of p, when it sends, sends the value <<p, k>>.
Message(p) == <<p, Len(results[p]) + 1>>

Init ==
  /\ queue = << >>
  /\ closed = FALSE
  /\ call = [p \in Procs |-> NoCall]
  /\ results = [p \in Procs |-> << >>]

Reply(p, r) ==
  /\ results' = [results EXCEPT ![p] =
                   Append(@, [op |-> call[p].op, late |-> call[p].late, res |-> r])]
  /\ call' = [call EXCEPT ![p] = NoCall]

Begin(p, o) ==
  /\ call[p] = NoCall
  /\ call' = [call EXCEPT ![p] = [op |-> o, late |-> closed]]
  /\ UNCHANGED <<queue, closed, results>>

\* A call refused for its arguments never starts.
Refuse(p, o) ==
  /\ call[p] = NoCall
  /\ results' = [results EXCEPT ![p] =
                   Append(@, [op |-> o, late |-> closed, res |-> "rejected"])]
  /\ UNCHANGED <<queue, closed, call>>

Enqueue(p) ==
  /\ call[p].op \in SendOps
  /\ ~ (call[p].late /\ call[p].op \in CheckedOps)
  /\ Len(queue) < Cap
  /\ queue' = Append(queue, Message(p))
  /\ Reply(p, "ok")
  /\ UNCHANGED closed

Dequeue(p) ==
  /\ call[p].op \in ReceiveOps
  /\ queue # << >>
  /\ queue' = Tail(queue)
  /\ Reply(p, "ok")
  /\ UNCHANGED closed

Excuse(p, r) ==
  \/ r = "closed"    /\ closed
  \/ r = "full"      /\ call[p].op = "try_send" /\ Len(queue) >= Cap
  \/ r = "empty"     /\ call[p].op = "try_receive" /\ queue = << >> /\ ~ closed
  \/ r = "timeout"   /\ call[p].op \in TimedOps
  \/ r = "cancelled" /\ call[p].op \in BlockingOps

Fail(p, r) ==
  /\ call[p] # NoCall
  /\ Excuse(p, r)
  /\ Reply(p, r)
  /\ UNCHANGED <<queue, closed>>

Close(p) ==
  /\ call[p] = NoCall
  /\ closed' = TRUE
  /\ results' = [results EXCEPT ![p] =
                   Append(@, [op |-> "close", late |-> closed, res |-> "ok"])]
  /\ UNCHANGED <<queue, call>>

Next == \E p \in Procs :
  \/ \E o \in Ops : Begin(p, o) \/ Refuse(p, o)
  \/ Enqueue(p)
  \/ Dequeue(p)
  \/ \E r \in {"closed", "full", "empty", "timeout", "cancelled"} : Fail(p, r)
  \/ Close(p)

Spec == Init /\ [][Next]_vars
=============================================================================
