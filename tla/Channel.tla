------------------------------- MODULE Channel --------------------------------
(***************************************************************************)
(* The channel behind Channel[T] and the mailbox of Actor[T]: the Channel  *)
(* struct of runtime.go and the thread_*/actor_* builtins that act on it.  *)
(*                                                                         *)
(* The struct has two parts that are not updated together: the buffered Go *)
(* channel Data, and the pair Closed/Done that close() sets under the      *)
(* channel's mutex.  thread_send, thread_try_send and actor_send read      *)
(* Closed first (isClosed, a critical section of its own) and only then    *)
(* enter their select, so another process may close the channel in         *)
(* between.  The other operations go to the select at once.  A Go select   *)
(* takes any of its ready cases; it waits when none is ready, unless it    *)
(* has a default case.                                                     *)
(***************************************************************************)
EXTENDS Integers, Sequences

CONSTANTS
  Procs,       \* the main program and the workers that hold the channel
  Requested,   \* the capacity passed to newChannel
  Menu,        \* Menu[p]: the operations process p may call
  MaxCalls     \* MaxCalls[p], a bound: the calls p makes

SendOps      == {"send", "try_send", "send_timeout"}
ReceiveOps   == {"receive", "try_receive", "receive_timeout"}
Ops          == SendOps \cup ReceiveOps
CheckedOps   == {"send", "try_send"}
TimedOps     == {"send_timeout", "receive_timeout"}
TryOps       == {"try_send", "try_receive"}

ASSUME RequestedAssumption == Requested \in Int
ASSUME MenuAssumption == Menu \in [Procs -> SUBSET (Ops \cup {"close"})]
ASSUME MaxCallsAssumption == MaxCalls \in [Procs -> Nat]

\* newChannel raises a capacity below one to one.
Capacity == IF Requested < 1 THEN 1 ELSE Requested

VARIABLES
  data,        \* the buffer of Data
  closed,      \* Closed; Done is closed in the same critical section
  ctxDone,     \* ctxDone[p]: p's execution context is cancelled or expired
  pc,          \* "idle", "check" (about to call isClosed) or "select"
  op,          \* op[p]: the operation p is inside of
  late,        \* history: was the channel closed when p called?
  answers,     \* history: what p's calls returned, oldest first
  accepted,    \* history: every value put into Data, in order
  delivered    \* history: every value taken out of Data, in order

vars == <<data, closed, ctxDone, pc, op, late, answers, accepted, delivered>>

Messages == Procs \X (Nat \ {0})

Results == {"ok", "closed", "full", "empty", "timeout", "cancelled", "rejected"}
Answers == [op : Ops \cup {"close"}, late : BOOLEAN, res : Results]

\* Every variable has the shape the Go declarations give it, and the buffer
\* of Data never holds more than the capacity it was made with.
TypeOK ==
  /\ data \in Seq(Messages) /\ Len(data) <= Capacity
  /\ closed \in BOOLEAN
  /\ ctxDone \in [Procs -> BOOLEAN]
  /\ pc \in [Procs -> {"idle", "check", "select"}]
  /\ op \in [Procs -> Ops \cup {"none"}]
  /\ late \in [Procs -> BOOLEAN]
  /\ answers \in [Procs -> Seq(Answers)]
  /\ accepted \in Seq(Messages)
  /\ delivered \in Seq(Messages)

Init ==
  /\ data = << >>
  /\ closed = FALSE
  /\ ctxDone = [p \in Procs |-> FALSE]
  /\ pc = [p \in Procs |-> "idle"]
  /\ op = [p \in Procs |-> "none"]
  /\ late = [p \in Procs |-> FALSE]
  /\ answers = [p \in Procs |-> << >>]
  /\ accepted = << >>
  /\ delivered = << >>

\* The value p sends in its current call: <<p, k>> in p's k-th call.
Message(p) == <<p, Len(answers[p]) + 1>>

Answer(o, l, r) == [op |-> o, late |-> l, res |-> r]

Return(p, r) ==
  /\ answers' = [answers EXCEPT ![p] = Append(@, Answer(op[p], late[p], r))]
  /\ pc' = [pc EXCEPT ![p] = "idle"]
  /\ op' = [op EXCEPT ![p] = "none"]
  /\ late' = [late EXCEPT ![p] = FALSE]

MayCall(p, o) ==
  /\ pc[p] = "idle"
  /\ o \in Menu[p]
  /\ Len(answers[p]) < MaxCalls[p]

\* A mutant of FirstStep: the code without the isClosed test.
FirstStepUnchecked(o) == "select"

\* Where an operation goes first: to isClosed, or straight to its select.
FirstStep(o) == IF o \in CheckedOps THEN "check" ELSE "select"

Call(p, o) ==
  /\ MayCall(p, o)
  /\ o \in Ops
  /\ pc' = [pc EXCEPT ![p] = FirstStep(o)]
  /\ op' = [op EXCEPT ![p] = o]
  /\ late' = [late EXCEPT ![p] = closed]
  /\ UNCHANGED <<data, closed, ctxDone, answers, accepted, delivered>>

\* A value that is not recursively Copy, or a negative timeout, is refused
\* before the channel is touched.
BadArgument(p, o) ==
  /\ MayCall(p, o)
  /\ o \in SendOps \cup TimedOps
  /\ answers' = [answers EXCEPT ![p] = Append(@, Answer(o, closed, "rejected"))]
  /\ UNCHANGED <<data, closed, ctxDone, pc, op, late, accepted, delivered>>

\* isClosed, before the select of thread_send, thread_try_send, actor_send.
CheckClosed(p) ==
  /\ pc[p] = "check"
  /\ \/ /\ closed
        /\ Return(p, "closed")
     \/ /\ ~ closed
        /\ pc' = [pc EXCEPT ![p] = "select"]
        /\ UNCHANGED <<op, late, answers>>
  /\ UNCHANGED <<data, closed, ctxDone, accepted, delivered>>

---------------------------------------------------------------------------
\* The cases of the selects.  Each fires when its communication is ready.

\* A mutant of SendCase: one value more than the buffer holds.
SendCaseOverfills(p) ==
  /\ pc[p] = "select"
  /\ op[p] \in SendOps
  /\ Len(data) <= Capacity
  /\ data' = Append(data, Message(p))
  /\ accepted' = Append(accepted, Message(p))
  /\ Return(p, "ok")
  /\ UNCHANGED <<closed, ctxDone, delivered>>

\* case ch.Data <- value
SendCase(p) ==
  /\ pc[p] = "select"
  /\ op[p] \in SendOps
  /\ Len(data) < Capacity
  /\ data' = Append(data, Message(p))
  /\ accepted' = Append(accepted, Message(p))
  /\ Return(p, "ok")
  /\ UNCHANGED <<closed, ctxDone, delivered>>

\* A mutant of ReceiveCase: the value is returned but stays in the buffer.
ReceiveCaseKeeps(p) ==
  /\ pc[p] = "select"
  /\ op[p] \in ReceiveOps
  /\ data # << >>
  /\ delivered' = Append(delivered, Head(data))
  /\ Return(p, "ok")
  /\ UNCHANGED <<data, closed, ctxDone, accepted>>

\* case v := <-ch.Data
ReceiveCase(p) ==
  /\ pc[p] = "select"
  /\ op[p] \in ReceiveOps
  /\ data # << >>
  /\ data' = Tail(data)
  /\ delivered' = Append(delivered, Head(data))
  /\ Return(p, "ok")
  /\ UNCHANGED <<closed, ctxDone, accepted>>

\* A mutant of DoneCase: the blocking send does not listen to Done.
DoneCaseNotInSend(p) ==
  /\ pc[p] = "select"
  /\ op[p] \notin {"try_send", "send"}
  /\ closed
  /\ Return(p, "closed")
  /\ UNCHANGED <<data, closed, ctxDone, accepted, delivered>>

\* case <-ch.Done: in every select but the one of thread_try_send.
DoneCase(p) ==
  /\ pc[p] = "select"
  /\ op[p] # "try_send"
  /\ closed
  /\ Return(p, "closed")
  /\ UNCHANGED <<data, closed, ctxDone, accepted, delivered>>

\* A mutant of ContextCase: the blocking receive does not listen to its context.
ContextCaseSendOnly(p) ==
  /\ pc[p] = "select"
  /\ op[p] = "send"
  /\ ctxDone[p]
  /\ Return(p, "cancelled")
  /\ UNCHANGED <<data, closed, ctxDone, accepted, delivered>>

\* case <-r.Ctx.Ctx.Done(): in thread_send, actor_send and thread_receive only.
ContextCase(p) ==
  /\ pc[p] = "select"
  /\ op[p] \in {"send", "receive"}
  /\ ctxDone[p]
  /\ Return(p, "cancelled")
  /\ UNCHANGED <<data, closed, ctxDone, accepted, delivered>>

\* A mutant of TimerCase: the deadline is reported for a send that went through.
TimerCaseAfterSend(p) ==
  /\ pc[p] = "select"
  /\ op[p] \in TimedOps
  /\ Return(p, "timeout")
  /\ \/ UNCHANGED <<data, accepted>>
     \/ /\ op[p] \in SendOps /\ Len(data) < Capacity
        /\ data' = Append(data, Message(p))
        /\ accepted' = Append(accepted, Message(p))
  /\ UNCHANGED <<closed, ctxDone, delivered>>

\* case <-timer.C.  Time is not modelled: the timer may fire at any moment.
TimerCase(p) ==
  /\ pc[p] = "select"
  /\ op[p] \in TimedOps
  /\ Return(p, "timeout")
  /\ UNCHANGED <<data, closed, ctxDone, accepted, delivered>>

\* A mutant of DefaultCase: try_receive answers "empty" on a closed channel.
DefaultCaseIgnoresDone(p) ==
  /\ pc[p] = "select"
  /\ \/ op[p] = "try_send" /\ Len(data) = Capacity /\ Return(p, "full")
     \/ op[p] = "try_receive" /\ data = << >> /\ Return(p, "empty")
  /\ UNCHANGED <<data, closed, ctxDone, accepted, delivered>>

\* default: taken only when no other case is ready.
DefaultCase(p) ==
  /\ pc[p] = "select"
  /\ \/ op[p] = "try_send" /\ Len(data) = Capacity /\ Return(p, "full")
     \/ op[p] = "try_receive" /\ data = << >> /\ ~ closed /\ Return(p, "empty")
  /\ UNCHANGED <<data, closed, ctxDone, accepted, delivered>>

Select(p) ==
  \/ SendCase(p) \/ ReceiveCase(p) \/ DoneCase(p)
  \/ ContextCase(p) \/ TimerCase(p) \/ DefaultCase(p)

\* thread_close and actor_close: close() is idempotent.
Close(p) ==
  /\ MayCall(p, "close")
  /\ closed' = TRUE
  /\ answers' = [answers EXCEPT ![p] = Append(@, Answer("close", closed, "ok"))]
  /\ UNCHANGED <<data, ctxDone, pc, op, late, accepted, delivered>>

\* thread_cancel by the owner of p's handle, or the invocation's deadline.
Cancel(p) ==
  /\ ~ ctxDone[p]
  /\ ctxDone' = [ctxDone EXCEPT ![p] = TRUE]
  /\ UNCHANGED <<data, closed, pc, op, late, answers, accepted, delivered>>

Next == \E p \in Procs :
  \/ \E o \in Ops : Call(p, o) \/ BadArgument(p, o)
  \/ CheckClosed(p)
  \/ Select(p)
  \/ Close(p)
  \/ Cancel(p)

Spec == Init /\ [][Next]_vars

\* The Go scheduler runs every runnable goroutine: one that is about to lock
\* the channel's mutex, or whose select has a ready case, goes on.
Fairness == \A p \in Procs : WF_vars(CheckClosed(p)) /\ WF_vars(Select(p))

LiveSpec == Spec /\ Fairness

---------------------------------------------------------------------------
(***************************************************************************)
(* Properties                                                              *)
(***************************************************************************)

\* A call that looks at Closed before its select (thread_send,
\* thread_try_send, actor_send) and was made after the close never succeeds,
\* whatever other processes do between its isClosed and its select.
LateSendRejected ==
  \A p \in Procs : \A k \in 1 .. Len(answers[p]) :
    LET a == answers[p][k]
    IN  a.op \in CheckedOps /\ a.late => a.res # "ok"

\* The values taken out of Data followed by the ones still in it are exactly
\* the values put in, in that order: with several senders and receivers, a
\* close and cancellations, no value is lost, duplicated or overtaken.
FirstInFirstOut == accepted = delivered \o data

\* A sender is told "ok" if and only if its value went into the channel: a
\* send answered closed, full, timeout, cancelled or rejected left nothing
\* behind, so a caller that retries it cannot duplicate it.
AnswerTellsTruth ==
  \A p \in Procs : \A k \in 1 .. Len(answers[p]) :
    answers[p][k].op \in SendOps =>
      (answers[p][k].res = "ok" <=> \E i \in 1 .. Len(accepted) : accepted[i] = <<p, k>>)

\* Closing wakes everyone: a process inside an operation on a closed channel
\* gets out of it (thread_close, actor_close, and shutdown closing them all).
CloseWakes == \A p \in Procs : (closed /\ pc[p] # "idle") ~> pc[p] = "idle"

\* Cancelling a process, or the expiry of its deadline, gets it out of a
\* blocking send or receive even when the channel stays open.
CancelWakes ==
  \A p \in Procs : (ctxDone[p] /\ op[p] \in {"send", "receive"}) ~> pc[p] = "idle"

\* What the receive builtins' documentation says of a closed channel: it is
\* rejected when it is empty.  No receive answers "closed" while an accepted
\* value waits in the buffer.
ClosedOnlyWhenEmpty ==
  [][\A p \in Procs :
       op[p] \in ReceiveOps /\ pc[p] = "select" /\ answers'[p] # answers[p]
         /\ answers'[p][Len(answers'[p])].res = "closed"
       => data = << >>]_vars

\* The channel as its users see it: a call is atomic, and the isClosed test
\* in front of a select is invisible.
Queue == INSTANCE BoundedQueue WITH
  Cap <- Capacity,
  queue <- data,
  call <- [p \in Procs |-> [op |-> op[p], late |-> late[p]]],
  results <- answers

\* Every step of the builtins is a step of the bounded queue or leaves it
\* unchanged.
ImplementsBoundedQueue == Queue!Spec
=============================================================================
