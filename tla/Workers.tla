------------------------------- MODULE Workers --------------------------------
(***************************************************************************)
(* One invocation of the interpreter: the main program, the workers it     *)
(* spawns, its task group, the wall clock, and the shutdown that            *)
(* Runtime.run performs when the program ends (Runtime.cleanup).            *)
(*                                                                         *)
(* A worker is a goroutine with a context derived from the invocation's.   *)
(* When its function returns it closes the handles it left open, publishes *)
(* its diagnostic under the thread's mutex and only then closes Done.  The *)
(* main program alone spawns, joins and cancels (the checker rejects       *)
(* spawning inside a worker, and a worker can reach no Thread handle), so  *)
(* threads, group and loop state are its own.                              *)
(***************************************************************************)
EXTENDS Integers

CONSTANTS
  MaxWorkers,   \* Limits.MaxWorkers: how many workers an invocation may spawn
  Stubborn,     \* workers that make host calls which ignore cancellation
  WallClock,    \* does the invocation have a deadline (MaxWallTimeMS > 0)?
  Menu          \* the facilities the program and its workers use

Threads == 1 .. MaxWorkers       \* a thread is its position in r.Threads
Owners  == 0 .. MaxWorkers       \* owners of handles and contexts; 0 is main

ASSUME MaxWorkersAssumption == MaxWorkers \in Nat \ {0}
ASSUME StubbornAssumption == Stubborn \subseteq Threads
ASSUME WallClockAssumption == WallClock \in BOOLEAN

Facilities == {"thread_spawn", "task_spawn", "thread_join", "thread_join_timeout",
               "thread_cancel", "task_group_cancel", "task_group_wait",
               "timed_wait", "host_call", "handles", "debugger"}

ASSUME MenuAssumption == Menu \subseteq Facilities

\* A diagnostic, abstracted to its category and the owner it arose in.
Diags == [cat : {"none", "runtime", "resource"}, by : Owners]
NoDiag == [cat |-> "none", by |-> 0]
RuntimeDiag(o) == [cat |-> "runtime", by |-> o]
ResourceDiag(o) == [cat |-> "resource", by |-> o]

VARIABLES
  spawned,         \* len(r.Threads)
  mode,            \* mode[t]: what worker t's goroutine is doing
  ctx,             \* ctx[o]: "live", "cancelled" or "deadline" (the first cause stays)
  open,            \* open[o]: has o a tracked handle that is still open?
  raised,          \* history: the diagnostic worker t's function ended with
  outcome,         \* what goroutine t is going to publish
  diag,            \* Thread.Diag
  joined,          \* Thread.Joined
  chClosed,        \* has shutdown closed the channels in r.Channels?
  group,           \* TaskGroup.threads; spawn order is the order of the positions
  groupCancelled,  \* TaskGroup.cancelled
  waitedFor,       \* the snapshot the last task_group_wait took
  waited,          \* its answer: "none" (not yet), "ok" or "err"
  main,            \* where the main program is
  todo,            \* threads the loop main is in has still to visit
  deadline,        \* shutdown timer: "off", "armed", "fired", "consumed"
  failure,         \* what the program itself ended with
  result,          \* prior in cleanup, and what run returns
  stopped          \* has the debugger stopped the program?

workerVars  == <<mode, raised, outcome, diag>>
groupVars   == <<group, groupCancelled, waitedFor, waited>>
exitVars    == <<failure, result, stopped>>
cleanupVars == <<chClosed, deadline>>
vars == <<spawned, ctx, open, joined, main, todo,
          workerVars, groupVars, exitVars, cleanupVars>>

Modes == {"none", "compute", "timed", "host", "exiting", "published", "done"}
Places == {"run", "host", "join", "timed_join", "wait", "drain",
           "cancel", "reap", "await", "returned"}

\* Every variable has the shape its Go declaration gives it.
TypeOK ==
  /\ spawned \in 0 .. MaxWorkers
  /\ mode \in [Threads -> Modes]
  /\ ctx \in [Owners -> {"live", "cancelled", "deadline"}]
  /\ open \in [Owners -> BOOLEAN]
  /\ raised \in [Threads -> Diags]
  /\ outcome \in [Threads -> Diags]
  /\ diag \in [Threads -> Diags]
  /\ joined \in [Threads -> BOOLEAN]
  /\ chClosed \in BOOLEAN
  /\ group \in SUBSET (1 .. spawned)
  /\ groupCancelled \in BOOLEAN
  /\ waitedFor \in SUBSET (1 .. spawned)
  /\ waited \in {"none", "ok", "err"}
  /\ main \in Places
  /\ todo \in SUBSET (1 .. spawned)
  /\ deadline \in {"off", "armed", "fired", "consumed"}
  /\ failure \in Diags
  /\ result \in Diags
  /\ stopped \in BOOLEAN

Init ==
  /\ spawned = 0
  /\ mode = [t \in Threads |-> "none"]
  /\ ctx = [o \in Owners |-> "live"]
  /\ open = [o \in Owners |-> FALSE]
  /\ raised = [t \in Threads |-> NoDiag]
  /\ outcome = [t \in Threads |-> NoDiag]
  /\ diag = [t \in Threads |-> NoDiag]
  /\ joined = [t \in Threads |-> FALSE]
  /\ chClosed = FALSE
  /\ group = {} /\ groupCancelled = FALSE
  /\ waitedFor = {} /\ waited = "none"
  /\ main = "run" /\ todo = {}
  /\ deadline = "off"
  /\ failure = NoDiag /\ result = NoDiag
  /\ stopped = FALSE

\* The contexts after those of the owners in S are cancelled.
Cancelled(S) == [o \in Owners |-> IF o \in S /\ ctx[o] = "live" THEN "cancelled" ELSE ctx[o]]

\* ExecContext.contextFailure for owner o.
ContextFailure(o) ==
  CASE ctx[o] = "live"      -> NoDiag
    [] ctx[o] = "deadline"  -> ResourceDiag(o)
    [] ctx[o] = "cancelled" -> RuntimeDiag(o)

\* t is the thread main's loop visits next.
First(t) == t \in todo /\ \A u \in todo : t <= u

---------------------------------------------------------------------------
(***************************************************************************)
(* The worker's goroutine                                                  *)
(***************************************************************************)

\* thread_send_timeout, thread_receive_timeout or actor_receive_timeout on a
\* channel of the main program: a wait that does not listen to the context.
EnterTimedWait(t) ==
  /\ "timed_wait" \in Menu
  /\ mode[t] = "compute" /\ ctx[t] = "live"
  /\ mode' = [mode EXCEPT ![t] = "timed"]
  /\ UNCHANGED <<spawned, ctx, open, joined, main, todo, raised, outcome, diag,
                 groupVars, exitVars, cleanupVars>>

\* A value, the timer, or the closed channel ends the wait.
LeaveTimedWait(t) ==
  /\ mode[t] = "timed"
  /\ mode' = [mode EXCEPT ![t] = "compute"]
  /\ UNCHANGED <<spawned, ctx, open, joined, main, todo, raised, outcome, diag,
                 groupVars, exitVars, cleanupVars>>

\* A host call, or a timed wait on a channel the worker made itself: neither
\* cancellation nor shutdown reaches it.
EnterHost(t) ==
  /\ t \in Stubborn
  /\ mode[t] = "compute" /\ ctx[t] = "live"
  /\ mode' = [mode EXCEPT ![t] = "host"]
  /\ UNCHANGED <<spawned, ctx, open, joined, main, todo, raised, outcome, diag,
                 groupVars, exitVars, cleanupVars>>

LeaveHost(t) ==
  /\ mode[t] = "host"
  /\ mode' = [mode EXCEPT ![t] = "compute"]
  /\ UNCHANGED <<spawned, ctx, open, joined, main, todo, raised, outcome, diag,
                 groupVars, exitVars, cleanupVars>>

\* The function of t has returned: contextFailure if it did not fail, then
\* closeResources, whose diagnostic replaces an earlier one.
WorkerReturns(t) ==
  /\ mode[t] = "compute"
  /\ \E d \in {NoDiag, RuntimeDiag(t), ResourceDiag(t)} :
       LET first == IF d = NoDiag THEN ContextFailure(t) ELSE d
       IN  /\ raised' = [raised EXCEPT ![t] = first]
           /\ outcome' = [outcome EXCEPT ![t] = IF open[t] THEN ResourceDiag(t) ELSE first]
  /\ open' = [open EXCEPT ![t] = FALSE]
  /\ mode' = [mode EXCEPT ![t] = "exiting"]
  /\ UNCHANGED <<spawned, ctx, joined, main, todo, diag, groupVars, exitVars, cleanupVars>>

\* thread.Diag is set under the thread's mutex.
Publish(t) ==
  /\ mode[t] = "exiting"
  /\ diag' = [diag EXCEPT ![t] = outcome[t]]
  /\ mode' = [mode EXCEPT ![t] = "published"]
  /\ UNCHANGED <<spawned, ctx, open, joined, main, todo, raised, outcome,
                 groupVars, exitVars, cleanupVars>>

\* A mutant of SignalDone: Done is closed before the diagnostic is published.
SignalDoneEarly(t) ==
  /\ mode[t] \in {"exiting", "published"}
  /\ mode' = [mode EXCEPT ![t] = "done"]
  /\ ctx' = Cancelled({t})
  /\ UNCHANGED <<spawned, open, joined, main, todo, raised, outcome, diag,
                 groupVars, exitVars, cleanupVars>>

\* The deferred cancel() and close(thread.Done).
SignalDone(t) ==
  /\ mode[t] = "published"
  /\ mode' = [mode EXCEPT ![t] = "done"]
  /\ ctx' = Cancelled({t})
  /\ UNCHANGED <<spawned, open, joined, main, todo, raised, outcome, diag,
                 groupVars, exitVars, cleanupVars>>

\* An owner acquires a tracked handle (trackResource) or closes its handles.
SetHandle(o) ==
  /\ "handles" \in Menu
  /\ ctx[o] = "live"
  /\ IF o = 0 THEN main = "run" ELSE o \in Threads /\ mode[o] = "compute"
  /\ open' = [open EXCEPT ![o] = ~ @]
  /\ UNCHANGED <<spawned, ctx, joined, main, todo, workerVars, groupVars, exitVars, cleanupVars>>

---------------------------------------------------------------------------
(***************************************************************************)
(* The main program.  step() looks at the context before every statement.  *)
(***************************************************************************)
Running == main = "run" /\ ctx[0] = "live"

\* The program is over: run's deferred cleanup starts, with d as prior.
End(d, byDebugger) ==
  /\ main' = "cancel"
  /\ todo' = 1 .. spawned
  /\ failure' = d
  /\ result' = d
  /\ stopped' = byDebugger

\* A mutant of Spawn: the worker limit is off by one.
SpawnOffByOne(inGroup) ==
  /\ Running
  /\ IF inGroup THEN "task_spawn" \in Menu /\ ~ groupCancelled ELSE "thread_spawn" \in Menu
  /\ spawned <= MaxWorkers
  /\ spawned' = spawned + 1
  /\ mode' = [t \in Threads |-> IF t = spawned + 1 THEN "compute" ELSE mode[t]]
  /\ UNCHANGED <<ctx, open, joined, main, todo, raised, outcome, diag, groupVars,
                 exitVars, cleanupVars>>

\* thread_spawn, and task_spawn when inGroup.
Spawn(inGroup) ==
  /\ Running
  /\ IF inGroup THEN "task_spawn" \in Menu /\ ~ groupCancelled ELSE "thread_spawn" \in Menu
  /\ spawned < MaxWorkers
  /\ spawned' = spawned + 1
  /\ mode' = [mode EXCEPT ![spawned + 1] = "compute"]
  /\ ctx' = [ctx EXCEPT ![spawned + 1] = ctx[0]]
  /\ group' = IF inGroup THEN group \cup {spawned + 1} ELSE group
  /\ UNCHANGED <<open, joined, main, todo, raised, outcome, diag, groupCancelled,
                 waitedFor, waited, exitVars, cleanupVars>>

\* A spawn past the worker limit, or into a cancelled group, is a failure.
SpawnFails ==
  /\ Running
  /\ \/ spawned >= MaxWorkers /\ End(ResourceDiag(0), FALSE)
     \/ "task_spawn" \in Menu /\ groupCancelled /\ End(RuntimeDiag(0), FALSE)
  /\ UNCHANGED <<spawned, ctx, open, joined, workerVars, groupVars, cleanupVars>>

\* thread_join and await: the wait does not listen to main's context.
Join(t) ==
  /\ "thread_join" \in Menu
  /\ Running
  /\ t \in 1 .. spawned
  /\ main' = "join" /\ todo' = {t}
  /\ UNCHANGED <<spawned, ctx, open, joined, workerVars, groupVars, exitVars, cleanupVars>>

JoinReturns(t) ==
  /\ main = "join" /\ t \in todo
  /\ mode[t] = "done"
  /\ joined' = [joined EXCEPT ![t] = TRUE]
  /\ \/ /\ diag[t] = NoDiag
        /\ main' = "run" /\ todo' = {}
        /\ UNCHANGED exitVars
     \/ /\ diag[t] # NoDiag
        /\ End(diag[t], FALSE)
  /\ UNCHANGED <<spawned, ctx, open, workerVars, groupVars, cleanupVars>>

\* thread_join_timeout and await_timeout: no look at main's context either,
\* but the timer ends the wait.
JoinTimeout(t) ==
  /\ "thread_join_timeout" \in Menu
  /\ Running
  /\ t \in 1 .. spawned
  /\ main' = "timed_join" /\ todo' = {t}
  /\ UNCHANGED <<spawned, ctx, open, joined, workerVars, groupVars, exitVars, cleanupVars>>

\* The failure of a finished worker becomes an ordinary result.  A timeout
\* leaves the worker as it is.
JoinTimeoutReturns(t) ==
  /\ main = "timed_join" /\ t \in todo
  /\ \/ mode[t] = "done" /\ joined' = [joined EXCEPT ![t] = TRUE]
     \/ UNCHANGED joined
  /\ main' = "run" /\ todo' = {}
  /\ UNCHANGED <<spawned, ctx, open, workerVars, groupVars, exitVars, cleanupVars>>

\* Main's own host call or timed wait on a channel: no context ends it.
HostCall ==
  /\ "host_call" \in Menu
  /\ Running
  /\ main' = "host"
  /\ UNCHANGED <<spawned, ctx, open, joined, todo, workerVars, groupVars, exitVars, cleanupVars>>

HostCallReturns ==
  /\ main = "host"
  /\ main' = "run"
  /\ UNCHANGED <<spawned, ctx, open, joined, todo, workerVars, groupVars, exitVars, cleanupVars>>

\* thread_cancel
ThreadCancel(t) ==
  /\ "thread_cancel" \in Menu
  /\ Running
  /\ t \in 1 .. spawned
  /\ ctx' = Cancelled({t})
  /\ UNCHANGED <<spawned, open, joined, main, todo, workerVars, groupVars, exitVars, cleanupVars>>

\* task_group_cancel
GroupCancel ==
  /\ "task_group_cancel" \in Menu
  /\ Running
  /\ groupCancelled' = TRUE
  /\ ctx' = Cancelled(group)
  /\ UNCHANGED <<spawned, open, joined, main, todo, group, waitedFor, waited,
                 workerVars, exitVars, cleanupVars>>

\* task_group_wait takes a snapshot of the children ...
GroupWait ==
  /\ "task_group_wait" \in Menu
  /\ Running
  /\ main' = "wait" /\ todo' = group
  /\ waitedFor' = group /\ waited' = "none"
  /\ UNCHANGED <<spawned, ctx, open, joined, group, groupCancelled,
                 workerVars, exitVars, cleanupVars>>

\* ... joins them in order, and at the first that failed cancels the others ...
GroupJoin(t) ==
  /\ main = "wait" /\ First(t)
  /\ mode[t] = "done"
  /\ joined' = [joined EXCEPT ![t] = TRUE]
  /\ \/ /\ diag[t] = NoDiag
        /\ todo' = todo \ {t}
        /\ UNCHANGED <<ctx, main, groupCancelled>>
     \/ /\ diag[t] # NoDiag
        /\ groupCancelled' = TRUE
        /\ ctx' = Cancelled(waitedFor \ {t})
        /\ main' = "drain" /\ todo' = waitedFor \ {t}
  /\ UNCHANGED <<spawned, open, group, waitedFor, waited, workerVars, exitVars, cleanupVars>>

GroupJoined ==
  /\ main = "wait" /\ todo = {}
  /\ waited' = IF groupCancelled THEN "err" ELSE "ok"
  /\ main' = "run"
  /\ UNCHANGED <<spawned, ctx, open, joined, todo, group, groupCancelled, waitedFor,
                 workerVars, exitVars, cleanupVars>>

\* ... and waits for their Done, without joining them.
GroupDrain(t) ==
  /\ main = "drain" /\ First(t)
  /\ mode[t] = "done"
  /\ todo' = todo \ {t}
  /\ UNCHANGED <<spawned, ctx, open, joined, main, workerVars, groupVars, exitVars, cleanupVars>>

\* A mutant of GroupDrained: the answer does not wait for the siblings.
GroupDrainedEarly ==
  /\ main = "drain"
  /\ waited' = "err"
  /\ main' = "run" /\ todo' = {}
  /\ UNCHANGED <<spawned, ctx, open, joined, group, groupCancelled, waitedFor,
                 workerVars, exitVars, cleanupVars>>

GroupDrained ==
  /\ main = "drain" /\ todo = {}
  /\ waited' = "err"
  /\ main' = "run"
  /\ UNCHANGED <<spawned, ctx, open, joined, todo, group, groupCancelled, waitedFor,
                 workerVars, exitVars, cleanupVars>>

\* The program ends by itself, with or without an error, or is stopped by
\* the debugger, or step() finds the deadline passed.
Finish ==
  /\ Running
  /\ \/ End(NoDiag, FALSE) \/ End(RuntimeDiag(0), FALSE)
     \/ End(ResourceDiag(0), FALSE)
     \/ "debugger" \in Menu /\ End(NoDiag, TRUE)
  /\ UNCHANGED <<spawned, ctx, open, joined, workerVars, groupVars, cleanupVars>>

ContextFails ==
  /\ main = "run" /\ ctx[0] # "live"
  /\ End(ContextFailure(0), FALSE)
  /\ UNCHANGED <<spawned, ctx, open, joined, workerVars, groupVars, cleanupVars>>

\* A mutant of WallClockExpires: workers' contexts are not derived from main's.
WallClockExpiresMainOnly ==
  /\ WallClock
  /\ ctx[0] = "live"
  /\ ctx' = [ctx EXCEPT ![0] = "deadline"]
  /\ UNCHANGED <<spawned, open, joined, main, todo, workerVars, groupVars, exitVars, cleanupVars>>

\* The deadline of the invocation's context reaches every derived context.
WallClockExpires ==
  /\ WallClock
  /\ ctx[0] = "live"
  /\ ctx' = [o \in Owners |-> IF ctx[o] = "live" THEN "deadline" ELSE ctx[o]]
  /\ UNCHANGED <<spawned, open, joined, main, todo, workerVars, groupVars, exitVars, cleanupVars>>

---------------------------------------------------------------------------
(***************************************************************************)
(* Runtime.cleanup and the end of Runtime.run                              *)
(***************************************************************************)

\* A mutant of Note: the last diagnostic wins.
NoteLast(prior, d) == IF d.cat = "resource" THEN d ELSE prior

\* cleanup keeps the first diagnostic, and takes resource ones from workers.
Note(prior, d) == IF prior = NoDiag /\ d.cat = "resource" THEN d ELSE prior

CancelWorker(t) ==
  /\ main = "cancel" /\ First(t)
  /\ ctx' = Cancelled({t})
  /\ todo' = todo \ {t}
  /\ UNCHANGED <<spawned, open, joined, main, workerVars, groupVars, exitVars, cleanupVars>>

\* A mutant of CloseChannels: the channels stay open.
CloseChannelsNot ==
  /\ main = "cancel" /\ todo = {}
  /\ deadline' = "armed"
  /\ main' = "reap" /\ todo' = 1 .. spawned
  /\ UNCHANGED <<spawned, ctx, open, joined, chClosed, workerVars, groupVars, exitVars>>

\* Every channel is closed and the shutdown timer is started.
CloseChannels ==
  /\ main = "cancel" /\ todo = {}
  /\ chClosed' = TRUE
  /\ deadline' = "armed"
  /\ main' = "reap" /\ todo' = 1 .. spawned
  /\ UNCHANGED <<spawned, ctx, open, joined, workerVars, groupVars, exitVars>>

\* A mutant of Look: the diagnostic of a worker already joined is not read.
LookSkipsJoined(t) ==
  /\ main = "reap" /\ First(t)
  /\ \/ joined[t] /\ todo' = todo \ {t} /\ UNCHANGED <<main, result>>
     \/ ~ joined[t] /\ main' = "await" /\ result' = Note(result, diag[t]) /\ UNCHANGED todo
  /\ UNCHANGED <<spawned, ctx, open, joined, workerVars, groupVars,
                 failure, stopped, cleanupVars>>

\* A mutant of Look: once something failed nobody is waited for.
LookGivesUp(t) ==
  /\ main = "reap" /\ First(t)
  /\ result' = Note(result, diag[t])
  /\ \/ (joined[t] \/ result # NoDiag) /\ todo' = todo \ {t} /\ UNCHANGED main
     \/ ~ joined[t] /\ result = NoDiag /\ main' = "await" /\ UNCHANGED todo
  /\ UNCHANGED <<spawned, ctx, open, joined, workerVars, groupVars,
                 failure, stopped, cleanupVars>>

\* Joined and Diag are read in one critical section, before the wait.
Look(t) ==
  /\ main = "reap" /\ First(t)
  /\ result' = Note(result, diag[t])
  /\ \/ joined[t] /\ todo' = todo \ {t} /\ UNCHANGED main
     \/ ~ joined[t] /\ main' = "await" /\ UNCHANGED todo
  /\ UNCHANGED <<spawned, ctx, open, joined, workerVars, groupVars,
                 failure, stopped, cleanupVars>>

\* select: case <-t.Done
AwaitDone(t) ==
  /\ main = "await" /\ First(t)
  /\ mode[t] = "done"
  /\ joined' = [joined EXCEPT ![t] = TRUE]
  /\ result' = Note(result, diag[t])
  /\ main' = "reap" /\ todo' = todo \ {t}
  /\ UNCHANGED <<spawned, ctx, open, workerVars, groupVars,
                 failure, stopped, cleanupVars>>

\* select: case <-deadline.C.  The timer puts one tick into its channel.
AwaitDeadline(t) ==
  /\ main = "await" /\ First(t)
  /\ deadline = "fired"
  /\ deadline' = "consumed"
  /\ result' = IF result = NoDiag THEN ResourceDiag(0) ELSE result
  /\ main' = "reap" /\ todo' = todo \ {t}
  /\ UNCHANGED <<spawned, ctx, open, joined, workerVars, groupVars,
                 failure, stopped, chClosed>>

DeadlineFires ==
  /\ deadline = "armed" /\ main \in {"reap", "await"}
  /\ deadline' = "fired"
  /\ UNCHANGED <<spawned, ctx, open, joined, main, todo, workerVars, groupVars, exitVars, chClosed>>

\* closeResources(prior), Ctx.Cancel(), and a debugger stop hides the result.
CloseResources ==
  /\ main = "reap" /\ todo = {}
  /\ result' = IF stopped THEN NoDiag
               ELSE IF result = NoDiag /\ open[0] THEN ResourceDiag(0) ELSE result
  /\ open' = [open EXCEPT ![0] = FALSE]
  /\ ctx' = Cancelled(Owners)
  /\ main' = "returned"
  /\ UNCHANGED <<spawned, joined, todo, workerVars, groupVars,
                 failure, stopped, cleanupVars>>

---------------------------------------------------------------------------
WorkerStep(t) ==
  \/ EnterTimedWait(t) \/ LeaveTimedWait(t) \/ EnterHost(t) \/ LeaveHost(t)
  \/ WorkerReturns(t) \/ Publish(t) \/ SignalDone(t)

\* What the program chooses to do.
ProgramStep ==
  \/ \E inGroup \in BOOLEAN : Spawn(inGroup)
  \/ SpawnFails
  \/ \E t \in Threads : Join(t) \/ JoinTimeout(t) \/ ThreadCancel(t)
  \/ GroupCancel \/ GroupWait
  \/ HostCall \/ HostCallReturns
  \/ Finish

\* What the interpreter does once the program has chosen.
RuntimeStep ==
  \/ \E t \in Threads : JoinReturns(t) \/ JoinTimeoutReturns(t)
                        \/ GroupJoin(t) \/ GroupDrain(t)
                        \/ CancelWorker(t) \/ Look(t) \/ AwaitDone(t) \/ AwaitDeadline(t)
  \/ GroupJoined \/ GroupDrained \/ ContextFails \/ CloseChannels \/ CloseResources

Next ==
  \/ \E t \in Threads : WorkerStep(t)
  \/ \E o \in Owners : SetHandle(o)
  \/ ProgramStep
  \/ RuntimeStep
  \/ WallClockExpires
  \/ DeadlineFires

Spec == Init /\ [][Next]_vars

(***************************************************************************)
(* Fairness.  Nothing makes a program end or a worker return by itself: a  *)
(* worker is only sure to go on once its context is done, since step() and *)
(* the blocking operations then fail.  A timed wait is only sure to end    *)
(* once the channel is closed, and a host call, of a worker or of main, is *)
(* not sure to end.  The goroutine's exit, the interpreter's own steps and *)
(* the Go timers do happen.                                                *)
(***************************************************************************)
WorkerFairness(t) ==
  /\ WF_vars(ctx[t] # "live" /\ WorkerReturns(t))
  /\ WF_vars(chClosed /\ LeaveTimedWait(t))
  /\ WF_vars(Publish(t))
  /\ WF_vars(SignalDone(t))

Fairness ==
  /\ \A t \in Threads : WorkerFairness(t)
  /\ WF_vars(RuntimeStep)
  /\ WF_vars(DeadlineFires)
  /\ WF_vars(WallClockExpires)

LiveSpec == Spec /\ Fairness

---------------------------------------------------------------------------
(***************************************************************************)
(* Properties                                                              *)
(***************************************************************************)

\* A join sees what the worker really ended with: Joined is only set after
\* the goroutine has published its final diagnostic and closed Done, and the
\* clean-up in between cannot turn a function that failed into a success.
JoinSeesOutcome ==
  \A t \in Threads : joined[t] =>
    /\ mode[t] = "done" /\ diag[t] = outcome[t]
    /\ raised[t] # NoDiag => diag[t] # NoDiag

\* When run returns without the shutdown deadline having been used up, every
\* worker's goroutine has ended: no worker is detached.
NobodyDetached ==
  main = "returned" /\ deadline # "consumed" =>
    \A t \in 1 .. spawned : mode[t] = "done"

\* A run that reports success hides nothing: every worker has ended, and none
\* of them with a resource diagnostic (a limit, the deadline, a leaked
\* handle), whether it was joined, joined with a timeout that turned the
\* failure into a value, drained by task_group_wait, or only met by cleanup.
SuccessHidesNothing ==
  main = "returned" /\ result = NoDiag /\ ~ stopped =>
    \A t \in 1 .. spawned : mode[t] = "done" /\ outcome[t].cat # "resource"

\* The workers whose functions, or whose leaked handles, gave a resource diagnostic.
Exhausted == {t \in 1 .. spawned : outcome[t].cat = "resource"}

\* What run reports does not depend on when the workers ended.  A program that
\* failed by itself reports that failure, also when a worker failed before it.
\* Otherwise, unless the shutdown deadline was used up, run reports the resource
\* diagnostic of the first worker in spawn order that has one, whether cleanup
\* met it published, waited for it, or it was joined before; and main's own
\* leaked handles only when there is none.
ReportsFirst ==
  main = "returned" /\ ~ stopped =>
    /\ failure # NoDiag => result = failure
    /\ failure = NoDiag /\ deadline # "consumed" =>
         \/ \E t \in Exhausted : result = outcome[t] /\ \A u \in Exhausted : t <= u
         \/ Exhausted = {} /\ result \in {NoDiag, ResourceDiag(0)}

\* task_group_wait answers only when every child of its snapshot has ended,
\* and "ok" means that none of them failed.
GroupWaitTells ==
  waited # "none" =>
    \A t \in waitedFor : mode[t] = "done" /\ (waited = "ok" => outcome[t] = NoDiag)

\* Cleanup waits, after the one tick of its timer, for a worker in a host call.
CleanupStuck ==
  /\ main = "await" /\ deadline = "consumed"
  /\ \E t \in Threads : First(t) /\ mode[t] = "host"

\* Shutdown ends once it has begun, whatever cooperative workers are doing
\* (computing, in a timed wait, on their way out), with one exception: when the
\* tick of the shutdown timer has been used up on any worker, a later one that
\* never comes back from a host call holds cleanup for ever.
CleanupEnds ==
  main \in {"cancel", "reap", "await"} ~> (main = "returned" \/ []CleanupStuck)

\* What the documents say of shutdown: it ends within its budget.
ShutdownEnds == main \in {"cancel", "reap", "await"} ~> main = "returned"

\* Main waits for a worker that sits in a host call or in a timed wait.
WaitsForStuck ==
  /\ main \in {"join", "wait", "drain"}
  /\ \E t \in Threads : First(t) /\ mode[t] \in {"host", "timed"}

\* The wall clock bounds the invocation even when main sits in thread_join or
\* task_group_wait, which do not look at the context themselves: the deadline
\* reaches every worker through its derived context.  What can hold it up for
\* ever is main's own host call or timed wait, a worker in one that main waits
\* for, and cleanup once it is stuck.
InvocationEnds ==
  <>(main = "returned") \/ <>[](main = "host" \/ WaitsForStuck \/ CleanupStuck)
=============================================================================
