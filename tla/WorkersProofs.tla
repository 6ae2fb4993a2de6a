----------------------------- MODULE WorkersProofs ----------------------------
(***************************************************************************)
(* Machine-checked proofs about Workers, for every worker limit, every set *)
(* of stubborn workers, with and without a wall clock, and for every menu. *)
(***************************************************************************)
EXTENDS Workers, TLAPS

\* The diagnostics of the model are diagnostics.
LEMMA DiagTypes ==
  /\ NoDiag \in Diags
  /\ \A o \in Owners : RuntimeDiag(o) \in Diags /\ ResourceDiag(o) \in Diags
  /\ \A t \in Threads : t \in Owners /\ RuntimeDiag(t) \in Diags /\ ResourceDiag(t) \in Diags
  /\ 0 \in Owners
  BY MaxWorkersAssumption DEF Diags, NoDiag, RuntimeDiag, ResourceDiag, Owners, Threads

LEMMA ContextTypes ==
  ASSUME TypeOK
  PROVE  /\ \A S : Cancelled(S) \in [Owners -> {"live", "cancelled", "deadline"}]
         /\ \A o \in Owners : ContextFailure(o) \in Diags
<1>1. \A S : Cancelled(S) \in [Owners -> {"live", "cancelled", "deadline"}]
  BY DEF TypeOK, Cancelled
<1>2. ASSUME NEW o \in Owners PROVE ContextFailure(o) \in Diags
  <2>1. ctx[o] = "live" \/ ctx[o] = "deadline" \/ ctx[o] = "cancelled"
    BY DEF TypeOK
  <2> QED
    BY <2>1, DiagTypes DEF ContextFailure
<1> QED
  BY <1>1, <1>2

\* The end of the program keeps the types, and starts the shutdown loop.
LEMMA EndTypes ==
  ASSUME TypeOK, NEW d \in Diags, NEW b \in BOOLEAN, End(d, b), UNCHANGED spawned
  PROVE  /\ main' \in Places /\ todo' \in SUBSET (1 .. spawned')
         /\ failure' \in Diags /\ result' \in Diags
         /\ stopped' \in BOOLEAN
  BY DEF End, Places, TypeOK

\* The variables keep their types: in particular no more workers are ever
\* spawned than Limits.MaxWorkers allows.
THEOREM WorkersTypeCorrect == Spec => []TypeOK
<1>1. Init => TypeOK
  <2> SUFFICES ASSUME Init PROVE TypeOK
    OBVIOUS
  <2>1. /\ spawned \in 0 .. MaxWorkers
        /\ group \in SUBSET (1 .. spawned) /\ waitedFor \in SUBSET (1 .. spawned)
        /\ todo \in SUBSET (1 .. spawned)
    BY MaxWorkersAssumption DEF Init
  <2>2. /\ mode \in [Threads -> Modes]
        /\ ctx \in [Owners -> {"live", "cancelled", "deadline"}]
        /\ waited \in {"none", "ok", "err"} /\ main \in Places
        /\ deadline \in {"off", "armed", "fired", "consumed"}
    BY DEF Init, Modes, Places
  <2>3. /\ open \in [Owners -> BOOLEAN] /\ joined \in [Threads -> BOOLEAN]
        /\ chClosed \in BOOLEAN /\ groupCancelled \in BOOLEAN
        /\ stopped \in BOOLEAN
    BY DEF Init
  <2>4. /\ raised \in [Threads -> Diags] /\ outcome \in [Threads -> Diags]
        /\ diag \in [Threads -> Diags] /\ failure \in Diags /\ result \in Diags
    BY DiagTypes DEF Init
  <2> QED
    BY <2>1, <2>2, <2>3, <2>4 DEF TypeOK
<1>2. TypeOK /\ [Next]_vars => TypeOK'
  <2> SUFFICES ASSUME TypeOK, [Next]_vars PROVE TypeOK'
    OBVIOUS
  <2> USE MaxWorkersAssumption, DiagTypes
  <2>1. ASSUME NEW t \in Threads, WorkerStep(t) PROVE TypeOK'
    <3>1. CASE EnterTimedWait(t) \/ LeaveTimedWait(t) \/ EnterHost(t) \/ LeaveHost(t)
      BY <3>1 DEF TypeOK, EnterTimedWait, LeaveTimedWait, EnterHost, LeaveHost, Modes,
         groupVars, exitVars, cleanupVars
    <3>2. CASE WorkerReturns(t)
      <4>1. ContextFailure(t) \in Diags
        BY ContextTypes
      <4>2. raised' \in [Threads -> Diags] /\ outcome' \in [Threads -> Diags]
        BY <3>2, <4>1 DEF WorkerReturns, TypeOK
      <4>3. mode' \in [Threads -> Modes] /\ open' \in [Owners -> BOOLEAN]
        BY <3>2 DEF WorkerReturns, TypeOK, Modes
      <4> QED
        BY <3>2, <4>2, <4>3 DEF WorkerReturns, TypeOK, groupVars, exitVars, cleanupVars
    <3>3. CASE Publish(t)
      BY <3>3 DEF TypeOK, Publish, Modes, groupVars, exitVars, cleanupVars
    <3>4. CASE SignalDone(t)
      BY <3>4, ContextTypes DEF TypeOK, SignalDone, Modes, groupVars, exitVars, cleanupVars
    <3> QED
      BY <2>1, <3>1, <3>2, <3>3, <3>4 DEF WorkerStep
  <2>2. ASSUME NEW o \in Owners, SetHandle(o) PROVE TypeOK'
    BY <2>2 DEF SetHandle, TypeOK, workerVars, groupVars, exitVars, cleanupVars
  <2>3. CASE ProgramStep
    <3>1. ASSUME NEW g \in BOOLEAN, Spawn(g) PROVE TypeOK'
      BY <3>1 DEF Spawn, Running, TypeOK, Modes, Threads, Owners, exitVars, cleanupVars
    <3>2. CASE SpawnFails
      BY <3>2, EndTypes DEF SpawnFails, TypeOK, workerVars, groupVars, cleanupVars
    <3>3. ASSUME NEW t \in Threads, Join(t) \/ JoinTimeout(t) \/ ThreadCancel(t)
          PROVE  TypeOK'
      <4>1. CASE Join(t)
        BY <4>1 DEF Join, TypeOK, Places, workerVars, groupVars, exitVars, cleanupVars
      <4>2. CASE JoinTimeout(t)
        BY <4>2 DEF JoinTimeout, TypeOK, Places, workerVars, groupVars, exitVars, cleanupVars
      <4>3. CASE ThreadCancel(t)
        BY <4>3, ContextTypes DEF ThreadCancel, TypeOK, workerVars, groupVars, exitVars, cleanupVars
      <4> QED
        BY <3>3, <4>1, <4>2, <4>3
    <3>4. CASE GroupCancel \/ GroupWait
      <4>1. CASE GroupCancel
        BY <4>1, ContextTypes DEF GroupCancel, TypeOK, workerVars, exitVars, cleanupVars
      <4>2. CASE GroupWait
        BY <4>2 DEF GroupWait, TypeOK, Places, workerVars, exitVars, cleanupVars
      <4> QED
        BY <3>4, <4>1, <4>2
    <3>5. CASE Finish
      BY <3>5, EndTypes DEF Finish, TypeOK, workerVars, groupVars, cleanupVars
    <3>6. CASE HostCall \/ HostCallReturns
      BY <3>6 DEF HostCall, HostCallReturns, TypeOK, Places, workerVars, groupVars,
         exitVars, cleanupVars
    <3> QED
      BY <2>3, <3>1, <3>2, <3>3, <3>4, <3>5, <3>6 DEF ProgramStep
  <2>4. CASE RuntimeStep
    <3>1. ASSUME NEW t \in Threads, JoinReturns(t) PROVE TypeOK'
      <4>1. diag[t] \in Diags
        BY DEF TypeOK
      <4>2. CASE diag[t] = NoDiag /\ main' = "run" /\ todo' = {} /\ UNCHANGED exitVars
        BY <3>1, <4>2 DEF JoinReturns, TypeOK, Places, workerVars, groupVars, exitVars, cleanupVars
      <4>3. CASE End(diag[t], FALSE)
        BY <3>1, <4>1, <4>3, EndTypes DEF JoinReturns, TypeOK, workerVars, groupVars, cleanupVars
      <4> QED
        BY <3>1, <4>2, <4>3 DEF JoinReturns
    <3>2. ASSUME NEW t \in Threads, GroupJoin(t) PROVE TypeOK'
      BY <3>2, ContextTypes DEF GroupJoin, First, TypeOK, Places, workerVars, exitVars, cleanupVars
    <3>3. ASSUME NEW t \in Threads, GroupDrain(t) \/ CancelWorker(t) PROVE TypeOK'
      BY <3>3, ContextTypes DEF GroupDrain, CancelWorker, First, TypeOK, Places,
         workerVars, groupVars, exitVars, cleanupVars
    <3>4. ASSUME NEW t \in Threads, Look(t) \/ AwaitDone(t) \/ AwaitDeadline(t) PROVE TypeOK'
      <4>1. \A d \in Diags : Note(result, d) \in Diags
        BY DEF Note, TypeOK
      <4>2. diag[t] \in Diags
        BY DEF TypeOK
      <4> QED
        BY <3>4, <4>1, <4>2 DEF Look, AwaitDone, AwaitDeadline, First, TypeOK, Places,
           workerVars, groupVars, cleanupVars
    <3>5. CASE GroupJoined \/ GroupDrained
      BY <3>5 DEF GroupJoined, GroupDrained, TypeOK, Places, workerVars, exitVars, cleanupVars
    <3>6. CASE ContextFails
      BY <3>6, EndTypes, ContextTypes DEF ContextFails, TypeOK, workerVars, groupVars, cleanupVars
    <3>7. CASE CloseChannels
      BY <3>7 DEF CloseChannels, TypeOK, Places, workerVars, groupVars, exitVars
    <3>8. CASE CloseResources
      BY <3>8, ContextTypes DEF CloseResources, TypeOK, Places, workerVars, groupVars, cleanupVars
    <3>9. ASSUME NEW t \in Threads, JoinTimeoutReturns(t) PROVE TypeOK'
      BY <3>9 DEF JoinTimeoutReturns, TypeOK, Places, workerVars, groupVars, exitVars, cleanupVars
    <3> QED
      BY <2>4, <3>1, <3>2, <3>3, <3>4, <3>5, <3>6, <3>7, <3>8, <3>9 DEF RuntimeStep
  <2>5. CASE WallClockExpires
    BY <2>5 DEF WallClockExpires, TypeOK, workerVars, groupVars, exitVars, cleanupVars
  <2>6. CASE DeadlineFires
    BY <2>6 DEF DeadlineFires, TypeOK, workerVars, groupVars, exitVars
  <2>7. CASE UNCHANGED vars
    BY <2>7 DEF vars, TypeOK, workerVars, groupVars, exitVars, cleanupVars
  <2> QED
    BY <2>1, <2>2, <2>3, <2>4, <2>5, <2>6, <2>7 DEF Next
<1> QED
  BY <1>1, <1>2, PTL DEF Spec

---------------------------------------------------------------------------
\* What a goroutine's stage tells about its thread.
WorkerInv ==
  \A t \in Threads :
    /\ joined[t] => mode[t] = "done"
    /\ mode[t] \in {"published", "done"} => diag[t] = outcome[t]
    /\ mode[t] \notin {"published", "done"} => diag[t] = NoDiag
    /\ raised[t] # NoDiag => outcome[t] # NoDiag
    /\ mode[t] = "none" <=> t > spawned

\* The places where the program has not ended yet, and those of cleanup's loop.
Going == {"run", "host", "join", "timed_join", "wait", "drain"}
Reaping == {"reap", "await", "returned"}

\* Where result comes from: from worker t, which is the first that has a
\* resource diagnostic; every worker before it has ended without one.
From(t) ==
  /\ mode[t] \in {"published", "done"} /\ outcome[t].cat = "resource"
  /\ result = outcome[t]
  /\ \A u \in 1 .. spawned : u < t => mode[u] = "done" /\ outcome[u].cat # "resource"

\* What run is going to return, stage by stage.  Threads that have left todo
\* have been seen by cleanup's loop.
ShutdownInv ==
  /\ main \in Going => failure = NoDiag /\ result = NoDiag /\ deadline = "off" /\ ~ stopped
  /\ main = "cancel" => result = failure /\ deadline = "off"
  /\ stopped => failure = NoDiag
  /\ main \in Reaping /\ failure # NoDiag => result = failure
  /\ main \in Reaping /\ deadline # "consumed" =>
       \A t \in (1 .. spawned) \ todo : mode[t] = "done"
  /\ /\ main \in {"reap", "await"} \/ (main = "returned" /\ ~ stopped)
     /\ result = NoDiag
     =>
         /\ deadline # "consumed"
         /\ \A t \in (1 .. spawned) \ todo : mode[t] = "done" /\ outcome[t].cat # "resource"
  /\ main = "returned" => todo = {}

\* With neither a failure of the program nor the deadline, result is that of
\* the first worker, or main's own leak, found when all workers are gone.
ReportInv ==
  /\ main \in {"reap", "await"} \/ (main = "returned" /\ ~ stopped)
  /\ failure = NoDiag /\ deadline # "consumed" /\ result # NoDiag
  =>
      \/ \E t \in 1 .. spawned : From(t)
      \/ /\ main = "returned" /\ result = ResourceDiag(0)
         /\ \A u \in 1 .. spawned : mode[u] = "done" /\ outcome[u].cat # "resource"

\* What task_group_wait has learnt so far.
GroupInv ==
  /\ main = "wait" =>
       waited = "none" /\ \A t \in waitedFor \ todo : mode[t] = "done" /\ outcome[t] = NoDiag
  /\ main = "drain" =>
       waited = "none" /\ \A t \in waitedFor \ todo : mode[t] = "done"
  /\ waited # "none" =>
       \A t \in waitedFor : mode[t] = "done" /\ (waited = "ok" => outcome[t] = NoDiag)

\* What a thread's stage tells survives every step.
LEMMA WorkerInvStep == TypeOK /\ WorkerInv /\ [Next]_vars => WorkerInv'
<1> SUFFICES ASSUME TypeOK, WorkerInv, [Next]_vars PROVE WorkerInv'
  OBVIOUS
<1> USE MaxWorkersAssumption
<1>1. ASSUME NEW t \in Threads, WorkerStep(t) PROVE WorkerInv'
  <2>1. CASE EnterTimedWait(t) \/ LeaveTimedWait(t) \/ EnterHost(t) \/ LeaveHost(t)
    BY <2>1 DEF EnterTimedWait, LeaveTimedWait, EnterHost, LeaveHost, WorkerInv, TypeOK
  <2>2. CASE WorkerReturns(t)
    BY <2>2 DEF WorkerReturns, WorkerInv, TypeOK, Threads, Owners, NoDiag, ResourceDiag
  <2>3. CASE Publish(t)
    BY <2>3 DEF Publish, WorkerInv, TypeOK
  <2>4. CASE SignalDone(t)
    BY <2>4 DEF SignalDone, WorkerInv, TypeOK
  <2> QED
    BY <1>1, <2>1, <2>2, <2>3, <2>4 DEF WorkerStep
<1>2. ASSUME NEW o \in Owners, SetHandle(o) PROVE WorkerInv'
  BY <1>2 DEF SetHandle, WorkerInv, workerVars
<1>3. ASSUME NEW g \in BOOLEAN, Spawn(g) PROVE WorkerInv'
  BY <1>3 DEF Spawn, WorkerInv, TypeOK, Threads
<1>4. ASSUME NEW t \in Threads,
             JoinTimeoutReturns(t) \/ JoinReturns(t) \/ GroupJoin(t) \/ AwaitDone(t)
      PROVE  WorkerInv'
  <2>1. /\ \/ mode[t] = "done" /\ joined' = [joined EXCEPT ![t] = TRUE]
           \/ UNCHANGED joined
        /\ UNCHANGED <<mode, diag, raised, outcome, spawned>>
    BY <1>4 DEF JoinTimeoutReturns, JoinReturns, GroupJoin, AwaitDone, workerVars
  <2> QED
    BY <2>1 DEF WorkerInv, TypeOK
<1>5. CASE CloseResources
  BY <1>5 DEF CloseResources, WorkerInv, workerVars
<1>6. CASE UNCHANGED <<mode, diag, raised, outcome, spawned, joined>>
  BY <1>6 DEF WorkerInv
<1>7. ASSUME NEW t \in Threads,
             Join(t) \/ JoinTimeout(t) \/ ThreadCancel(t) \/ GroupDrain(t) \/ CancelWorker(t)
               \/ Look(t) \/ AwaitDeadline(t)
      PROVE  WorkerInv'
  BY <1>6, <1>7 DEF Join, JoinTimeout, ThreadCancel, GroupDrain, CancelWorker, Look, AwaitDeadline, workerVars
<1>8. CASE SpawnFails \/ GroupCancel \/ GroupWait \/ Finish \/ GroupJoined \/ GroupDrained
             \/ ContextFails \/ CloseChannels \/ WallClockExpires \/ DeadlineFires
             \/ HostCall \/ HostCallReturns \/ UNCHANGED vars
  BY <1>6, <1>8 DEF HostCall, HostCallReturns, SpawnFails, GroupCancel, GroupWait, Finish, GroupJoined, GroupDrained,
     ContextFails, CloseChannels, WallClockExpires, DeadlineFires, vars, workerVars
<1> QED
  BY <1>1, <1>2, <1>3, <1>4, <1>5, <1>7, <1>8 DEF Next, ProgramStep, RuntimeStep

\* A goroutine that has published its diagnostic, or ended, keeps its outcome.
LEMMA DoneIsFinal ==
  ASSUME TypeOK, WorkerInv, [Next]_vars, NEW t \in Threads, mode[t] \in {"published", "done"}
  PROVE  /\ mode'[t] \in {"published", "done"} /\ outcome'[t] = outcome[t]
         /\ mode[t] = "done" => mode'[t] = "done"
<1> DEFINE Kept == /\ mode'[t] \in {"published", "done"} /\ outcome'[t] = outcome[t]
                   /\ mode[t] = "done" => mode'[t] = "done"
<1> SUFFICES Kept
  OBVIOUS
<1>1. ASSUME NEW u \in Threads, WorkerStep(u) PROVE Kept
  BY <1>1 DEF WorkerStep, EnterTimedWait, LeaveTimedWait, EnterHost, LeaveHost,
     WorkerReturns, Publish, SignalDone, TypeOK
<1>2. ASSUME NEW g \in BOOLEAN, Spawn(g) PROVE Kept
  BY <1>2 DEF Spawn, TypeOK, WorkerInv, Threads
<1>3. CASE UNCHANGED <<mode, outcome>>
  BY <1>3
<1>4. ASSUME NEW u \in Threads,
             Join(u) \/ ThreadCancel(u) \/ GroupDrain(u) \/ CancelWorker(u) \/ Look(u)
               \/ AwaitDeadline(u) \/ JoinTimeout(u) \/ JoinTimeoutReturns(u) \/ JoinReturns(u)
               \/ GroupJoin(u) \/ AwaitDone(u)
      PROVE  UNCHANGED <<mode, outcome>>
  BY <1>4 DEF Join, ThreadCancel, GroupDrain, CancelWorker, Look, AwaitDeadline, JoinTimeout,
     JoinTimeoutReturns, JoinReturns, GroupJoin, AwaitDone, workerVars
<1>5. CASE \/ SpawnFails \/ GroupCancel \/ GroupWait \/ Finish \/ GroupJoined \/ GroupDrained
           \/ ContextFails \/ CloseChannels \/ CloseResources \/ WallClockExpires
           \/ DeadlineFires \/ HostCall \/ HostCallReturns \/ UNCHANGED vars
           \/ \E o \in Owners : SetHandle(o)
  BY <1>3, <1>5 DEF HostCall, HostCallReturns, SpawnFails, GroupCancel, GroupWait, Finish, GroupJoined, GroupDrained,
     ContextFails, CloseChannels, CloseResources, WallClockExpires, DeadlineFires, vars,
     workerVars, SetHandle
<1> HIDE DEF Kept
<1> QED
  BY <1>1, <1>2, <1>3, <1>4, <1>5 DEF Next, ProgramStep, RuntimeStep

\* Joins see the final outcome of the worker.
THEOREM JoinsAreFaithful == Spec => []JoinSeesOutcome
<1>1. Init => WorkerInv
  BY MaxWorkersAssumption DEF Init, WorkerInv, Threads
<1>2. WorkerInv => JoinSeesOutcome
  BY DEF WorkerInv, JoinSeesOutcome
<1> QED
  BY <1>1, <1>2, WorkerInvStep, WorkersTypeCorrect, PTL DEF Spec

---------------------------------------------------------------------------
\* Note never forgets a diagnostic, and its silence means that the worker's
\* diagnostic was not a resource one.
LEMMA NoteFacts ==
  ASSUME NEW prior \in Diags, NEW d \in Diags
  PROVE  /\ prior # NoDiag => Note(prior, d) = prior
         /\ Note(prior, d) = NoDiag => prior = NoDiag /\ d.cat # "resource"
  BY DEF Note, NoDiag, Diags

\* What shutdown has established so far survives every step.
LEMMA ShutdownInvStep ==
  TypeOK /\ WorkerInv /\ ShutdownInv /\ [Next]_vars => ShutdownInv'
<1> SUFFICES ASSUME TypeOK, WorkerInv, ShutdownInv, [Next]_vars PROVE ShutdownInv'
  OBVIOUS
<1> USE MaxWorkersAssumption
<1>0. /\ 1 .. spawned \subseteq Threads
      /\ \A t \in 1 .. spawned : mode[t] = "done" => mode'[t] = "done" /\ outcome'[t] = outcome[t]
      /\ \A t \in Threads : diag[t] \in Diags /\ outcome[t] \in Diags
  <2>1. 1 .. spawned \subseteq Threads
    BY DEF TypeOK, Threads
  <2> QED
    BY <2>1, DoneIsFinal DEF TypeOK
<1>1. CASE UNCHANGED <<main, todo, spawned, deadline, failure, result, stopped>>
  BY <1>0, <1>1 DEF ShutdownInv
<1>2. CASE main \in Going /\ main' \in Going /\ UNCHANGED <<failure, result, deadline, stopped>>
  BY <1>2 DEF ShutdownInv, Going, Reaping
<1>3. ASSUME NEW d \in Diags, NEW b \in BOOLEAN, End(d, b), b => d = NoDiag,
             main \in {"run", "join"}, UNCHANGED deadline
      PROVE  ShutdownInv'
  BY <1>3 DEF End, ShutdownInv, Going, Reaping
<1>4. ASSUME NEW t \in Threads, WorkerStep(t) PROVE ShutdownInv'
  BY <1>1, <1>4 DEF WorkerStep, EnterTimedWait, LeaveTimedWait, EnterHost, LeaveHost,
     WorkerReturns, Publish, SignalDone, exitVars, cleanupVars
<1>5. ASSUME NEW o \in Owners, SetHandle(o) PROVE ShutdownInv'
  BY <1>1, <1>5 DEF SetHandle, exitVars, cleanupVars
<1>6. ASSUME NEW g \in BOOLEAN, Spawn(g) PROVE ShutdownInv'
  BY <1>2, <1>6 DEF Spawn, Running, Going, exitVars, cleanupVars
<1>7. CASE SpawnFails \/ Finish \/ ContextFails
  <2>1. /\ NoDiag \in Diags /\ RuntimeDiag(0) \in Diags /\ ResourceDiag(0) \in Diags
        /\ ContextFailure(0) \in Diags
    BY DiagTypes, ContextTypes
  <2> QED
    BY <1>3, <1>7, <2>1 DEF SpawnFails, Finish, ContextFails, Running, cleanupVars
<1>8. ASSUME NEW t \in Threads, JoinReturns(t) PROVE ShutdownInv'
  <2>1. CASE main' = "run" /\ UNCHANGED exitVars
    BY <1>2, <1>8, <2>1 DEF JoinReturns, Going, exitVars, cleanupVars
  <2>2. CASE End(diag[t], FALSE)
    BY <1>0, <1>3, <1>8, <2>2 DEF JoinReturns, cleanupVars
  <2> QED
    BY <1>8, <2>1, <2>2 DEF JoinReturns
<1>9. ASSUME NEW t \in Threads,
             Join(t) \/ JoinTimeout(t) \/ JoinTimeoutReturns(t) \/ ThreadCancel(t)
               \/ GroupJoin(t) \/ GroupDrain(t)
      PROVE  ShutdownInv'
  BY <1>2, <1>9 DEF Join, JoinTimeout, JoinTimeoutReturns, ThreadCancel, GroupJoin,
     GroupDrain, Running, Going, exitVars, cleanupVars
<1>10. CASE GroupCancel \/ GroupWait \/ GroupJoined \/ GroupDrained
              \/ HostCall \/ HostCallReturns
  BY <1>2, <1>10 DEF GroupCancel, GroupWait, GroupJoined, GroupDrained, HostCall,
     HostCallReturns, Running, Going, exitVars, cleanupVars
<1>11. ASSUME NEW t \in Threads, CancelWorker(t) PROVE ShutdownInv'
  BY <1>11 DEF CancelWorker, ShutdownInv, Going, Reaping, exitVars, cleanupVars
<1>12. CASE CloseChannels
  BY <1>12 DEF CloseChannels, ShutdownInv, Going, Reaping, exitVars
<1>13. ASSUME NEW t \in Threads, Look(t) PROVE ShutdownInv'
  <2>1. joined[t] => mode[t] = "done" /\ diag[t] = outcome[t]
    BY DEF WorkerInv
  <2>2. /\ result # NoDiag => result' = result
        /\ result' = NoDiag => result = NoDiag /\ diag[t].cat # "resource"
    BY <1>0, <1>13, NoteFacts DEF Look, TypeOK
  <2>3. CASE joined[t] /\ todo' = todo \ {t} /\ UNCHANGED main
    BY <1>0, <1>13, <2>1, <2>2, <2>3 DEF Look, ShutdownInv, Going, Reaping, WorkerInv, workerVars, cleanupVars
  <2>4. CASE main' = "await" /\ UNCHANGED todo
    BY <1>0, <1>13, <2>2, <2>4 DEF Look, ShutdownInv, Going, Reaping, workerVars, cleanupVars
  <2> QED
    BY <1>13, <2>3, <2>4 DEF Look
<1>14. ASSUME NEW t \in Threads, AwaitDone(t) PROVE ShutdownInv'
  <2>1. diag[t] = outcome[t] /\ mode[t] = "done"
    BY <1>14 DEF AwaitDone, WorkerInv
  <2>2. /\ result # NoDiag => result' = result
        /\ result' = NoDiag => result = NoDiag /\ diag[t].cat # "resource"
    BY <1>0, <1>14, NoteFacts DEF AwaitDone, TypeOK
  <2> QED
    BY <1>0, <1>14, <2>1, <2>2 DEF AwaitDone, ShutdownInv, Going, Reaping, workerVars, cleanupVars
<1>15. ASSUME NEW t \in Threads, AwaitDeadline(t) PROVE ShutdownInv'
  <2>1. ResourceDiag(0) # NoDiag
    BY DEF ResourceDiag, NoDiag
  <2> QED
    BY <1>15, <2>1 DEF AwaitDeadline, ShutdownInv, Going, Reaping
<1>16. CASE DeadlineFires
  BY <1>0, <1>16 DEF DeadlineFires, ShutdownInv, Going, Reaping, exitVars, workerVars
<1>17. CASE CloseResources
  <2>1. ResourceDiag(0) # NoDiag
    BY DEF ResourceDiag, NoDiag
  <2> QED
    BY <1>17, <2>1 DEF CloseResources, ShutdownInv, Going, Reaping, workerVars, cleanupVars
<1>18. CASE WallClockExpires \/ UNCHANGED vars
  BY <1>1, <1>18 DEF WallClockExpires, vars, exitVars, cleanupVars
<1> QED
  BY <1>4, <1>5, <1>6, <1>7, <1>8, <1>9, <1>10, <1>11, <1>12, <1>13, <1>14, <1>15, <1>16,
     <1>17, <1>18 DEF Next, ProgramStep, RuntimeStep

\* The invariant of a whole invocation.
LEMMA Invocation == Spec => [](TypeOK /\ WorkerInv /\ ShutdownInv)
<1>1. Init => WorkerInv
  BY MaxWorkersAssumption DEF Init, WorkerInv, Threads
<1>2. Init => ShutdownInv
  BY DEF Init, ShutdownInv, Going, Reaping
<1> QED
  BY <1>1, <1>2, WorkerInvStep, ShutdownInvStep, WorkersTypeCorrect, PTL DEF Spec

\* Unless the shutdown deadline was used up, run returns only when every
\* worker's goroutine has ended.
THEOREM NoWorkerDetached == Spec => []NobodyDetached
<1>1. ShutdownInv => NobodyDetached
  BY DEF ShutdownInv, Reaping, NobodyDetached
<1> QED
  BY <1>1, Invocation, PTL

\* A successful run hides neither a running worker nor a resource diagnostic.
THEOREM SuccessIsHonest == Spec => []SuccessHidesNothing
<1>1. ShutdownInv => SuccessHidesNothing
  BY DEF ShutdownInv, Reaping, SuccessHidesNothing
<1> QED
  BY <1>1, Invocation, PTL

\* A worker that cleanup has reported stays the one to report.
LEMMA FromIsFinal ==
  ASSUME TypeOK, WorkerInv, [Next]_vars, NEW t \in 1 .. spawned, From(t),
         UNCHANGED <<spawned, result>>
  PROVE  From(t)'
<1>1. t \in Threads /\ 1 .. spawned \subseteq Threads
  BY MaxWorkersAssumption DEF TypeOK, Threads
<1>2. \A u \in 1 .. spawned : mode[u] = "done" => mode'[u] = "done" /\ outcome'[u] = outcome[u]
  BY <1>1, DoneIsFinal
<1>3. mode'[t] \in {"published", "done"} /\ outcome'[t] = outcome[t]
  BY <1>1, DoneIsFinal DEF From
<1> QED
  BY <1>2, <1>3 DEF From

\* Who is reported does not change once somebody is.
LEMMA ReportInvStep ==
  TypeOK /\ WorkerInv /\ ShutdownInv /\ ReportInv /\ [Next]_vars => ReportInv'
<1> SUFFICES ASSUME TypeOK, WorkerInv, ShutdownInv, ReportInv, [Next]_vars,
                    main' \in {"reap", "await"} \/ (main' = "returned" /\ ~ stopped'),
                    failure' = NoDiag, deadline' # "consumed", result' # NoDiag
             PROVE  \/ \E t \in 1 .. spawned' : From(t)'
                    \/ /\ main' = "returned" /\ result' = ResourceDiag(0)
                       /\ \A u \in 1 .. spawned' : mode'[u] = "done" /\ outcome'[u].cat # "resource"
  BY DEF ReportInv
<1> USE MaxWorkersAssumption
<1>0. /\ 1 .. spawned \subseteq Threads
      /\ \A t \in 1 .. spawned : mode[t] = "done" => mode'[t] = "done" /\ outcome'[t] = outcome[t]
      /\ \A t \in Threads : diag[t] \in Diags
  <2>1. 1 .. spawned \subseteq Threads
    BY DEF TypeOK, Threads
  <2> QED
    BY <2>1, DoneIsFinal DEF TypeOK
\* The first worker with a resource diagnostic that the loop meets.
<1>1. ASSUME NEW t \in Threads, First(t), main \in {"reap", "await"}, result = NoDiag,
             result' = diag[t], diag[t].cat = "resource",
             UNCHANGED <<spawned, mode, outcome, diag>>
      PROVE  From(t)' /\ t \in 1 .. spawned
  <2>1. t \in 1 .. spawned /\ \A u \in 1 .. spawned : u < t => u \notin todo
    BY <1>1 DEF First, TypeOK
  <2>2. \A u \in 1 .. spawned : u < t => mode[u] = "done" /\ outcome[u].cat # "resource"
    BY <1>1, <2>1 DEF ShutdownInv
  <2>3. mode[t] \in {"published", "done"} /\ outcome[t] = diag[t]
    <3>1. diag[t] # NoDiag
      BY <1>1 DEF NoDiag
    <3> QED
      BY <3>1 DEF WorkerInv
  <2> QED
    BY <1>1, <2>1, <2>2, <2>3 DEF From
\* A diagnostic found earlier.
<1>2. ASSUME UNCHANGED <<spawned, result, failure>>, deadline # "consumed",
             \/ main \in {"reap", "await"} \/ (main = "returned" /\ ~ stopped),
             main = "returned" => main' = "returned"
      PROVE  \/ \E t \in 1 .. spawned' : From(t)'
             \/ /\ main' = "returned" /\ result' = ResourceDiag(0)
                /\ \A u \in 1 .. spawned' : mode'[u] = "done" /\ outcome'[u].cat # "resource"
  <2>1. CASE \E t \in 1 .. spawned : From(t)
    BY <1>2, <2>1, FromIsFinal
  <2>2. CASE /\ main = "returned" /\ result = ResourceDiag(0)
             /\ \A u \in 1 .. spawned : mode[u] = "done" /\ outcome[u].cat # "resource"
    BY <1>0, <1>2, <2>2
  <2> QED
    BY <1>2, <2>1, <2>2 DEF ReportInv
<1>3. ASSUME NEW t \in Threads, Look(t) \/ AwaitDone(t)
      PROVE  \E u \in 1 .. spawned' : From(u)'
  <2>1. /\ First(t) /\ main \in {"reap", "await"} /\ main' \in {"reap", "await"}
        /\ result' = Note(result, diag[t])
        /\ UNCHANGED <<spawned, mode, outcome, diag, failure, deadline, stopped>>
    BY <1>3 DEF Look, AwaitDone, workerVars, cleanupVars
  <2>2. CASE result = NoDiag
    <3>1. result' = diag[t] /\ diag[t].cat = "resource"
      BY <2>1, <2>2 DEF Note
    <3> QED
      BY <1>1, <2>1, <2>2, <3>1
  <2>3. CASE result # NoDiag
    <3>1. result' = result
      BY <2>1, <2>3 DEF Note
    <3> QED
      BY <1>2, <2>1, <3>1
  <2> QED
    BY <2>2, <2>3
<1>4. CASE CloseResources
  <2>1. CASE result = NoDiag
    <3>1. main' = "returned" /\ result' = ResourceDiag(0) /\ todo = {}
      BY <1>4, <2>1 DEF CloseResources
    <3>2. \A u \in 1 .. spawned : mode[u] = "done" /\ outcome[u].cat # "resource"
      BY <1>4, <2>1 DEF CloseResources, ShutdownInv
    <3> QED
      BY <1>4, <3>1, <3>2 DEF CloseResources, workerVars
  <2>2. CASE result # NoDiag
    <3>1. result' = result
      BY <1>4, <2>2 DEF CloseResources
    <3> QED
      BY <1>2, <1>4, <3>1 DEF CloseResources, cleanupVars
  <2> QED
    BY <2>1, <2>2
<1>5. ASSUME NEW t \in Threads, AwaitDeadline(t) PROVE FALSE
  BY <1>5 DEF AwaitDeadline
<1>6. CASE CloseChannels
  BY <1>6 DEF CloseChannels, ShutdownInv, exitVars
<1>7. CASE DeadlineFires
  BY <1>2, <1>7 DEF DeadlineFires, exitVars
<1>8. CASE UNCHANGED <<main, spawned, deadline, failure, result, stopped>>
  BY <1>2, <1>8
<1>9. ASSUME NEW t \in Threads, WorkerStep(t)
      PROVE  UNCHANGED <<main, spawned, deadline, failure, result, stopped>>
  BY <1>9 DEF WorkerStep, EnterTimedWait, LeaveTimedWait, EnterHost, LeaveHost,
     WorkerReturns, Publish, SignalDone, exitVars, cleanupVars
<1>10. ASSUME NEW o \in Owners, SetHandle(o)
       PROVE  UNCHANGED <<main, spawned, deadline, failure, result, stopped>>
  BY <1>10 DEF SetHandle, exitVars, cleanupVars
<1>11. CASE WallClockExpires \/ UNCHANGED vars
  BY <1>8, <1>11 DEF WallClockExpires, vars, exitVars, cleanupVars
<1>12. ASSUME NEW t \in Threads,
              \/ Join(t) \/ JoinTimeout(t) \/ ThreadCancel(t) \/ JoinReturns(t)
              \/ JoinTimeoutReturns(t) \/ GroupJoin(t) \/ GroupDrain(t) \/ CancelWorker(t)
       PROVE  main' \notin Reaping
  BY <1>12 DEF Join, JoinTimeout, ThreadCancel, JoinReturns, JoinTimeoutReturns, GroupJoin,
     GroupDrain, CancelWorker, Running, End, Reaping
<1>13. CASE \/ (\E g \in BOOLEAN : Spawn(g)) \/ SpawnFails \/ GroupCancel \/ GroupWait
            \/ HostCall \/ HostCallReturns \/ Finish \/ GroupJoined \/ GroupDrained
            \/ ContextFails
  <2>1. main' \notin Reaping
    BY <1>13 DEF Spawn, SpawnFails, GroupCancel, GroupWait, HostCall, HostCallReturns, Finish,
       GroupJoined, GroupDrained, ContextFails, Running, End, Reaping
  <2> QED
    BY <2>1 DEF Reaping
<1>14. main' \in Reaping
  BY DEF Reaping
<1> QED
  BY <1>3, <1>4, <1>5, <1>6, <1>7, <1>8, <1>9, <1>10, <1>11, <1>12, <1>13, <1>14
     DEF Next, ProgramStep, RuntimeStep

\* What run reports is determined by how the program and the workers end, not
\* by the order in which they do.
THEOREM ReportIsDetermined == Spec => []ReportsFirst
<1>1. Init => ReportInv
  BY DEF Init, ReportInv
<1>2. TypeOK /\ ShutdownInv /\ ReportInv => ReportsFirst
  <2> SUFFICES ASSUME TypeOK, ShutdownInv, ReportInv, main = "returned", ~ stopped
               PROVE  /\ failure # NoDiag => result = failure
                      /\ failure = NoDiag /\ deadline # "consumed" =>
                           \/ \E t \in Exhausted :
                                result = outcome[t] /\ \A u \in Exhausted : t <= u
                           \/ Exhausted = {} /\ result \in {NoDiag, ResourceDiag(0)}
    BY DEF ReportsFirst
  <2>1. failure # NoDiag => result = failure
    BY DEF ShutdownInv, Reaping
  <2>2. CASE result = NoDiag
    <3>1. Exhausted = {}
      BY <2>2 DEF ShutdownInv, Exhausted
    <3> QED
      BY <2>1, <2>2, <3>1
  <2>3. ASSUME NEW t \in 1 .. spawned, From(t)
        PROVE  t \in Exhausted /\ result = outcome[t] /\ \A u \in Exhausted : t <= u
    BY <2>3 DEF From, Exhausted, TypeOK
  <2>4. CASE result = ResourceDiag(0) /\ \A u \in 1 .. spawned : outcome[u].cat # "resource"
    <3>1. Exhausted = {}
      BY <2>4 DEF Exhausted
    <3> QED
      BY <2>1, <2>4, <3>1
  <2> QED
    BY <2>1, <2>2, <2>3, <2>4 DEF ReportInv
<1> QED
  BY <1>1, <1>2, ReportInvStep, Invocation, PTL DEF Spec

---------------------------------------------------------------------------
\* What task_group_wait has learnt survives every step.
LEMMA GroupInvStep ==
  TypeOK /\ WorkerInv /\ GroupInv /\ [Next]_vars => GroupInv'
<1> SUFFICES ASSUME TypeOK, WorkerInv, GroupInv, [Next]_vars PROVE GroupInv'
  OBVIOUS
<1> USE MaxWorkersAssumption
<1>0. \A t \in waitedFor : t \in Threads /\
         (mode[t] = "done" => mode'[t] = "done" /\ outcome'[t] = outcome[t])
  <2>1. waitedFor \subseteq Threads
    BY DEF TypeOK, Threads
  <2> QED
    BY <2>1, DoneIsFinal
<1>1. CASE UNCHANGED <<waitedFor, waited>> /\ (UNCHANGED <<main, todo>> \/ main' \notin {"wait", "drain"})
  BY <1>0, <1>1 DEF GroupInv
<1>2. ASSUME NEW t \in Threads, WorkerStep(t) PROVE GroupInv'
  BY <1>1, <1>2 DEF WorkerStep, EnterTimedWait, LeaveTimedWait, EnterHost, LeaveHost,
     WorkerReturns, Publish, SignalDone, groupVars
<1>3. ASSUME NEW t \in Threads,
             Join(t) \/ JoinTimeout(t) \/ JoinTimeoutReturns(t) \/ ThreadCancel(t)
               \/ JoinReturns(t) \/ CancelWorker(t) \/ Look(t) \/ AwaitDone(t) \/ AwaitDeadline(t)
      PROVE  GroupInv'
  BY <1>1, <1>3 DEF Join, JoinTimeout, JoinTimeoutReturns, ThreadCancel, JoinReturns, CancelWorker, Look,
     AwaitDone, AwaitDeadline, Running, End, groupVars
<1>4. CASE \/ SpawnFails \/ Finish \/ ContextFails \/ GroupCancel \/ CloseChannels
           \/ CloseResources \/ WallClockExpires \/ DeadlineFires \/ UNCHANGED vars
           \/ (\E o \in Owners : SetHandle(o)) \/ (\E g \in BOOLEAN : Spawn(g))
           \/ HostCall \/ HostCallReturns
  BY <1>1, <1>4 DEF HostCall, HostCallReturns, SpawnFails, Finish, ContextFails, GroupCancel, CloseChannels,
     CloseResources, WallClockExpires, DeadlineFires, SetHandle, Spawn, Running, End,
     vars, groupVars
<1>5. CASE GroupWait
  BY <1>5 DEF GroupWait, GroupInv
<1>6. ASSUME NEW t \in Threads, GroupJoin(t) PROVE GroupInv'
  <2>1. mode'[t] = "done" /\ outcome'[t] = diag[t] /\ UNCHANGED <<waitedFor, waited>>
    BY <1>6 DEF GroupJoin, WorkerInv, workerVars
  <2> QED
    BY <1>0, <1>6, <2>1 DEF GroupJoin, GroupInv
<1>7. ASSUME NEW t \in Threads, GroupDrain(t) PROVE GroupInv'
  BY <1>0, <1>7 DEF GroupDrain, GroupInv, groupVars, workerVars
<1>8. CASE GroupJoined \/ GroupDrained
  BY <1>8 DEF GroupJoined, GroupDrained, GroupInv, workerVars
<1> QED
  BY <1>2, <1>3, <1>4, <1>5, <1>6, <1>7, <1>8 DEF Next, ProgramStep, RuntimeStep

\* task_group_wait answers only when every child has ended, and truthfully.
THEOREM GroupWaitIsTruthful == Spec => []GroupWaitTells
<1>1. Init => GroupInv
  BY DEF Init, GroupInv
<1>2. GroupInv => GroupWaitTells
  BY DEF GroupInv, GroupWaitTells
<1> QED
  BY <1>1, <1>2, GroupInvStep, Invocation, PTL DEF Spec
=============================================================================
