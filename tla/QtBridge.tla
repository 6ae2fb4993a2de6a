------------------------------- MODULE QtBridge -------------------------------
(***************************************************************************)
(* The native Qt 6 adapter, packages/qt6/native/qt6_bridge.cpp: a table of *)
(* handles through which a Kryndel program creates, calls, watches and     *)
(* deletes the QObjects of one QApplication.                               *)
(*                                                                         *)
(* kry_qt6_request runs one request at a time under stateMutex, so a       *)
(* request is one step.  The exception is "events", which runs Qt's event  *)
(* loop with the mutex held: signals fire and objects come and go between  *)
(* the start of the request and the collection of what the spies caught.   *)
(*                                                                         *)
(* Qt owns a tree of objects: deleting one deletes what is below it.  The  *)
(* bridge sees that through QPointers, which become null, and never hears  *)
(* of it otherwise.  A request that fails changes nothing and is a         *)
(* stuttering step.                                                        *)
(***************************************************************************)
EXTENDS Integers, Sequences, FiniteSets

CONSTANTS
  Threads,      \* the OS threads that make requests
  NoThread,     \* no thread
  Limits,       \* the values of "max" passed to events
  Menu,         \* what the program does beyond creating and polling
  MaxObjects,   \* a bound: QObjects created in all
  MaxId,        \* a bound: handles issued in all
  MaxSignals,   \* a bound: signals each object emits
  MaxSpies      \* a bound: subscriptions of one handle

Facilities ==
  {"value", "emit", "adopt", "child", "return", "destroy",
   "application", "delete", "small_buffer"}

ASSUME ThreadsAssumption == NoThread \notin Threads
ASSUME LimitsAssumption == Limits \subseteq Nat \ {0}
ASSUME MenuAssumption == Menu \subseteq Facilities
ASSUME BoundsAssumption ==
  MaxObjects \in Nat /\ MaxId \in Nat /\ MaxSignals \in Nat /\ MaxSpies \in Nat

App   == 0        \* the QApplication, a QObject itself
Null  == -1       \* nullptr
Gadget == -2      \* what a value handle denotes: a QVariant
Objs  == 1 .. MaxObjects
Nodes == Objs \cup {App}
Ids   == 1 .. MaxId

VARIABLES
  running,       \* application is not null
  appThread,     \* applicationThread
  alive,         \* the QObjects that exist
  parent,        \* QObject::parent
  created,       \* the QObjects that exist or have existed
  emitted,       \* emitted[o]: the number of signals o has emitted
  objects,       \* objects[id]: the object of a handle; Null: no entry.  An
                 \* entry whose object is not alive holds a null QPointer.
  values,        \* the keys of values
  nextObjectId,  \* the next handle, shared by objects and values
  subscriptions, \* subscriptions[id]: the subscriptions of a handle, in order
  stage,         \* of the request being served: "idle", "loop", "collect"
  maximum,       \* "max" of the events request being served
  events,        \* the array the events request builds
  home,          \* history: the thread on which an object was created
  strays,        \* history: the objects that Qt created in the event loop
  denoted        \* history: denoted[id]: everything handle id was issued for

appVars   == <<running, appThread>>
treeVars  == <<alive, parent, created, emitted, home, strays>>
tableVars == <<objects, values, nextObjectId, denoted>>
pollVars  == <<stage, maximum, events>>
vars == <<appVars, treeVars, tableVars, subscriptions, pollVars>>

\* A subscription is a QSignalSpy.  The k-th signal of an object is k.
Subscription ==
  [from   : Nat,           \* signals the object had emitted at connect
   queue  : Seq(Nat),      \* what the spy holds
   told   : Seq(Nat),      \* history: what reached the caller
   missed : SUBSET Nat]    \* history: taken into a response nobody read

Event == [id : Ids, k : Nat \ {0}, signal : Nat]

\* Every variable has the shape its C++ declaration gives it, and a response
\* holds no more events than were asked for.
TypeOK ==
  /\ running \in BOOLEAN
  /\ appThread \in Threads \cup {NoThread}
  /\ alive \in SUBSET Nodes
  /\ parent \in [Nodes -> Nodes \cup {Null}]
  /\ created \in SUBSET Nodes
  /\ home \in [Nodes -> Threads \cup {NoThread}]
  /\ strays \in SUBSET Objs
  /\ emitted \in [Nodes -> Nat]
  /\ objects \in [Ids -> Nodes \cup {Null}]
  /\ values \in SUBSET Ids
  /\ nextObjectId \in 1 .. (MaxId + 1)
  /\ denoted \in [Ids -> SUBSET (Nodes \cup {Gadget})]
  /\ subscriptions \in [Ids -> Seq(Subscription)]
  /\ stage \in {"idle", "loop", "collect"}
  /\ maximum \in Nat
  /\ events \in Seq(Event) /\ Len(events) <= maximum

Init ==
  /\ running = FALSE
  /\ appThread = NoThread
  /\ alive = {}
  /\ parent = [o \in Nodes |-> Null]
  /\ created = {}
  /\ home = [o \in Nodes |-> NoThread]
  /\ strays = {}
  /\ emitted = [o \in Nodes |-> 0]
  /\ objects = [id \in Ids |-> Null]
  /\ values = {}
  /\ nextObjectId = 1
  /\ denoted = [id \in Ids |-> {}]
  /\ subscriptions = [id \in Ids |-> << >>]
  /\ stage = "idle"
  /\ maximum = 0
  /\ events = << >>

---------------------------------------------------------------------------
(***************************************************************************)
(* The tree of objects                                                     *)
(***************************************************************************)

\* o and what is above it.
Ancestors(o) ==
  LET up[n \in 0 .. MaxObjects] ==
        IF n = 0 THEN {o}
                 ELSE up[n-1] \cup ({parent[x] : x \in up[n-1]} \ {Null})
  IN up[MaxObjects]

isDescendantOf(candidate, ancestor) ==
  candidate # ancestor /\ ancestor \in Ancestors(candidate)

\* What delete destroys: the objects of S and everything below them.
Trees(S) == {x \in alive : \E o \in S : x = o \/ o \in Ancestors(x)}

\* The next QObject to be created.
Fresh(o) ==
  /\ o \in Objs \ created
  /\ \A x \in Objs : x < o => x \in created

\* o is created below p, on thread t.
Create(t, o, p) ==
  /\ alive' = alive \cup {o}
  /\ parent' = [parent EXCEPT ![o] = p]
  /\ created' = created \cup {o}
  /\ home' = [home EXCEPT ![o] = t]
  /\ UNCHANGED emitted

\* A request creates o: the object is the program's.
Requested(t, o, p) == Create(t, o, p) /\ UNCHANGED strays

Destroy(S) ==
  /\ alive' = alive \ Trees(S)
  /\ parent' = [o \in Nodes |-> IF o \in Trees(S) THEN Null ELSE parent[o]]
  /\ UNCHANGED <<created, home, strays, emitted>>

\* o emits a signal: every spy on it appends the arguments.
Emit(o) ==
  /\ o \in alive
  /\ emitted[o] < MaxSignals
  /\ emitted' = [emitted EXCEPT ![o] = @ + 1]
  /\ subscriptions' =
       [id \in Ids |->
          IF objects[id] # o THEN subscriptions[id]
          ELSE [k \in DOMAIN subscriptions[id] |->
                  [subscriptions[id][k] EXCEPT !.queue = Append(@, emitted[o] + 1)]]]
  /\ UNCHANGED <<alive, parent, created, home, strays>>

---------------------------------------------------------------------------
(***************************************************************************)
(* The tables                                                              *)
(***************************************************************************)

\* objectForId returns an object: the handle is known and not closed.
Open(id) == objects[id] \in alive

Registered(o) == \E id \in Ids : objects[id] = o

\* The next handle goes to object o.
Issue(o) ==
  /\ nextObjectId <= MaxId
  /\ objects' = [objects EXCEPT ![nextObjectId] = o]
  /\ nextObjectId' = nextObjectId + 1
  /\ denoted' = [denoted EXCEPT ![nextObjectId] = @ \cup {o}]
  /\ UNCHANGED values

\* A mutant of registerObject: idForObject is not asked.
registerObjectAgain(o) == Issue(o)

registerObject(o) ==
  \/ Registered(o) /\ UNCHANGED tableVars
  \/ ~ Registered(o) /\ Issue(o)

registerValue ==
  /\ nextObjectId <= MaxId
  /\ values' = values \cup {nextObjectId}
  /\ nextObjectId' = nextObjectId + 1
  /\ denoted' = [denoted EXCEPT ![nextObjectId] = @ \cup {Gadget}]
  /\ UNCHANGED objects

---------------------------------------------------------------------------
(***************************************************************************)
(* The application                                                         *)
(***************************************************************************)

\* The calling thread becomes the application's.
Application(t) ==
  /\ stage = "idle"
  /\ ~ running
  /\ running' = TRUE
  /\ appThread' = t
  /\ alive' = alive \cup {App}
  /\ created' = created \cup {App}
  /\ home' = [home EXCEPT ![App] = t]
  /\ UNCHANGED <<parent, emitted, strays, tableVars, subscriptions, pollVars>>

\* The live registered objects that no registered object owns.
Roots ==
  {o \in alive : /\ Registered(o)
                 /\ parent[o] = Null \/ ~ Registered(parent[o])}

\* A mutant of Doomed: only what has no parent at all is deleted.
DoomedParentless ==
  Trees({o \in alive : Registered(o) /\ parent[o] = Null})

\* What the two loops of shutdown delete: the roots, then what is left.
Doomed == Trees(Roots) \cup Trees({o \in alive : Registered(o)})

\* The managed objects and the QApplication are deleted, the tables emptied.
StopApplication(next) ==
  /\ stage = "idle"
  /\ running
  /\ subscriptions' = [id \in Ids |-> << >>]
  /\ alive' = (alive \ Doomed) \ Trees({App})
  /\ parent' = [o \in Nodes |-> IF o \in alive' THEN parent[o] ELSE Null]
  /\ objects' = [id \in Ids |-> Null]
  /\ values' = {}
  /\ nextObjectId' = next
  /\ running' = FALSE
  /\ appThread' = NoThread
  /\ UNCHANGED <<created, home, strays, emitted, denoted, pollVars>>

\* A mutant of Shutdown: the handles start from 1 again.
ShutdownRestarts(t) == t = appThread /\ StopApplication(1)

\* Only on the application's thread; the handles go on where they were.
Shutdown(t) == t = appThread /\ StopApplication(nextObjectId)

\* A mutant of Ready: any thread may use the objects.
ReadyAnywhere(t) ==
  /\ stage = "idle"
  /\ running /\ App \in alive

\* The tests before every other request; QCoreApplication::instance() is null
\* when the QApplication has been deleted behind the bridge's back.
Ready(t) ==
  /\ stage = "idle"
  /\ running /\ App \in alive
  /\ t = appThread

---------------------------------------------------------------------------
(***************************************************************************)
(* Requests about objects and values.  What a Qt method does is Qt's; a    *)
(* call has one of the effects that the bridge can meet.                   *)
(***************************************************************************)

\* new: the parent, when given, must be open; the object is new, so it gets a
\* handle without a look at the table.
New(t) ==
  /\ Ready(t)
  /\ \E o \in Objs, p \in Nodes \cup {Null} :
       /\ Fresh(o)
       /\ p = Null \/ \E id \in Ids : Open(id) /\ objects[id] = p
       /\ Requested(t, o, p)
       /\ Issue(o)
  /\ UNCHANGED <<appVars, subscriptions, pollVars>>

\* value_new: a value of a known type.
ValueNew(t) ==
  /\ "value" \in Menu
  /\ Ready(t)
  /\ registerValue
  /\ UNCHANGED <<appVars, treeVars, subscriptions, pollVars>>

\* value_call and value_get answer with another value, a copy.
ValueResult(t) ==
  /\ "value" \in Menu
  /\ Ready(t)
  /\ values # {}
  /\ registerValue
  /\ UNCHANGED <<appVars, treeVars, subscriptions, pollVars>>

ValueDelete(t, id) ==
  /\ Ready(t)
  /\ id \in values
  /\ values' = values \ {id}
  /\ UNCHANGED <<appVars, treeVars, objects, nextObjectId, denoted,
                 subscriptions, pollVars>>

\* get: a gadget property becomes a value handle.
Get(t, id) ==
  /\ "value" \in Menu
  /\ Ready(t)
  /\ Open(id)
  /\ registerValue
  /\ UNCHANGED <<appVars, treeVars, subscriptions, pollVars>>

\* set, or a call that makes an object emit a signal at once.
SetProperty(t, id) ==
  /\ "emit" \in Menu
  /\ Ready(t)
  /\ Open(id)
  /\ \E o \in alive : Emit(o)
  /\ UNCHANGED <<appVars, tableVars, pollVars>>

\* call with a handle argument: the target takes the argument as its child
\* (addWidget, setLayout, addTab, ...) or lets go of it.
CallAdopts(t, id, arg) ==
  /\ "adopt" \in Menu
  /\ Ready(t)
  /\ Open(id) /\ Open(arg)
  /\ objects[arg] # App
  /\ \/ /\ objects[id] # objects[arg]
        /\ ~ isDescendantOf(objects[id], objects[arg])
        /\ parent' = [parent EXCEPT ![objects[arg]] = objects[id]]
     \/ parent' = [parent EXCEPT ![objects[arg]] = Null]
  /\ UNCHANGED <<appVars, alive, created, home, strays, emitted, tableVars,
                 subscriptions, pollVars>>

\* call: the target makes an object of its own and the bridge answers with its
\* handle (addAction(QString), addMenu(QString), ...).
CallCreates(t, id) ==
  /\ "child" \in Menu
  /\ Ready(t)
  /\ Open(id)
  /\ \E o \in Objs :
       /\ Fresh(o)
       /\ Requested(t, o, objects[id])
       /\ registerObject(o)
  /\ UNCHANGED <<appVars, subscriptions, pollVars>>

\* call or call_static answers with some object that exists: objectHandle.
CallReturns(t) ==
  /\ Ready(t)
  /\ \E o \in alive :
       /\ \/ o = App /\ "application" \in Menu
          \/ o # App /\ "return" \in Menu
       /\ registerObject(o)
  /\ UNCHANGED <<appVars, treeVars, subscriptions, pollVars>>

\* call of a method that deletes an object at once.
CallDestroys(t, id) ==
  /\ "destroy" \in Menu
  /\ Ready(t)
  /\ Open(id)
  /\ \E o \in alive \ {App} : Destroy({o})
  /\ UNCHANGED <<appVars, tableVars, subscriptions, pollVars>>

\* connect: one more spy, also when there is one for the signal already.
Connect(t, id) ==
  /\ "emit" \in Menu
  /\ Ready(t)
  /\ Open(id)
  /\ Len(subscriptions[id]) < MaxSpies
  /\ subscriptions' = [subscriptions EXCEPT ![id] =
       Append(@, [from |-> emitted[objects[id]], queue |-> << >>,
                  told |-> << >>, missed |-> {}])]
  /\ UNCHANGED <<appVars, treeVars, tableVars, pollVars>>

\* The handles that delete closes: those of the object, of what is below it,
\* and those whose object is gone already.
Invalidated(o) ==
  {i \in Ids : \/ objects[i] = o
               \/ objects[i] \in alive /\ isDescendantOf(objects[i], o)
               \/ objects[i] \notin alive}

\* The subscriptions that remain.
DropGroups(id) ==
  [i \in Ids |-> IF i \in Invalidated(objects[id]) THEN << >> ELSE subscriptions[i]]

Delete(t, id) ==
  /\ "delete" \in Menu
  /\ Ready(t)
  /\ Open(id)
  /\ objects' = [i \in Ids |-> IF i \in Invalidated(objects[id]) THEN Null ELSE objects[i]]
  /\ subscriptions' = DropGroups(id)
  /\ Destroy({objects[id]})
  /\ UNCHANGED <<appVars, values, nextObjectId, denoted, pollVars>>

---------------------------------------------------------------------------
(***************************************************************************)
(* events: the event loop, then the collection                             *)
(***************************************************************************)

EventsBegin(t, max) ==
  /\ Ready(t)
  /\ max \in Limits
  /\ stage' = "loop"
  /\ maximum' = max
  /\ UNCHANGED <<appVars, treeVars, tableVars, subscriptions, events>>

\* In the loop, timers, input and deferred deletions do what they do.
LoopEmits ==
  /\ "emit" \in Menu
  /\ stage = "loop"
  /\ \E o \in alive : Emit(o)
  /\ UNCHANGED <<appVars, tableVars, pollVars>>

\* The loop runs inside the events request, on the application's thread.
LoopCreates ==
  /\ "child" \in Menu
  /\ stage = "loop"
  /\ \E o \in Objs, p \in alive \cup {Null} :
       Fresh(o) /\ Create(appThread, o, p) /\ strays' = strays \cup {o}
  /\ UNCHANGED <<appVars, tableVars, subscriptions, pollVars>>

LoopDestroys ==
  /\ "destroy" \in Menu
  /\ stage = "loop"
  /\ \E o \in alive \ {App} : Destroy({o})
  /\ UNCHANGED <<appVars, tableVars, subscriptions, pollVars>>

LoopEnds ==
  /\ stage = "loop"
  /\ stage' = "collect"
  /\ UNCHANGED <<appVars, treeVars, tableVars, subscriptions, maximum, events>>

Waiting(id) == {k \in DOMAIN subscriptions[id] : subscriptions[id][k].queue # << >>}

\* A mutant of Dead: objectForId is not asked.
DeadNever(id) == FALSE

\* A group of a closed handle.
Dead(id) == subscriptions[id] # << >> /\ ~ Open(id)

\* The group that the collecting loop comes to next: the loop goes by handle,
\* and passes over live groups with nothing in their spies.
IsNext(id) ==
  /\ Dead(id) \/ Waiting(id) # {}
  /\ \A i \in Ids : i < id => ~ Dead(i) /\ Waiting(i) = {}

\* Mutants of Full: the response holds one event less, or one more.
FullEarly == Len(events) + 1 >= maximum
FullLate == Len(events) > maximum

Full == Len(events) >= maximum

\* What was caught from an object that is gone is dropped.
EraseGroup(id) ==
  /\ stage = "collect"
  /\ ~ Full
  /\ IsNext(id)
  /\ Dead(id)
  /\ subscriptions' = [subscriptions EXCEPT ![id] = << >>]
  /\ UNCHANGED <<appVars, treeVars, tableVars, pollVars>>

\* A mutant of Taken: takeLast.
TakenLast(queue) == queue[Len(queue)]

\* takeFirst.
Taken(queue) == Head(queue)

\* One signal goes into the response; its arguments may need a value handle.
TakeSignal(id, k) ==
  /\ stage = "collect"
  /\ ~ Full
  /\ IsNext(id)
  /\ ~ Dead(id)
  /\ k \in Waiting(id)
  /\ \A j \in Waiting(id) : k <= j
  /\ events' = Append(events, [id |-> id, k |-> k,
                               signal |-> Taken(subscriptions[id][k].queue)])
  /\ subscriptions' = [subscriptions EXCEPT ![id][k].queue = Tail(@)]
  /\ \/ UNCHANGED tableVars
     \/ "value" \in Menu /\ registerValue
  /\ UNCHANGED <<appVars, treeVars, stage, maximum>>

\* The signals of subscription k of handle id among the events es, in order.
SignalsIn(es, id, k) ==
  LET own[i \in 0 .. Len(es)] ==
        IF i = 0 THEN << >>
        ELSE IF es[i].id = id /\ es[i].k = k THEN Append(own[i-1], es[i].signal)
        ELSE own[i-1]
  IN own[Len(es)]

\* Those in the response.
InBatch(id, k) == SignalsIn(events, id, k)

\* writeResponse: the caller reads the events, or is told the size it should
\* have provided (or that the response exceeds the limit) and reads none.
Respond(fits) ==
  /\ stage = "collect"
  /\ Full \/ \A id \in Ids : ~ IsNext(id)
  /\ fits \/ ("small_buffer" \in Menu /\ events # << >>)
  /\ subscriptions' =
       [id \in Ids |->
          [k \in DOMAIN subscriptions[id] |->
             IF fits
             THEN [subscriptions[id][k] EXCEPT !.told = @ \o InBatch(id, k)]
             ELSE [subscriptions[id][k] EXCEPT !.missed =
                     @ \cup {InBatch(id, k)[i] : i \in DOMAIN InBatch(id, k)}]]]
  /\ stage' = "idle"
  /\ maximum' = 0
  /\ events' = << >>
  /\ UNCHANGED <<appVars, treeVars, tableVars>>

---------------------------------------------------------------------------

Next ==
  \/ \E t \in Threads :
       \/ Application(t) \/ Shutdown(t)
       \/ New(t) \/ ValueNew(t) \/ ValueResult(t) \/ CallReturns(t)
       \/ \E id \in Ids :
            \/ ValueDelete(t, id) \/ Get(t, id) \/ SetProperty(t, id)
            \/ CallCreates(t, id) \/ CallDestroys(t, id)
            \/ Connect(t, id) \/ Delete(t, id)
            \/ \E arg \in Ids : CallAdopts(t, id, arg)
       \/ \E max \in Limits : EventsBegin(t, max)
  \/ LoopEmits \/ LoopCreates \/ LoopDestroys \/ LoopEnds
  \/ \E id \in Ids : EraseGroup(id)
  \/ \E id \in Ids : \E k \in DOMAIN subscriptions[id] : TakeSignal(id, k)
  \/ \E fits \in BOOLEAN : Respond(fits)

Spec == Init /\ [][Next]_vars

(***************************************************************************)
(* Fairness.  The event loop ends (a timer quits it), the collection is    *)
(* ordinary code, and the program is one that keeps polling while its      *)
(* application runs.                                                       *)
(***************************************************************************)
Collect ==
  \/ LoopEnds
  \/ \E id \in Ids : EraseGroup(id)
  \/ \E id \in Ids : \E k \in DOMAIN subscriptions[id] : TakeSignal(id, k)
  \/ \E fits \in BOOLEAN : Respond(fits)

Poll == \E t \in Threads, max \in Limits : EventsBegin(t, max)

LiveSpec == Spec /\ WF_vars(Collect) /\ WF_vars(Poll)

---------------------------------------------------------------------------
(***************************************************************************)
(* Properties                                                              *)
(***************************************************************************)

\* A handle means one thing for as long as the process lives: no number is
\* given out twice, to an object and a value, or before and after a shutdown,
\* so a handle the program still holds never reaches a stranger.
OneMeaning == \A id \in Ids : Cardinality(denoted[id]) <= 1

\* An object that was given a handle keeps it while it lives: it is not lost
\* when another object is deleted, adopted or returned, and there is no second.
HandleLasts ==
  /\ \A id \in Ids : \A o \in denoted[id] \cap Objs : o \in alive => objects[id] = o
  /\ \A i, j \in Ids : objects[i] = objects[j] /\ Open(i) => i = j

\* shutdown destroys every managed object, whoever owned it in Qt's tree and
\* however it got its handle.
ShutdownComplete ==
  ~ running => \A id \in Ids : denoted[id] \cap alive = {}

\* A handle reaches an object of another thread only if the event loop made it:
\* what requests created is gone when the application starts again elsewhere,
\* whoever deleted or adopted it.  A stray that had no handle at shutdown and
\* nothing managed above it survives, and the bridge does not ask an object
\* that a call returns for its thread.
OnlyStraysCross ==
  \A id \in Ids :
    Open(id) /\ home[objects[id]] # appThread => objects[id] \in strays

\* An event names an open handle, although its object may have been destroyed
\* after it emitted the signal.
EventsAreLive == stage = "collect" => \A i \in DOMAIN events : Open(events[i].id)

\* The signals of an object since connect are, in order and each once, in
\* what the caller was told, in the response being built and in the spy.
SignalsOnce ==
  \A id \in Ids : \A k \in DOMAIN subscriptions[id] :
    LET s == subscriptions[id][k]
        kept == s.told \o InBatch(id, k) \o s.queue
        all == (s.from + 1) .. emitted[objects[id]]
    IN /\ \A i, j \in DOMAIN kept : i < j => kept[i] < kept[j]
       /\ {kept[i] : i \in DOMAIN kept} = all \ s.missed

\* A program that goes on polling gets what was caught, unless the handle is
\* closed first.
SignalsArrive ==
  \A id \in Ids : Waiting(id) # {} ~> Waiting(id) = {}

\* The documented promise of events, with the retry its error message asks
\* for: no captured signal is taken without reaching the caller.
NothingMissed ==
  \A id \in Ids : \A k \in DOMAIN subscriptions[id] : subscriptions[id][k].missed = {}
=============================================================================
