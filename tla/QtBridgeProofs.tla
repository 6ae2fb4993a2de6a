---------------------------- MODULE QtBridgeProofs ----------------------------
(***************************************************************************)
(* Proofs about QtBridge, for any threads, limits, bounds and facilities   *)
(* of the program.                                                         *)
(***************************************************************************)
EXTENDS QtBridge, InductionLemmas

---------------------------------------------------------------------------
(***************************************************************************)
(* The inductive invariant of the handles                                  *)
(***************************************************************************)

\* The types of what a handle and an object are made of.
TreeOK ==
  /\ alive \subseteq created /\ created \subseteq Nodes
  /\ parent \in [Nodes -> Nodes \cup {Null}]
  /\ home \in [Nodes -> Threads \cup {NoThread}]
  /\ strays \in SUBSET Objs
  /\ emitted \in [Nodes -> Nat]

TableOK ==
  /\ objects \in [Ids -> Nodes \cup {Null}]
  /\ values \in SUBSET Ids
  /\ nextObjectId \in 1 .. (MaxId + 1)
  /\ denoted \in [Ids -> SUBSET (Nodes \cup {Gadget})]

AppOK ==
  /\ running \in BOOLEAN
  /\ appThread \in Threads \cup {NoThread}
  /\ stage \in {"idle", "loop", "collect"}

\* A number is given out once, and only to what exists or has existed.
Single ==
  \A id \in Ids :
    /\ \A x, y \in denoted[id] : x = y
    /\ id >= nextObjectId => denoted[id] = {} /\ objects[id] = Null

Known ==
  \A id \in Ids :
    /\ objects[id] # Null => objects[id] \in created
    /\ denoted[id] \subseteq created \cup {Gadget}

\* A live object is in the table under the handle it was given, and no object
\* is there twice.
Lasting == \A id \in Ids : \A o \in denoted[id] \cap Objs : o \in alive => objects[id] = o

Distinct == \A i, j \in Ids : objects[i] = objects[j] /\ objects[i] # Null => i = j

\* Every live object but those that the event loop made has a handle, unless it
\* is the QApplication, and belongs to the thread of the application that runs
\* now.
Owned ==
  /\ stage # "idle" => running
  /\ \A o \in alive \ strays :
       /\ home[o] = appThread
       /\ o \in Objs => \E id \in Ids : o \in denoted[id]

\* Without an application there is none of what had a handle.
Stopped ==
  ~ running =>
    /\ appThread = NoThread
    /\ App \notin alive
    /\ \A id \in Ids : denoted[id] \cap alive = {}

HandleInv == Single /\ Known /\ Lasting /\ Distinct
CoreInv == TreeOK /\ TableOK /\ AppOK /\ HandleInv /\ Owned /\ Stopped

\* App, Null and Gadget are no objects the program creates.
LEMMA Apart ==
  /\ App \notin Objs /\ Null \notin Nodes /\ Gadget \notin Nodes /\ Gadget # Null
  /\ Objs \subseteq Nodes /\ App \in Nodes
BY BoundsAssumption DEF App, Null, Gadget, Objs, Nodes

LEMMA NextIsId ==
  ASSUME TableOK, nextObjectId <= MaxId
  PROVE  nextObjectId \in Ids /\ nextObjectId + 1 \in 1 .. (MaxId + 1)
BY BoundsAssumption DEF TableOK, Ids

\* What delete destroys was alive, and S is part of it.
LEMMA TreesHold ==
  ASSUME NEW S
  PROVE  Trees(S) \subseteq alive /\ \A o \in S : o \in alive => o \in Trees(S)
BY DEF Trees

---------------------------------------------------------------------------
(***************************************************************************)
(* What a step does to the tree and to the tables                          *)
(***************************************************************************)

\* The request goes on or ends, and the application with its thread stays.
Serving == UNCHANGED appVars /\ stage' \in {"idle", "loop", "collect"} /\ (stage' # "idle" => running)

\* The tree and the tables stay as they are, but for who is whose parent and
\* what was emitted.
LEMMA NothingMoves ==
  ASSUME CoreInv, Serving, UNCHANGED <<alive, created, home, strays, tableVars>>,
         parent' \in [Nodes -> Nodes \cup {Null}], emitted' \in [Nodes -> Nat]
  PROVE  CoreInv'
<1>1. TreeOK'
  BY DEF CoreInv, TreeOK
<1>2. TableOK' /\ HandleInv'
  BY DEF CoreInv, TableOK, HandleInv, Single, Known, Lasting, Distinct, tableVars
<1>3. AppOK' /\ Owned' /\ Stopped'
  BY DEF CoreInv, AppOK, Owned, Stopped, Serving, appVars, tableVars
<1> QED
  BY <1>1, <1>2, <1>3 DEF CoreInv

\* Objects die; handles stay in the table.
LEMMA SomeDie ==
  ASSUME CoreInv, Serving, UNCHANGED tableVars, NEW S, Destroy(S)
  PROVE  CoreInv'
<1>1. alive' \subseteq alive /\ UNCHANGED <<created, home, strays, emitted>>
  BY TreesHold DEF Destroy
<1>2. parent' \in [Nodes -> Nodes \cup {Null}]
  BY DEF Destroy, CoreInv, TreeOK
<1>3. TreeOK'
  BY <1>1, <1>2 DEF CoreInv, TreeOK
<1>4. TableOK' /\ HandleInv'
  BY <1>1 DEF CoreInv, TableOK, HandleInv, Single, Known, Lasting, Distinct, tableVars
<1>5. AppOK' /\ Owned' /\ Stopped'
  BY <1>1 DEF CoreInv, AppOK, Owned, Stopped, Serving, appVars, tableVars
<1> QED
  BY <1>3, <1>4, <1>5 DEF CoreInv

\* Qt creates an object in the event loop.
LEMMA QtCreates ==
  ASSUME CoreInv, Serving, running, UNCHANGED tableVars,
         NEW o \in Objs, o \notin created, NEW p \in Nodes \cup {Null},
         Create(appThread, o, p), strays' = strays \cup {o}
  PROVE  CoreInv'
<1>1. /\ alive' = alive \cup {o} /\ created' = created \cup {o}
      /\ home' = [home EXCEPT ![o] = appThread] /\ UNCHANGED emitted
      /\ parent' = [parent EXCEPT ![o] = p]
  BY DEF Create
<1>2. TreeOK'
  BY <1>1, Apart DEF CoreInv, TreeOK, AppOK
<1>3. TableOK'
  BY DEF CoreInv, TableOK, tableVars
<1>4. Single' /\ Distinct' /\ Known'
  BY <1>1 DEF CoreInv, HandleInv, Single, Distinct, Known, tableVars
<1>5. Lasting'
  <2>1. ASSUME NEW id \in Ids PROVE o \notin denoted[id]
    BY Apart DEF CoreInv, HandleInv, Known
  <2> QED
    BY <1>1, <2>1 DEF CoreInv, HandleInv, Lasting, tableVars
<1>6. AppOK' /\ Stopped'
  BY DEF CoreInv, AppOK, Stopped, Serving, appVars
<1>7. Owned'
  <2>1. ASSUME NEW x \in alive' \ strays'
        PROVE  /\ home'[x] = appThread'
               /\ x \in Objs => \E id \in Ids : x \in denoted'[id]
    <3>1. x \in alive \ strays /\ x \in Nodes /\ home'[x] = home[x]
      BY <1>1 DEF CoreInv, TreeOK
    <3> QED
      BY <3>1 DEF CoreInv, Owned, Serving, appVars, tableVars
  <2> QED
    BY <2>1 DEF Owned, Serving, appVars
<1> QED
  BY <1>2, <1>3, <1>4, <1>5, <1>6, <1>7 DEF CoreInv, HandleInv

\* The tables after a handle was issued for o.
LEMMA IssueHolds ==
  ASSUME TableOK, NEW o \in Nodes, Issue(o)
  PROVE  /\ TableOK' /\ nextObjectId \in Ids
         /\ objects'[nextObjectId] = o /\ denoted'[nextObjectId] = denoted[nextObjectId] \cup {o}
         /\ \A id \in Ids : id # nextObjectId => objects'[id] = objects[id] /\ denoted'[id] = denoted[id]
         /\ nextObjectId' = nextObjectId + 1 /\ nextObjectId \in Nat
<1>1. nextObjectId \in Ids /\ nextObjectId' \in 1 .. (MaxId + 1) /\ nextObjectId' = nextObjectId + 1
  BY NextIsId DEF Issue
<1>2. objects' \in [Ids -> Nodes \cup {Null}] /\ denoted' \in [Ids -> SUBSET (Nodes \cup {Gadget})]
  BY <1>1 DEF Issue, TableOK
<1>3. values' \in SUBSET Ids
  BY DEF Issue, TableOK
<1>4. /\ objects'[nextObjectId] = o /\ denoted'[nextObjectId] = denoted[nextObjectId] \cup {o}
      /\ \A id \in Ids : id # nextObjectId => objects'[id] = objects[id] /\ denoted'[id] = denoted[id]
  BY <1>1 DEF Issue, TableOK
<1> QED
  BY <1>1, <1>2, <1>3, <1>4 DEF TableOK, Ids

\* An object without a handle that is alive now is given one.
LEMMA IssueKeeps ==
  ASSUME CoreInv, NEW o \in Nodes, Issue(o), ~ Registered(o), o \in created',
         created \subseteq created', alive' \subseteq alive \cup {o},
         o \in Objs => \A id \in Ids : o \notin denoted[id]
  PROVE  TableOK' /\ HandleInv'
<1> DEFINE n == nextObjectId
<1>1. /\ TableOK' /\ n \in Ids /\ n \in Nat /\ n' = n + 1
      /\ objects'[n] = o /\ denoted'[n] = denoted[n] \cup {o}
      /\ \A id \in Ids : id # n => objects'[id] = objects[id] /\ denoted'[id] = denoted[id]
  BY IssueHolds DEF CoreInv
<1>2. denoted[n] = {} /\ objects[n] = Null
  BY <1>1 DEF CoreInv, HandleInv, Single
<1>3. denoted'[n] = {o}
  BY <1>1, <1>2
<1>4. \A id \in Ids : objects[id] # o
  BY DEF Registered
<1>5. Single'
  <2>1. ASSUME NEW id \in Ids
        PROVE  /\ \A x, y \in denoted'[id] : x = y
               /\ id >= n' => denoted'[id] = {} /\ objects'[id] = Null
    <3>1. CASE id = n
      BY <3>1, <1>1, <1>3
    <3>2. CASE id # n
      BY <3>2, <1>1 DEF CoreInv, HandleInv, Single, Ids
    <3> QED
      BY <3>1, <3>2
  <2> QED
    BY <2>1 DEF Single
<1>6. Known'
  <2>1. ASSUME NEW id \in Ids
        PROVE  /\ objects'[id] # Null => objects'[id] \in created'
               /\ denoted'[id] \subseteq created' \cup {Gadget}
    <3>1. CASE id = n
      BY <3>1, <1>1, <1>3
    <3>2. CASE id # n
      BY <3>2, <1>1 DEF CoreInv, HandleInv, Known
    <3> QED
      BY <3>1, <3>2
  <2> QED
    BY <2>1 DEF Known
<1>7. Lasting'
  <2>1. ASSUME NEW id \in Ids, NEW x \in denoted'[id] \cap Objs, x \in alive' PROVE objects'[id] = x
    <3>1. CASE id = n
      BY <3>1, <2>1, <1>1, <1>3
    <3>2. CASE id # n
      <4>1. x \in denoted[id]
        BY <3>2, <2>1, <1>1
      <4>2. x # o
        BY <4>1
      <4>3. x \in alive
        BY <4>2, <2>1
      <4> QED
        BY <4>1, <4>3, <3>2, <1>1 DEF CoreInv, HandleInv, Lasting
    <3> QED
      BY <3>1, <3>2
  <2> QED
    BY <2>1 DEF Lasting
<1>8. Distinct'
  BY <1>1, <1>4 DEF CoreInv, HandleInv, Distinct
<1> QED
  BY <1>1, <1>5, <1>6, <1>7, <1>8 DEF HandleInv

\* A request creates an object and gives it a handle.
LEMMA RequestCreates ==
  ASSUME CoreInv, Serving, running, NEW t \in Threads, t = appThread,
         NEW o \in Objs, o \notin created, NEW p \in Nodes \cup {Null},
         Requested(t, o, p), Issue(o)
  PROVE  CoreInv'
<1>1. /\ alive' = alive \cup {o} /\ created' = created \cup {o}
      /\ home' = [home EXCEPT ![o] = t] /\ UNCHANGED <<emitted, strays>>
      /\ parent' = [parent EXCEPT ![o] = p]
  BY DEF Requested, Create
<1>2. TreeOK'
  BY <1>1, Apart DEF CoreInv, TreeOK
<1>3. \A id \in Ids : o \notin denoted[id] /\ objects[id] # o
  BY Apart DEF CoreInv, HandleInv, Known
<1>4. ~ Registered(o) /\ o \in Nodes
  BY <1>3, Apart DEF Registered
<1>5. TableOK' /\ HandleInv'
  BY <1>1, <1>3, <1>4, IssueKeeps
<1>6. AppOK' /\ Stopped'
  BY DEF CoreInv, AppOK, Stopped, Serving, appVars
<1>7. Owned'
  <2>0. /\ nextObjectId \in Ids /\ o \in denoted'[nextObjectId]
        /\ \A id \in Ids : denoted[id] \subseteq denoted'[id]
    BY <1>4, IssueHolds DEF CoreInv
  <2>1. ASSUME NEW x \in alive' \ strays'
        PROVE  /\ home'[x] = appThread'
               /\ x \in Objs => \E id \in Ids : x \in denoted'[id]
    <3>1. CASE x = o
      BY <3>1, <1>1, <1>4, <2>0 DEF CoreInv, TreeOK, Serving, appVars
    <3>2. CASE x # o
      <4>1. x \in alive \ strays /\ x \in Nodes /\ home'[x] = home[x] /\ appThread' = appThread
        BY <3>2, <1>1 DEF CoreInv, TreeOK, Serving, appVars
      <4> QED
        BY <4>1, <2>0 DEF CoreInv, Owned
    <3> QED
      BY <3>1, <3>2
  <2> QED
    BY <2>1 DEF Owned, Serving, appVars
<1> QED
  BY <1>2, <1>5, <1>6, <1>7 DEF CoreInv

\* A request answers with an object that exists.
LEMMA RequestReturns ==
  ASSUME CoreInv, Serving, running, UNCHANGED treeVars, NEW o \in alive, registerObject(o)
  PROVE  CoreInv'
<1>1. CASE UNCHANGED tableVars
  BY <1>1, NothingMoves DEF treeVars, CoreInv, TreeOK
<1>2. CASE ~ Registered(o) /\ Issue(o)
  <2>1. o \in Nodes /\ o \in created' /\ alive' = alive /\ created' = created
    BY DEF CoreInv, TreeOK, treeVars
  <2>2. o \in Objs => \A id \in Ids : o \notin denoted[id]
    BY <1>2 DEF CoreInv, HandleInv, Lasting, Registered
  <2>3. TableOK' /\ HandleInv'
    BY <1>2, <2>1, <2>2, IssueKeeps
  <2>4. TreeOK' /\ AppOK' /\ Stopped'
    BY DEF CoreInv, TreeOK, AppOK, Stopped, Serving, appVars, treeVars
  <2>5. \A id \in Ids : denoted[id] \subseteq denoted'[id]
    BY <1>2, <2>1, IssueHolds DEF CoreInv
  <2>6. Owned'
    BY <2>1, <2>5 DEF CoreInv, Owned, Serving, appVars, treeVars
  <2> QED
    BY <2>3, <2>4, <2>6 DEF CoreInv
<1> QED
  BY <1>1, <1>2 DEF registerObject

\* A value is given a handle.
LEMMA ValueRegistered ==
  ASSUME CoreInv, Serving, UNCHANGED treeVars, registerValue
  PROVE  CoreInv'
<1> DEFINE n == nextObjectId
<1>1. n \in Ids /\ n' \in 1 .. (MaxId + 1) /\ n' = n + 1 /\ n \in Nat /\ objects' = objects
  BY NextIsId DEF registerValue, CoreInv, Ids
<1>2. denoted[n] = {}
  BY <1>1 DEF CoreInv, HandleInv, Single
<1>3. /\ denoted' \in [Ids -> SUBSET (Nodes \cup {Gadget})]
      /\ denoted'[n] = {Gadget} /\ \A id \in Ids : id # n => denoted'[id] = denoted[id]
  BY <1>1, <1>2 DEF registerValue, CoreInv, TableOK
<1>4. TableOK'
  BY <1>1, <1>3 DEF registerValue, CoreInv, TableOK
<1>5. Single'
  <2>1. ASSUME NEW id \in Ids
        PROVE  /\ \A x, y \in denoted'[id] : x = y
               /\ id >= n' => denoted'[id] = {} /\ objects'[id] = Null
    <3>1. CASE id = n
      BY <3>1, <1>1, <1>3
    <3>2. CASE id # n
      BY <3>2, <1>1, <1>3 DEF CoreInv, HandleInv, Single, Ids
    <3> QED
      BY <3>1, <3>2
  <2> QED
    BY <2>1 DEF Single
<1>6. \A id \in Ids : denoted'[id] \cap Nodes = denoted[id] \cap Nodes
  <2>1. ASSUME NEW id \in Ids PROVE denoted'[id] \cap Nodes = denoted[id] \cap Nodes
    <3>1. CASE id = n
      BY <3>1, <1>2, <1>3, Apart
    <3>2. CASE id # n
      BY <3>2, <1>3
    <3> QED
      BY <3>1, <3>2
  <2> QED
    BY <2>1
<1>7. Known' /\ Distinct'
  <2>1. ASSUME NEW id \in Ids PROVE denoted'[id] \subseteq created \cup {Gadget}
    BY <1>3 DEF CoreInv, HandleInv, Known
  <2> QED
    BY <1>1, <2>1 DEF CoreInv, HandleInv, Known, Distinct, treeVars
<1>8. Lasting'
  <2>1. ASSUME NEW id \in Ids, NEW o \in denoted'[id] \cap Objs PROVE o \in denoted[id]
    BY <1>6, Apart
  <2> QED
    BY <1>1, <2>1 DEF CoreInv, HandleInv, Lasting, treeVars
<1>9. TreeOK' /\ AppOK'
  BY DEF CoreInv, TreeOK, AppOK, Serving, appVars, treeVars
<1>10. Owned'
  <2>1. ASSUME NEW id \in Ids PROVE denoted[id] \subseteq denoted'[id]
    BY <1>2, <1>3
  <2> QED
    BY <2>1 DEF CoreInv, Owned, Serving, appVars, treeVars
<1>11. Stopped'
  <2>1. ASSUME NEW id \in Ids, denoted[id] \cap alive = {} PROVE denoted'[id] \cap alive = {}
    BY <2>1, <1>6 DEF CoreInv, TreeOK
  <2> QED
    BY <2>1 DEF CoreInv, Stopped, Serving, appVars, treeVars
<1> QED
  BY <1>4, <1>5, <1>7, <1>8, <1>9, <1>10, <1>11 DEF CoreInv, HandleInv

---------------------------------------------------------------------------
(***************************************************************************)
(* delete, and the life of the application                                 *)
(***************************************************************************)

\* delete closes the handles of what it destroys, and of nothing that lives on.
LEMMA DeleteKeeps ==
  ASSUME CoreInv, NEW t \in Threads, NEW id \in Ids, Delete(t, id)
  PROVE  CoreInv'
<1> DEFINE d == objects[id]
           gone == Invalidated(d)
<1>1. /\ objects' = [i \in Ids |-> IF i \in gone THEN Null ELSE objects[i]]
      /\ Destroy({d}) /\ Ready(t) /\ d \in alive
      /\ UNCHANGED <<appVars, values, nextObjectId, denoted, pollVars>>
  BY DEF Delete, Open
<1>2. ASSUME NEW i \in gone PROVE objects[i] \notin alive'
  <2>1. alive' = alive \ Trees({d})
    BY <1>1 DEF Destroy
  <2>2. CASE objects[i] \notin alive
    BY <2>1, <2>2
  <2>3. CASE objects[i] \in alive
    <3>1. objects[i] = d \/ d \in Ancestors(objects[i])
      BY <2>3 DEF Invalidated, isDescendantOf
    <3> QED
      BY <2>1, <2>3, <3>1 DEF Trees
  <2> QED
    BY <2>2, <2>3
<1>3. alive' \subseteq alive /\ UNCHANGED <<created, home, strays, emitted>>
      /\ parent' \in [Nodes -> Nodes \cup {Null}]
  BY <1>1, TreesHold DEF Destroy, CoreInv, TreeOK
<1> HIDE DEF gone, d
<1>4. \A i \in Ids : objects'[i] = IF i \in gone THEN Null ELSE objects[i]
  BY <1>1
<1>5. TreeOK'
  BY <1>3 DEF CoreInv, TreeOK
<1>6. TableOK'
  BY <1>1 DEF CoreInv, TableOK
<1>7. Single' /\ Known' /\ Distinct'
  BY <1>1, <1>3, <1>4 DEF CoreInv, HandleInv, Single, Known, Distinct
<1>8. Lasting'
  BY <1>1, <1>2, <1>3, <1>4 DEF CoreInv, HandleInv, Lasting
<1>9. AppOK' /\ Owned' /\ Stopped'
  BY <1>1, <1>3 DEF CoreInv, AppOK, Owned, Stopped, appVars, pollVars
<1> QED
  BY <1>5, <1>6, <1>7, <1>8, <1>9 DEF CoreInv, HandleInv

\* The calling thread becomes the application's; what lives is Qt's own.
LEMMA ApplicationKeeps ==
  ASSUME CoreInv, NEW t \in Threads, Application(t)
  PROVE  CoreInv'
<1>1. /\ ~ running /\ running' = TRUE /\ appThread' = t
      /\ alive' = alive \cup {App} /\ created' = created \cup {App}
      /\ home' = [home EXCEPT ![App] = t] /\ UNCHANGED <<parent, emitted, strays, tableVars, pollVars>>
  BY DEF Application
<1>2. TreeOK'
  BY <1>1, Apart DEF CoreInv, TreeOK
<1>3. TableOK' /\ AppOK' /\ Stopped'
  BY <1>1 DEF CoreInv, TableOK, AppOK, Stopped, tableVars, pollVars
<1>4. Single' /\ Known' /\ Distinct'
  BY <1>1 DEF CoreInv, HandleInv, Single, Known, Distinct, tableVars
<1>5. Lasting'
  BY <1>1, Apart DEF CoreInv, HandleInv, Lasting, tableVars
<1>6. Owned'
  <2>1. ASSUME NEW x \in alive' \ strays'
        PROVE  /\ home'[x] = appThread'
               /\ x \in Objs => \E id \in Ids : x \in denoted'[id]
    <3>1. CASE x = App
      BY <3>1, <1>1, Apart DEF CoreInv, TreeOK
    <3>2. CASE x # App
      <4>1. x \in alive \ strays /\ x \in Objs
        BY <3>2, <1>1 DEF CoreInv, TreeOK, Nodes
      <4>2. PICK id \in Ids : x \in denoted[id]
        BY <4>1 DEF CoreInv, Owned
      <4> QED
        BY <4>1, <4>2, <1>1 DEF CoreInv, Stopped
    <3> QED
      BY <3>1, <3>2
  <2> QED
    BY <1>1, <2>1 DEF Owned
<1> QED
  BY <1>2, <1>3, <1>4, <1>5, <1>6 DEF CoreInv, HandleInv

\* What had a handle when shutdown came is dead when it has gone.
LEMMA DoomedHold ==
  ASSUME NEW next, StopApplication(next)
  PROVE  /\ alive' \subseteq alive /\ App \notin alive'
         /\ \A o \in alive' : ~ Registered(o)
<1>1. alive' = (alive \ Doomed) \ Trees({App})
  BY DEF StopApplication
<1>2. \A o \in alive : Registered(o) => o \in Doomed
  <2> DEFINE S == {o \in alive : Registered(o)}
  <2>1. \A o \in S : o \in alive => o \in Trees(S)
    BY TreesHold
  <2> QED
    BY <2>1 DEF Doomed
<1>3. App \in alive => App \in Trees({App})
  BY TreesHold
<1> QED
  BY <1>1, <1>2, <1>3

\* shutdown, which goes on with the handles where they were.
LEMMA ShutdownKeeps ==
  ASSUME CoreInv, NEW t \in Threads, Shutdown(t)
  PROVE  CoreInv'
<1>1. StopApplication(nextObjectId)
  BY DEF Shutdown
<1>2. /\ objects' = [id \in Ids |-> Null] /\ values' = {} /\ nextObjectId' = nextObjectId
      /\ running' = FALSE /\ appThread' = NoThread /\ stage = "idle"
      /\ parent' = [o \in Nodes |-> IF o \in alive' THEN parent[o] ELSE Null]
      /\ UNCHANGED <<created, home, strays, emitted, denoted, pollVars>>
  BY <1>1 DEF StopApplication
<1>3. alive' \subseteq alive /\ App \notin alive' /\ \A o \in alive' : ~ Registered(o)
  BY <1>1, DoomedHold
<1>4. ASSUME NEW id \in Ids, NEW o \in denoted[id] PROVE o \notin alive'
  <2>1. CASE o \in Objs /\ o \in alive
    BY <2>1, <1>3 DEF CoreInv, HandleInv, Lasting, Registered
  <2>2. CASE o \in {App, Gadget}
    BY <2>2, <1>3, Apart DEF CoreInv, TreeOK
  <2>3. o \in Objs \cup {App, Gadget}
    BY DEF CoreInv, TableOK, Nodes
  <2> QED
    BY <2>1, <2>2, <2>3, <1>3
<1>5. TreeOK'
  BY <1>2, <1>3 DEF CoreInv, TreeOK
<1>6. TableOK' /\ AppOK'
  BY <1>2 DEF CoreInv, TableOK, AppOK, pollVars
<1>7. Single' /\ Known' /\ Distinct'
  BY <1>2 DEF CoreInv, HandleInv, Single, Known, Distinct
<1>8. Lasting'
  BY <1>2, <1>4 DEF Lasting
<1>9. Stopped'
  BY <1>2, <1>3, <1>4 DEF Stopped
<1>10. Owned'
  <2>1. ASSUME NEW x \in alive' PROVE x \in strays
    <3>1. x \in alive /\ x \in Objs
      BY <1>3 DEF CoreInv, TreeOK, Nodes
    <3>2. \A id \in Ids : x \notin denoted[id]
      BY <1>4
    <3> QED
      BY <3>1, <3>2 DEF CoreInv, Owned
  <2> QED
    BY <1>2, <2>1 DEF Owned, pollVars
<1> QED
  BY <1>5, <1>6, <1>7, <1>8, <1>9, <1>10 DEF CoreInv, HandleInv

---------------------------------------------------------------------------
(***************************************************************************)
(* Every step                                                              *)
(***************************************************************************)

LEMMA CoreInit == Init => CoreInv
<1> SUFFICES ASSUME Init PROVE CoreInv
  OBVIOUS
<1>1. TreeOK
  BY DEF Init, TreeOK
<1>2. TableOK
  <2>1. nextObjectId \in 1 .. (MaxId + 1)
    BY BoundsAssumption DEF Init
  <2>2. denoted \in [Ids -> SUBSET (Nodes \cup {Gadget})]
    BY DEF Init
  <2> QED
    BY <2>1, <2>2 DEF Init, TableOK
<1>3. AppOK
  BY DEF Init, AppOK
<1>4. HandleInv
  BY DEF Init, HandleInv, Single, Known, Lasting, Distinct
<1>5. Owned /\ Stopped
  BY DEF Init, Owned, Stopped
<1> QED
  BY <1>1, <1>2, <1>3, <1>4, <1>5 DEF CoreInv

\* A signal changes what was emitted and nothing else of the tree.
LEMMA EmitKeeps ==
  ASSUME CoreInv, Serving, UNCHANGED tableVars, NEW o \in alive, Emit(o)
  PROVE  CoreInv'
<1>1. UNCHANGED <<alive, parent, created, home, strays>> /\ emitted' = [emitted EXCEPT ![o] = @ + 1]
  BY DEF Emit
<1>2. emitted' \in [Nodes -> Nat] /\ parent' \in [Nodes -> Nodes \cup {Null}]
  BY <1>1 DEF CoreInv, TreeOK
<1> QED
  BY <1>1, <1>2, NothingMoves

\* What the requests of thread t do.
Request(t) ==
  \/ New(t) \/ ValueNew(t) \/ ValueResult(t) \/ CallReturns(t)
  \/ \E id \in Ids :
       \/ ValueDelete(t, id) \/ Get(t, id) \/ SetProperty(t, id)
       \/ CallCreates(t, id) \/ CallDestroys(t, id)
       \/ Connect(t, id) \/ Delete(t, id)
       \/ \E arg \in Ids : CallAdopts(t, id, arg)
  \/ \E max \in Limits : EventsBegin(t, max)

LEMMA RequestKeeps ==
  ASSUME CoreInv, NEW t \in Threads, Request(t)
  PROVE  CoreInv'
<1>0. /\ parent \in [Nodes -> Nodes \cup {Null}] /\ emitted \in [Nodes -> Nat]
      /\ stage \in {"idle", "loop", "collect"} /\ (stage # "idle" => running)
      /\ \A id \in Ids : Open(id) => objects[id] \in Nodes
  BY DEF CoreInv, TreeOK, AppOK, Owned, Open
<1>r. ASSUME Ready(t) PROVE running /\ t = appThread
  BY <1>r DEF Ready
<1>s. ASSUME UNCHANGED <<appVars, pollVars>> PROVE Serving
  BY <1>0, <1>s DEF Serving, pollVars
<1>1. CASE New(t)
  <2>1. PICK o \in Objs, p \in Nodes \cup {Null} : Fresh(o) /\ Requested(t, o, p) /\ Issue(o)
    BY <1>1 DEF New
  <2>2. o \notin created
    BY <2>1 DEF Fresh
  <2>3. Serving /\ running /\ t = appThread
    BY <1>1, <1>r, <1>s DEF New
  <2> QED
    BY <2>1, <2>2, <2>3, RequestCreates
<1>2. CASE ValueNew(t) \/ ValueResult(t)
  BY <1>2, <1>s, ValueRegistered DEF ValueNew, ValueResult
<1>3. CASE CallReturns(t)
  <2>1. PICK o \in alive : registerObject(o)
    BY <1>3 DEF CallReturns
  <2>2. Serving /\ running /\ UNCHANGED treeVars
    BY <1>3, <1>r, <1>s DEF CallReturns
  <2> QED
    BY <2>1, <2>2, RequestReturns
<1>4. ASSUME NEW id \in Ids, Get(t, id) PROVE CoreInv'
  BY <1>4, <1>s, ValueRegistered DEF Get
<1>5. ASSUME NEW id \in Ids, ValueDelete(t, id) PROVE CoreInv'
  <2>1. /\ UNCHANGED <<appVars, treeVars, objects, nextObjectId, denoted, pollVars>>
        /\ values' = values \ {id}
    BY <1>5 DEF ValueDelete
  <2>2. TableOK' /\ HandleInv'
    BY <2>1 DEF CoreInv, TableOK, HandleInv, Single, Known, Lasting, Distinct, treeVars
  <2>3. TreeOK' /\ AppOK' /\ Owned' /\ Stopped'
    BY <2>1 DEF CoreInv, TreeOK, AppOK, Owned, Stopped, appVars, treeVars, pollVars
  <2> QED
    BY <2>2, <2>3 DEF CoreInv
<1>6. ASSUME NEW id \in Ids, SetProperty(t, id) PROVE CoreInv'
  BY <1>6, <1>s, EmitKeeps DEF SetProperty
<1>7. ASSUME NEW id \in Ids, CallCreates(t, id) PROVE CoreInv'
  <2>1. PICK o \in Objs : Fresh(o) /\ Requested(t, o, objects[id]) /\ registerObject(o)
    BY <1>7 DEF CallCreates
  <2>2. o \notin created
    BY <2>1 DEF Fresh
  <2>3. ~ Registered(o)
    BY <2>2, Apart DEF CoreInv, HandleInv, Known, Registered
  <2>4. Issue(o)
    BY <2>1, <2>3 DEF registerObject
  <2>5. Serving /\ running /\ t = appThread /\ objects[id] \in Nodes
    BY <1>7, <1>0, <1>r, <1>s DEF CallCreates
  <2> QED
    BY <2>1, <2>2, <2>4, <2>5, RequestCreates
<1>8. ASSUME NEW id \in Ids, CallDestroys(t, id) PROVE CoreInv'
  BY <1>8, <1>s, SomeDie DEF CallDestroys
<1>9. ASSUME NEW id \in Ids, Connect(t, id) PROVE CoreInv'
  BY <1>9, <1>0, <1>s, NothingMoves DEF Connect, treeVars
<1>10. ASSUME NEW id \in Ids, NEW arg \in Ids, CallAdopts(t, id, arg) PROVE CoreInv'
  <2>1. parent' \in [Nodes -> Nodes \cup {Null}]
    BY <1>10, <1>0 DEF CallAdopts
  <2> QED
    BY <1>10, <2>1, <1>0, <1>s, NothingMoves DEF CallAdopts
<1>11. ASSUME NEW max \in Limits, EventsBegin(t, max) PROVE CoreInv'
  <2>1. Serving
    BY <1>11, <1>r DEF EventsBegin, Serving
  <2> QED
    BY <1>11, <2>1, <1>0, NothingMoves DEF EventsBegin, treeVars
<1> QED
  BY <1>1, <1>2, <1>3, <1>4, <1>5, <1>6, <1>7, <1>8, <1>9, <1>10, <1>11, DeleteKeeps DEF Request

\* What happens while events is served.
Served ==
  \/ LoopEmits \/ LoopCreates \/ LoopDestroys \/ LoopEnds
  \/ \E id \in Ids : EraseGroup(id)
  \/ \E id \in Ids : \E k \in DOMAIN subscriptions[id] : TakeSignal(id, k)
  \/ \E fits \in BOOLEAN : Respond(fits)

LEMMA ServedKeeps == CoreInv /\ Served => CoreInv'
<1> SUFFICES ASSUME CoreInv, Served PROVE CoreInv'
  OBVIOUS
<1>0. /\ parent \in [Nodes -> Nodes \cup {Null}] /\ emitted \in [Nodes -> Nat]
      /\ stage \in {"idle", "loop", "collect"} /\ (stage # "idle" => running)
      /\ alive \subseteq Nodes
  BY DEF CoreInv, TreeOK, AppOK, Owned
<1>s. ASSUME UNCHANGED <<appVars, stage>> PROVE Serving
  BY <1>0, <1>s DEF Serving
<1>1. CASE LoopEmits
  BY <1>1, <1>s, EmitKeeps DEF LoopEmits, pollVars
<1>2. CASE LoopCreates
  <2>1. PICK o \in Objs, p \in alive \cup {Null} :
          Fresh(o) /\ Create(appThread, o, p) /\ strays' = strays \cup {o}
    BY <1>2 DEF LoopCreates
  <2>2. o \notin created /\ p \in Nodes \cup {Null}
    BY <2>1, <1>0 DEF Fresh
  <2>3. Serving /\ running /\ UNCHANGED tableVars
    BY <1>2, <1>0, <1>s DEF LoopCreates, pollVars
  <2> QED
    BY <2>1, <2>2, <2>3, QtCreates
<1>3. CASE LoopDestroys
  BY <1>3, <1>s, SomeDie DEF LoopDestroys, pollVars
<1>4. CASE LoopEnds
  <2>1. Serving
    BY <1>4, <1>0 DEF LoopEnds, Serving
  <2> QED
    BY <1>4, <1>0, <2>1, NothingMoves DEF LoopEnds, treeVars
<1>5. ASSUME NEW id \in Ids, EraseGroup(id) PROVE CoreInv'
  BY <1>5, <1>0, <1>s, NothingMoves DEF EraseGroup, treeVars, pollVars
<1>6. ASSUME NEW id \in Ids, NEW k, TakeSignal(id, k) PROVE CoreInv'
  <2>1. Serving /\ UNCHANGED treeVars
    BY <1>6, <1>s DEF TakeSignal
  <2>2. UNCHANGED tableVars \/ registerValue
    BY <1>6 DEF TakeSignal
  <2> QED
    BY <2>1, <2>2, <1>0, NothingMoves, ValueRegistered DEF treeVars
<1>7. ASSUME NEW fits, Respond(fits) PROVE CoreInv'
  <2>1. Serving
    BY <1>7 DEF Respond, Serving
  <2> QED
    BY <1>7, <1>0, <2>1, NothingMoves DEF Respond, treeVars
<1> QED
  BY <1>1, <1>2, <1>3, <1>4, <1>5, <1>6, <1>7 DEF Served

\* The four kinds of step.
LEMMA StepKinds ==
  ASSUME Next
  PROVE  (\E t \in Threads : Application(t) \/ Shutdown(t) \/ Request(t)) \/ Served
BY DEF Next, Request, Served

LEMMA CoreStep == CoreInv /\ [Next]_vars => CoreInv'
<1> SUFFICES ASSUME CoreInv, [Next]_vars PROVE CoreInv'
  OBVIOUS
<1>1. CASE UNCHANGED vars
  <2>1. Serving /\ UNCHANGED <<treeVars, tableVars>>
    BY <1>1 DEF vars, pollVars, Serving, CoreInv, AppOK, Owned
  <2> QED
    BY <2>1, NothingMoves DEF treeVars, CoreInv, TreeOK
<1> QED
  BY <1>1, StepKinds, ApplicationKeeps, ShutdownKeeps, RequestKeeps, ServedKeeps

---------------------------------------------------------------------------
(***************************************************************************)
(* What the invariant means for a program                                  *)
(***************************************************************************)

\* A number that the bridge has given out means one thing for good, through
\* every deletion and restart of the application: nextObjectId never goes back.
THEOREM HandlesMeanOne == Spec => []OneMeaning
<1>1. CoreInv => OneMeaning
  <2> SUFFICES ASSUME CoreInv, NEW id \in Ids PROVE Cardinality(denoted[id]) <= 1
    BY DEF OneMeaning
  <2>1. CASE denoted[id] = {}
    BY <2>1, FS_EmptySet
  <2>2. CASE denoted[id] # {}
    <3>1. PICK x : x \in denoted[id]
      BY <2>2
    <3>2. denoted[id] = {x}
      BY <3>1 DEF CoreInv, HandleInv, Single
    <3>3. Cardinality({x}) = 1
      BY FS_Singleton
    <3> QED
      BY <3>2, <3>3
  <2> QED
    BY <2>1, <2>2
<1> QED
  BY <1>1, CoreInit, CoreStep, PTL DEF Spec

\* While an object lives, the handle it was given reaches it and no other handle
\* does, whatever else is created, adopted, returned or deleted.
THEOREM HandlesLast == Spec => []HandleLasts
<1>1. CoreInv => HandleLasts
  BY Apart DEF CoreInv, TreeOK, HandleInv, Lasting, Distinct, HandleLasts, Open
<1> QED
  BY <1>1, CoreInit, CoreStep, PTL DEF Spec

\* shutdown leaves none of the objects that had a handle, wherever they were in
\* Qt's tree, and none comes back before the application does.
THEOREM ShutdownsComplete == Spec => []ShutdownComplete
<1>1. CoreInv => ShutdownComplete
  BY DEF CoreInv, Stopped, ShutdownComplete
<1> QED
  BY <1>1, CoreInit, CoreStep, PTL DEF Spec

\* An open handle reaches an object of the thread that runs the application, or
\* one that the event loop made: every object a request created has a handle,
\* so shutdown left none for an application on another thread.
THEOREM ThreadsAreApart == Spec => []OnlyStraysCross
<1>1. CoreInv => OnlyStraysCross
  BY DEF CoreInv, Owned, OnlyStraysCross, Open
<1> QED
  BY <1>1, CoreInit, CoreStep, PTL DEF Spec

---------------------------------------------------------------------------
(***************************************************************************)
(* The signals of one subscription in a response                           *)
(***************************************************************************)

\* What SignalsIn says of the function it computes.
Selects(es, id, k, f) ==
  f = [i \in 0 .. Len(es) |->
         IF i = 0 THEN << >>
         ELSE IF es[i].id = id /\ es[i].k = k THEN Append(f[i-1], es[i].signal)
         ELSE f[i-1]]

LEMMA SelectsExist ==
  ASSUME NEW es \in Seq(Event), NEW id, NEW k
  PROVE  \E f : Selects(es, id, k, f) /\ f \in [0 .. Len(es) -> Seq(Nat)]
<1> DEFINE N == Len(es)
           T == Seq(Nat)
           Mine(n) == es[n].id = id /\ es[n].k = k
           h == [q \in (1 .. N) \X T |-> IF Mine(q[1]) THEN Append(q[2], es[q[1]].signal) ELSE q[2]]
           b == << >>
<1>1. N \in Nat /\ b \in T
  OBVIOUS
<1>2. \A n \in 1 .. N : es[n].signal \in Nat
  <2>1. \A n \in 1 .. N : es[n] \in Event
    OBVIOUS
  <2> QED
    BY <2>1 DEF Event
<1>3. h \in [(1 .. N) \X T -> T]
  <2>1. ASSUME NEW q \in (1 .. N) \X T
        PROVE  (IF Mine(q[1]) THEN Append(q[2], es[q[1]].signal) ELSE q[2]) \in T
    BY <1>2
  <2> QED
    BY <2>1
<1>m. \A n \in 1 .. N, v \in T :
        h[<<n, v>>] = IF Mine(n) THEN Append(v, es[n].signal) ELSE v
  OBVIOUS
<1> HIDE DEF N, h, T, b
<1>4. PICK f : Recursive(N, T, b, h, f)
  BY <1>1, <1>3, RecursionExists
<1>5. f \in [0 .. N -> T] /\ f[0] = b /\ \A n \in 1 .. N : f[n] = h[<<n, f[n-1]>>]
  BY <1>4 DEF Recursive
<1>6. ASSUME NEW n \in 1 .. N
      PROVE  f[n] = IF Mine(n) THEN Append(f[n-1], es[n].signal) ELSE f[n-1]
  <2>1. f[n-1] \in T
    BY <1>1, <1>5
  <2> QED
    BY <1>5, <1>m, <2>1
<1> DEFINE e(i) == IF i = 0 THEN b ELSE IF Mine(i) THEN Append(f[i-1], es[i].signal) ELSE f[i-1]
<1>7. ASSUME NEW i \in 0 .. N PROVE f[i] = e(i)
  <2>1. CASE i = 0
    BY <2>1, <1>5
  <2>2. CASE i # 0
    <3>1. i \in 1 .. N
      BY <2>2, <1>1
    <3> QED
      BY <3>1, <2>2, <1>6
  <2> QED
    BY <2>1, <2>2
<1> HIDE DEF e
<1>8. f = [i \in 0 .. N |-> f[i]]
  BY <1>5
<1>9. f = [i \in 0 .. N |-> e(i)]
  BY <1>7, <1>8
<1> QED
  BY <1>5, <1>9 DEF Selects, N, e, T, b

\* Two responses, one the beginning of the other, agree on what they share.
LEMMA SelectsAgree ==
  ASSUME NEW s \in Seq(Event), NEW t \in Seq(Event), Len(s) <= Len(t),
         \A i \in 1 .. Len(s) : s[i] = t[i], NEW id, NEW k,
         NEW f, NEW g, Selects(s, id, k, f), Selects(t, id, k, g)
  PROVE  \A i \in 0 .. Len(s) : f[i] = g[i]
<1> DEFINE P == {i \in Nat : i <= Len(s) => f[i] = g[i]}
<1>0. Len(s) \in Nat /\ Len(t) \in Nat
  OBVIOUS
<1>1. 0 \in P
  <2>1. 0 \in 0 .. Len(s) /\ 0 \in 0 .. Len(t)
    BY <1>0
  <2> QED
    BY <2>1 DEF Selects
<1>2. ASSUME NEW i \in Nat, i \in P PROVE i + 1 \in P
  <2> SUFFICES ASSUME i + 1 <= Len(s) PROVE f[i+1] = g[i+1]
    OBVIOUS
  <2>1. /\ i + 1 \in 0 .. Len(s) /\ i + 1 \in 0 .. Len(t) /\ i + 1 \in 1 .. Len(s)
        /\ i + 1 # 0 /\ (i + 1) - 1 = i /\ i <= Len(s)
    BY <1>0
  <2>2. f[i+1] = IF s[i+1].id = id /\ s[i+1].k = k THEN Append(f[i], s[i+1].signal) ELSE f[i]
    BY <2>1 DEF Selects
  <2>3. g[i+1] = IF t[i+1].id = id /\ t[i+1].k = k THEN Append(g[i], t[i+1].signal) ELSE g[i]
    BY <2>1 DEF Selects
  <2>4. f[i] = g[i] /\ s[i+1] = t[i+1]
    BY <1>2, <2>1
  <2> QED
    BY <2>2, <2>3, <2>4
<1> HIDE DEF P
<1>3. Nat \subseteq P
  BY <1>1, <1>2, SetInduction
<1> QED
  BY <1>0, <1>3 DEF P

LEMMA SignalsAre ==
  ASSUME NEW es, NEW id, NEW k
  PROVE  SignalsIn(es, id, k) = (CHOOSE f : Selects(es, id, k, f))[Len(es)]
BY DEF SignalsIn, Selects

\* An event adds its signal to those of its own subscription.
LEMMA SignalsAppend ==
  ASSUME NEW es \in Seq(Event), NEW e \in Event, NEW id, NEW k
  PROVE  /\ SignalsIn(es, id, k) \in Seq(Nat)
         /\ SignalsIn(Append(es, e), id, k) =
              IF e.id = id /\ e.k = k THEN Append(SignalsIn(es, id, k), e.signal)
                                      ELSE SignalsIn(es, id, k)
<1> DEFINE t == Append(es, e)
           f == CHOOSE h : Selects(es, id, k, h)
           g == CHOOSE h : Selects(t, id, k, h)
           n == Len(es)
<1>1. t \in Seq(Event) /\ Len(t) = n + 1 /\ n \in Nat /\ t[n+1] = e
      /\ \A i \in 1 .. n : es[i] = t[i]
  OBVIOUS
<1>2. Selects(es, id, k, f)
  BY SelectsExist
<1>3. Selects(t, id, k, g)
  BY <1>1, SelectsExist
<1>4. SignalsIn(es, id, k) = f[n] /\ SignalsIn(t, id, k) = g[Len(t)]
  BY SignalsAre
<1> HIDE DEF f, g, t, n
<1>5. Len(es) = n /\ Len(es) <= Len(t) /\ \A i \in 1 .. Len(es) : es[i] = t[i]
  BY <1>1 DEF n
<1>6. \A i \in 0 .. Len(es) : f[i] = g[i]
  BY <1>1, <1>2, <1>3, <1>5, SelectsAgree
<1>7. f[n] = g[n]
  BY <1>1, <1>5, <1>6
<1>8. n + 1 \in 0 .. Len(t) /\ n + 1 # 0 /\ (n + 1) - 1 = n
  BY <1>1
<1>9. g[n+1] = IF t[n+1].id = id /\ t[n+1].k = k THEN Append(g[n], t[n+1].signal) ELSE g[n]
  BY <1>3, <1>8 DEF Selects
<1>10. f[n] \in Seq(Nat)
  <2>1. PICK d : Selects(es, id, k, d) /\ d \in [0 .. Len(es) -> Seq(Nat)]
    BY SelectsExist
  <2>2. Len(es) <= Len(es) /\ \A i \in 1 .. Len(es) : es[i] = es[i]
    BY <1>1, <1>5
  <2>3. \A i \in 0 .. Len(es) : f[i] = d[i]
    BY <1>2, <2>1, <2>2, SelectsAgree
  <2> QED
    BY <1>1, <1>5, <2>1, <2>3
<1> QED
  BY <1>1, <1>4, <1>7, <1>9, <1>10 DEF t

LEMMA SignalsNone == ASSUME NEW id, NEW k PROVE SignalsIn(<< >>, id, k) = << >>
<1> DEFINE es == << >>
           f == CHOOSE f : Selects(es, id, k, f)
<1>1. es \in Seq(Event) /\ Len(es) = 0
  OBVIOUS
<1>2. Selects(es, id, k, f)
  BY <1>1, SelectsExist
<1>3. SignalsIn(es, id, k) = f[Len(es)]
  BY SignalsAre
<1> HIDE DEF f
<1>4. f[0] = << >>
  <2>1. 0 \in 0 .. Len(es)
    BY <1>1
  <2> HIDE DEF es
  <2> QED
    BY <2>1, <1>2 DEF Selects
<1> QED
  BY <1>1, <1>3, <1>4

LEMMA SignalsTyped ==
  ASSUME NEW es \in Seq(Event), NEW id, NEW k
  PROVE  SignalsIn(es, id, k) \in Seq(Nat)
<1>1. CASE es = << >>
  <2>1. SignalsIn(es, id, k) = << >>
    BY <1>1, SignalsNone
  <2> QED
    BY <2>1
<1>2. CASE es # << >>
  <2>1. es[1] \in Event
    BY <1>2
  <2> QED
    BY <2>1, SignalsAppend
<1> QED
  BY <1>1, <1>2

---------------------------------------------------------------------------
(***************************************************************************)
(* Sequences of numbers                                                    *)
(***************************************************************************)

Rising(s) == \A i, j \in DOMAIN s : i < j => s[i] < s[j]
Values(s) == {s[i] : i \in DOMAIN s}

LEMMA RisingAppend ==
  ASSUME NEW s \in Seq(Nat), Rising(s), NEW x \in Nat, \A y \in Values(s) : y < x
  PROVE  Rising(Append(s, x)) /\ Values(Append(s, x)) = Values(s) \cup {x}
<1> DEFINE t == Append(s, x)
           n == Len(s)
<1>1. /\ n \in Nat /\ DOMAIN s = 1 .. n /\ DOMAIN t = 1 .. (n + 1)
      /\ t[n+1] = x /\ \A i \in 1 .. n : t[i] = s[i]
  OBVIOUS
<1>2. \A i \in 1 .. n : s[i] < x
  BY <1>1 DEF Values
<1> HIDE DEF t, n
<1>3. Rising(t)
  <2> SUFFICES ASSUME NEW i \in 1 .. (n + 1), NEW j \in 1 .. (n + 1), i < j PROVE t[i] < t[j]
    BY <1>1 DEF Rising
  <2>1. i \in 1 .. n
    BY <1>1
  <2>2. CASE j = n + 1
    BY <2>1, <2>2, <1>1, <1>2
  <2>3. CASE j # n + 1
    <3>1. j \in 1 .. n
      BY <2>3, <1>1
    <3> QED
      BY <2>1, <3>1, <1>1 DEF Rising
  <2> QED
    BY <2>2, <2>3
<1>4. Values(t) = Values(s) \cup {x}
  <2>1. ASSUME NEW i \in 1 .. (n + 1) PROVE t[i] \in Values(s) \cup {x}
    <3>1. CASE i = n + 1
      BY <3>1, <1>1
    <3>2. CASE i # n + 1
      <4>1. i \in 1 .. n
        BY <3>2, <1>1
      <4> QED
        BY <4>1, <1>1 DEF Values
    <3> QED
      BY <3>1, <3>2
  <2>2. ASSUME NEW i \in 1 .. n PROVE s[i] \in Values(t)
    <3>1. i \in 1 .. (n + 1) /\ t[i] = s[i]
      BY <1>1
    <3> QED
      BY <3>1, <1>1 DEF Values
  <2>3. x \in Values(t)
    <3>1. n + 1 \in 1 .. (n + 1)
      BY <1>1
    <3> QED
      BY <3>1, <1>1 DEF Values
  <2>4. Values(t) \subseteq Values(s) \cup {x}
    BY <2>1, <1>1 DEF Values
  <2>5. Values(s) \subseteq Values(t)
    BY <2>2, <1>1 DEF Values
  <2> QED
    BY <2>3, <2>4, <2>5
<1> QED
  BY <1>3, <1>4 DEF t

\* The first of the rest becomes the last of the middle.
LEMMA MoveOne ==
  ASSUME NEW a \in Seq(Nat), NEW b \in Seq(Nat), NEW q \in Seq(Nat), q # << >>
  PROVE  (a \o Append(b, Head(q))) \o Tail(q) = (a \o b) \o q
<1> DEFINE x == Head(q)
           r == Tail(q)
<1>1. x \in Nat /\ r \in Seq(Nat) /\ q = <<x>> \o r
  OBVIOUS
<1>2. a \o Append(b, x) = Append(a \o b, x)
  BY <1>1
<1>3. a \o b \in Seq(Nat)
  OBVIOUS
<1> DEFINE c == a \o b
<1> HIDE DEF x, r, c
<1>4. Append(c, x) \o r = c \o (<<x>> \o r)
  BY <1>1, <1>3 DEF c
<1> QED
  BY <1>1, <1>2, <1>4 DEF c, x, r

\* What is left of a rising sequence when the middle is taken out.
LEMMA TakeMiddle ==
  ASSUME NEW a \in Seq(Nat), NEW b \in Seq(Nat), NEW q \in Seq(Nat), Rising((a \o b) \o q)
  PROVE  /\ Rising(a \o q) /\ Values(a \o q) = Values((a \o b) \o q) \ Values(b)
         /\ Values(b) \subseteq Values((a \o b) \o q)
<1> DEFINE s == (a \o b) \o q
           t == a \o q
           na == Len(a)
           nb == Len(b)
           nq == Len(q)
<1>1. /\ na \in Nat /\ nb \in Nat /\ nq \in Nat
      /\ DOMAIN a = 1 .. na /\ DOMAIN b = 1 .. nb /\ DOMAIN q = 1 .. nq
  OBVIOUS
<1>2. DOMAIN t = 1 .. (na + nq) /\ \A i \in 1 .. (na + nq) : t[i] = IF i <= na THEN a[i] ELSE q[i - na]
  BY <1>1
<1>3. DOMAIN s = 1 .. (na + nb + nq)
  BY <1>1
<1>4. \A i \in 1 .. na : s[i] = a[i]
  BY <1>1
<1>5. \A i \in 1 .. nb : s[na + i] = b[i]
  BY <1>1
<1>6. \A i \in 1 .. nq : s[na + nb + i] = q[i]
  BY <1>1
<1>7. \A i \in 1 .. na : a[i] \in Nat
  OBVIOUS
<1>8. \A i \in 1 .. nq : q[i] \in Nat
  OBVIOUS
<1> HIDE DEF s, t, na, nb, nq
<1> DEFINE at(i) == IF i <= na THEN i ELSE i + nb
<1>9. ASSUME NEW i \in 1 .. (na + nq)
      PROVE  at(i) \in 1 .. (na + nb + nq) /\ t[i] = s[at(i)]
  <2>1. CASE i <= na
    BY <2>1, <1>1, <1>2, <1>4
  <2>2. CASE i > na
    <3>1. i - na \in 1 .. nq /\ na + nb + (i - na) = i + nb /\ ~ (i <= na)
      BY <2>2, <1>1
    <3> QED
      BY <3>1, <1>1, <1>2, <1>6
  <2> QED
    BY <2>1, <2>2, <1>1
<1>10. \A i, j \in 1 .. (na + nq) : i < j => at(i) < at(j)
  BY <1>1
<1>11. \A i, j \in 1 .. (na + nb + nq) : i < j => s[i] < s[j]
  BY <1>3 DEF Rising, s
<1>12. Rising(t)
  <2> SUFFICES ASSUME NEW i \in 1 .. (na + nq), NEW j \in 1 .. (na + nq), i < j PROVE t[i] < t[j]
    BY <1>2 DEF Rising
  <2>1. at(i) < at(j)
    BY <1>10
  <2> QED
    BY <2>1, <1>9, <1>11
<1>13. \A i \in 1 .. (na + nb + nq) : s[i] \in Nat
  <2>1. s \in Seq(Nat)
    BY DEF s
  <2>2. \A i \in DOMAIN s : s[i] \in Nat
    BY <2>1
  <2> QED
    BY <2>2, <1>3
<1>14. \A i, j \in 1 .. (na + nb + nq) : s[i] = s[j] => i = j
  <2> SUFFICES ASSUME NEW i \in 1 .. (na + nb + nq), NEW j \in 1 .. (na + nb + nq), i # j
               PROVE  s[i] # s[j]
    OBVIOUS
  <2>1. CASE i < j
    BY <2>1, <1>11, <1>13
  <2>2. CASE j < i
    BY <2>2, <1>11, <1>13
  <2> QED
    BY <2>1, <2>2, <1>1
<1>15. ASSUME NEW i \in 1 .. (na + nq) PROVE t[i] \in Values(s) /\ t[i] \notin Values(b)
  <2>1. t[i] \in Values(s)
    BY <1>3, <1>9 DEF Values
  <2>2. ASSUME NEW j \in 1 .. nb PROVE t[i] # b[j]
    <3>1. na + j \in 1 .. (na + nb + nq) /\ s[na + j] = b[j]
      BY <1>1, <1>5
    <3>2. at(i) # na + j
      BY <1>1
    <3> QED
      BY <3>1, <3>2, <1>9, <1>14
  <2> QED
    BY <2>1, <2>2, <1>1 DEF Values
<1>16. ASSUME NEW i \in 1 .. (na + nb + nq), s[i] \notin Values(b) PROVE s[i] \in Values(t)
  <2>1. CASE i <= na
    <3>1. i \in 1 .. (na + nq) /\ at(i) = i
      BY <2>1, <1>1
    <3> QED
      BY <3>1, <1>2, <1>9 DEF Values
  <2>2. CASE i > na /\ i <= na + nb
    <3>1. i - na \in 1 .. nb /\ na + (i - na) = i
      BY <2>2, <1>1
    <3>2. s[i] = b[i - na]
      BY <3>1, <1>5
    <3>3. s[i] \in Values(b)
      BY <3>1, <3>2, <1>1 DEF Values
    <3> QED
      BY <3>3, <1>16
  <2>3. CASE i > na + nb
    <3>1. i - nb \in 1 .. (na + nq) /\ at(i - nb) = i
      BY <2>3, <1>1
    <3>2. t[i - nb] = s[i]
      BY <3>1, <1>9
    <3> QED
      BY <3>1, <3>2, <1>2 DEF Values
  <2> QED
    BY <2>1, <2>2, <2>3, <1>1
<1>17. Values(t) = Values(s) \ Values(b)
  <2>1. Values(t) \subseteq Values(s) \ Values(b)
    BY <1>2, <1>15 DEF Values
  <2>2. ASSUME NEW v \in Values(s), v \notin Values(b) PROVE v \in Values(t)
    BY <2>2, <1>3, <1>16 DEF Values
  <2> QED
    BY <2>1, <2>2
<1>18. Values(b) \subseteq Values(s)
  <2>1. ASSUME NEW i \in 1 .. nb PROVE b[i] \in Values(s)
    <3>1. na + i \in 1 .. (na + nb + nq) /\ s[na + i] = b[i]
      BY <1>1, <1>5
    <3> QED
      BY <3>1, <1>3 DEF Values
  <2> QED
    BY <2>1, <1>1 DEF Values
<1> QED
  BY <1>12, <1>17, <1>18 DEF s, t

---------------------------------------------------------------------------
(***************************************************************************)
(* Types, and the events of a response                                     *)
(***************************************************************************)

\* The spies and the response that is being built.
PollOK ==
  /\ subscriptions \in [Ids -> Seq(Subscription)]
  /\ maximum \in Nat
  /\ events \in Seq(Event) /\ Len(events) <= maximum

\* Events are only collected after the event loop, from open handles.
Live ==
  /\ stage # "collect" => events = << >>
  /\ \A i \in DOMAIN events : Open(events[i].id)

PollInv == CoreInv /\ PollOK /\ Live

LEMMA PollInit == Init => PollInv
<1> SUFFICES ASSUME Init PROVE PollInv
  OBVIOUS
<1>1. << >> \in Seq(Subscription) /\ << >> \in Seq(Event) /\ Len(<< >>) = 0 /\ DOMAIN << >> = {}
  OBVIOUS
<1>2. subscriptions \in [Ids -> Seq(Subscription)]
  BY <1>1 DEF Init
<1>3. events \in Seq(Event) /\ Len(events) <= maximum /\ maximum \in Nat /\ DOMAIN events = {}
  BY <1>1 DEF Init
<1>4. events = << >>
  BY DEF Init
<1> QED
  BY <1>2, <1>3, <1>4, CoreInit DEF PollInv, PollOK, Live

\* The steps before the collection: nothing has been taken.
LEMMA NotCollecting ==
  ASSUME PollInv, CoreInv', stage # "collect", UNCHANGED events, maximum' \in Nat,
         subscriptions' \in [Ids -> Seq(Subscription)]
  PROVE  PollInv'
<1>1. events = << >> /\ events' = << >>
  BY DEF PollInv, Live
<1>2. << >> \in Seq(Event) /\ Len(<< >>) = 0 /\ DOMAIN << >> = {}
  OBVIOUS
<1>3. PollOK'
  BY <1>1, <1>2 DEF PollOK
<1>4. Live'
  BY <1>1, <1>2 DEF Live
<1> QED
  BY <1>3, <1>4 DEF PollInv

\* A spy catches a signal.
LEMMA EmitTyped ==
  ASSUME CoreInv, PollOK, NEW o \in alive, Emit(o)
  PROVE  /\ subscriptions' \in [Ids -> Seq(Subscription)]
         /\ emitted[o] \in Nat
         /\ \A id \in Ids :
              /\ DOMAIN subscriptions'[id] = DOMAIN subscriptions[id]
              /\ objects[id] # o => subscriptions'[id] = subscriptions[id]
              /\ objects[id] = o => \A k \in DOMAIN subscriptions[id] :
                   subscriptions'[id][k] =
                     [subscriptions[id][k] EXCEPT !.queue = Append(@, emitted[o] + 1)]
<1> DEFINE x == emitted[o] + 1
           s(id) == subscriptions[id]
           c(id) == [k \in DOMAIN s(id) |-> [s(id)[k] EXCEPT !.queue = Append(@, x)]]
<1>1. emitted[o] \in Nat /\ x \in Nat
  BY DEF CoreInv, TreeOK
<1>2. subscriptions' = [id \in Ids |-> IF objects[id] # o THEN s(id) ELSE c(id)]
  BY DEF Emit
<1> HIDE DEF x
<1>3. ASSUME NEW id \in Ids PROVE s(id) \in Seq(Subscription) /\ c(id) \in Seq(Subscription)
  <2>1. s(id) \in Seq(Subscription)
    BY DEF PollOK
  <2>2. ASSUME NEW k \in DOMAIN s(id) PROVE [s(id)[k] EXCEPT !.queue = Append(@, x)] \in Subscription
    <3>1. s(id)[k] \in Subscription
      BY <2>1
    <3>2. s(id)[k].queue \in Seq(Nat)
      BY <3>1 DEF Subscription
    <3>3. Append(s(id)[k].queue, x) \in Seq(Nat)
      BY <3>2, <1>1
    <3> QED
      BY <3>1, <3>3 DEF Subscription
  <2>3. DOMAIN s(id) = 1 .. Len(s(id)) /\ Len(s(id)) \in Nat
    BY <2>1
  <2> QED
    BY <2>1, <2>2, <2>3
<1>4. ASSUME NEW id \in Ids
      PROVE  /\ subscriptions'[id] = IF objects[id] # o THEN s(id) ELSE c(id)
             /\ DOMAIN c(id) = DOMAIN s(id)
             /\ \A k \in DOMAIN s(id) : c(id)[k] = [s(id)[k] EXCEPT !.queue = Append(@, x)]
  BY <1>2
<1> HIDE DEF c
<1>5. subscriptions' \in [Ids -> Seq(Subscription)]
  BY <1>2, <1>3
<1> QED
  BY <1>1, <1>4, <1>5 DEF x

\* A response goes out.
LEMMA RespondTyped ==
  ASSUME CoreInv, PollOK, NEW fits \in BOOLEAN, Respond(fits)
  PROVE  /\ subscriptions' \in [Ids -> Seq(Subscription)]
         /\ \A id \in Ids :
              /\ DOMAIN subscriptions'[id] = DOMAIN subscriptions[id]
              /\ \A k \in DOMAIN subscriptions[id] :
                   /\ InBatch(id, k) \in Seq(Nat)
                   /\ subscriptions'[id][k] =
                        IF fits
                        THEN [subscriptions[id][k] EXCEPT !.told = @ \o InBatch(id, k)]
                        ELSE [subscriptions[id][k] EXCEPT !.missed = @ \cup Values(InBatch(id, k))]
<1> DEFINE s(id) == subscriptions[id]
           b(id, k) == InBatch(id, k)
           d(id, k) == IF fits THEN [s(id)[k] EXCEPT !.told = @ \o b(id, k)]
                               ELSE [s(id)[k] EXCEPT !.missed = @ \cup Values(b(id, k))]
           c(id) == [k \in DOMAIN s(id) |-> d(id, k)]
<1>1. subscriptions' = [id \in Ids |-> c(id)]
  BY DEF Respond, Values
<1>2. ASSUME NEW id \in Ids, NEW k PROVE b(id, k) \in Seq(Nat)
  BY SignalsTyped DEF InBatch, PollOK
<1> HIDE DEF b
<1>3. ASSUME NEW id \in Ids PROVE s(id) \in Seq(Subscription) /\ c(id) \in Seq(Subscription)
  <2>1. s(id) \in Seq(Subscription)
    BY DEF PollOK
  <2>2. ASSUME NEW k \in DOMAIN s(id) PROVE d(id, k) \in Subscription
    <3>1. s(id)[k] \in Subscription
      BY <2>1
    <3>2. s(id)[k].told \in Seq(Nat) /\ s(id)[k].missed \in SUBSET Nat
      BY <3>1 DEF Subscription
    <3>3. s(id)[k].told \o b(id, k) \in Seq(Nat)
      BY <3>2, <1>2
    <3>4. Values(b(id, k)) \in SUBSET Nat
      BY <1>2 DEF Values
    <3>5. s(id)[k].missed \cup Values(b(id, k)) \in SUBSET Nat
      BY <3>2, <3>4
    <3>6. [s(id)[k] EXCEPT !.told = @ \o b(id, k)] \in Subscription
      BY <3>1, <3>3 DEF Subscription
    <3>7. [s(id)[k] EXCEPT !.missed = @ \cup Values(b(id, k))] \in Subscription
      BY <3>1, <3>5 DEF Subscription
    <3> QED
      BY <3>6, <3>7
  <2>3. DOMAIN s(id) = 1 .. Len(s(id)) /\ Len(s(id)) \in Nat
    BY <2>1
  <2> HIDE DEF d
  <2> QED
    BY <2>1, <2>2, <2>3
<1> HIDE DEF d
<1>4. ASSUME NEW id \in Ids
      PROVE  /\ subscriptions'[id] = c(id) /\ DOMAIN c(id) = DOMAIN s(id)
             /\ \A k \in DOMAIN s(id) : c(id)[k] = d(id, k)
  BY <1>1
<1> HIDE DEF c
<1>5. subscriptions' \in [Ids -> Seq(Subscription)]
  BY <1>1, <1>3
<1> QED
  BY <1>2, <1>4, <1>5 DEF d, b

\* A signal goes from its spy into the response, as event e.
Taking(id, k, e) ==
  LET q == subscriptions[id][k].queue
  IN /\ subscriptions' \in [Ids -> Seq(Subscription)]
     /\ q \in Seq(Nat) /\ q # << >> /\ e \in Event
     /\ e.id = id /\ e.k = k /\ e.signal = Head(q)
     /\ events' = Append(events, e) /\ events' \in Seq(Event)
     /\ Len(events') <= maximum
     /\ \A i \in Ids : DOMAIN subscriptions'[i] = DOMAIN subscriptions[i]
     /\ \A i \in Ids : i # id => subscriptions'[i] = subscriptions[i]
     /\ \A j \in DOMAIN subscriptions[id] :
          subscriptions'[id][j] =
            IF j = k THEN [subscriptions[id][k] EXCEPT !.queue = Tail(@)]
                     ELSE subscriptions[id][j]

LEMMA TakeTyped ==
  ASSUME CoreInv, PollOK, NEW id \in Ids, NEW k \in DOMAIN subscriptions[id], TakeSignal(id, k)
  PROVE  Taking(id, k, [id |-> id, k |-> k, signal |-> Head(subscriptions[id][k].queue)])
<1> DEFINE s == subscriptions[id]
           q == s[k].queue
           e == [id |-> id, k |-> k, signal |-> Head(q)]
           r == [s[k] EXCEPT !.queue = Tail(@)]
           c == [s EXCEPT ![k] = r]
<1>1. s \in Seq(Subscription) /\ DOMAIN s = 1 .. Len(s) /\ Len(s) \in Nat /\ s[k] \in Subscription
  BY DEF PollOK
<1>2. q \in Seq(Nat) /\ q # << >>
  BY <1>1 DEF Subscription, TakeSignal, Waiting
<1>3. Head(q) \in Nat /\ Tail(q) \in Seq(Nat)
  BY <1>2
<1>4. e \in Event /\ e.id = id /\ e.k = k /\ e.signal = Head(q)
  BY <1>1, <1>3 DEF Event
<1>5. subscriptions' = [subscriptions EXCEPT ![id] = c] /\ events' = Append(events, e)
  BY DEF TakeSignal, Taken
<1>6. r \in Subscription
  BY <1>1, <1>3 DEF Subscription
<1>c. c = [j \in DOMAIN s |-> IF j = k THEN r ELSE s[j]]
  BY <1>1
<1> HIDE DEF r, e, q
<1>7. /\ c \in Seq(Subscription) /\ DOMAIN c = DOMAIN s
      /\ \A j \in DOMAIN s : c[j] = IF j = k THEN r ELSE s[j]
  <2>1. ASSUME NEW j \in 1 .. Len(s) PROVE (IF j = k THEN r ELSE s[j]) \in Subscription
    BY <1>1, <1>6
  <2>2. c \in [1 .. Len(s) -> Subscription]
    BY <2>1, <1>1, <1>c
  <2>3. c \in Seq(Subscription)
    BY <2>2, <1>1
  <2> QED
    BY <2>3, <1>c
<1>8. events' \in Seq(Event) /\ Len(events') <= maximum
  <2>1. events \in Seq(Event) /\ maximum \in Nat /\ ~ (Len(events) >= maximum)
    BY DEF PollOK, TakeSignal, Full
  <2> QED
    BY <2>1, <1>4, <1>5
<1> HIDE DEF c
<1>9. subscriptions' \in [Ids -> Seq(Subscription)]
  BY <1>5, <1>7 DEF PollOK
<1>10. subscriptions'[id] = c /\ \A i \in Ids : i # id => subscriptions'[i] = subscriptions[i]
  BY <1>5 DEF PollOK
<1>11. \A i \in Ids : DOMAIN subscriptions'[i] = DOMAIN subscriptions[i]
  BY <1>7, <1>10
<1>12. \A j \in DOMAIN s : subscriptions'[id][j] = IF j = k THEN r ELSE s[j]
  BY <1>7, <1>10
<1> QED
  BY <1>2, <1>4, <1>5, <1>8, <1>9, <1>10, <1>11, <1>12 DEF r, e, q, Taking

\* A handle is watched.
LEMMA ConnectTyped ==
  ASSUME CoreInv, PollOK, NEW t, NEW id \in Ids, Connect(t, id)
  PROVE  LET s == subscriptions[id]
             n == [from |-> emitted[objects[id]], queue |-> << >>, told |-> << >>, missed |-> {}]
         IN /\ objects[id] \in Nodes /\ emitted[objects[id]] \in Nat
            /\ n \in Subscription
            /\ subscriptions' \in [Ids -> Seq(Subscription)]
            /\ \A i \in Ids : i # id => subscriptions'[i] = subscriptions[i]
            /\ DOMAIN subscriptions'[id] = DOMAIN s \cup {Len(s) + 1}
            /\ subscriptions'[id][Len(s) + 1] = n
            /\ \A j \in DOMAIN s : subscriptions'[id][j] = s[j] /\ j # Len(s) + 1
<1> DEFINE s == subscriptions[id]
           n == [from |-> emitted[objects[id]], queue |-> << >>, told |-> << >>, missed |-> {}]
<1>1. objects[id] \in Nodes /\ emitted[objects[id]] \in Nat /\ s \in Seq(Subscription)
  BY DEF Connect, Open, CoreInv, TreeOK, PollOK
<1>2. << >> \in Seq(Nat)
  OBVIOUS
<1>3. n \in Subscription
  BY <1>1, <1>2 DEF Subscription
<1>4. subscriptions' = [subscriptions EXCEPT ![id] = Append(s, n)]
  BY DEF Connect
<1> HIDE DEF n
<1>5. /\ Append(s, n) \in Seq(Subscription)
      /\ Len(s) \in Nat /\ DOMAIN s = 1 .. Len(s)
      /\ DOMAIN Append(s, n) = 1 .. (Len(s) + 1)
      /\ Append(s, n)[Len(s) + 1] = n
      /\ \A j \in 1 .. Len(s) : Append(s, n)[j] = s[j]
  BY <1>1, <1>3
<1>6. subscriptions' \in [Ids -> Seq(Subscription)] /\ subscriptions'[id] = Append(s, n)
      /\ \A i \in Ids : i # id => subscriptions'[i] = subscriptions[i]
  BY <1>4, <1>5 DEF PollOK
<1>7. 1 .. (Len(s) + 1) = (1 .. Len(s)) \cup {Len(s) + 1}
  BY <1>5
<1>8. \A j \in 1 .. Len(s) : j # Len(s) + 1
  BY <1>5
<1> QED
  BY <1>1, <1>3, <1>5, <1>6, <1>7, <1>8 DEF n

\* Each step of Next preserves PollInv.
LEMMA PollStep == PollInv /\ [Next]_vars => PollInv'
<1> SUFFICES ASSUME PollInv, [Next]_vars PROVE PollInv'
  OBVIOUS
<1>c. CoreInv /\ CoreInv' /\ PollOK /\ Live
  BY CoreStep DEF PollInv
<1>p. subscriptions \in [Ids -> Seq(Subscription)] /\ maximum \in Nat
  BY <1>c DEF PollOK
<1>e. << >> \in Seq(Subscription)
  OBVIOUS
<1>n. ASSUME stage # "collect", UNCHANGED <<events, maximum>>,
             subscriptions' \in [Ids -> Seq(Subscription)]
      PROVE  PollInv'
  BY <1>c, <1>n, <1>p, NotCollecting
<1>1. ASSUME NEW t \in Threads, Application(t) PROVE PollInv'
  BY <1>1, <1>n, <1>p DEF Application, pollVars
<1>2. ASSUME NEW t \in Threads, Shutdown(t) PROVE PollInv'
  <2>1. /\ stage # "collect" /\ UNCHANGED <<events, maximum>>
        /\ subscriptions' = [id \in Ids |-> << >>]
    BY <1>2 DEF Shutdown, StopApplication, pollVars
  <2>2. subscriptions' \in [Ids -> Seq(Subscription)]
    BY <2>1, <1>e
  <2> QED
    BY <2>1, <2>2, <1>c, <1>p, NotCollecting
<1>3. ASSUME NEW t \in Threads, Request(t) PROVE PollInv'
  <2>1. CASE New(t) \/ ValueNew(t) \/ ValueResult(t) \/ CallReturns(t)
    BY <2>1, <1>n, <1>p DEF New, ValueNew, ValueResult, CallReturns, Ready, pollVars
  <2>2. ASSUME NEW id \in Ids, NEW arg \in Ids,
               \/ ValueDelete(t, id) \/ Get(t, id) \/ CallCreates(t, id) \/ CallDestroys(t, id)
               \/ CallAdopts(t, id, arg)
        PROVE  PollInv'
    BY <2>2, <1>n, <1>p
    DEF ValueDelete, Get, CallCreates, CallDestroys, CallAdopts, Ready, pollVars
  <2>3. ASSUME NEW id \in Ids, SetProperty(t, id) PROVE PollInv'
    <3>1. PICK o \in alive : Emit(o)
      BY <2>3 DEF SetProperty
    <3>2. stage # "collect" /\ UNCHANGED <<events, maximum>>
      BY <2>3 DEF SetProperty, Ready, pollVars
    <3> QED
      BY <3>1, <3>2, <1>c, <1>n, EmitTyped
  <2>4. ASSUME NEW id \in Ids, Connect(t, id) PROVE PollInv'
    <3>1. stage # "collect" /\ UNCHANGED <<events, maximum>>
      BY <2>4 DEF Connect, Ready, pollVars
    <3> QED
      BY <2>4, <3>1, <1>c, <1>n, ConnectTyped
  <2>5. ASSUME NEW id \in Ids, Delete(t, id) PROVE PollInv'
    <3>1. /\ stage # "collect" /\ UNCHANGED <<events, maximum>>
          /\ subscriptions' = DropGroups(id)
      BY <2>5 DEF Delete, Ready, pollVars
    <3>2. subscriptions' \in [Ids -> Seq(Subscription)]
      BY <3>1, <1>e, <1>p DEF DropGroups
    <3> QED
      BY <3>1, <3>2, <1>n
  <2>6. ASSUME NEW max \in Limits, EventsBegin(t, max) PROVE PollInv'
    <3>1. stage # "collect" /\ UNCHANGED <<events, subscriptions>> /\ maximum' = max
      BY <2>6 DEF EventsBegin, Ready
    <3>2. maximum' \in Nat
      BY <3>1, LimitsAssumption
    <3> QED
      BY <3>1, <3>2, <1>c, <1>p, NotCollecting
  <2> QED
    BY <1>3, <2>1, <2>2, <2>3, <2>4, <2>5, <2>6 DEF Request
<1>4. CASE Served
  <2>1. CASE LoopEmits
    <3>1. PICK o \in alive : Emit(o)
      BY <2>1 DEF LoopEmits
    <3>2. stage # "collect" /\ UNCHANGED <<events, maximum>>
      BY <2>1 DEF LoopEmits, pollVars
    <3> QED
      BY <3>1, <3>2, <1>c, <1>n, EmitTyped
  <2>2. CASE LoopCreates \/ LoopDestroys \/ LoopEnds
    BY <2>2, <1>n, <1>p DEF LoopCreates, LoopDestroys, LoopEnds, pollVars
  <2>3. ASSUME NEW id \in Ids, EraseGroup(id) PROVE PollInv'
    <3>1. /\ UNCHANGED <<treeVars, tableVars, pollVars>>
          /\ subscriptions' = [subscriptions EXCEPT ![id] = << >>]
      BY <2>3 DEF EraseGroup
    <3>2. subscriptions' \in [Ids -> Seq(Subscription)]
      BY <3>1, <1>e, <1>p
    <3>3. PollOK'
      BY <3>1, <3>2, <1>c DEF PollOK, pollVars
    <3>4. Live'
      BY <3>1, <1>c DEF Live, Open, treeVars, tableVars, pollVars
    <3> QED
      BY <3>3, <3>4, <1>c DEF PollInv
  <2>4. ASSUME NEW id \in Ids, NEW k \in DOMAIN subscriptions[id], TakeSignal(id, k) PROVE PollInv'
    <3>1. /\ stage = "collect" /\ stage' = stage /\ UNCHANGED <<treeVars, maximum, objects>>
          /\ ~ Dead(id)
      BY <2>4 DEF TakeSignal, registerValue, tableVars
    <3>2. PICK e : Taking(id, k, e)
      BY <2>4, <1>c, TakeTyped
    <3>3. PollOK'
      BY <3>1, <3>2, <1>c DEF PollOK, Taking
    <3>4. Open(id)
      <4>1. subscriptions[id] # << >>
        <5>1. subscriptions[id] = << >> => DOMAIN subscriptions[id] = {}
          OBVIOUS
        <5> QED
          BY <5>1
      <4> QED
        BY <3>1, <4>1 DEF Dead
    <3>5. ASSUME NEW i \in DOMAIN events' PROVE Open(events'[i].id)
      <4>0. events \in Seq(Event)
        BY <1>c DEF PollOK
      <4>1. events'[i] = e \/ (i \in DOMAIN events /\ events'[i] = events[i])
        BY <3>2, <4>0 DEF Taking
      <4> QED
        BY <4>1, <3>2, <3>4, <1>c DEF Live, Taking
    <3>6. ASSUME NEW i \in DOMAIN events' PROVE objects'[events'[i].id] \in alive'
      <4>1. objects' = objects /\ alive' = alive
        BY <3>1 DEF treeVars
      <4> QED
        BY <3>5, <4>1 DEF Open
    <3>7. Live'
      BY <3>1, <3>6 DEF Live, Open
    <3> QED
      BY <3>3, <3>7, <1>c DEF PollInv
  <2>5. ASSUME NEW fits \in BOOLEAN, Respond(fits) PROVE PollInv'
    <3>1. events' = << >> /\ maximum' = 0
      BY <2>5 DEF Respond
    <3>2. << >> \in Seq(Event) /\ Len(<< >>) = 0 /\ DOMAIN << >> = {}
      OBVIOUS
    <3>3. PollOK'
      BY <2>5, <3>1, <3>2, <1>c, <1>p, RespondTyped DEF PollOK
    <3>4. Live'
      BY <3>1, <3>2 DEF Live
    <3> QED
      BY <3>3, <3>4, <1>c DEF PollInv
  <2> QED
    BY <1>4, <2>1, <2>2, <2>3, <2>4, <2>5 DEF Served
<1>5. CASE UNCHANGED vars
  BY <1>5, <1>c DEF PollInv, PollOK, Live, Open, vars, treeVars, tableVars, pollVars
<1> QED
  BY <1>1, <1>2, <1>3, <1>4, <1>5, StepKinds

\* The bridge's tables, the tree, the spies and the response keep their shape,
\* and a response never exceeds the maximum that was asked for.
THEOREM BridgeTypeCorrect == Spec => []TypeOK
<1>1. PollInv => TypeOK
  BY DEF PollInv, CoreInv, TreeOK, TableOK, AppOK, PollOK, TypeOK
<1> QED
  BY <1>1, PollInit, PollStep, PTL DEF Spec

\* An event names a handle that is open when the response is built: the spies of
\* an object that died after its signal are dropped before they are read.
THEOREM EventsStayLive == Spec => []EventsAreLive
<1>1. PollInv => EventsAreLive
  BY DEF PollInv, Live, EventsAreLive
<1> QED
  BY <1>1, PollInit, PollStep, PTL DEF Spec

---------------------------------------------------------------------------
(***************************************************************************)
(* Every signal once                                                       *)
(***************************************************************************)

\* What SignalsOnce says of one subscription s of an object that has emitted n
\* signals, when b of them are in the response; and that nothing is missed
\* before it was emitted.
Counted(s, b, n) ==
  /\ Rising((s.told \o b) \o s.queue)
  /\ Values((s.told \o b) \o s.queue) = ((s.from + 1) .. n) \ s.missed
  /\ s.from <= n
  /\ s.missed \subseteq (s.from + 1) .. n

CountInv ==
  \A id \in Ids : \A k \in DOMAIN subscriptions[id] :
    /\ objects[id] \in Nodes
    /\ Counted(subscriptions[id][k], InBatch(id, k), emitted[objects[id]])

LEMMA CountEmit ==
  ASSUME NEW s \in Subscription, NEW b \in Seq(Nat), NEW n \in Nat, Counted(s, b, n)
  PROVE  Counted([s EXCEPT !.queue = Append(@, n + 1)], b, n + 1)
<1> DEFINE u == [s EXCEPT !.queue = Append(@, n + 1)]
           a == s.told \o b
           all == (s.from + 1) .. n
<1>1. s.told \in Seq(Nat) /\ s.queue \in Seq(Nat) /\ s.from \in Nat /\ s.missed \in SUBSET Nat
  BY DEF Subscription
<1>2. u.told = s.told /\ u.from = s.from /\ u.missed = s.missed /\ u.queue = Append(s.queue, n + 1)
  BY DEF Subscription
<1>3. a \in Seq(Nat) /\ a \o s.queue \in Seq(Nat)
  BY <1>1
<1>4. a \o Append(s.queue, n + 1) = Append(a \o s.queue, n + 1)
  <2> HIDE DEF a
  <2> QED
    BY <1>1, <1>3
<1>5. Rising(a \o s.queue) /\ Values(a \o s.queue) = all \ s.missed /\ s.from <= n /\ s.missed \subseteq all
  BY DEF Counted
<1>6. \A y \in Values(a \o s.queue) : y < n + 1
  BY <1>1, <1>5
<1> HIDE DEF u, a
<1>7. /\ Rising(Append(a \o s.queue, n + 1))
      /\ Values(Append(a \o s.queue, n + 1)) = Values(a \o s.queue) \cup {n + 1}
  <2> DEFINE r == a \o s.queue
             x == n + 1
  <2>1. r \in Seq(Nat) /\ x \in Nat /\ Rising(r) /\ \A y \in Values(r) : y < x
    BY <1>3, <1>5, <1>6
  <2> HIDE DEF r, x
  <2>2. Rising(Append(r, x)) /\ Values(Append(r, x)) = Values(r) \cup {x}
    BY <2>1, RisingAppend
  <2> QED
    BY <2>2 DEF r, x
<1>8. (s.from + 1) .. (n + 1) = all \cup {n + 1} /\ n + 1 \notin all /\ s.from <= n + 1
  BY <1>1, <1>5
<1>9. s.missed \subseteq (s.from + 1) .. (n + 1) /\ n + 1 \notin s.missed
  BY <1>5, <1>8
<1> HIDE DEF all
<1>10. ((s.from + 1) .. (n + 1)) \ s.missed = (all \ s.missed) \cup {n + 1}
  BY <1>8, <1>9
<1> QED
  BY <1>2, <1>4, <1>5, <1>7, <1>8, <1>9, <1>10 DEF Counted, u, a

LEMMA CountTake ==
  ASSUME NEW s \in Subscription, NEW b \in Seq(Nat), NEW n \in Nat, Counted(s, b, n),
         s.queue # << >>
  PROVE  Counted([s EXCEPT !.queue = Tail(@)], Append(b, Head(s.queue)), n)
<1> DEFINE u == [s EXCEPT !.queue = Tail(@)]
<1>1. s.told \in Seq(Nat) /\ s.queue \in Seq(Nat)
  BY DEF Subscription
<1>2. u.told = s.told /\ u.from = s.from /\ u.missed = s.missed /\ u.queue = Tail(s.queue)
  BY DEF Subscription
<1>3. (s.told \o Append(b, Head(s.queue))) \o Tail(s.queue) = (s.told \o b) \o s.queue
  BY <1>1, MoveOne
<1> HIDE DEF u
<1> QED
  BY <1>2, <1>3 DEF Counted, u

LEMMA CountTold ==
  ASSUME NEW s \in Subscription, NEW b \in Seq(Nat), NEW n \in Nat, Counted(s, b, n)
  PROVE  Counted([s EXCEPT !.told = @ \o b], << >>, n)
<1> DEFINE u == [s EXCEPT !.told = @ \o b]
           e == << >>
<1>1. s.told \in Seq(Nat) /\ s.queue \in Seq(Nat)
  BY DEF Subscription
<1>2. u.told = s.told \o b /\ u.from = s.from /\ u.missed = s.missed /\ u.queue = s.queue
  BY DEF Subscription
<1>3. (s.told \o b) \o << >> = s.told \o b
  <2> DEFINE a == s.told \o b
  <2>1. a \in Seq(Nat)
    BY <1>1
  <2> HIDE DEF a
  <2>2. a \o << >> = a
    BY <2>1
  <2> QED
    BY <2>2 DEF a
<1> HIDE DEF u
<1> QED
  BY <1>2, <1>3 DEF Counted, u

LEMMA CountMissed ==
  ASSUME NEW s \in Subscription, NEW b \in Seq(Nat), NEW n \in Nat, Counted(s, b, n)
  PROVE  Counted([s EXCEPT !.missed = @ \cup Values(b)], << >>, n)
<1> DEFINE u == [s EXCEPT !.missed = @ \cup Values(b)]
           all == (s.from + 1) .. n
           kept == (s.told \o b) \o s.queue
<1>1. s.told \in Seq(Nat) /\ s.queue \in Seq(Nat)
  BY DEF Subscription
<1>2. u.told = s.told /\ u.from = s.from /\ u.missed = s.missed \cup Values(b) /\ u.queue = s.queue
  BY DEF Subscription
<1>3. s.told \o << >> = s.told
  BY <1>1
<1>4. Rising(kept) /\ Values(kept) = all \ s.missed /\ s.from <= n /\ s.missed \subseteq all
  BY DEF Counted
<1>5. /\ Rising(s.told \o s.queue) /\ Values(s.told \o s.queue) = Values(kept) \ Values(b)
      /\ Values(b) \subseteq Values(kept)
  BY <1>1, <1>4, TakeMiddle
<1>6. Values(b) \subseteq all
  BY <1>4, <1>5
<1> HIDE DEF u, all, kept
<1>7. Values(s.told \o s.queue) = all \ (s.missed \cup Values(b))
  BY <1>4, <1>5
<1>8. s.missed \cup Values(b) \subseteq all
  BY <1>4, <1>6
<1>9. Counted(u, << >>, n)
  BY <1>2, <1>3, <1>4, <1>5, <1>7, <1>8 DEF Counted, all
<1> QED
  BY <1>9 DEF u

LEMMA CountNew ==
  ASSUME NEW n \in Nat
  PROVE  Counted([from |-> n, queue |-> << >>, told |-> << >>, missed |-> {}], << >>, n)
<1> DEFINE s == [from |-> n, queue |-> << >>, told |-> << >>, missed |-> {}]
           e == << >>
<1>1. s.from = n /\ s.queue = e /\ s.told = e /\ s.missed = {}
  OBVIOUS
<1>2. (e \o e) \o e = e /\ DOMAIN e = {}
  OBVIOUS
<1>3. (n + 1) .. n = {}
  OBVIOUS
<1> HIDE DEF s, e
<1>4. Rising(e) /\ Values(e) = {}
  BY <1>2 DEF Rising, Values
<1>5. Counted(s, e, n)
  BY <1>1, <1>2, <1>3, <1>4 DEF Counted
<1> QED
  BY <1>5 DEF s, e

\* Steps that change no spy and no handle that is watched.
LEMMA CountsStay ==
  ASSUME CountInv, UNCHANGED <<subscriptions, events, emitted>>,
         \A id \in Ids : objects[id] \in Nodes => objects'[id] = objects[id]
  PROVE  CountInv'
BY DEF CountInv, InBatch

LEMMA IssueKeepsObjects ==
  ASSUME CoreInv, NEW o \in Nodes, Issue(o) \/ UNCHANGED objects
  PROVE  \A id \in Ids : objects[id] \in Nodes => objects'[id] = objects[id]
<1>1. CASE UNCHANGED objects
  BY <1>1
<1>2. CASE Issue(o)
  <2>1. nextObjectId \in Ids /\ objects[nextObjectId] = Null
    <3>1. nextObjectId \in Ids /\ nextObjectId \in Nat
      BY <1>2, IssueHolds DEF CoreInv
    <3> QED
      BY <3>1 DEF CoreInv, HandleInv, Single
  <2> QED
    BY <1>2, <2>1, IssueHolds, Apart DEF CoreInv
<1> QED
  BY <1>1, <1>2

LEMMA EmitCounts ==
  ASSUME PollInv, CountInv, NEW o \in alive, Emit(o), UNCHANGED <<objects, events>>
  PROVE  CountInv'
<1>0. CoreInv /\ PollOK
  BY DEF PollInv
<1>1. /\ emitted' = [emitted EXCEPT ![o] = @ + 1] /\ emitted \in [Nodes -> Nat] /\ o \in Nodes
  BY <1>0 DEF Emit, CoreInv, TreeOK
<1> SUFFICES ASSUME NEW id \in Ids, NEW k \in DOMAIN subscriptions'[id]
             PROVE  /\ objects'[id] \in Nodes
                    /\ Counted(subscriptions'[id][k], SignalsIn(events', id, k), emitted'[objects'[id]])
  BY DEF CountInv, InBatch
<1>2. k \in DOMAIN subscriptions[id]
  BY <1>0, EmitTyped
<1>3. /\ objects[id] \in Nodes
      /\ Counted(subscriptions[id][k], SignalsIn(events, id, k), emitted[objects[id]])
  BY <1>2 DEF CountInv, InBatch
<1>4. CASE objects[id] # o
  <2>1. subscriptions'[id] = subscriptions[id] /\ emitted'[objects[id]] = emitted[objects[id]]
    BY <1>0, <1>1, <1>3, <1>4, EmitTyped
  <2> QED
    BY <1>3, <2>1
<1>5. CASE objects[id] = o
  <2>1. emitted'[o] = emitted[o] + 1 /\ emitted[o] \in Nat
    BY <1>1
  <2>2. subscriptions'[id][k] = [subscriptions[id][k] EXCEPT !.queue = Append(@, emitted[o] + 1)]
    BY <1>0, <1>2, <1>5, EmitTyped
  <2>3. subscriptions[id][k] \in Subscription
    BY <1>0, <1>2 DEF PollOK
  <2>4. SignalsIn(events, id, k) \in Seq(Nat)
    BY <1>0, SignalsTyped DEF PollOK
  <2>5. Counted(subscriptions'[id][k], SignalsIn(events, id, k), emitted[o] + 1)
    <3> DEFINE s == subscriptions[id][k]
               b == SignalsIn(events, id, k)
               n == emitted[o]
    <3>1. s \in Subscription /\ b \in Seq(Nat) /\ n \in Nat /\ Counted(s, b, n)
      BY <1>3, <1>5, <2>1, <2>3, <2>4
    <3>2. subscriptions'[id][k] = [s EXCEPT !.queue = Append(@, n + 1)]
      BY <2>2
    <3> HIDE DEF s, b, n
    <3>3. Counted([s EXCEPT !.queue = Append(@, n + 1)], b, n + 1)
      BY <3>1, CountEmit
    <3> QED
      BY <3>2, <3>3 DEF s, b, n
  <2> QED
    BY <1>3, <1>5, <2>1, <2>5
<1> QED
  BY <1>4, <1>5

LEMMA ConnectCounts ==
  ASSUME PollInv, CountInv, NEW t, NEW id \in Ids, Connect(t, id)
  PROVE  CountInv'
<1>0. CoreInv /\ PollOK /\ events = << >> /\ UNCHANGED <<events, emitted, objects>>
  BY DEF PollInv, Live, Connect, Ready, treeVars, tableVars, pollVars
<1> DEFINE s == subscriptions[id]
<1> SUFFICES ASSUME NEW i \in Ids, NEW k \in DOMAIN subscriptions'[i]
             PROVE  /\ objects'[i] \in Nodes
                    /\ Counted(subscriptions'[i][k], SignalsIn(events', i, k), emitted'[objects'[i]])
  BY DEF CountInv, InBatch
<1>1. CASE i = id /\ k = Len(s) + 1
  <2>1. /\ objects[id] \in Nodes /\ emitted[objects[id]] \in Nat
        /\ subscriptions'[i][k] =
             [from |-> emitted[objects[id]], queue |-> << >>, told |-> << >>, missed |-> {}]
    BY <1>0, <1>1, ConnectTyped
  <2>2. SignalsIn(events', i, k) = << >>
    BY <1>0, SignalsNone
  <2> QED
    BY <2>1, <2>2, <1>0, <1>1, CountNew
<1>2. CASE ~ (i = id /\ k = Len(s) + 1)
  <2>1. k \in DOMAIN subscriptions[i] /\ subscriptions'[i][k] = subscriptions[i][k]
    <3>1. CASE i = id
      BY <3>1, <1>0, <1>2, ConnectTyped
    <3>2. CASE i # id
      BY <3>2, <1>0, ConnectTyped
    <3> QED
      BY <3>1, <3>2
  <2> QED
    BY <2>1, <1>0 DEF CountInv, InBatch
<1> QED
  BY <1>1, <1>2

LEMMA TakeCounts ==
  ASSUME PollInv, CountInv, NEW id \in Ids, NEW k \in DOMAIN subscriptions[id], TakeSignal(id, k)
  PROVE  CountInv'
<1>0. CoreInv /\ PollOK /\ UNCHANGED <<emitted, objects>> /\ events \in Seq(Event)
  BY DEF PollInv, PollOK, TakeSignal, registerValue, treeVars, tableVars
<1> DEFINE q == subscriptions[id][k].queue
           e == [id |-> id, k |-> k, signal |-> Head(q)]
<1>t. Taking(id, k, e)
  BY <1>0, TakeTyped
<1> HIDE DEF e
<1>1. /\ q \in Seq(Nat) /\ q # << >> /\ e \in Event
      /\ e.id = id /\ e.k = k /\ e.signal = Head(q) /\ events' = Append(events, e)
  BY <1>t DEF Taking
<1> SUFFICES ASSUME NEW i \in Ids, NEW j \in DOMAIN subscriptions'[i]
             PROVE  /\ objects'[i] \in Nodes
                    /\ Counted(subscriptions'[i][j], SignalsIn(events', i, j), emitted'[objects'[i]])
  BY DEF CountInv, InBatch
<1>2. j \in DOMAIN subscriptions[i]
  BY <1>t DEF Taking
<1>3. /\ objects[i] \in Nodes /\ emitted[objects[i]] \in Nat
      /\ Counted(subscriptions[i][j], SignalsIn(events, i, j), emitted[objects[i]])
  BY <1>2, <1>0 DEF CountInv, InBatch, CoreInv, TreeOK
<1>4. CASE i = id /\ j = k
  <2>1. SignalsIn(events', i, j) = Append(SignalsIn(events, i, j), Head(q))
        /\ SignalsIn(events, i, j) \in Seq(Nat)
    BY <1>0, <1>1, <1>4, SignalsAppend
  <2>2. subscriptions'[i][j] = [subscriptions[i][j] EXCEPT !.queue = Tail(@)]
    BY <1>t, <1>2, <1>4 DEF Taking
  <2>3. subscriptions[i][j] \in Subscription /\ subscriptions[i][j].queue = q
    BY <1>0, <1>2, <1>4 DEF PollOK
  <2>4. Counted([subscriptions[i][j] EXCEPT !.queue = Tail(@)],
                Append(SignalsIn(events, i, j), Head(subscriptions[i][j].queue)), emitted[objects[i]])
    BY <1>1, <1>3, <2>1, <2>3, CountTake
  <2> QED
    BY <2>1, <2>2, <2>3, <2>4, <1>0, <1>3
<1>5. CASE ~ (i = id /\ j = k)
  <2>1. SignalsIn(events', i, j) = SignalsIn(events, i, j)
    BY <1>0, <1>1, <1>5, SignalsAppend
  <2>2. subscriptions'[i][j] = subscriptions[i][j]
    <3>1. CASE i = id
      BY <3>1, <1>t, <1>2, <1>5 DEF Taking
    <3>2. CASE i # id
      BY <3>2, <1>t DEF Taking
    <3> QED
      BY <3>1, <3>2
  <2> QED
    BY <2>1, <2>2, <1>0, <1>3
<1> QED
  BY <1>4, <1>5

LEMMA RespondCounts ==
  ASSUME PollInv, CountInv, NEW fits \in BOOLEAN, Respond(fits)
  PROVE  CountInv'
<1>0. CoreInv /\ PollOK /\ UNCHANGED <<emitted, objects>> /\ events' = << >>
  BY DEF PollInv, Respond, treeVars, tableVars
<1> SUFFICES ASSUME NEW i \in Ids, NEW j \in DOMAIN subscriptions'[i]
             PROVE  /\ objects'[i] \in Nodes
                    /\ Counted(subscriptions'[i][j], SignalsIn(events', i, j), emitted'[objects'[i]])
  BY DEF CountInv, InBatch
<1> DEFINE s == subscriptions[i][j]
           b == InBatch(i, j)
           n == emitted[objects[i]]
<1>1. j \in DOMAIN subscriptions[i]
  BY <1>0, RespondTyped
<1>2. objects[i] \in Nodes /\ n \in Nat /\ Counted(s, b, n)
  BY <1>1, <1>0 DEF CountInv, CoreInv, TreeOK
<1>3. s \in Subscription
  BY <1>0, <1>1 DEF PollOK
<1>4. b \in Seq(Nat) /\ subscriptions'[i][j] = IF fits THEN [s EXCEPT !.told = @ \o b]
                                                      ELSE [s EXCEPT !.missed = @ \cup Values(b)]
  BY <1>0, <1>1, RespondTyped
<1>5. SignalsIn(events', i, j) = << >>
  BY <1>0, SignalsNone
<1> HIDE DEF s, b
<1>6. Counted(subscriptions'[i][j], << >>, n)
  BY <1>2, <1>3, <1>4, CountTold, CountMissed
<1> QED
  BY <1>0, <1>2, <1>5, <1>6

\* Each step of Next preserves CountInv.
LEMMA CountStep == PollInv /\ CountInv /\ [Next]_vars => CountInv'
<1> SUFFICES ASSUME PollInv, CountInv, [Next]_vars PROVE CountInv'
  OBVIOUS
<1>c. CoreInv /\ PollOK /\ Live /\ alive \subseteq Nodes /\ Objs \subseteq Nodes
  BY Apart DEF PollInv, CoreInv, TreeOK
<1>i. ASSUME NEW o \in Nodes, Issue(o) \/ UNCHANGED objects, UNCHANGED <<subscriptions, events, emitted>>
      PROVE  CountInv'
  BY <1>i, <1>c, IssueKeepsObjects, CountsStay
<1>u. ASSUME UNCHANGED <<objects, subscriptions, events, emitted>> PROVE CountInv'
  BY <1>u, CountsStay
<1>1. ASSUME NEW t \in Threads, Application(t) PROVE CountInv'
  BY <1>1, <1>u DEF Application, tableVars, pollVars
<1>2. ASSUME NEW t \in Threads, Shutdown(t) PROVE CountInv'
  <2>1. subscriptions' = [id \in Ids |-> << >>]
    BY <1>2 DEF Shutdown, StopApplication
  <2>2. \A id \in Ids : DOMAIN subscriptions'[id] = {}
    BY <2>1
  <2> QED
    BY <2>2 DEF CountInv
<1>3. ASSUME NEW t \in Threads, Request(t) PROVE CountInv'
  <2>1. CASE New(t)
    <3>1. PICK o \in Objs : Issue(o) /\ UNCHANGED emitted
      BY <2>1 DEF New, Requested, Create
    <3> QED
      BY <2>1, <3>1, <1>c, <1>i DEF New, pollVars
  <2>2. CASE ValueNew(t) \/ ValueResult(t)
    BY <2>2, <1>u DEF ValueNew, ValueResult, registerValue, treeVars, pollVars
  <2>3. CASE CallReturns(t)
    <3>1. PICK o \in alive : Issue(o) \/ UNCHANGED objects
      BY <2>3 DEF CallReturns, registerObject, tableVars
    <3> QED
      BY <2>3, <3>1, <1>c, <1>i DEF CallReturns, treeVars, pollVars
  <2>4. ASSUME NEW id \in Ids, CallCreates(t, id) PROVE CountInv'
    <3>1. PICK o \in Objs : (Issue(o) \/ UNCHANGED objects) /\ UNCHANGED emitted
      BY <2>4 DEF CallCreates, Requested, Create, registerObject, tableVars
    <3> QED
      BY <2>4, <3>1, <1>c, <1>i DEF CallCreates, pollVars
  <2>5. ASSUME NEW id \in Ids, NEW arg \in Ids,
               ValueDelete(t, id) \/ Get(t, id) \/ CallDestroys(t, id) \/ CallAdopts(t, id, arg)
        PROVE  CountInv'
    BY <2>5, <1>u DEF ValueDelete, Get, CallDestroys, CallAdopts, Destroy, registerValue,
                      treeVars, tableVars, pollVars
  <2>6. ASSUME NEW id \in Ids, SetProperty(t, id) PROVE CountInv'
    BY <2>6, EmitCounts DEF SetProperty, tableVars, pollVars
  <2>7. ASSUME NEW id \in Ids, Delete(t, id) PROVE CountInv'
    <3>1. /\ UNCHANGED <<events, emitted>> /\ subscriptions' = DropGroups(id)
          /\ objects' = [i \in Ids |-> IF i \in Invalidated(objects[id]) THEN Null ELSE objects[i]]
      BY <2>7 DEF Delete, Destroy, pollVars
    <3>2. ASSUME NEW i \in Ids, i \in Invalidated(objects[id]) PROVE DOMAIN subscriptions'[i] = {}
      BY <3>1, <3>2 DEF DropGroups
    <3>3. ASSUME NEW i \in Ids, i \notin Invalidated(objects[id])
          PROVE  subscriptions'[i] = subscriptions[i] /\ objects'[i] = objects[i]
      BY <3>1, <3>3 DEF DropGroups
    <3> QED
      BY <3>1, <3>2, <3>3 DEF CountInv, InBatch
  <2>8. ASSUME NEW max \in Limits, EventsBegin(t, max) PROVE CountInv'
    BY <2>8, <1>u DEF EventsBegin, treeVars, tableVars
  <2> QED
    BY <1>3, <2>1, <2>2, <2>3, <2>4, <2>5, <2>6, <2>7, <2>8, ConnectCounts DEF Request
<1>4. CASE Served
  <2>1. CASE LoopEmits
    BY <2>1, EmitCounts DEF LoopEmits, tableVars, pollVars
  <2>2. CASE LoopCreates \/ LoopDestroys \/ LoopEnds
    BY <2>2, <1>u
    DEF LoopCreates, LoopDestroys, LoopEnds, Create, Destroy, treeVars, tableVars, pollVars
  <2>3. ASSUME NEW id \in Ids, EraseGroup(id) PROVE CountInv'
    <3>1. /\ UNCHANGED <<events, emitted, objects>>
          /\ subscriptions' = [subscriptions EXCEPT ![id] = << >>]
      BY <2>3 DEF EraseGroup, treeVars, tableVars, pollVars
    <3>2. DOMAIN subscriptions'[id] = {} /\ \A i \in Ids : i # id => subscriptions'[i] = subscriptions[i]
      BY <3>1, <1>c DEF PollOK
    <3> QED
      BY <3>1, <3>2 DEF CountInv, InBatch
  <2> QED
    BY <1>4, <2>1, <2>2, <2>3, TakeCounts, RespondCounts DEF Served
<1>5. CASE UNCHANGED vars
  BY <1>5, <1>u DEF vars, treeVars, tableVars, pollVars
<1> QED
  BY <1>1, <1>2, <1>3, <1>4, <1>5, StepKinds

\* Every signal since connect reaches the caller once and in order, is in the
\* response or in the spy, or went into a response that did not fit the
\* caller's buffer: for any number of objects, spies, signals and batches, and
\* although objects die and handles close at any time.
THEOREM SignalsComeOnce == Spec => []SignalsOnce
<1> DEFINE Inv == PollInv /\ CountInv
<1>1. Init => CountInv
  <2> SUFFICES ASSUME Init PROVE CountInv
    OBVIOUS
  <2>1. \A id \in Ids : DOMAIN subscriptions[id] = {}
    BY DEF Init
  <2> QED
    BY <2>1 DEF CountInv
<1>2. Inv => SignalsOnce
  <2> SUFFICES ASSUME CountInv, NEW id \in Ids, NEW k \in DOMAIN subscriptions[id]
               PROVE  LET s == subscriptions[id][k]
                          kept == s.told \o InBatch(id, k) \o s.queue
                          all == (s.from + 1) .. emitted[objects[id]]
                      IN /\ \A i, j \in DOMAIN kept : i < j => kept[i] < kept[j]
                         /\ {kept[i] : i \in DOMAIN kept} = all \ s.missed
    BY DEF SignalsOnce
  <2>1. Counted(subscriptions[id][k], InBatch(id, k), emitted[objects[id]])
    BY DEF CountInv
  <2> QED
    BY <2>1 DEF Counted, Rising, Values
<1>3. Inv /\ [Next]_vars => Inv'
  BY PollStep, CountStep
<1>4. Init => Inv
  BY <1>1, PollInit
<1> QED
  BY <1>2, <1>3, <1>4, PTL DEF Spec
=============================================================================
