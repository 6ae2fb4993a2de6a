---------------------------- MODULE DiscordGateway ----------------------------
(***************************************************************************)
(* The state behind the discord_gateway_* builtins: one gateway session,   *)
(* its outbound event budget, and the member queries that wait for their   *)
(* chunks.  The process that runs Bot.run (Loop) binds and unbinds the     *)
(* session and feeds it the events it receives; every process, workers     *)
(* included, may send updates and start queries.                           *)
(*                                                                         *)
(* There are two mutexes.  state.mu guards the fields and is never held    *)
(* across I/O: a critical section of it is one step here.  sessionMu is    *)
(* held while a frame is written, so it is a variable; a builtin waits for *)
(* it, and the time a query is stamped with is read before that wait.      *)
(***************************************************************************)
EXTENDS Integers, Sequences, FiniteSets, Functions

CONSTANTS
  Procs,          \* the main program and workers
  Loop,           \* the one that runs Bot.run
  Nonces, Guilds,
  Intents,        \* the intents the bot connects with
  Requests,       \* what a query may ask for: sets of intents it needs
  Sizes,          \* sizes of a chunk in bytes (at least the 64 the code adds)
  MaxChunkCount,  \* 4096 in the code
  EventLimit,     \* discordGatewayEventLimit
  Window,         \* discordGatewayEventWindow
  PendingLimit,   \* discordMemberChunkPendingLimit
  ByteLimit,      \* discordMemberChunkAggregateLimit
  TTL,            \* discordMemberChunkRequestTTL
  FullInterval,   \* discordFullMemberRequestInterval
  MaxQueries,     \* a bound: calls of discord_gateway_request_members
  MaxClock        \* a bound: the last instant

ASSUME LoopAssumption == Loop \in Procs
ASSUME ProcsAssumption == IsFiniteSet(Procs)
ASSUME NamesAssumption == IsFiniteSet(Nonces) /\ Nonces # {} /\ Guilds # {}
ASSUME RequestsAssumption == Requests \subseteq SUBSET {"members", "presences"}
ASSUME IntentsAssumption == Intents \subseteq {"members", "presences"}
ASSUME SizesAssumption == Sizes \subseteq Nat \ {0}
ASSUME LimitsAssumption ==
  /\ MaxChunkCount \in Nat \ {0} /\ EventLimit \in Nat \ {0} /\ PendingLimit \in Nat \ {0}
  /\ ByteLimit \in Nat /\ TTL \in Nat /\ Window \in Nat \ {0} /\ FullInterval \in Nat \ {0}
  /\ MaxQueries \in Nat /\ MaxClock \in Nat

Ids == 1 .. MaxQueries          \* calls of request_members, numbered
Never == -1                     \* no entry in fullListAt
Free == "free"                  \* nobody holds sessionMu
ASSUME FreeAssumption == Free \notin Procs

\* A discordMemberChunkRequest; id 0 stands for "no such nonce".
Query == [id : 0 .. MaxQueries, guild : Guilds, count : 0 .. MaxChunkCount,
          got : SUBSET (0 .. MaxChunkCount - 1), bytes : Nat, at : Nat]
NoQuery == [id |-> 0, guild |-> CHOOSE g \in Guilds : TRUE, count |-> 0, got |-> {},
            bytes |-> 0, at |-> 0]

Reasons == {"timeout", "chunk_metadata_mismatch", "aggregate_limit_exceeded",
            "rate_limited", "result_encoding_failed"}

VARIABLES
  clock,
  sessionMu,    \* who holds it
  socket,       \* "none" (unbound), "open" or "closed" (by the peer or an error)
  chunks,       \* state.chunks
  chunkBytes,
  fullListAt,   \* when a full list of the guild was last asked for, or Never
  outbound,     \* state.outboundEvents
  failures,     \* state.failures: the query and the reason
  pc,           \* "idle", "request" (waiting for sessionMu), "send", "update", "encode"
  arg,          \* arg[p]: the query p is asking for, or encodes, or its update's time
  issued,       \* history: number of queries asked for so far
  told,         \* history: what the caller was answered, "none", "ok" or "err"
  reports,      \* history: how many results and failures Bot.run was handed
  stamps,       \* history: the stamps of this session that are within Window
  late          \* history: frames written within Window, after they were stamped

gateway == <<socket, chunks, chunkBytes, fullListAt, outbound, failures>>
history == <<issued, told, reports, stamps, late>>
vars == <<clock, sessionMu, pc, arg, gateway, history>>

Call == [id : 0 .. MaxQueries, nonce : Nonces, guild : Guilds,
         needs : SUBSET {"members", "presences"}, now : Nat]
NoCall == [id |-> 0, nonce |-> CHOOSE n \in Nonces : TRUE, guild |-> NoQuery.guild,
           needs |-> {}, now |-> 0]

\* A frame of p with the time it was entered in the budget with, and the time
\* it was written.
Frame == [p : Procs, stamp : Nat, at : Nat]

\* Every variable has the shape the Go declarations give it.
TypeOK ==
  /\ clock \in Nat
  /\ sessionMu \in Procs \cup {Free}
  /\ socket \in {"none", "open", "closed"}
  /\ chunks \in [Nonces -> Query] /\ chunkBytes \in 0 .. ByteLimit
  /\ fullListAt \in [Guilds -> Nat \cup {Never}]
  /\ outbound \in Seq(Nat) /\ Len(outbound) <= EventLimit
  /\ failures \in SUBSET (Ids \X Reasons)
  /\ pc \in [Procs -> {"idle", "request", "send", "update", "encode"}]
  /\ arg \in [Procs -> Call]
  /\ issued \in 0 .. MaxQueries
  /\ told \in [Ids -> {"none", "ok", "err"}]
  /\ reports \in [Ids -> Nat]
  /\ stamps \in Seq(Nat) /\ late \in SUBSET Frame

Init ==
  /\ clock = 0 /\ sessionMu = Free /\ socket = "none"
  /\ chunks = [n \in Nonces |-> NoQuery] /\ chunkBytes = 0
  /\ fullListAt = [g \in Guilds |-> Never]
  /\ outbound = << >> /\ failures = {}
  /\ pc = [p \in Procs |-> "idle"] /\ arg = [p \in Procs |-> NoCall]
  /\ issued = 0
  /\ told = [i \in Ids |-> "none"] /\ reports = [i \in Ids |-> 0]
  /\ stamps = << >> /\ late = {}

\* The loop that keeps, in order, the events that are within Window at now.
Active(events, now) ==
  LET kept[k \in 0 .. Len(events)] ==
        IF k = 0 THEN << >>
        ELSE IF now - events[k] < Window THEN Append(kept[k-1], events[k])
        ELSE kept[k-1]
  IN kept[Len(events)]

Tick ==
  /\ clock < MaxClock
  /\ clock' = clock + 1
  /\ stamps' = Active(stamps, clock + 1)
  /\ late' = {f \in late : clock + 1 - f.at < Window}
  /\ UNCHANGED <<sessionMu, pc, arg, gateway, issued, told, reports>>

\* The builtin p is in returns, and its locals are gone.
Return(p) ==
  /\ pc' = [pc EXCEPT ![p] = "idle"]
  /\ arg' = [arg EXCEPT ![p] = NoCall]

---------------------------------------------------------------------------
\* The pending queries.
Pending == {n \in Nonces : chunks[n].id # 0}

\* What the queries in S hold together.
Bytes(S) == FoldFunctionOnSet(+, 0, [n \in Nonces |-> chunks[n].bytes], S)

\* Those that expireDiscordMemberChunkRequestsLocked removes at time now.
Expired(now) == {n \in Pending : now - chunks[n].at > TTL}

\* A mutant of Drop: the bytes of a removed query are not given back.
DropNot(S) == chunkBytes

\* chunkBytes after removeDiscordMemberChunkRequestLocked of the queries in S.
Drop(S) == IF chunkBytes < Bytes(S) THEN 0 ELSE chunkBytes - Bytes(S)

\* The expired queries fail with "timeout" and those in S for the reason
\* given; all of them are removed.
Fail(now, S, reason) ==
  /\ chunks' = [n \in Nonces |-> IF n \in Expired(now) \cup S THEN NoQuery ELSE chunks[n]]
  /\ chunkBytes' = Drop(Expired(now) \cup S)
  /\ failures' = failures \cup {<<chunks[n].id, "timeout">> : n \in Expired(now)}
                          \cup {<<chunks[n].id, reason>> : n \in S \ Expired(now)}

Expire(now) == Fail(now, {}, "timeout")

\* A mutant of BudgetLeft: one event too many.
BudgetLeftOffByOne(now) == Len(Active(outbound, now)) <= EventLimit

BudgetLeft(now) == Len(Active(outbound, now)) < EventLimit

---------------------------------------------------------------------------
(***************************************************************************)
(* The session                                                             *)
(***************************************************************************)
LoopIdle == pc[Loop] = "idle"

\* discord_gateway_session_bind of a new connection; Bot.run has unbound the
\* previous one.  Identify is the first event of the budget.
Bind ==
  /\ LoopIdle /\ sessionMu = Free
  /\ socket = "none"
  /\ socket' = "open"
  /\ chunks' = [n \in Nonces |-> NoQuery] /\ chunkBytes' = 0
  /\ outbound' = <<clock>> /\ stamps' = <<clock>> /\ late' = {}
  /\ failures' = {}
  /\ UNCHANGED <<clock, sessionMu, fullListAt, pc, arg, issued, told, reports>>

\* The peer closes the connection, or reading from it fails.
PeerCloses ==
  /\ socket = "open"
  /\ socket' = "closed"
  /\ UNCHANGED <<clock, sessionMu, chunks, chunkBytes, fullListAt, outbound, failures,
                 pc, arg, history>>

\* Bot.run has been handed the outcome of the queries in S.
Report(S) == reports' = [i \in Ids |-> IF i \in S THEN reports[i] + 1 ELSE reports[i]]

\* A mutant of Unbind: pending queries are dropped without a word.
UnbindForgets ==
  /\ LoopIdle /\ sessionMu = Free
  /\ socket # "none"
  /\ Report({f[1] : f \in failures})
  /\ socket' = "none"
  /\ chunks' = [n \in Nonces |-> NoQuery] /\ chunkBytes' = 0
  /\ outbound' = << >> /\ stamps' = << >> /\ late' = {}
  /\ failures' = {}
  /\ UNCHANGED <<clock, sessionMu, fullListAt, pc, arg, issued, told>>

\* discord_gateway_session_unbind returns the failures that were queued, and
\* one for every pending query.
Unbind ==
  /\ LoopIdle /\ sessionMu = Free
  /\ socket # "none"
  /\ Report({f[1] : f \in failures} \cup {chunks[n].id : n \in Pending})
  /\ socket' = "none"
  /\ chunks' = [n \in Nonces |-> NoQuery] /\ chunkBytes' = 0
  /\ outbound' = << >> /\ stamps' = << >> /\ late' = {}
  /\ failures' = {}
  /\ UNCHANGED <<clock, sessionMu, fullListAt, pc, arg, issued, told>>

---------------------------------------------------------------------------
(***************************************************************************)
(* Sending                                                                 *)
(***************************************************************************)

\* History: the frame p has written, if some time after it was stamped.
Written(p) ==
  late' = late \cup {f \in {[p |-> p, stamp |-> arg[p].now, at |-> clock]} : f.stamp < f.at}

\* A mutant of SendUpdate: what is sent is not entered in the budget.
SendUpdateUncounted(p) ==
  /\ pc[p] = "idle" /\ sessionMu = Free
  /\ socket = "open" /\ BudgetLeft(clock)
  /\ outbound' = Active(outbound, clock)
  /\ stamps' = Append(stamps, clock)
  /\ arg' = [arg EXCEPT ![p] = [NoCall EXCEPT !.now = clock]]
  /\ sessionMu' = p
  /\ pc' = [pc EXCEPT ![p] = "update"]
  /\ UNCHANGED <<clock, socket, chunks, chunkBytes, fullListAt, failures,
                 issued, told, reports, late>>

\* discord_gateway_send; with no open session it fails and nothing changes.
\* Here the time is read under the mutex.
SendUpdate(p) ==
  /\ pc[p] = "idle" /\ sessionMu = Free
  /\ socket = "open"
  /\ \/ /\ BudgetLeft(clock)
        /\ outbound' = Append(Active(outbound, clock), clock)
        /\ stamps' = Append(stamps, clock)
        /\ arg' = [arg EXCEPT ![p] = [NoCall EXCEPT !.now = clock]]
        /\ sessionMu' = p
        /\ pc' = [pc EXCEPT ![p] = "update"]
     \/ /\ ~ BudgetLeft(clock)
        /\ outbound' = Active(outbound, clock)
        /\ UNCHANGED <<sessionMu, pc, arg, stamps>>
  /\ UNCHANGED <<clock, socket, chunks, chunkBytes, fullListAt, failures,
                 issued, told, reports, late>>

\* The frame has been written, or could not be: the budget is spent anyway.
UpdateReturns(p) ==
  /\ pc[p] = "update"
  /\ sessionMu' = Free
  /\ Written(p) /\ Return(p)
  /\ UNCHANGED <<clock, gateway, issued, told, reports, stamps>>

\* discord_gateway_request_members with valid arguments, up to sessionMu.  A
\* bound: it is called early enough for the query to expire.
RequestMembers(p, n, g, needs) ==
  /\ pc[p] = "idle"
  /\ issued < MaxQueries
  /\ clock + TTL < MaxClock
  /\ issued' = issued + 1
  /\ arg' = [arg EXCEPT ![p] = [id |-> issued + 1, nonce |-> n, guild |-> g,
                                needs |-> needs, now |-> clock]]
  /\ pc' = [pc EXCEPT ![p] = "request"]
  /\ UNCHANGED <<clock, sessionMu, gateway, told, reports, stamps, late>>

\* fullListAt without the entries that are too old to matter at time now.
Recent(now) == [g \in Guilds |->
  IF fullListAt[g] # Never /\ now - fullListAt[g] >= FullInterval THEN Never ELSE fullListAt[g]]

TooSoon(c) == "members" \in c.needs /\ Recent(c.now)[c.guild] # Never

Refuse(p) ==
  /\ told' = [told EXCEPT ![arg[p].id] = "err"]
  /\ Return(p)
  /\ UNCHANGED <<sessionMu, stamps, late>>

\* p has sessionMu and mu: the query is refused ...
RequestRefused(p) ==
  LET c == arg[p]
      left == Pending \ Expired(c.now)
      full == \/ ~ BudgetLeft(c.now) \/ c.nonce \in left
              \/ Cardinality(left) >= PendingLimit
  IN
  /\ pc[p] = "request" /\ sessionMu = Free
  /\ Expire(c.now)
  /\ \/ /\ socket # "open" \/ ~ (c.needs \subseteq Intents)
        /\ UNCHANGED <<fullListAt, outbound>>
     \/ /\ socket = "open" /\ c.needs \subseteq Intents
        /\ TooSoon(c)
        /\ fullListAt' = Recent(c.now)
        /\ UNCHANGED outbound
     \/ /\ socket = "open" /\ c.needs \subseteq Intents
        /\ ~ TooSoon(c) /\ full
        /\ fullListAt' = Recent(c.now)
        /\ outbound' = Active(outbound, c.now)
  /\ Refuse(p)
  /\ UNCHANGED <<clock, socket, issued, reports>>

\* ... or registered, with the stamp that was read before the wait.
RequestAccepted(p) ==
  LET c == arg[p]
      left == Pending \ Expired(c.now)
  IN
  /\ pc[p] = "request" /\ sessionMu = Free
  /\ socket = "open" /\ c.needs \subseteq Intents
  /\ ~ TooSoon(c) /\ BudgetLeft(c.now)
  /\ c.nonce \notin left /\ Cardinality(left) < PendingLimit
  /\ chunks' = [n \in Nonces |->
       IF n = c.nonce THEN [NoQuery EXCEPT !.id = c.id, !.guild = c.guild, !.at = c.now]
       ELSE IF n \in left THEN chunks[n] ELSE NoQuery]
  /\ chunkBytes' = Drop(Expired(c.now))
  /\ failures' = failures \cup {<<chunks[n].id, "timeout">> : n \in Expired(c.now)}
  /\ outbound' = Append(Active(outbound, c.now), c.now)
  /\ stamps' = Append(stamps, c.now)
  /\ fullListAt' = IF "members" \in c.needs THEN [Recent(c.now) EXCEPT ![c.guild] = c.now]
                                            ELSE Recent(c.now)
  /\ sessionMu' = p
  /\ pc' = [pc EXCEPT ![p] = "send"]
  /\ UNCHANGED <<clock, socket, arg, issued, told, reports, late>>

\* The frame has been written.
RequestSent(p) ==
  /\ pc[p] = "send" /\ socket = "open"
  /\ told' = [told EXCEPT ![arg[p].id] = "ok"]
  /\ sessionMu' = Free
  /\ Written(p) /\ Return(p)
  /\ UNCHANGED <<clock, gateway, issued, reports, stamps>>

\* It could not be written: the query is removed if it is still this one.
RequestNotSent(p) ==
  LET mine == {n \in {arg[p].nonce} : chunks[n].id = arg[p].id}
  IN
  /\ pc[p] = "send"
  /\ chunks' = [n \in Nonces |-> IF n \in mine THEN NoQuery ELSE chunks[n]]
  /\ chunkBytes' = Drop(mine)
  /\ told' = [told EXCEPT ![arg[p].id] = "err"]
  /\ sessionMu' = Free
  /\ Return(p)
  /\ UNCHANGED <<clock, socket, fullListAt, outbound, failures,
                 issued, reports, stamps, late>>

---------------------------------------------------------------------------
(***************************************************************************)
(* Events from the gateway.  Chunks may be duplicated, reordered, late or  *)
(* contradict each other.                                                  *)
(***************************************************************************)

\* A mutant of Mismatch: a different chunk count is not noticed.
MismatchCount(q, g, count) == q.guild # g

\* The chunk contradicts its query.
Mismatch(q, g, count) == q.guild # g \/ (q.count # 0 /\ q.count # count)

\* discord_gateway_member_chunk: the chunk changes nothing, ...
ChunkIgnored(n, g, count, i) ==
  /\ LoopIdle
  /\ n \in Pending => \/ n \in Expired(clock)
                      \/ ~ Mismatch(chunks[n], g, count) /\ i \in chunks[n].got
  /\ Expire(clock)
  /\ UNCHANGED <<clock, sessionMu, socket, fullListAt, outbound, pc, arg, history>>

\* ... or it ends its query with a failure, ...
ChunkRejected(n, g, count, i, size) ==
  LET q == chunks[n]
      total == Drop(Expired(clock))
      tooBig == q.bytes + size > ByteLimit \/ total + size > ByteLimit
  IN
  /\ LoopIdle
  /\ n \in Pending \ Expired(clock)
  /\ \/ /\ Mismatch(q, g, count)
        /\ Fail(clock, {n}, "chunk_metadata_mismatch")
     \/ /\ ~ Mismatch(q, g, count) /\ i \notin q.got /\ tooBig
        /\ Fail(clock, {n}, "aggregate_limit_exceeded")
  /\ UNCHANGED <<clock, sessionMu, socket, fullListAt, outbound, pc, arg, history>>

\* ... or it is kept; the last one takes the query out to be encoded.
ChunkKept(n, g, count, i, size) ==
  LET q == chunks[n]
      total == Drop(Expired(clock))
      r == [q EXCEPT !.count = count, !.got = q.got \cup {i}, !.bytes = q.bytes + size]
      whole == Cardinality(r.got) = count
  IN
  /\ LoopIdle
  /\ n \in Pending \ Expired(clock)
  /\ ~ Mismatch(q, g, count) /\ i \notin q.got
  /\ q.bytes + size <= ByteLimit /\ total + size <= ByteLimit
  /\ failures' = failures \cup {<<chunks[m].id, "timeout">> : m \in Expired(clock)}
  /\ \/ /\ whole
        /\ chunks' = [m \in Nonces |->
                        IF m = n \/ m \in Expired(clock) THEN NoQuery ELSE chunks[m]]
        /\ chunkBytes' = IF total + size < r.bytes THEN 0 ELSE total + size - r.bytes
        /\ pc' = [pc EXCEPT ![Loop] = "encode"]
        /\ arg' = [arg EXCEPT ![Loop] = [NoCall EXCEPT !.id = q.id, !.nonce = n]]
     \/ /\ ~ whole
        /\ chunks' = [m \in Nonces |-> IF m = n THEN r
                                       ELSE IF m \in Expired(clock) THEN NoQuery ELSE chunks[m]]
        /\ chunkBytes' = total + size
        /\ UNCHANGED <<pc, arg>>
  /\ UNCHANGED <<clock, sessionMu, socket, fullListAt, outbound, history>>

\* The combined result is encoded after mu was released; it may turn out too
\* large, or not encodable, which is recorded in a critical section of its own.
Encode ==
  /\ pc[Loop] = "encode"
  /\ \/ /\ Report({arg[Loop].id})
        /\ UNCHANGED failures
     \/ /\ \E reason \in {"aggregate_limit_exceeded", "result_encoding_failed"} :
             failures' = failures \cup {<<arg[Loop].id, reason>>}
        /\ UNCHANGED reports
  /\ Return(Loop)
  /\ UNCHANGED <<clock, sessionMu, socket, chunks, chunkBytes, fullListAt, outbound,
                 issued, told, stamps, late>>

\* discord_gateway_rate_limit: the query the event names fails.
RateLimited(n, g) ==
  /\ LoopIdle
  /\ Fail(clock, {m \in Pending \ Expired(clock) : m = n /\ chunks[m].guild = g},
          "rate_limited")
  /\ UNCHANGED <<clock, sessionMu, socket, fullListAt, outbound, pc, arg, history>>

\* A mutant of TakeFailures: nothing expires here.
TakeFailuresOnly ==
  /\ LoopIdle
  /\ Report({f[1] : f \in failures})
  /\ failures' = {}
  /\ UNCHANGED <<clock, sessionMu, socket, chunks, chunkBytes, fullListAt, outbound, pc, arg,
                 issued, told, stamps, late>>

\* discord_gateway_take_member_query_failures, after every event and every
\* receive timeout of Bot.run.
TakeFailures ==
  /\ LoopIdle
  /\ Report({f[1] : f \in failures} \cup {chunks[n].id : n \in Expired(clock)})
  /\ chunks' = [n \in Nonces |-> IF n \in Expired(clock) THEN NoQuery ELSE chunks[n]]
  /\ chunkBytes' = Drop(Expired(clock))
  /\ failures' = {}
  /\ UNCHANGED <<clock, sessionMu, socket, fullListAt, outbound, pc, arg,
                 issued, told, stamps, late>>

---------------------------------------------------------------------------
CallStep(p) ==
  \/ RequestRefused(p) \/ RequestAccepted(p) \/ RequestSent(p) \/ RequestNotSent(p)
  \/ UpdateReturns(p)

Chunk == \E n \in Nonces, g \in Guilds, count \in 1 .. MaxChunkCount :
  \E i \in 0 .. count - 1 :
    \/ ChunkIgnored(n, g, count, i)
    \/ \E size \in Sizes : ChunkRejected(n, g, count, i, size) \/ ChunkKept(n, g, count, i, size)

Next ==
  \/ Tick \/ Bind \/ Unbind \/ PeerCloses
  \/ \E p \in Procs :
       \/ SendUpdate(p)
       \/ \E n \in Nonces, g \in Guilds, needs \in Requests : RequestMembers(p, n, g, needs)
       \/ CallStep(p)
  \/ Chunk \/ Encode
  \/ \E n \in Nonces, g \in Guilds : RateLimited(n, g)
  \/ TakeFailures

Spec == Init /\ [][Next]_vars

\* Time passes, calls return (a write has a deadline), and Bot.run takes the
\* failures whenever it has received something or its receive timed out.
Fairness ==
  /\ WF_vars(Tick) /\ WF_vars(Encode) /\ WF_vars(TakeFailures)
  /\ \A p \in Procs : SF_vars(CallStep(p))

LiveSpec == Spec /\ Fairness

---------------------------------------------------------------------------
(***************************************************************************)
(* Properties                                                              *)
(***************************************************************************)

\* Where the outcome of query i is: still pending, being encoded, in the
\* failure queue, or with Bot.run.
Places(i) ==
  Cardinality({n \in Nonces : chunks[n].id = i})
    + (IF pc[Loop] = "encode" /\ arg[Loop].id = i THEN 1 ELSE 0)
    + Cardinality({f \in failures : f[1] = i})
    + reports[i]

\* Every query whose caller was told "ok" has exactly one outcome, wherever
\* it is: none is lost or reported twice by duplicated or contradicting
\* chunks, expiry, rate limits, a failing write, or the end of the session.
\* A query whose caller was told "err" has at most one, and is not pending.
OneOutcome ==
  \A i \in Ids :
    /\ told[i] = "ok" => Places(i) = 1
    /\ told[i] = "err" => Places(i) <= 1 /\ \A n \in Nonces : chunks[n].id # i

\* chunkBytes is what the pending queries hold, and within the limit: no
\* path of the ten that remove a query forgets it or gives it back twice.
BytesAccounted == chunkBytes = Bytes(Nonces) /\ chunkBytes <= ByteLimit

\* A pending query lacks a chunk: one that has all its chunks is not left
\* behind, which the loop that joins the chunks would do if one were missing.
NoCompletePending ==
  \A n \in Pending : chunks[n].count # 0 => chunks[n].got \subseteq 0 .. chunks[n].count - 1
                                            /\ chunks[n].got # 0 .. chunks[n].count - 1

\* The frames of the last Window by the time they were written: at most those
\* stamped in it, and those stamped before it but written in it.
StampedIn == {k \in DOMAIN stamps : clock - stamps[k] < Window}
WrittenIn == {f \in late : clock - f.stamp >= Window}

\* In any Window at most EventLimit frames of a session are written, and one
\* more for each process.  A call of request_members reads the time before it
\* waits for the session, and any frame may be written later than it is entered
\* in the budget, so the budget alone does not bound what the gateway receives;
\* but a process has one call under way, and pruning with a stale time forgets
\* no event of the present window.
BudgetKept ==
  Cardinality(StampedIn) + Cardinality(WrittenIn) <= EventLimit + Cardinality(Procs)

\* Every query whose caller was told "ok" is eventually reported, even when
\* the gateway never answers.
QueryEnds == \A i \in Ids : told[i] = "ok" ~> reports[i] = 1
=============================================================================
