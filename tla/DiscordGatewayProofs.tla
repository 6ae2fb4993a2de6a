------------------------- MODULE DiscordGatewayProofs -------------------------
(***************************************************************************)
(* Proofs about DiscordGateway, for any processes, nonces, guilds, limits  *)
(* and bounds.                                                             *)
(***************************************************************************)
EXTENDS DiscordGateway, InductionLemmas

---------------------------------------------------------------------------
(***************************************************************************)
(* The loop that prunes the events                                         *)
(***************************************************************************)

\* What Active says of the function it computes.
Prunes(events, now, f) ==
  f = [k \in 0 .. Len(events) |->
         IF k = 0 THEN << >>
         ELSE IF now - events[k] < Window THEN Append(f[k-1], events[k])
         ELSE f[k-1]]

LEMMA PruningExists ==
  ASSUME NEW events \in Seq(Nat), NEW now
  PROVE  \E f : Prunes(events, now, f)
<1> DEFINE N == Len(events)
           T == Seq(Nat)
           h == [q \in (1 .. N) \X T |->
                   IF now - events[q[1]] < Window THEN Append(q[2], events[q[1]]) ELSE q[2]]
           b == << >>
<1>1. N \in Nat /\ b \in T
  OBVIOUS
<1>2. \A k \in 1 .. N : events[k] \in Nat
  OBVIOUS
<1>3. h \in [(1 .. N) \X T -> T]
  BY <1>2
<1> HIDE DEF N, T, h, b
<1>4. PICK f : Recursive(N, T, b, h, f)
  BY <1>1, <1>3, RecursionExists
<1>5. f \in [0 .. N -> T] /\ f[0] = b /\ \A n \in 1 .. N : f[n] = h[<<n, f[n-1]>>]
  BY <1>4 DEF Recursive
<1>6. ASSUME NEW n \in 1 .. N
      PROVE  f[n] = IF now - events[n] < Window THEN Append(f[n-1], events[n]) ELSE f[n-1]
  <2>1. f[n-1] \in T
    BY <1>1, <1>5
  <2> QED
    BY <1>5, <2>1 DEF h
<1>7. f = [k \in 0 .. N |->
             IF k = 0 THEN << >>
             ELSE IF now - events[k] < Window THEN Append(f[k-1], events[k])
             ELSE f[k-1]]
  <2> DEFINE e(k) == IF k = 0 THEN << >>
                     ELSE IF now - events[k] < Window THEN Append(f[k-1], events[k])
                     ELSE f[k-1]
  <2>1. ASSUME NEW k \in 0 .. N PROVE f[k] = e(k)
    <3>1. CASE k = 0
      BY <3>1, <1>5 DEF b
    <3>2. CASE k # 0
      <4>1. k \in 1 .. N
        BY <3>2, <1>1
      <4> QED
        BY <4>1, <3>2, <1>6
    <3> QED
      BY <3>1, <3>2
  <2> HIDE DEF e
  <2>2. f = [k \in 0 .. N |-> f[k]]
    BY <1>5
  <2>3. f = [k \in 0 .. N |-> e(k)]
    BY <2>1, <2>2
  <2> QED
    BY <2>3 DEF e
<1> QED
  BY <1>7 DEF Prunes, N

\* Two prunings agree on what they have in common.
LEMMA PruningsAgree ==
  ASSUME NEW s \in Seq(Nat), NEW t \in Seq(Nat), NEW now, Len(s) <= Len(t),
         \A k \in 1 .. Len(s) : s[k] = t[k],
         NEW f, NEW g, Prunes(s, now, f), Prunes(t, now, g)
  PROVE  \A k \in 0 .. Len(s) : f[k] = g[k]
<1> DEFINE P == {k \in Nat : k <= Len(s) => f[k] = g[k]}
<1>0. Len(s) \in Nat /\ Len(t) \in Nat
  OBVIOUS
<1>1. 0 \in P
  <2>1. 0 \in 0 .. Len(s) /\ 0 \in 0 .. Len(t)
    BY <1>0
  <2> QED
    BY <2>1 DEF Prunes
<1>2. ASSUME NEW k \in Nat, k \in P PROVE k + 1 \in P
  <2> SUFFICES ASSUME k + 1 <= Len(s) PROVE f[k+1] = g[k+1]
    OBVIOUS
  <2>1. /\ k + 1 \in 0 .. Len(s) /\ k + 1 \in 0 .. Len(t) /\ k + 1 \in 1 .. Len(s)
        /\ k + 1 # 0 /\ (k + 1) - 1 = k /\ k <= Len(s)
    BY <1>0
  <2>2. f[k+1] = IF now - s[k+1] < Window THEN Append(f[k], s[k+1]) ELSE f[k]
    BY <2>1 DEF Prunes
  <2>3. g[k+1] = IF now - t[k+1] < Window THEN Append(g[k], t[k+1]) ELSE g[k]
    BY <2>1 DEF Prunes
  <2>4. f[k] = g[k] /\ s[k+1] = t[k+1]
    BY <1>2, <2>1
  <2> QED
    BY <2>2, <2>3, <2>4
<1> HIDE DEF P
<1>3. Nat \subseteq P
  BY <1>1, <1>2, SetInduction
<1> QED
  BY <1>0, <1>3 DEF P

LEMMA ActiveIsPruning ==
  ASSUME NEW events, NEW now
  PROVE  Active(events, now) = (CHOOSE f : Prunes(events, now, f))[Len(events)]
BY DEF Active, Prunes

\* What pruning does to the empty sequence and to one with a new last event.
LEMMA ActiveEmpty ==
  ASSUME NEW now
  PROVE  Active(<< >>, now) = << >>
<1> DEFINE f == CHOOSE f : Prunes(<< >>, now, f)
<1>1. << >> \in Seq(Nat) /\ Len(<< >>) = 0
  OBVIOUS
<1>2. Prunes(<< >>, now, f)
  BY <1>1, PruningExists
<1> HIDE DEF f
<1>3. f[0] = << >>
  BY <1>1, <1>2 DEF Prunes
<1> QED
  BY <1>1, <1>3, ActiveIsPruning DEF f

LEMMA ActiveAppend ==
  ASSUME NEW s \in Seq(Nat), NEW x \in Nat, NEW now
  PROVE  Active(Append(s, x), now)
           = IF now - x < Window THEN Append(Active(s, now), x) ELSE Active(s, now)
<1> DEFINE t == Append(s, x)
           f == CHOOSE h : Prunes(s, now, h)
           g == CHOOSE h : Prunes(t, now, h)
           n == Len(s)
<1>1. t \in Seq(Nat) /\ Len(t) = n + 1 /\ n \in Nat /\ t[n+1] = x
      /\ \A k \in 1 .. n : s[k] = t[k]
  OBVIOUS
<1>2. Prunes(s, now, f)
  BY PruningExists
<1>3. Prunes(t, now, g)
  BY <1>1, PruningExists
<1>4. Active(s, now) = f[n] /\ Active(t, now) = g[Len(t)]
  BY ActiveIsPruning
<1> HIDE DEF f, g, t, n
<1>5. f[n] = g[n]
  <2>1. n = Len(s) /\ n \in 0 .. n /\ n <= Len(t)
    BY <1>1 DEF n
  <2>2. Len(s) <= Len(t) /\ \A k \in 1 .. Len(s) : s[k] = t[k]
    BY <1>1, <2>1
  <2>3. \A k \in 0 .. Len(s) : f[k] = g[k]
    BY <1>1, <1>2, <1>3, <2>2, PruningsAgree
  <2> QED
    BY <2>1, <2>3
<1>6. n + 1 \in 0 .. Len(t) /\ n + 1 # 0 /\ (n + 1) - 1 = n
  BY <1>1
<1>7. g[n+1] = IF now - t[n+1] < Window THEN Append(g[n], t[n+1]) ELSE g[n]
  BY <1>3, <1>6 DEF Prunes
<1> QED
  BY <1>1, <1>4, <1>5, <1>7 DEF t

\* Pruning keeps the events' type and adds none.
LEMMA ActiveType ==
  ASSUME NEW s \in Seq(Nat), NEW now
  PROVE  Active(s, now) \in Seq(Nat) /\ Len(Active(s, now)) <= Len(s)
<1> DEFINE Good(r) == Active(r, now) \in Seq(Nat) /\ Len(Active(r, now)) <= Len(r)
           S == {r \in Seq(Nat) : Good(r)}
<1>1. << >> \in Seq(Nat) /\ Good(<< >>)
  <2> DEFINE e == << >>
  <2>1. e \in Seq(Nat) /\ Len(e) = 0 /\ Active(e, now) = e
    BY ActiveEmpty
  <2> HIDE DEF e
  <2>2. Good(e)
    BY <2>1
  <2> QED
    BY <2>1, <2>2 DEF e
<1>2. ASSUME NEW r \in Seq(Nat), NEW x \in Nat, r \in S
      PROVE  Append(r, x) \in Seq(Nat) /\ Good(Append(r, x))
  <2> DEFINE a == Active(r, now)
             t == Append(r, x)
  <2>1. a \in Seq(Nat) /\ Len(a) <= Len(r)
    BY <1>2
  <2>2. Active(t, now) = IF now - x < Window THEN Append(a, x) ELSE a
    BY ActiveAppend
  <2> HIDE DEF a
  <2>3. t \in Seq(Nat) /\ Len(t) = Len(r) + 1 /\ Len(r) \in Nat
    OBVIOUS
  <2>4. Append(a, x) \in Seq(Nat) /\ Len(Append(a, x)) = Len(a) + 1 /\ Len(a) \in Nat
    BY <2>1
  <2> HIDE DEF t
  <2>5. Good(t)
    BY <2>1, <2>2, <2>3, <2>4
  <2> HIDE DEF Good
  <2> QED
    BY <2>3, <2>5 DEF t
<1> HIDE DEF Good
<1>3. Seq(Nat) \subseteq S
  <2>1. << >> \in S /\ \A r \in Seq(Nat), x \in Nat : r \in S => Append(r, x) \in S
    BY <1>1, <1>2
  <2> HIDE DEF S
  <2> QED
    BY <2>1, SequenceInduction
<1> QED
  BY <1>3 DEF Good

\* Pruning at an earlier time first makes no difference.
LEMMA ActiveTwice ==
  ASSUME NEW s \in Seq(Nat), NEW m \in Nat, NEW n \in Nat, m <= n
  PROVE  Active(Active(s, m), n) = Active(s, n)
<1> DEFINE S == {r \in Seq(Nat) : Active(Active(r, m), n) = Active(r, n)}
<1>1. << >> \in S
  BY ActiveEmpty
<1>2. ASSUME NEW r \in Seq(Nat), NEW x \in Nat, r \in S PROVE Append(r, x) \in S
  <2> DEFINE a == Active(r, m)
  <2>1. a \in Seq(Nat) /\ Active(a, n) = Active(r, n)
    BY <1>2, ActiveType
  <2>2. /\ Active(Append(r, x), m) = IF m - x < Window THEN Append(a, x) ELSE a
        /\ Active(Append(r, x), n) = IF n - x < Window THEN Append(Active(r, n), x)
                                                      ELSE Active(r, n)
    BY ActiveAppend
  <2> HIDE DEF a
  <2>3. Active(Append(a, x), n) = IF n - x < Window THEN Append(Active(a, n), x)
                                                    ELSE Active(a, n)
    BY <2>1, ActiveAppend
  <2>4. n - x < Window => m - x < Window
    BY LimitsAssumption
  <2>5. Append(r, x) \in Seq(Nat)
    OBVIOUS
  <2>6. CASE n - x < Window
    BY <2>1, <2>2, <2>3, <2>4, <2>5, <2>6
  <2>7. CASE ~ (n - x < Window) /\ m - x < Window
    BY <2>1, <2>2, <2>3, <2>5, <2>7
  <2>8. CASE ~ (n - x < Window) /\ ~ (m - x < Window)
    BY <2>1, <2>2, <2>5, <2>8
  <2> QED
    BY <2>6, <2>7, <2>8
<1> HIDE DEF S
<1>3. Seq(Nat) \subseteq S
  BY <1>1, <1>2, SequenceInduction
<1> QED
  BY <1>3 DEF S

\* What is left is as long as the events within Window are many.
LEMMA ActiveCounts ==
  ASSUME NEW s \in Seq(Nat), NEW now \in Nat
  PROVE  Cardinality({k \in DOMAIN s : now - s[k] < Window}) = Len(Active(s, now))
<1> DEFINE Fresh(r) == {k \in DOMAIN r : now - r[k] < Window}
           S == {r \in Seq(Nat) : IsFiniteSet(Fresh(r))
                                  /\ Cardinality(Fresh(r)) = Len(Active(r, now))}
<1>1. << >> \in S
  <2>1. Fresh(<< >>) = {}
    OBVIOUS
  <2>2. << >> \in Seq(Nat) /\ Len(Active(<< >>, now)) = 0
    BY ActiveEmpty
  <2>3. IsFiniteSet({}) /\ Cardinality({}) = 0
    BY FS_EmptySet
  <2> HIDE DEF Fresh
  <2> QED
    BY <2>1, <2>2, <2>3
<1>2. ASSUME NEW r \in Seq(Nat), NEW x \in Nat, r \in S PROVE Append(r, x) \in S
  <2> DEFINE t == Append(r, x)
             a == Active(r, now)
  <2>1. /\ t \in Seq(Nat) /\ Len(t) = Len(r) + 1 /\ t[Len(r) + 1] = x
        /\ \A k \in 1 .. Len(r) : t[k] = r[k]
    OBVIOUS
  <2>2. Active(t, now) = IF now - x < Window THEN Append(a, x) ELSE a
    BY ActiveAppend
  <2>3. a \in Seq(Nat) /\ IsFiniteSet(Fresh(r)) /\ Cardinality(Fresh(r)) = Len(a)
    BY <1>2, ActiveType
  <2>4. Len(r) + 1 \notin Fresh(r)
    OBVIOUS
  <2>a. DOMAIN t = 1 .. Len(t) /\ DOMAIN r = 1 .. Len(r) /\ Len(r) \in Nat
    BY <2>1
  <2>b. DOMAIN t = DOMAIN r \cup {Len(r) + 1}
    BY <2>1, <2>a
  <2>c. \A k \in DOMAIN r : t[k] = r[k]
    BY <2>1, <2>a
  <2> HIDE DEF t, a
  <2>5. CASE now - x < Window
    <3>1. Fresh(t) = Fresh(r) \cup {Len(r) + 1}
      BY <2>1, <2>5, <2>b, <2>c
    <3>2. Len(Active(t, now)) = Len(a) + 1
      BY <2>2, <2>3, <2>5
    <3> HIDE DEF Fresh
    <3>3. IsFiniteSet(Fresh(t)) /\ Cardinality(Fresh(t)) = Cardinality(Fresh(r)) + 1
      BY <3>1, <2>3, <2>4, FS_AddElement
    <3> QED
      BY <2>1, <2>3, <3>2, <3>3 DEF t
  <2>6. CASE ~ (now - x < Window)
    <3>1. Fresh(t) = Fresh(r)
      BY <2>1, <2>6, <2>b, <2>c
    <3> HIDE DEF Fresh
    <3> QED
      BY <3>1, <2>1, <2>2, <2>3, <2>6 DEF t
  <2> QED
    BY <2>5, <2>6
<1> HIDE DEF S
<1>3. Seq(Nat) \subseteq S
  BY <1>1, <1>2, SequenceInduction
<1> QED
  BY <1>3 DEF S

---------------------------------------------------------------------------
(***************************************************************************)
(* Types                                                                   *)
(***************************************************************************)

\* What a call holds while it is under way: a query in its registers, the
\* session mutex while it writes; its time is not in the future.
CallInv ==
  \A p \in Procs :
    /\ pc[p] \in {"request", "send", "encode"} => arg[p].id \in Ids
    /\ pc[p] \in {"send", "update"} => sessionMu = p
    /\ pc[p] = "encode" => p = Loop
    /\ arg[p].now <= clock

TypeInv == TypeOK /\ CallInv

LEMMA NothingTyped == NoQuery \in Query /\ NoCall \in Call
<1>1. NoQuery.guild \in Guilds
  BY NamesAssumption DEF NoQuery
<1>2. NoCall.nonce \in Nonces
  BY NamesAssumption DEF NoCall
<1>3. NoQuery \in Query
  BY <1>1, LimitsAssumption DEF NoQuery, Query
<1>4. NoCall \in Call
  BY <1>1, <1>2, LimitsAssumption DEF NoCall, NoQuery, Call
<1> QED
  BY <1>3, <1>4

\* The sum that Bytes takes is one of InductionLemmas.
Held == [n \in Nonces |-> chunks[n].bytes]

LEMMA BytesAreSum == ASSUME NEW S PROVE Bytes(S) = SumOver(Held, S)
BY DEF Bytes, SumOver, Held

LEMMA HeldTyped ==
  ASSUME TypeOK
  PROVE  \A n \in Nonces : Held[n] = chunks[n].bytes /\ Held[n] \in Nat
<1>1. \A n \in Nonces : chunks[n] \in Query
  BY DEF TypeOK
<1> QED
  BY <1>1 DEF Held, Query

LEMMA BytesTyped == ASSUME TypeOK, NEW S \in SUBSET Nonces PROVE Bytes(S) \in Nat
BY HeldTyped, BytesAreSum, SumRemove, NamesAssumption

LEMMA DropTyped ==
  ASSUME TypeOK, NEW S \in SUBSET Nonces
  PROVE  Drop(S) \in 0 .. ByteLimit /\ Drop(S) <= chunkBytes
<1>1. Bytes(S) \in Nat
  BY BytesTyped
<1>2. chunkBytes \in 0 .. ByteLimit
  BY DEF TypeOK
<1> QED
  BY <1>1, <1>2, LimitsAssumption DEF Drop

LEMMA PendingTyped ==
  ASSUME TypeOK
  PROVE  \A n \in Nonces : chunks[n] \in Query /\ (n \in Pending => chunks[n].id \in Ids)
<1>1. \A n \in Nonces : chunks[n] \in Query
  BY DEF TypeOK
<1> QED
  BY <1>1, LimitsAssumption DEF Pending, Query, Ids

LEMMA FailTyped ==
  ASSUME TypeOK, NEW now, NEW S \in SUBSET Pending, NEW reason \in Reasons,
         Fail(now, S, reason)
  PROVE  /\ chunks' \in [Nonces -> Query] /\ chunkBytes' \in 0 .. ByteLimit
         /\ failures' \in SUBSET (Ids \X Reasons)
<1>1. Expired(now) \subseteq Pending /\ Pending \subseteq Nonces
  BY DEF Expired, Pending
<1>2. chunks' \in [Nonces -> Query]
  BY NothingTyped, PendingTyped DEF Fail
<1>3. chunkBytes' \in 0 .. ByteLimit
  BY <1>1, DropTyped DEF Fail
<1>4. "timeout" \in Reasons
  BY DEF Reasons
<1>5. failures' \in SUBSET (Ids \X Reasons)
  BY <1>1, <1>4, PendingTyped DEF Fail, TypeOK
<1> QED
  BY <1>2, <1>3, <1>5

LEMMA ReportTyped ==
  ASSUME TypeOK, NEW S, Report(S)
  PROVE  reports' \in [Ids -> Nat]
BY DEF TypeOK, Report

LEMMA RecentTyped ==
  ASSUME TypeOK, NEW now PROVE Recent(now) \in [Guilds -> Nat \cup {Never}]
BY DEF TypeOK, Recent

LEMMA InitTyped == Init => TypeInv
<1> SUFFICES ASSUME Init PROVE TypeInv
  OBVIOUS
<1>1. TypeOK
  <2>1. << >> \in Seq(Nat) /\ Len(<< >>) = 0
    OBVIOUS
  <2> QED
    BY <2>1, NothingTyped, LimitsAssumption DEF Init, TypeOK
<1>2. CallInv
  <2>1. \A p \in Procs : pc[p] = "idle" /\ arg[p].now = 0 /\ clock = 0
    BY DEF Init, NoCall
  <2> QED
    BY <2>1 DEF CallInv
<1> QED
  BY <1>1, <1>2 DEF TypeInv

\* A call returns: whatever it held is gone.
LEMMA ReturnTyped ==
  ASSUME TypeInv, NEW p \in Procs, Return(p)
  PROVE  /\ pc' \in [Procs -> {"idle", "request", "send", "update", "encode"}]
         /\ arg' \in [Procs -> Call]
         /\ pc'[p] = "idle" /\ arg'[p] = NoCall /\ NoCall.now = 0
         /\ \A r \in Procs : r # p => pc'[r] = pc[r] /\ arg'[r] = arg[r]
<1>1. pc \in [Procs -> {"idle", "request", "send", "update", "encode"}] /\ arg \in [Procs -> Call]
  BY DEF TypeInv, TypeOK
<1>2. NoCall.now = 0
  BY DEF NoCall
<1> QED
  BY <1>1, <1>2, NothingTyped DEF Return

\* What a call has written is a frame.
LEMMA WrittenTyped == ASSUME TypeInv, NEW p \in Procs, Written(p) PROVE late' \in SUBSET Frame
<1>1. arg[p] \in Call /\ clock \in Nat /\ late \in SUBSET Frame
  BY DEF TypeInv, TypeOK
<1>2. [p |-> p, stamp |-> arg[p].now, at |-> clock] \in Frame
  BY <1>1 DEF Call, Frame
<1> QED
  BY <1>1, <1>2 DEF Written

LEMMA TypeStep == TypeInv /\ [Next]_vars => TypeInv'
<1> SUFFICES ASSUME TypeInv, [Next]_vars PROVE TypeInv'
  OBVIOUS
<1> USE DEF TypeInv
<1>0. /\ clock \in Nat /\ chunks \in [Nonces -> Query] /\ chunkBytes \in 0 .. ByteLimit
      /\ outbound \in Seq(Nat) /\ Len(outbound) <= EventLimit /\ stamps \in Seq(Nat)
      /\ Expired(clock) \in SUBSET Pending /\ Pending \in SUBSET Nonces
      /\ \A p \in Procs : arg[p] \in Call /\ arg[p].now \in Nat
  <2>1. \A p \in Procs : arg[p] \in Call
    BY DEF TypeOK
  <2> QED
    BY <2>1 DEF TypeOK, Expired, Pending, Call
<1>a. \A now : /\ Active(outbound, now) \in Seq(Nat)
               /\ Len(Active(outbound, now)) <= EventLimit
               /\ Active(stamps, now) \in Seq(Nat)
  <2> SUFFICES ASSUME NEW now
               PROVE  /\ Active(outbound, now) \in Seq(Nat)
                      /\ Len(Active(outbound, now)) <= EventLimit
                      /\ Active(stamps, now) \in Seq(Nat)
    OBVIOUS
  <2>1. /\ Active(outbound, now) \in Seq(Nat) /\ Active(stamps, now) \in Seq(Nat)
        /\ Len(Active(outbound, now)) <= Len(outbound)
    BY <1>0, ActiveType
  <2> QED
    BY <2>1, <1>0, LimitsAssumption
<1>b. \A now \in Nat : BudgetLeft(now) => /\ Append(Active(outbound, now), now) \in Seq(Nat)
                                          /\ Len(Append(Active(outbound, now), now)) <= EventLimit
  <2> SUFFICES ASSUME NEW now \in Nat, BudgetLeft(now)
               PROVE  /\ Append(Active(outbound, now), now) \in Seq(Nat)
                      /\ Len(Append(Active(outbound, now), now)) <= EventLimit
    OBVIOUS
  <2> DEFINE a == Active(outbound, now)
  <2>1. a \in Seq(Nat) /\ Len(a) < EventLimit
    BY <1>a DEF BudgetLeft
  <2> HIDE DEF a
  <2>2. Append(a, now) \in Seq(Nat) /\ Len(Append(a, now)) = Len(a) + 1 /\ Len(a) \in Nat
    BY <2>1
  <2>3. Len(Append(a, now)) <= EventLimit
    BY <2>1, <2>2, LimitsAssumption
  <2> QED
    BY <2>2, <2>3 DEF a
<1>1. CASE Tick
  <2>1. clock' \in Nat /\ clock <= clock' /\ stamps' \in Seq(Nat) /\ late' \in SUBSET Frame
    BY <1>0, <1>1, <1>a DEF Tick, TypeOK
  <2>2. TypeOK'
    BY <2>1, <1>1 DEF Tick, gateway, TypeOK
  <2>3. CallInv'
    BY <2>1, <1>1, <1>0 DEF Tick, CallInv
  <2> QED
    BY <2>2, <2>3
<1>2. CASE Bind
  <2>1. <<clock>> \in Seq(Nat) /\ Len(<<clock>>) = 1 /\ 1 <= EventLimit /\ 0 \in 0 .. ByteLimit
    BY <1>0, LimitsAssumption
  <2>2. TypeOK'
    BY <2>1, <1>2, NothingTyped DEF Bind, TypeOK
  <2>3. CallInv'
    BY <1>2 DEF Bind, CallInv
  <2> QED
    BY <2>2, <2>3
<1>3. CASE Unbind
  <2>1. << >> \in Seq(Nat) /\ Len(<< >>) = 0 /\ 0 <= EventLimit /\ 0 \in 0 .. ByteLimit
    BY LimitsAssumption
  <2>2. reports' \in [Ids -> Nat]
    BY <1>3, ReportTyped DEF Unbind
  <2>3. TypeOK'
    BY <2>1, <2>2, <1>3, NothingTyped DEF Unbind, TypeOK
  <2>4. CallInv'
    BY <1>3 DEF Unbind, CallInv
  <2> QED
    BY <2>3, <2>4
<1>4. CASE PeerCloses
  <2>1. TypeOK'
    BY <1>4 DEF PeerCloses, history, TypeOK
  <2>2. CallInv'
    BY <1>4 DEF PeerCloses, CallInv
  <2> QED
    BY <2>1, <2>2
<1>5. ASSUME NEW p \in Procs, SendUpdate(p) PROVE TypeInv'
  <2>1. CASE BudgetLeft(clock) /\ outbound' = Append(Active(outbound, clock), clock)
             /\ stamps' = Append(stamps, clock) /\ sessionMu' = p
             /\ arg' = [arg EXCEPT ![p] = [NoCall EXCEPT !.now = clock]]
             /\ pc' = [pc EXCEPT ![p] = "update"]
    <3> DEFINE c == [NoCall EXCEPT !.now = clock]
    <3>1. outbound' \in Seq(Nat) /\ Len(outbound') <= EventLimit /\ stamps' \in Seq(Nat)
      BY <2>1, <1>0, <1>b
    <3>c. c \in Call /\ c.now = clock
      BY <1>0, NothingTyped DEF Call
    <3> HIDE DEF c
    <3>a. arg' = [arg EXCEPT ![p] = c]
      BY <2>1 DEF c
    <3>2. TypeOK'
      BY <3>1, <3>a, <3>c, <2>1, <1>5 DEF SendUpdate, TypeOK
    <3>3. CallInv'
      BY <3>a, <3>c, <2>1, <1>0, <1>5, FreeAssumption DEF SendUpdate, CallInv, TypeOK
    <3> QED
      BY <3>2, <3>3
  <2>2. CASE outbound' = Active(outbound, clock) /\ UNCHANGED <<sessionMu, pc, arg, stamps>>
    <3>2. TypeOK'
      BY <1>a, <2>2, <1>5 DEF SendUpdate, TypeOK
    <3>3. CallInv'
      BY <2>2, <1>5 DEF SendUpdate, CallInv
    <3> QED
      BY <3>2, <3>3
  <2> QED
    BY <2>1, <2>2, <1>5 DEF SendUpdate
<1>6. ASSUME NEW p \in Procs, NEW n \in Nonces, NEW g \in Guilds, NEW needs \in Requests,
             RequestMembers(p, n, g, needs)
      PROVE  TypeInv'
  <2> DEFINE c == [id |-> issued + 1, nonce |-> n, guild |-> g, needs |-> needs, now |-> clock]
  <2>1. issued' = issued + 1 /\ issued + 1 \in Ids /\ issued' \in 0 .. MaxQueries
    BY <1>6, LimitsAssumption DEF RequestMembers, TypeOK, Ids
  <2>2. c \in Call /\ c.id \in Ids /\ c.now <= clock
    BY <2>1, <1>0, RequestsAssumption, LimitsAssumption DEF Call, Ids
  <2> HIDE DEF c
  <2>3. arg' = [arg EXCEPT ![p] = c] /\ pc' = [pc EXCEPT ![p] = "request"]
    BY <1>6 DEF RequestMembers, c
  <2>4. TypeOK'
    BY <2>1, <2>2, <2>3, <1>6 DEF RequestMembers, gateway, TypeOK
  <2>5. CallInv'
    BY <2>2, <2>3, <1>6 DEF RequestMembers, CallInv, TypeOK
  <2> QED
    BY <2>4, <2>5
<1>7. ASSUME NEW p \in Procs, RequestRefused(p) PROVE TypeInv'
  <2>1. /\ chunks' \in [Nonces -> Query] /\ chunkBytes' \in 0 .. ByteLimit
        /\ failures' \in SUBSET (Ids \X Reasons)
    <3>1. Expire(arg[p].now)
      BY <1>7 DEF RequestRefused
    <3>2. Fail(arg[p].now, {}, "timeout") /\ "timeout" \in Reasons /\ {} \in SUBSET Pending
      BY <3>1 DEF Expire, Reasons
    <3> QED
      BY <3>2, FailTyped
  <2>2. /\ Return(p) /\ told' = [told EXCEPT ![arg[p].id] = "err"]
        /\ UNCHANGED <<sessionMu, stamps, late, clock, socket, issued, reports>>
    BY <1>7 DEF RequestRefused, Refuse
  <2>3. /\ fullListAt' \in [Guilds -> Nat \cup {Never}]
        /\ outbound' \in Seq(Nat) /\ Len(outbound') <= EventLimit
    BY <1>7, <1>0, <1>a, RecentTyped DEF RequestRefused, TypeOK
  <2>4. /\ pc' \in [Procs -> {"idle", "request", "send", "update", "encode"}]
        /\ arg' \in [Procs -> Call]
        /\ pc'[p] = "idle" /\ arg'[p].now = 0
        /\ \A r \in Procs : r # p => pc'[r] = pc[r] /\ arg'[r] = arg[r]
    BY <2>2, ReturnTyped
  <2>5. TypeOK'
    BY <2>1, <2>2, <2>3, <2>4 DEF TypeOK
  <2>6. CallInv'
    BY <2>2, <2>4, <1>0 DEF CallInv
  <2> QED
    BY <2>5, <2>6
<1>8. ASSUME NEW p \in Procs, RequestAccepted(p) PROVE TypeInv'
  <2> DEFINE c == arg[p]
             q == [NoQuery EXCEPT !.id = c.id, !.guild = c.guild, !.at = c.now]
  <2>1. /\ c.id \in Ids /\ c.guild \in Guilds /\ c.now \in Nat /\ c \in Call
    BY <1>8, <1>0 DEF RequestAccepted, CallInv, Call
  <2>2. q \in Query
    <3> HIDE DEF c
    <3>1. c.id \in 0 .. MaxQueries
      BY <2>1, LimitsAssumption DEF Ids
    <3> QED
      BY <2>1, <3>1, NothingTyped DEF Query
  <2>3. /\ Expired(c.now) \subseteq Pending /\ Pending \subseteq Nonces
    BY DEF Expired, Pending
  <2>4. chunks' \in [Nonces -> Query]
    <3> HIDE DEF q
    <3>1. chunks' = [n \in Nonces |-> IF n = c.nonce THEN q
                       ELSE IF n \in Pending \ Expired(c.now) THEN chunks[n] ELSE NoQuery]
      BY <1>8 DEF RequestAccepted, q
    <3> QED
      BY <3>1, <2>2, NothingTyped, PendingTyped
  <2>5. chunkBytes' \in 0 .. ByteLimit
    BY <1>8, <2>3, DropTyped DEF RequestAccepted
  <2>6. failures' \in SUBSET (Ids \X Reasons)
    <3>1. "timeout" \in Reasons
      BY DEF Reasons
    <3> QED
      BY <3>1, <1>8, <2>3, PendingTyped DEF RequestAccepted, TypeOK
  <2>7. outbound' \in Seq(Nat) /\ Len(outbound') <= EventLimit /\ stamps' \in Seq(Nat)
    BY <1>8, <2>1, <1>0, <1>b DEF RequestAccepted
  <2>8. fullListAt' \in [Guilds -> Nat \cup {Never}]
    BY <1>8, <2>1, RecentTyped DEF RequestAccepted
  <2>9. TypeOK'
    BY <1>8, <2>4, <2>5, <2>6, <2>7, <2>8 DEF RequestAccepted, TypeOK
  <2>10. CallInv'
    BY <1>8, FreeAssumption DEF RequestAccepted, CallInv, TypeOK
  <2> QED
    BY <2>9, <2>10
<1>9. ASSUME NEW p \in Procs, RequestSent(p) PROVE TypeInv'
  <2>1. Return(p) /\ sessionMu' = Free /\ pc[p] = "send" /\ sessionMu = p
        /\ told' = [told EXCEPT ![arg[p].id] = "ok"]
        /\ UNCHANGED <<clock, gateway, issued, reports, stamps>>
        /\ late' \in SUBSET Frame
    BY <1>9, WrittenTyped DEF RequestSent, CallInv
  <2>2. /\ pc' \in [Procs -> {"idle", "request", "send", "update", "encode"}]
        /\ arg' \in [Procs -> Call]
        /\ pc'[p] = "idle" /\ arg'[p].now = 0
        /\ \A r \in Procs : r # p => pc'[r] = pc[r] /\ arg'[r] = arg[r]
    BY <2>1, ReturnTyped
  <2>3. TypeOK'
    BY <2>1, <2>2 DEF TypeOK, gateway
  <2>4. CallInv'
    <3>1. \A r \in Procs : r # p => pc[r] \notin {"send", "update"}
      BY <2>1 DEF CallInv
    <3> QED
      BY <2>1, <2>2, <3>1, <1>0 DEF CallInv
  <2> QED
    BY <2>3, <2>4
<1>10. ASSUME NEW p \in Procs, RequestNotSent(p) PROVE TypeInv'
  <2> DEFINE mine == {n \in {arg[p].nonce} : chunks[n].id = arg[p].id}
  <2>1. /\ Return(p) /\ sessionMu' = Free /\ pc[p] = "send" /\ sessionMu = p
        /\ told' = [told EXCEPT ![arg[p].id] = "err"]
        /\ chunks' = [n \in Nonces |-> IF n \in mine THEN NoQuery ELSE chunks[n]]
        /\ chunkBytes' = Drop(mine)
        /\ UNCHANGED <<clock, socket, fullListAt, outbound, failures, issued, reports,
                       stamps, late>>
    BY <1>10 DEF RequestNotSent, CallInv
  <2>2. /\ pc' \in [Procs -> {"idle", "request", "send", "update", "encode"}]
        /\ arg' \in [Procs -> Call]
        /\ pc'[p] = "idle" /\ arg'[p].now = 0
        /\ \A r \in Procs : r # p => pc'[r] = pc[r] /\ arg'[r] = arg[r]
    BY <2>1, ReturnTyped
  <2>3. mine \in SUBSET Nonces
    BY <1>0 DEF Call
  <2> HIDE DEF mine
  <2>4. chunks' \in [Nonces -> Query] /\ chunkBytes' \in 0 .. ByteLimit
    BY <2>1, <2>3, DropTyped, NothingTyped, PendingTyped
  <2>5. TypeOK'
    BY <2>1, <2>2, <2>4 DEF TypeOK
  <2>6. CallInv'
    BY <2>1, <2>2, <1>0 DEF CallInv
  <2> QED
    BY <2>5, <2>6
<1>11. ASSUME NEW p \in Procs, UpdateReturns(p) PROVE TypeInv'
  <2>1. Return(p) /\ sessionMu' = Free /\ pc[p] = "update" /\ sessionMu = p
        /\ UNCHANGED <<clock, gateway, issued, told, reports, stamps>>
        /\ late' \in SUBSET Frame
    BY <1>11, WrittenTyped DEF UpdateReturns, CallInv
  <2>2. /\ pc' \in [Procs -> {"idle", "request", "send", "update", "encode"}]
        /\ arg' \in [Procs -> Call]
        /\ pc'[p] = "idle" /\ arg'[p].now = 0
        /\ \A r \in Procs : r # p => pc'[r] = pc[r] /\ arg'[r] = arg[r]
    BY <2>1, ReturnTyped
  <2>3. TypeOK'
    BY <2>1, <2>2 DEF TypeOK, gateway
  <2>4. CallInv'
    BY <2>1, <2>2, <1>0 DEF CallInv
  <2> QED
    BY <2>3, <2>4
<1>12. ASSUME NEW n, NEW g, NEW count, NEW i, ChunkIgnored(n, g, count, i) PROVE TypeInv'
  <2>1. Fail(clock, {}, "timeout") /\ "timeout" \in Reasons /\ {} \in SUBSET Pending
    BY <1>12 DEF ChunkIgnored, Expire, Reasons
  <2>2. /\ chunks' \in [Nonces -> Query] /\ chunkBytes' \in 0 .. ByteLimit
        /\ failures' \in SUBSET (Ids \X Reasons)
    BY <2>1, FailTyped
  <2>3. TypeOK'
    BY <1>12, <2>2 DEF ChunkIgnored, TypeOK, history
  <2>4. CallInv'
    BY <1>12 DEF ChunkIgnored, CallInv
  <2> QED
    BY <2>3, <2>4
<1>13. ASSUME NEW n, NEW g, NEW count, NEW i, NEW size, ChunkRejected(n, g, count, i, size)
       PROVE  TypeInv'
  <2>1. PICK reason \in Reasons : Fail(clock, {n}, reason)
    BY <1>13 DEF ChunkRejected, Reasons
  <2>2. {n} \in SUBSET Pending
    BY <1>13 DEF ChunkRejected
  <2>3. /\ chunks' \in [Nonces -> Query] /\ chunkBytes' \in 0 .. ByteLimit
        /\ failures' \in SUBSET (Ids \X Reasons)
    BY <2>1, <2>2, FailTyped
  <2>4. TypeOK'
    BY <1>13, <2>3 DEF ChunkRejected, TypeOK, history
  <2>5. CallInv'
    BY <1>13 DEF ChunkRejected, CallInv
  <2> QED
    BY <2>4, <2>5
<1>14. ASSUME NEW n \in Nonces, NEW g \in Guilds, NEW count \in 1 .. MaxChunkCount,
              NEW i \in 0 .. count - 1, NEW size \in Sizes, ChunkKept(n, g, count, i, size)
       PROVE  TypeInv'
  <2> DEFINE q == chunks[n]
             total == Drop(Expired(clock))
             r == [q EXCEPT !.count = count, !.got = q.got \cup {i}, !.bytes = q.bytes + size]
             whole == Cardinality(r.got) = count
  <2>1. /\ n \in Pending /\ q \in Query /\ q.id \in Ids /\ size \in Nat /\ q.bytes \in Nat
    BY <1>14, PendingTyped, SizesAssumption DEF ChunkKept, Query
  <2>2. r \in Query /\ r.bytes = q.bytes + size
    <3>1. count \in 0 .. MaxChunkCount /\ i \in 0 .. MaxChunkCount - 1
      BY LimitsAssumption
    <3>2. q.got \cup {i} \in SUBSET (0 .. MaxChunkCount - 1)
      BY <2>1, <3>1 DEF Query
    <3>3. q.bytes + size \in Nat
      BY <2>1
    <3> HIDE DEF q
    <3> QED
      BY <2>1, <3>1, <3>2, <3>3 DEF Query
  <2>3. total \in 0 .. ByteLimit /\ total + size <= ByteLimit
    BY <1>14, <1>0, DropTyped DEF ChunkKept
  <2>4. failures' \in SUBSET (Ids \X Reasons)
    <3>1. "timeout" \in Reasons
      BY DEF Reasons
    <3> QED
      BY <3>1, <1>0, <1>14, PendingTyped DEF ChunkKept, TypeOK
  <2>5. UNCHANGED <<clock, sessionMu, socket, fullListAt, outbound, history>> /\ pc[Loop] = "idle"
    BY <1>14 DEF ChunkKept, LoopIdle
  <2>6. CASE /\ chunks' = [m \in Nonces |->
                              IF m = n \/ m \in Expired(clock) THEN NoQuery ELSE chunks[m]]
             /\ chunkBytes' = IF total + size < r.bytes THEN 0 ELSE total + size - r.bytes
             /\ pc' = [pc EXCEPT ![Loop] = "encode"]
             /\ arg' = [arg EXCEPT ![Loop] = [NoCall EXCEPT !.id = q.id, !.nonce = n]]
    <3> DEFINE c == [NoCall EXCEPT !.id = q.id, !.nonce = n]
    <3>1. c \in Call /\ c.id \in Ids /\ c.now = 0
      <4>1. q.id \in 0 .. MaxQueries
        BY <2>1 DEF Query
      <4>2. c \in Call
        BY <4>1, NothingTyped DEF Call
      <4>3. c.id = q.id /\ c.now = 0
        BY DEF NoCall
      <4> QED
        BY <4>2, <4>3, <2>1
    <3>2. chunks' \in [Nonces -> Query]
      BY <2>6, NothingTyped, PendingTyped
    <3>3. chunkBytes' \in 0 .. ByteLimit
      <4> HIDE DEF r, total, q
      <4> QED
        BY <2>6, <2>1, <2>2, <2>3, LimitsAssumption
    <3>4. arg' = [arg EXCEPT ![Loop] = c] /\ pc' = [pc EXCEPT ![Loop] = "encode"]
      BY <2>6
    <3> HIDE DEF c, r, q, total
    <3>5. TypeOK'
      BY <2>4, <2>5, <3>1, <3>2, <3>3, <3>4 DEF TypeOK, history
    <3>6. CallInv'
      BY <2>5, <3>1, <3>4, <1>0, LoopAssumption DEF CallInv, TypeOK
    <3> QED
      BY <3>5, <3>6
  <2>7. CASE /\ chunks' = [m \in Nonces |-> IF m = n THEN r
                              ELSE IF m \in Expired(clock) THEN NoQuery ELSE chunks[m]]
             /\ chunkBytes' = total + size
             /\ UNCHANGED <<pc, arg>>
    <3> HIDE DEF r, q, total
    <3>1. chunks' \in [Nonces -> Query]
      BY <2>7, <2>2, NothingTyped, PendingTyped
    <3>2. chunkBytes' \in 0 .. ByteLimit
      BY <2>7, <2>1, <2>3, LimitsAssumption
    <3>3. TypeOK'
      BY <2>4, <2>5, <2>7, <3>1, <3>2 DEF TypeOK, history
    <3>4. CallInv'
      BY <2>5, <2>7 DEF CallInv
    <3> QED
      BY <3>3, <3>4
  <2> QED
    BY <1>14, <2>6, <2>7 DEF ChunkKept
<1>15. CASE Encode
  <2>1. Return(Loop) /\ pc[Loop] = "encode" /\ arg[Loop].id \in Ids /\ Loop \in Procs
        /\ UNCHANGED <<clock, sessionMu, socket, chunks, chunkBytes, fullListAt, outbound,
                       issued, told, stamps, late>>
    BY <1>15, LoopAssumption DEF Encode, CallInv
  <2>2. /\ pc' \in [Procs -> {"idle", "request", "send", "update", "encode"}]
        /\ arg' \in [Procs -> Call]
        /\ pc'[Loop] = "idle" /\ arg'[Loop].now = 0
        /\ \A r \in Procs : r # Loop => pc'[r] = pc[r] /\ arg'[r] = arg[r]
    BY <2>1, ReturnTyped
  <2>3. reports' \in [Ids -> Nat]
    BY <1>15, ReportTyped DEF Encode, TypeOK
  <2>4. failures' \in SUBSET (Ids \X Reasons)
    BY <1>15, <2>1 DEF Encode, TypeOK, Reasons
  <2>5. TypeOK'
    BY <2>1, <2>2, <2>3, <2>4 DEF TypeOK
  <2>6. CallInv'
    BY <2>1, <2>2, <1>0 DEF CallInv
  <2> QED
    BY <2>5, <2>6
<1>16. ASSUME NEW n, NEW g, RateLimited(n, g) PROVE TypeInv'
  <2> DEFINE S == {m \in Pending \ Expired(clock) : m = n /\ chunks[m].guild = g}
  <2>1. Fail(clock, S, "rate_limited") /\ S \in SUBSET Pending /\ "rate_limited" \in Reasons
    BY <1>16 DEF RateLimited, Reasons
  <2> HIDE DEF S
  <2>2. /\ chunks' \in [Nonces -> Query] /\ chunkBytes' \in 0 .. ByteLimit
        /\ failures' \in SUBSET (Ids \X Reasons)
    BY <2>1, FailTyped
  <2>3. TypeOK'
    BY <1>16, <2>2 DEF RateLimited, TypeOK, history
  <2>4. CallInv'
    BY <1>16 DEF RateLimited, CallInv
  <2> QED
    BY <2>3, <2>4
<1>17. CASE TakeFailures
  <2>1. reports' \in [Ids -> Nat]
    BY <1>17, ReportTyped DEF TakeFailures
  <2>2. chunks' \in [Nonces -> Query] /\ chunkBytes' \in 0 .. ByteLimit
    BY <1>17, <1>0, DropTyped, NothingTyped, PendingTyped DEF TakeFailures
  <2>3. TypeOK'
    BY <1>17, <2>1, <2>2 DEF TakeFailures, TypeOK
  <2>4. CallInv'
    BY <1>17 DEF TakeFailures, CallInv
  <2> QED
    BY <2>3, <2>4
<1>18. CASE UNCHANGED vars
  BY <1>18 DEF vars, gateway, history, TypeOK, CallInv
<1> QED
  BY <1>1, <1>2, <1>3, <1>4, <1>5, <1>6, <1>7, <1>8, <1>9, <1>10, <1>11, <1>12, <1>13, <1>14,
     <1>15, <1>16, <1>17, <1>18 DEF Next, CallStep, Chunk

\* Every variable of the gateway state keeps the shape its Go declaration
\* gives it, and chunkBytes and the outbound events stay within their limits,
\* whatever the gateway sends and however the calls interleave.
THEOREM GatewayTypeCorrect == Spec => []TypeOK
<1>1. TypeInv /\ [Next]_vars => TypeInv'
  BY TypeStep
<1>2. TypeInv => TypeOK
  BY DEF TypeInv
<1> QED
  BY <1>1, <1>2, InitTyped, PTL DEF Spec

---------------------------------------------------------------------------
(***************************************************************************)
(* The event budget                                                        *)
(***************************************************************************)

\* The code prunes with the time a call was stamped with, which may be in the
\* past; what is within Window now is not touched by that.
BudgetInv == Active(stamps, clock) = Active(outbound, clock)

LEMMA BudgetStep == TypeInv /\ BudgetInv /\ [Next]_vars => BudgetInv'
<1> SUFFICES ASSUME TypeInv, BudgetInv, [Next]_vars PROVE BudgetInv'
  OBVIOUS
<1>0. clock \in Nat /\ outbound \in Seq(Nat) /\ stamps \in Seq(Nat)
  BY DEF TypeInv, TypeOK
<1>1. CASE UNCHANGED <<clock, outbound, stamps>>
  BY <1>1 DEF BudgetInv
<1>2. CASE Tick
  <2> DEFINE m == clock + 1
  <2>1. m \in Nat /\ clock <= m /\ m <= m /\ clock' = m /\ stamps' = Active(stamps, m)
        /\ outbound' = outbound
    BY <1>0, <1>2 DEF Tick, gateway
  <2> HIDE DEF m
  <2>2. Active(Active(stamps, m), m) = Active(stamps, m)
    BY <1>0, <2>1, ActiveTwice
  <2>3. Active(stamps, m) = Active(Active(stamps, clock), m)
    BY <1>0, <2>1, ActiveTwice
  <2>4. Active(outbound, m) = Active(Active(outbound, clock), m)
    BY <1>0, <2>1, ActiveTwice
  <2> QED
    BY <2>1, <2>2, <2>3, <2>4 DEF BudgetInv
<1>3. ASSUME NEW now \in Nat, now <= clock, UNCHANGED <<clock, stamps>>,
             outbound' = Active(outbound, now)
      PROVE  BudgetInv'
  <2>1. Active(Active(outbound, now), clock) = Active(outbound, clock)
    BY <1>0, <1>3, ActiveTwice
  <2> QED
    BY <1>3, <2>1 DEF BudgetInv
<1>4. ASSUME NEW now \in Nat, now <= clock, UNCHANGED clock,
             outbound' = Append(Active(outbound, now), now), stamps' = Append(stamps, now)
      PROVE  BudgetInv'
  <2> DEFINE a == Active(outbound, now)
             fresh == clock - now < Window
  <2>1. a \in Seq(Nat) /\ Active(a, clock) = Active(outbound, clock)
    BY <1>0, <1>4, ActiveTwice, ActiveType
  <2> HIDE DEF a
  <2>2. Active(Append(a, now), clock) = IF fresh THEN Append(Active(a, clock), now)
                                                 ELSE Active(a, clock)
    BY <2>1, ActiveAppend
  <2>3. Active(Append(stamps, now), clock) = IF fresh THEN Append(Active(stamps, clock), now)
                                                      ELSE Active(stamps, clock)
    BY <1>0, ActiveAppend
  <2>4. outbound' = Append(a, now)
    BY <1>4 DEF a
  <2> QED
    BY <1>4, <2>1, <2>2, <2>3, <2>4 DEF BudgetInv
<1>5. CASE Bind
  BY <1>5 DEF Bind, BudgetInv
<1>6. CASE Unbind
  BY <1>6 DEF Unbind, BudgetInv
<1>7. ASSUME NEW p \in Procs, SendUpdate(p) PROVE BudgetInv'
  BY <1>0, <1>3, <1>4, <1>7 DEF SendUpdate
<1>8. \A p \in Procs : arg[p].now \in Nat /\ arg[p].now <= clock
  <2>1. \A p \in Procs : arg[p] \in Call
    BY DEF TypeInv, TypeOK
  <2> QED
    BY <2>1 DEF TypeInv, CallInv, Call
<1>9. ASSUME NEW p \in Procs, RequestRefused(p) PROVE BudgetInv'
  BY <1>1, <1>3, <1>8, <1>9 DEF RequestRefused, Refuse
<1>10. ASSUME NEW p \in Procs, RequestAccepted(p) PROVE BudgetInv'
  BY <1>4, <1>8, <1>10 DEF RequestAccepted
<1>11. CASE \E p \in Procs : \/ \E n \in Nonces, g \in Guilds, needs \in Requests :
                                 RequestMembers(p, n, g, needs)
                            \/ RequestSent(p) \/ RequestNotSent(p) \/ UpdateReturns(p)
  BY <1>1, <1>11 DEF RequestMembers, RequestSent, RequestNotSent, UpdateReturns, gateway, history
<1>12. CASE PeerCloses \/ Chunk \/ Encode \/ TakeFailures
            \/ \E n \in Nonces, g \in Guilds : RateLimited(n, g)
  <2>1. CASE PeerCloses
    BY <1>1, <2>1 DEF PeerCloses, history
  <2>2. CASE Chunk
    <3> DEFINE Kept == UNCHANGED <<clock, outbound, stamps>>
    <3>1. ASSUME NEW n, NEW g, NEW count, NEW i, ChunkIgnored(n, g, count, i) PROVE Kept
      BY <3>1 DEF ChunkIgnored, history
    <3>2. ASSUME NEW n, NEW g, NEW count, NEW i, NEW size, ChunkRejected(n, g, count, i, size)
          PROVE  Kept
      BY <3>2 DEF ChunkRejected, history
    <3>3. ASSUME NEW n, NEW g, NEW count, NEW i, NEW size, ChunkKept(n, g, count, i, size)
          PROVE  Kept
      BY <3>3 DEF ChunkKept, history
    <3> QED
      BY <1>1, <2>2, <3>1, <3>2, <3>3 DEF Chunk
  <2>3. CASE Encode \/ TakeFailures
    BY <1>1, <2>3 DEF Encode, TakeFailures
  <2>4. CASE \E n \in Nonces, g \in Guilds : RateLimited(n, g)
    BY <1>1, <2>4 DEF RateLimited, history
  <2> QED
    BY <1>12, <2>1, <2>2, <2>3, <2>4
<1>13. CASE UNCHANGED vars
  BY <1>1, <1>13 DEF vars, gateway, history
<1> QED
  BY <1>2, <1>5, <1>6, <1>7, <1>9, <1>10, <1>11, <1>12, <1>13 DEF Next, CallStep

\* The calls of a process do not overlap, so neither do the times between the
\* stamps and the writing of its late frames.
LateInv ==
  \A f \in late :
    /\ f.stamp < f.at /\ f.at <= clock /\ clock - f.at < Window
    /\ \A g \in late : f.p = g.p => f = g \/ f.at <= g.stamp \/ g.at <= f.stamp
    /\ pc[f.p] \in {"request", "send", "update"} => f.at <= arg[f.p].now

LEMMA LateStep == TypeInv /\ LateInv /\ [Next]_vars => LateInv'
<1> SUFFICES ASSUME TypeInv, LateInv, [Next]_vars PROVE LateInv'
  OBVIOUS
<1>0. /\ clock \in Nat /\ late \in SUBSET Frame /\ Loop \in Procs
      /\ \A f \in late : f.p \in Procs /\ f.stamp \in Nat /\ f.at \in Nat
      /\ \A p \in Procs : arg[p] \in Call /\ arg[p].now \in Nat /\ arg[p].now <= clock
  <2>1. clock \in Nat /\ late \in SUBSET Frame /\ \A p \in Procs : arg[p] \in Call
    BY DEF TypeInv, TypeOK
  <2> QED
    BY <2>1, LoopAssumption DEF Frame, Call, TypeInv, CallInv
<1>1. CASE UNCHANGED <<clock, late, pc, arg>>
  BY <1>1 DEF LateInv
<1>2. CASE Tick
  BY <1>0, <1>2 DEF Tick, LateInv
<1>3. CASE late' = {}
  BY <1>3 DEF LateInv
\* A call of p begins, and everything p has written is past.
<1>4. ASSUME NEW p \in Procs, NEW c \in Call, NEW m, c.now = clock, UNCHANGED <<clock, late>>,
             pc' = [pc EXCEPT ![p] = m], arg' = [arg EXCEPT ![p] = c]
      PROVE  LateInv'
  <2>1. arg \in [Procs -> Call] /\ pc \in [Procs -> {"idle", "request", "send", "update", "encode"}]
    BY DEF TypeInv, TypeOK
  <2> QED
    BY <1>0, <1>4, <2>1 DEF LateInv
\* A call of p goes on, or ends without writing.
<1>5. ASSUME NEW p \in Procs, UNCHANGED <<clock, late>>,
             \A r \in Procs : r # p => pc'[r] = pc[r] /\ arg'[r] = arg[r],
             \/ pc'[p] \in {"idle", "encode"}
             \/ pc[p] = "request" /\ arg'[p] = arg[p]
      PROVE  LateInv'
  BY <1>0, <1>5 DEF LateInv
\* A call of p has written its frame.
<1>6. ASSUME NEW p \in Procs, pc[p] \in {"send", "update"}, Written(p), Return(p), UNCHANGED clock
      PROVE  LateInv'
  <2> DEFINE f == [p |-> p, stamp |-> arg[p].now, at |-> clock]
  <2>1. /\ pc'[p] = "idle"
        /\ \A r \in Procs : r # p => pc'[r] = pc[r] /\ arg'[r] = arg[r]
    BY <1>6, ReturnTyped
  <2>2. f.p = p /\ f.stamp = arg[p].now /\ f.at = clock
    OBVIOUS
  <2> HIDE DEF f
  <2>3. (late' = late \cup {f} /\ f.stamp < f.at) \/ late' = late
    BY <1>6 DEF Written, f
  <2>4. \A g \in late : g.p = p => g.at <= f.stamp
    BY <1>6, <2>2 DEF LateInv
  <2>5. CASE late' = late
    BY <1>0, <1>6, <2>1, <2>5 DEF LateInv
  <2>6. CASE late' = late \cup {f} /\ f.stamp < f.at
    <3>1. ASSUME NEW g \in late'
          PROVE  /\ g.stamp < g.at /\ g.at <= clock' /\ clock' - g.at < Window
                 /\ pc'[g.p] \in {"request", "send", "update"} => g.at <= arg'[g.p].now
      BY <1>0, <1>6, <2>1, <2>2, <2>6, <3>1, LimitsAssumption DEF LateInv
    <3>2. ASSUME NEW g \in late', NEW h \in late', g.p = h.p
          PROVE  g = h \/ g.at <= h.stamp \/ h.at <= g.stamp
      BY <2>2, <2>4, <2>6, <3>2 DEF LateInv
    <3> QED
      BY <3>1, <3>2 DEF LateInv
  <2> QED
    BY <2>3, <2>5, <2>6
<1>7. CASE Bind \/ Unbind
  BY <1>3, <1>7 DEF Bind, Unbind
<1>8. ASSUME NEW p \in Procs, SendUpdate(p) PROVE LateInv'
  <2> DEFINE c == [NoCall EXCEPT !.now = clock]
  <2>1. c \in Call /\ c.now = clock
    BY <1>0, NothingTyped DEF Call
  <2> HIDE DEF c
  <2>2. CASE arg' = [arg EXCEPT ![p] = c] /\ pc' = [pc EXCEPT ![p] = "update"]
    BY <1>4, <1>8, <2>1, <2>2 DEF SendUpdate
  <2>3. CASE UNCHANGED <<pc, arg>>
    BY <1>1, <1>8, <2>3 DEF SendUpdate
  <2> QED
    BY <1>8, <2>2, <2>3 DEF SendUpdate, c
<1>9. ASSUME NEW p \in Procs, NEW n \in Nonces, NEW g \in Guilds, NEW needs \in Requests,
             RequestMembers(p, n, g, needs)
      PROVE  LateInv'
  <2> DEFINE c == [id |-> issued + 1, nonce |-> n, guild |-> g, needs |-> needs, now |-> clock]
  <2>1. c \in Call /\ c.now = clock
    <3>1. issued + 1 \in 0 .. MaxQueries
      BY <1>9, LimitsAssumption DEF RequestMembers, TypeInv, TypeOK
    <3> QED
      BY <3>1, <1>0, RequestsAssumption DEF Call
  <2> HIDE DEF c
  <2>2. arg' = [arg EXCEPT ![p] = c] /\ pc' = [pc EXCEPT ![p] = "request"]
    BY <1>9 DEF RequestMembers, c
  <2> QED
    BY <1>4, <1>9, <2>1, <2>2 DEF RequestMembers
<1>10. ASSUME NEW p \in Procs, RequestRefused(p) \/ RequestNotSent(p) PROVE LateInv'
  <2>1. Return(p) /\ UNCHANGED <<clock, late>>
    BY <1>10 DEF RequestRefused, RequestNotSent, Refuse
  <2>2. /\ pc'[p] = "idle"
        /\ \A r \in Procs : r # p => pc'[r] = pc[r] /\ arg'[r] = arg[r]
    BY <2>1, ReturnTyped
  <2> QED
    BY <1>5, <2>1, <2>2
<1>11. ASSUME NEW p \in Procs, RequestAccepted(p) PROVE LateInv'
  <2>1. pc \in [Procs -> {"idle", "request", "send", "update", "encode"}]
    BY DEF TypeInv, TypeOK
  <2> QED
    BY <1>5, <1>11, <2>1 DEF RequestAccepted
<1>12. ASSUME NEW p \in Procs, RequestSent(p) \/ UpdateReturns(p) PROVE LateInv'
  BY <1>6, <1>12 DEF RequestSent, UpdateReturns
<1>13. CASE Encode
  <2>1. Return(Loop) /\ UNCHANGED <<clock, late>>
    BY <1>13 DEF Encode
  <2>2. /\ pc'[Loop] = "idle"
        /\ \A r \in Procs : r # Loop => pc'[r] = pc[r] /\ arg'[r] = arg[r]
    BY <1>0, <2>1, ReturnTyped
  <2> QED
    BY <1>0, <1>5, <2>1, <2>2
<1>14. CASE PeerCloses \/ TakeFailures \/ \E n \in Nonces, g \in Guilds : RateLimited(n, g)
  BY <1>1, <1>14 DEF PeerCloses, TakeFailures, RateLimited, history
<1>15. ASSUME NEW n, NEW g, NEW count, NEW i, ChunkIgnored(n, g, count, i) PROVE LateInv'
  BY <1>1, <1>15 DEF ChunkIgnored, history
<1>16. ASSUME NEW n, NEW g, NEW count, NEW i, NEW size, ChunkRejected(n, g, count, i, size)
       PROVE  LateInv'
  BY <1>1, <1>16 DEF ChunkRejected, history
<1>17. ASSUME NEW n, NEW g, NEW count, NEW i, NEW size, ChunkKept(n, g, count, i, size)
       PROVE  LateInv'
  <2>1. UNCHANGED <<clock, late>>
    BY <1>17 DEF ChunkKept, history
  <2>2. CASE UNCHANGED <<pc, arg>>
    BY <1>1, <2>1, <2>2
  <2>3. ASSUME NEW c, pc' = [pc EXCEPT ![Loop] = "encode"], arg' = [arg EXCEPT ![Loop] = c]
        PROVE  LateInv'
    <3>1. /\ arg \in [Procs -> Call]
          /\ pc \in [Procs -> {"idle", "request", "send", "update", "encode"}]
      BY DEF TypeInv, TypeOK
    <3> QED
      BY <1>0, <1>5, <2>1, <2>3, <3>1
  <2> QED
    BY <1>17, <2>2, <2>3 DEF ChunkKept
<1>18. CASE UNCHANGED vars
  BY <1>1, <1>18 DEF vars, history
<1> QED
  BY <1>2, <1>7, <1>8, <1>9, <1>10, <1>11, <1>12, <1>13, <1>14, <1>15, <1>16, <1>17, <1>18
     DEF Next, CallStep, Chunk

\* A process has written at most one frame that is within Window now although
\* its stamp is not.
LEMMA OneLateEach ==
  ASSUME TypeInv, LateInv
  PROVE  IsFiniteSet(WrittenIn) /\ Cardinality(WrittenIn) <= Cardinality(Procs)
<1> DEFINE owner == [f \in WrittenIn |-> f.p]
<1>1. /\ clock \in Nat
      /\ \A f \in late : f.p \in Procs /\ f.stamp \in Nat /\ f.at \in Nat
  <2>1. clock \in Nat /\ late \in SUBSET Frame
    BY DEF TypeInv, TypeOK
  <2> QED
    BY <2>1 DEF Frame
<1>2. \A f, g \in WrittenIn : f.p = g.p => f = g
  BY <1>1, LimitsAssumption DEF WrittenIn, LateInv
<1>3. owner \in Injection(WrittenIn, Procs)
  <2>1. owner \in [WrittenIn -> Procs]
    BY <1>1 DEF WrittenIn
  <2> QED
    BY <1>2, <2>1 DEF Injection, IsInjective
<1> QED
  BY <1>3, ProcsAssumption, FS_Injection

\* By the time of writing, the frames of a session within any Window exceed the
\* limit by at most one for each process, although request_members reads its
\* time before it waits for the session and prunes with that stale time.
THEOREM BudgetIsKept == Spec => []BudgetKept
<1>1. Init => TypeInv /\ BudgetInv /\ LateInv
  BY InitTyped DEF Init, BudgetInv, LateInv
<1>2. TypeInv /\ BudgetInv /\ LateInv /\ [Next]_vars => (TypeInv /\ BudgetInv /\ LateInv)'
  BY TypeStep, BudgetStep, LateStep
<1>3. TypeInv /\ BudgetInv /\ LateInv => BudgetKept
  <2> SUFFICES ASSUME TypeInv, BudgetInv, LateInv PROVE BudgetKept
    OBVIOUS
  <2>0. /\ clock \in Nat /\ outbound \in Seq(Nat) /\ stamps \in Seq(Nat)
        /\ Len(outbound) <= EventLimit
    BY DEF TypeInv, TypeOK
  <2>1. Cardinality(StampedIn) = Len(Active(stamps, clock))
    BY <2>0, ActiveCounts DEF StampedIn
  <2>2. Active(outbound, clock) \in Seq(Nat) /\ Len(Active(outbound, clock)) <= Len(outbound)
    BY <2>0, ActiveType
  <2>3. Len(Active(outbound, clock)) <= EventLimit /\ Len(Active(outbound, clock)) \in Nat
    BY <2>0, <2>2, LimitsAssumption
  <2>4. /\ Cardinality(WrittenIn) \in Nat /\ Cardinality(Procs) \in Nat
        /\ Cardinality(WrittenIn) <= Cardinality(Procs)
    BY OneLateEach, ProcsAssumption, FS_CardinalityType
  <2>5. Cardinality(StampedIn) \in Nat /\ Cardinality(StampedIn) <= EventLimit
    BY <2>1, <2>3 DEF BudgetInv
  <2> QED
    BY <2>4, <2>5, LimitsAssumption DEF BudgetKept
<1> QED
  BY <1>1, <1>2, <1>3, PTL DEF Spec

---------------------------------------------------------------------------
(***************************************************************************)
(* The pending queries and their bytes                                     *)
(***************************************************************************)

Accounted == chunkBytes = Bytes(Nonces)

\* No query is found under a nonce that has none, and what the chunks of a
\* query say fits together.
Vacant ==
  \A n \in Nonces : /\ chunks[n].id = 0 => chunks[n] = NoQuery
                    /\ chunks[n].count = 0 => chunks[n].got = {}

QueryInv ==
  /\ Vacant
  /\ NoCompletePending
  /\ Accounted

\* The queries in S are removed, and their bytes given back.
Removed(S) ==
  /\ chunks' = [n \in Nonces |-> IF n \in S THEN NoQuery ELSE chunks[n]]
  /\ chunkBytes' = Drop(S)

LEMMA PrimedSum == Bytes(Nonces)' = SumOver(Held', Nonces)
BY DEF Bytes, SumOver, Held, FoldFunctionOnSet, MapThenFoldSet

LEMMA NoQueryFacts ==
  NoQuery.id = 0 /\ NoQuery.count = 0 /\ NoQuery.got = {} /\ NoQuery.bytes = 0
BY DEF NoQuery

\* What is left of the bytes after the queries in S.
LEMMA DropIs ==
  ASSUME TypeOK, QueryInv, NEW S \in SUBSET Nonces
  PROVE  Drop(S) = Bytes(Nonces) - Bytes(S) /\ Bytes(S) <= Bytes(Nonces)
<1> DEFINE d == [n \in Nonces |-> IF n \in S THEN 0 ELSE Held[n]]
<1>1. \A n \in Nonces : Held[n] \in Nat
  BY HeldTyped
<1>2. \A n \in Nonces : d[n] = IF n \in S THEN 0 ELSE Held[n]
  OBVIOUS
<1> HIDE DEF d
<1>3. /\ SumOver(Held, S) <= SumOver(Held, Nonces)
      /\ SumOver(Held, S) \in Nat /\ SumOver(Held, Nonces) \in Nat
  BY <1>1, <1>2, SumCleared, NamesAssumption
<1>4. Bytes(S) = SumOver(Held, S) /\ Bytes(Nonces) = SumOver(Held, Nonces)
  BY BytesAreSum
<1> QED
  BY <1>3, <1>4 DEF Drop, QueryInv, Accounted

\* Whoever removes a query, the sum stays right.
LEMMA RemovedStep ==
  ASSUME TypeOK, QueryInv, NEW S \in SUBSET Nonces, Removed(S)
  PROVE  QueryInv'
<1>0. \A n \in Nonces : chunks'[n] = IF n \in S THEN NoQuery ELSE chunks[n]
  BY DEF Removed
<1>1. \A n \in Nonces : Held'[n] = IF n \in S THEN 0 ELSE Held[n]
  BY <1>0, NoQueryFacts DEF Held
<1>2. \A n \in Nonces : Held[n] \in Nat
  BY HeldTyped
<1>3. SumOver(Held', Nonces) = SumOver(Held, Nonces) - SumOver(Held, S)
  BY <1>1, <1>2, SumCleared, NamesAssumption
<1>4. Accounted'
  <2>1. chunkBytes' = Bytes(Nonces) - Bytes(S)
    BY DropIs DEF Removed
  <2>2. chunkBytes' = Bytes(Nonces)'
    BY <2>1, <1>3, PrimedSum, BytesAreSum
  <2> QED
    BY <2>2 DEF Accounted
<1>5. NoCompletePending'
  BY <1>0, NoQueryFacts DEF QueryInv, NoCompletePending, Pending
<1>6. Vacant'
  BY <1>0, NoQueryFacts DEF QueryInv, Vacant
<1> QED
  BY <1>4, <1>5, <1>6 DEF QueryInv

\* The session begins or ends.
LEMMA ResetStep ==
  ASSUME TypeOK, chunks' = [n \in Nonces |-> NoQuery], chunkBytes' = 0
  PROVE  QueryInv'
<1>0. \A n \in Nonces : chunks'[n] = NoQuery
  OBVIOUS
<1>1. \A n \in Nonces : Held'[n] = 0
  BY <1>0, NoQueryFacts DEF Held
<1>2. SumOver(Held', Nonces) = 0
  BY <1>1, SumZero, NamesAssumption
<1>3. Accounted'
  BY <1>2, PrimedSum DEF Accounted
<1>4. NoCompletePending'
  BY <1>0, NoQueryFacts DEF NoCompletePending, Pending
<1>5. Vacant'
  BY <1>0, NoQueryFacts DEF Vacant
<1> QED
  BY <1>3, <1>4, <1>5 DEF QueryInv

\* A query is registered under a nonce that was free, or has just expired.
LEMMA AcceptedStep ==
  ASSUME TypeInv, QueryInv, NEW p \in Procs, RequestAccepted(p)
  PROVE  QueryInv'
<1> DEFINE c == arg[p]
           S == Expired(c.now)
           q == [NoQuery EXCEPT !.id = c.id, !.guild = c.guild, !.at = c.now]
<1>1. c.id # 0 /\ c.nonce \notin Pending \ S /\ S \in SUBSET Pending
  BY LimitsAssumption DEF RequestAccepted, TypeInv, CallInv, Expired, Ids
<1>2. q.id = c.id /\ q.count = 0 /\ q.got = {} /\ q.bytes = 0
  BY DEF NoQuery
<1> HIDE DEF q
<1>3. \A n \in Nonces : chunks'[n] = IF n = c.nonce THEN q
                        ELSE IF n \in Pending \ S THEN chunks[n] ELSE NoQuery
  BY DEF RequestAccepted, q
<1>4. chunkBytes' = Drop(S)
  BY DEF RequestAccepted
<1>t. TypeOK
  BY DEF TypeInv
<1> HIDE DEF c, S
<1>5. \A n \in Nonces : n \notin Pending => chunks[n] = NoQuery
  BY DEF QueryInv, Vacant, Pending
<1>6. \A n \in Nonces : Held'[n] = IF n \in S THEN 0 ELSE Held[n]
  <2> SUFFICES ASSUME NEW n \in Nonces PROVE Held'[n] = IF n \in S THEN 0 ELSE Held[n]
    OBVIOUS
  <2>1. Held[n] = chunks[n].bytes /\ Held'[n] = chunks'[n].bytes
    BY DEF Held
  <2>2. CASE n = c.nonce
    BY <1>1, <1>2, <1>3, <1>5, <2>1, <2>2, NoQueryFacts
  <2>3. CASE n # c.nonce /\ n \in Pending
    BY <1>3, <2>1, <2>3, NoQueryFacts
  <2>4. CASE n # c.nonce /\ n \notin Pending
    BY <1>1, <1>3, <1>5, <2>1, <2>4, NoQueryFacts
  <2> QED
    BY <2>2, <2>3, <2>4
<1>7. \A n \in Nonces : Held[n] \in Nat
  BY <1>t, HeldTyped
<1>8. S \in SUBSET Nonces
  BY <1>1 DEF Pending
<1>9. SumOver(Held', Nonces) = SumOver(Held, Nonces) - SumOver(Held, S)
  BY <1>6, <1>7, <1>8, SumCleared, NamesAssumption
<1>10. Accounted'
  <2>1. chunkBytes' = Bytes(Nonces) - Bytes(S)
    BY <1>4, <1>8, <1>t, DropIs
  <2>2. chunkBytes' = Bytes(Nonces)'
    BY <2>1, <1>9, PrimedSum, BytesAreSum
  <2> QED
    BY <2>2 DEF Accounted
<1>11. NoCompletePending'
  BY <1>2, <1>3, NoQueryFacts DEF QueryInv, NoCompletePending, Pending
<1>12. Vacant'
  BY <1>1, <1>2, <1>3, NoQueryFacts DEF QueryInv, Vacant
<1> QED
  BY <1>10, <1>11, <1>12 DEF QueryInv

\* A chunk is kept: its bytes are added; with the last one all are given back.
LEMMA KeptStep ==
  ASSUME TypeInv, QueryInv, NEW n \in Nonces, NEW g \in Guilds,
         NEW count \in 1 .. MaxChunkCount, NEW i \in 0 .. count - 1, NEW size \in Sizes,
         ChunkKept(n, g, count, i, size)
  PROVE  QueryInv'
<1> DEFINE q == chunks[n]
           X == Expired(clock)
           total == Drop(X)
           r == [q EXCEPT !.count = count, !.got = q.got \cup {i}, !.bytes = q.bytes + size]
           whole == Cardinality(r.got) = count
<1>t. TypeOK
  BY DEF TypeInv
<1>1. /\ n \in Pending /\ n \notin X /\ X \in SUBSET Nonces
      /\ q \in Query /\ q.id # 0 /\ q.bytes \in Nat /\ size \in Nat
      /\ q.count = 0 \/ q.count = count
  BY <1>t, PendingTyped, SizesAssumption DEF ChunkKept, Mismatch, Query, Expired, Pending
<1>2. r.id = q.id /\ r.count = count /\ r.got = q.got \cup {i} /\ r.bytes = q.bytes + size
  BY <1>1 DEF Query
<1>3. \A m \in Nonces : Held[m] \in Nat /\ Held[m] = chunks[m].bytes
  BY <1>t, HeldTyped
<1>4. \/ /\ chunks' = [m \in Nonces |-> IF m = n \/ m \in X THEN NoQuery ELSE chunks[m]]
         /\ chunkBytes' = IF total + size < r.bytes THEN 0 ELSE total + size - r.bytes
      \/ /\ ~ whole
         /\ chunks' = [m \in Nonces |-> IF m = n THEN r ELSE IF m \in X THEN NoQuery ELSE chunks[m]]
         /\ chunkBytes' = total + size
  BY DEF ChunkKept
<1> HIDE DEF q, X, r, whole, total
<1>5. total = Bytes(Nonces) - Bytes(X) /\ Bytes(X) <= Bytes(Nonces)
      /\ Bytes(X) \in Nat /\ Bytes(Nonces) \in Nat
  BY <1>1, <1>t, DropIs, BytesTyped DEF total
<1>6. CASE /\ chunks' = [m \in Nonces |-> IF m = n \/ m \in X THEN NoQuery ELSE chunks[m]]
           /\ chunkBytes' = IF total + size < r.bytes THEN 0 ELSE total + size - r.bytes
  <2> DEFINE Y == X \cup {n}
  <2>1. Y \in SUBSET Nonces /\ n \in Y /\ Y \ {n} = X
    BY <1>1
  <2> HIDE DEF Y
  <2>2. SumOver(Held, Y) = Held[n] + SumOver(Held, Y \ {n})
    BY <2>1, <1>3, SumRemove, NamesAssumption
  <2>3. Bytes(Y) = q.bytes + Bytes(X)
    BY <2>1, <2>2, <1>3, BytesAreSum DEF q
  <2>4. Drop(Y) = Bytes(Nonces) - Bytes(Y) /\ Bytes(Y) <= Bytes(Nonces)
    BY <2>1, <1>t, DropIs
  <2>5. chunkBytes' = Drop(Y)
    BY <1>1, <1>2, <1>5, <1>6, <2>3, <2>4
  <2>6. chunks' = [m \in Nonces |-> IF m \in Y THEN NoQuery ELSE chunks[m]]
    BY <1>6 DEF Y
  <2> QED
    BY <1>t, <2>1, <2>5, <2>6, RemovedStep DEF Removed
<1>7. CASE /\ ~ whole
           /\ chunks' = [m \in Nonces |-> IF m = n THEN r ELSE IF m \in X THEN NoQuery ELSE chunks[m]]
           /\ chunkBytes' = total + size
  <2>0. \A m \in Nonces : chunks'[m] = IF m = n THEN r ELSE IF m \in X THEN NoQuery ELSE chunks[m]
    BY <1>7
  <2>1. Accounted'
    <3> DEFINE d == [m \in Nonces |-> IF m \in X THEN 0 ELSE Held[m]]
    <3>1. \A m \in Nonces : d[m] = (IF m \in X THEN 0 ELSE Held[m]) /\ d[m] \in Nat
      BY <1>3
    <3>2. \A m \in Nonces : Held'[m] = chunks'[m].bytes
      BY DEF Held
    <3>3. \A m \in Nonces : Held'[m] = IF m = n THEN d[m] + size ELSE d[m]
      BY <2>0, <3>1, <3>2, <1>1, <1>2, <1>3, NoQueryFacts DEF q
    <3> HIDE DEF d
    <3>4. SumOver(d, Nonces) = SumOver(Held, Nonces) - SumOver(Held, X)
      BY <3>1, <1>1, <1>3, SumCleared, NamesAssumption
    <3>5. SumOver(Held', Nonces) = SumOver(d, Nonces) + size
      BY <3>1, <3>3, <1>1, SumGrows, NamesAssumption
    <3>6. chunkBytes' = Bytes(Nonces)'
      BY <3>4, <3>5, <1>5, <1>7, PrimedSum, BytesAreSum
    <3> QED
      BY <3>6 DEF Accounted
  <2>2. r.got \subseteq 0 .. count - 1 /\ r.got # 0 .. count - 1
    <3>1. q.count = 0 => q.got = {}
      BY DEF QueryInv, Vacant, q
    <3>2. q.count = count => q.got \subseteq 0 .. count - 1
      BY <1>1 DEF QueryInv, NoCompletePending, q
    <3>3. r.got \subseteq 0 .. count - 1
      BY <3>1, <3>2, <1>1, <1>2
    <3>4. Cardinality(0 .. count - 1) = count
      BY FS_Interval
    <3> QED
      BY <3>3, <3>4, <1>7 DEF whole
  <2>3. NoCompletePending'
    BY <2>0, <2>2, <1>2, NoQueryFacts DEF QueryInv, NoCompletePending, Pending
  <2>4. Vacant'
    BY <2>0, <1>1, <1>2, NoQueryFacts DEF QueryInv, Vacant
  <2> QED
    BY <2>1, <2>3, <2>4 DEF QueryInv
<1> QED
  BY <1>4, <1>6, <1>7

LEMMA QueryStep == TypeInv /\ QueryInv /\ [Next]_vars => QueryInv'
<1> SUFFICES ASSUME TypeInv, QueryInv, [Next]_vars PROVE QueryInv'
  OBVIOUS
<1>t. TypeOK
  BY DEF TypeInv
<1>r. ASSUME NEW S \in SUBSET Nonces, Removed(S) PROVE QueryInv'
  BY <1>r, <1>t, RemovedStep
<1>f. ASSUME NEW now, NEW S \in SUBSET Nonces, NEW reason, Fail(now, S, reason) PROVE QueryInv'
  <2>1. Expired(now) \cup S \in SUBSET Nonces /\ Removed(Expired(now) \cup S)
    BY <1>f DEF Fail, Removed, Expired, Pending
  <2> QED
    BY <2>1, <1>r
<1>u. ASSUME UNCHANGED <<chunks, chunkBytes>> PROVE QueryInv'
  <2>1. Accounted'
    <3>1. Bytes(Nonces)' = Bytes(Nonces)
      <4>1. Held' = Held
        BY <1>u DEF Held
      <4> QED
        BY <4>1, PrimedSum, BytesAreSum
    <3> QED
      BY <1>u, <3>1 DEF QueryInv, Accounted
  <2>2. Vacant' /\ NoCompletePending'
    BY <1>u DEF QueryInv, Vacant, NoCompletePending, Pending
  <2> QED
    BY <2>1, <2>2 DEF QueryInv
<1>1. CASE Tick \/ PeerCloses \/ Encode
  BY <1>1, <1>u DEF Tick, PeerCloses, Encode, gateway
<1>2. CASE Bind
  BY <1>2, <1>t, ResetStep DEF Bind
<1>3. CASE Unbind
  BY <1>3, <1>t, ResetStep DEF Unbind
<1>4. ASSUME NEW p \in Procs, SendUpdate(p) \/ UpdateReturns(p) \/ RequestSent(p) PROVE QueryInv'
  BY <1>4, <1>u DEF SendUpdate, UpdateReturns, RequestSent, gateway
<1>5. ASSUME NEW p, NEW n, NEW g, NEW needs, RequestMembers(p, n, g, needs) PROVE QueryInv'
  BY <1>5, <1>u DEF RequestMembers, gateway
<1>6. ASSUME NEW p, RequestRefused(p) PROVE QueryInv'
  <2>1. Fail(arg[p].now, {}, "timeout")
    BY <1>6 DEF RequestRefused, Expire
  <2> QED
    BY <2>1, <1>f
<1>7. ASSUME NEW p \in Procs, RequestAccepted(p) PROVE QueryInv'
  BY <1>7, AcceptedStep
<1>8. ASSUME NEW p \in Procs, RequestNotSent(p) PROVE QueryInv'
  <2> DEFINE mine == {n \in {arg[p].nonce} : chunks[n].id = arg[p].id}
  <2>1. arg[p] \in Call
    BY <1>t DEF TypeOK
  <2>2. mine \in SUBSET Nonces
    BY <2>1 DEF Call
  <2>3. Removed(mine)
    BY <1>8 DEF RequestNotSent, Removed
  <2> QED
    BY <2>2, <2>3, <1>r
<1>9. ASSUME NEW n, NEW g, NEW count, NEW i, ChunkIgnored(n, g, count, i) PROVE QueryInv'
  <2>1. Fail(clock, {}, "timeout")
    BY <1>9 DEF ChunkIgnored, Expire
  <2> QED
    BY <2>1, <1>f
<1>10. ASSUME NEW n \in Nonces, NEW g, NEW count, NEW i, NEW size,
              ChunkRejected(n, g, count, i, size)
       PROVE  QueryInv'
  <2>1. \E reason : Fail(clock, {n}, reason)
    BY <1>10 DEF ChunkRejected
  <2> QED
    BY <2>1, <1>f
<1>11. ASSUME NEW n \in Nonces, NEW g \in Guilds, NEW count \in 1 .. MaxChunkCount,
              NEW i \in 0 .. count - 1, NEW size \in Sizes, ChunkKept(n, g, count, i, size)
       PROVE  QueryInv'
  BY <1>11, KeptStep
<1>12. ASSUME NEW n, NEW g, RateLimited(n, g) PROVE QueryInv'
  <2> DEFINE S == {m \in Pending \ Expired(clock) : m = n /\ chunks[m].guild = g}
  <2>1. Fail(clock, S, "rate_limited") /\ S \in SUBSET Nonces
    BY <1>12 DEF RateLimited, Pending
  <2> HIDE DEF S
  <2> QED
    BY <2>1, <1>f
<1>13. CASE TakeFailures
  <2>1. Expired(clock) \in SUBSET Nonces /\ Removed(Expired(clock))
    BY <1>13 DEF TakeFailures, Removed, Expired, Pending
  <2> QED
    BY <2>1, <1>r
<1>14. CASE UNCHANGED vars
  BY <1>14, <1>u DEF vars, gateway
<1> QED
  BY <1>1, <1>2, <1>3, <1>4, <1>5, <1>6, <1>7, <1>8, <1>9, <1>10, <1>11, <1>12, <1>13, <1>14
  DEF Next, CallStep, Chunk

LEMMA QueryInvariant == Spec => [](TypeInv /\ QueryInv)
<1>1. Init => QueryInv
  <2> SUFFICES ASSUME Init PROVE QueryInv
    OBVIOUS
  <2>0. \A n \in Nonces : chunks[n] = NoQuery
    BY DEF Init
  <2>1. \A n \in Nonces : Held[n] = 0
    BY <2>0, NoQueryFacts DEF Held
  <2>2. SumOver(Held, Nonces) = 0
    BY <2>1, SumZero, NamesAssumption
  <2>3. Accounted
    BY <2>2, BytesAreSum DEF Accounted, Init
  <2> QED
    BY <2>0, <2>3, NoQueryFacts DEF QueryInv, Vacant, NoCompletePending, Pending
<1>2. TypeInv /\ QueryInv /\ [Next]_vars => (TypeInv /\ QueryInv)'
  BY TypeStep, QueryStep
<1> QED
  BY <1>1, <1>2, InitTyped, PTL DEF Spec

\* chunkBytes is the sum of what the pending queries hold, and within the
\* limit: of the ten places that add a query or a chunk or remove one, none
\* forgets its bytes or gives them back twice.
THEOREM BytesAreAccounted == Spec => []BytesAccounted
<1>1. TypeInv /\ QueryInv => BytesAccounted
  BY LimitsAssumption DEF TypeInv, TypeOK, QueryInv, Accounted, BytesAccounted
<1> QED
  BY <1>1, QueryInvariant, PTL

\* A query that is still pending lacks one of the chunks that were announced:
\* the one that completes it takes it out, whatever the order they come in.
THEOREM NoneLeftComplete == Spec => []NoCompletePending
<1>1. TypeInv /\ QueryInv => NoCompletePending
  BY DEF QueryInv
<1> QED
  BY <1>1, QueryInvariant, PTL

---------------------------------------------------------------------------
(***************************************************************************)
(* One outcome for every query                                             *)
(***************************************************************************)

\* The four places an outcome can be in.
InChunks(i) == \E n \in Nonces : chunks[n].id = i
Encoding(i) == pc[Loop] = "encode" /\ arg[Loop].id = i
Failed(i) == \E f \in failures : f[1] = i
Reported(i) == reports[i] # 0
Somewhere(i) == InChunks(i) \/ Encoding(i) \/ Failed(i) \/ Reported(i)

\* No query is twice in the same place, ...
Unique ==
  /\ \A m, n \in Nonces : chunks[m].id # 0 /\ chunks[m].id = chunks[n].id => m = n
  /\ \A e, f \in failures : e[1] = f[1] => e = f
  /\ \A i \in Ids : reports[i] <= 1

\* ... or in two places.
Apart ==
  \A i \in Ids :
    /\ InChunks(i) => ~ Encoding(i) /\ ~ Failed(i) /\ ~ Reported(i)
    /\ Encoding(i) => ~ Failed(i) /\ ~ Reported(i)
    /\ Failed(i) => ~ Reported(i)

\* What the callers know, ...
Answers ==
  \A i \in Ids :
    /\ told[i] = "ok" => Somewhere(i)
    /\ told[i] = "err" => ~ InChunks(i)
    /\ i > issued => ~ Somewhere(i) /\ told[i] = "none"

\* ... and the ones that do not know yet.
Asking(p) == pc[p] \in {"request", "send"}
Askers ==
  /\ \A p \in Procs : Asking(p) => arg[p].id <= issued
  /\ \A p, r \in Procs : Asking(p) /\ Asking(r) /\ arg[p].id = arg[r].id => p = r
  /\ \A p \in Procs : pc[p] = "request" => ~ Somewhere(arg[p].id) /\ told[arg[p].id] = "none"
  /\ \A p \in Procs : pc[p] = "send" => Somewhere(arg[p].id)
  /\ \A p \in Procs, n \in Nonces :
       pc[p] = "send" /\ chunks[n].id = arg[p].id => n = arg[p].nonce

\* Without a session there is nothing left to tell.
Ended == socket = "none" => Pending = {} /\ failures = {} /\ pc[Loop] # "encode"

OutcomeInv == Unique /\ Apart /\ Answers /\ Askers /\ Ended

\* A step that moves outcomes from place to place and loses none.
Moved ==
  /\ Unique' /\ Apart'
  /\ \A i \in Ids : Somewhere(i)' <=> Somewhere(i)
  /\ \A n \in Nonces : chunks'[n].id # 0 => chunks'[n].id = chunks[n].id

\* The queries in R fail for the reasons in w, those in E (one at most) are
\* taken out to be encoded.
MovesOut(R, E, w) ==
  /\ R \in SUBSET Pending /\ E \in SUBSET Pending /\ R \cap E = {}
  /\ E # {} => pc[Loop] # "encode"
  /\ \A m, n \in E : m = n
  /\ \A n \in Nonces : chunks'[n].id = IF n \in R \cup E THEN 0 ELSE chunks[n].id
  /\ failures' = failures \cup {<<chunks[n].id, w[n]>> : n \in R}
  /\ \A i \in Ids : Encoding(i)' <=> Encoding(i) \/ \E n \in E : chunks[n].id = i
  /\ reports' = reports

LEMMA FailMoves ==
  ASSUME TypeOK, Unique, Apart, NEW R, NEW E, NEW w, MovesOut(R, E, w)
  PROVE  Moved
<1> USE DEF MovesOut
<1>0. /\ Pending \subseteq Nonces /\ \A n \in Pending : chunks[n].id # 0
      /\ \A i \in Ids : i # 0
  BY LimitsAssumption DEF Pending, Ids
<1> DEFINE InR(i) == \E n \in R : chunks[n].id = i
           InE(i) == \E n \in E : chunks[n].id = i
<1>1. ASSUME NEW i \in Ids
      PROVE  /\ InChunks(i) <=> InChunks(i)' \/ InR(i) \/ InE(i)
             /\ InR(i) => ~ InChunks(i)' /\ ~ InE(i)
             /\ InE(i) => ~ InChunks(i)'
             /\ Failed(i)' <=> Failed(i) \/ InR(i)
             /\ Reported(i)' <=> Reported(i)
             /\ Encoding(i)' <=> Encoding(i) \/ InE(i)
  <2>1. InChunks(i) <=> InChunks(i)' \/ InR(i) \/ InE(i)
    BY <1>0 DEF InChunks
  <2>2. /\ InR(i) => ~ InChunks(i)' /\ ~ InE(i)
        /\ InE(i) => ~ InChunks(i)'
    BY <1>0 DEF InChunks, Unique
  <2>3. Failed(i)' <=> Failed(i) \/ InR(i)
    <3>1. ASSUME Failed(i)' PROVE Failed(i) \/ InR(i)
      <4>1. PICK f \in failures' : f[1] = i
        BY <3>1 DEF Failed
      <4>2. CASE f \in failures
        BY <4>1, <4>2 DEF Failed
      <4>3. CASE f \notin failures
        <5>1. PICK n \in R : f = <<chunks[n].id, w[n]>>
          BY <4>1, <4>3
        <5> QED
          BY <4>1, <5>1
      <4> QED
        BY <4>2, <4>3
    <3>2. ASSUME Failed(i) PROVE Failed(i)'
      BY <3>2 DEF Failed
    <3>3. ASSUME InR(i) PROVE Failed(i)'
      <4>1. PICK n \in R : chunks[n].id = i
        BY <3>3
      <4>2. <<chunks[n].id, w[n]>> \in failures'
        OBVIOUS
      <4> QED
        BY <4>1, <4>2 DEF Failed
    <3> QED
      BY <3>1, <3>2, <3>3
  <2>4. Reported(i)' <=> Reported(i)
    BY DEF Reported
  <2> QED
    BY <2>1, <2>2, <2>3, <2>4
<1>2. Unique'
  <2>1. \A m, n \in Nonces : chunks'[m].id # 0 /\ chunks'[m].id = chunks'[n].id => m = n
    BY DEF Unique
  <2>2. ASSUME NEW e \in failures', NEW f \in failures', e[1] = f[1] PROVE e = f
    <3>1. \A n \in R, x \in failures : x[1] # chunks[n].id
      <4> SUFFICES ASSUME NEW n \in R, NEW x \in failures, x[1] = chunks[n].id PROVE FALSE
        OBVIOUS
      <4>1. chunks[n].id \in Ids
        BY <1>0, PendingTyped
      <4> QED
        BY <4>1, <1>0 DEF Apart, InChunks, Failed
    <3>2. CASE e \in failures /\ f \in failures
      BY <3>2, <2>2 DEF Unique
    <3>3. CASE e \notin failures /\ f \in failures
      BY <3>1, <3>3, <2>2
    <3>4. CASE e \in failures /\ f \notin failures
      BY <3>1, <3>4, <2>2
    <3>5. CASE e \notin failures /\ f \notin failures
      <4>1. PICK m \in R : e = <<chunks[m].id, w[m]>>
        BY <3>5
      <4>2. PICK n \in R : f = <<chunks[n].id, w[n]>>
        BY <3>5
      <4>3. chunks[m].id = chunks[n].id
        BY <4>1, <4>2, <2>2
      <4>4. m = n
        BY <4>3, <1>0 DEF Unique
      <4> QED
        BY <4>1, <4>2, <4>4
    <3> QED
      BY <3>2, <3>3, <3>4, <3>5
  <2> QED
    BY <2>1, <2>2 DEF Unique
<1>3. ASSUME NEW i \in Ids, InE(i) PROVE ~ Encoding(i)
  BY <1>3 DEF Encoding
<1> HIDE DEF InR, InE
<1>4. Apart'
  BY <1>1, <1>3 DEF Apart
<1>5. \A i \in Ids : Somewhere(i)' <=> Somewhere(i)
  BY <1>1 DEF Somewhere
<1> QED
  BY <1>2, <1>4, <1>5 DEF Moved

\* The failures and the queries in R are handed to Bot.run.
LEMMA ReportMoves ==
  ASSUME TypeOK, Unique, Apart, NEW R \in SUBSET Pending,
         \A n \in Nonces : chunks'[n].id = IF n \in R THEN 0 ELSE chunks[n].id,
         Report({f[1] : f \in failures} \cup {chunks[n].id : n \in R}),
         failures' = {},
         \A i \in Ids : Encoding(i)' <=> Encoding(i)
  PROVE  Moved
<1>0. /\ Pending \subseteq Nonces /\ \A n \in Pending : chunks[n].id # 0
      /\ \A i \in Ids : i # 0 /\ reports[i] \in Nat
  BY LimitsAssumption DEF Pending, Ids, TypeOK
<1> DEFINE InR(i) == \E n \in R : chunks[n].id = i
<1>1. ASSUME NEW i \in Ids
      PROVE  /\ InChunks(i) <=> InChunks(i)' \/ InR(i)
             /\ InR(i) => ~ InChunks(i)'
             /\ ~ Failed(i)'
             /\ Reported(i)' <=> Reported(i) \/ Failed(i) \/ InR(i)
             /\ reports'[i] <= 1
  <2>1. InChunks(i) <=> InChunks(i)' \/ InR(i)
    BY <1>0 DEF InChunks
  <2>2. InR(i) => ~ InChunks(i)'
    BY <1>0 DEF InChunks, Unique
  <2>3. ~ Failed(i)'
    BY DEF Failed
  <2>4. reports'[i] = IF Failed(i) \/ InR(i) THEN reports[i] + 1 ELSE reports[i]
    BY DEF Report, Failed
  <2>5. Failed(i) \/ InR(i) => ~ Reported(i)
    BY <2>1 DEF Apart
  <2> HIDE DEF InR
  <2>6. Reported(i)' <=> Reported(i) \/ Failed(i) \/ InR(i)
    BY <2>4, <1>0 DEF Reported
  <2>7. reports'[i] <= 1
    BY <2>4, <2>5, <1>0 DEF Reported, Unique
  <2> QED
    BY <2>1, <2>2, <2>3, <2>6, <2>7
<1>2. Unique'
  <2>1. \A m, n \in Nonces : chunks'[m].id # 0 /\ chunks'[m].id = chunks'[n].id => m = n
    BY DEF Unique
  <2> QED
    BY <2>1, <1>1 DEF Unique
<1> HIDE DEF InR
<1>3. Apart'
  BY <1>1 DEF Apart
<1>4. \A i \in Ids : Somewhere(i)' <=> Somewhere(i)
  BY <1>1 DEF Somewhere
<1> QED
  BY <1>2, <1>3, <1>4 DEF Moved

\* What is encoded goes to Bot.run, or becomes a failure.
LEMMA EncodeMoves == ASSUME TypeInv, Unique, Apart, Encode PROVE Moved
<1> DEFINE e == arg[Loop].id
<1>0. /\ e \in Ids /\ pc[Loop] = "encode" /\ chunks' = chunks /\ \A i \in Ids : reports[i] \in Nat
      /\ pc' = [pc EXCEPT ![Loop] = "idle"] /\ pc \in [Procs -> {"idle", "request", "send", "update", "encode"}]
  BY LoopAssumption DEF TypeInv, TypeOK, CallInv, Encode, Return
<1>1. \A i \in Ids : ~ Encoding(i)' /\ (Encoding(i) <=> i = e)
  BY <1>0, LoopAssumption DEF Encoding
<1>2. \A i \in Ids : InChunks(i)' <=> InChunks(i)
  BY <1>0 DEF InChunks
<1>3. ~ Reported(e) /\ ~ Failed(e) /\ ~ InChunks(e)
  BY <1>0, <1>1 DEF Apart
<1>4. CASE Report({e}) /\ UNCHANGED failures
  <2>1. \A i \in Ids : reports'[i] = IF i = e THEN reports[i] + 1 ELSE reports[i]
    BY <1>4 DEF Report
  <2> HIDE DEF e
  <2>2. \A i \in Ids : (Reported(i)' <=> Reported(i) \/ i = e) /\ (Failed(i)' <=> Failed(i))
    BY <2>1, <1>0, <1>4 DEF Reported, Failed
  <2>3. \A i \in Ids : reports'[i] <= 1
    BY <2>1, <1>0, <1>3 DEF Reported, Unique
  <2>4. Unique'
    BY <2>3, <1>0, <1>4 DEF Unique
  <2>5. Apart'
    BY <2>2, <1>1, <1>2, <1>3 DEF Apart
  <2>6. \A i \in Ids : Somewhere(i)' <=> Somewhere(i)
    BY <2>2, <1>1, <1>2 DEF Somewhere
  <2> QED
    BY <2>4, <2>5, <2>6, <1>0 DEF Moved
<1>5. ASSUME NEW reason, failures' = failures \cup {<<e, reason>>}, UNCHANGED reports PROVE Moved
  <2> HIDE DEF e
  <2>1. \A i \in Ids : (Failed(i)' <=> Failed(i) \/ i = e) /\ (Reported(i)' <=> Reported(i))
    <3>1. <<e, reason>> \in failures'
      BY <1>5
    <3>2. \A i \in Ids : Reported(i)' <=> Reported(i)
      BY <1>5 DEF Reported
    <3>3. \A i \in Ids : Failed(i)' => Failed(i) \/ i = e
      BY <1>5 DEF Failed
    <3>4. \A i \in Ids : Failed(i) => Failed(i)'
      BY <1>5 DEF Failed
    <3>5. \A i \in Ids : i = e => Failed(i)'
      <4>1. <<e, reason>>[1] = e
        OBVIOUS
      <4> QED
        BY <3>1, <4>1 DEF Failed
    <3> QED
      BY <3>2, <3>3, <3>4, <3>5
  <2>2. \A x, y \in failures' : x[1] = y[1] => x = y
    BY <1>3, <1>5 DEF Failed, Unique
  <2>3. Unique'
    BY <2>2, <1>0, <1>5 DEF Unique
  <2>4. Apart'
    BY <2>1, <1>1, <1>2, <1>3 DEF Apart
  <2>5. \A i \in Ids : Somewhere(i)' <=> Somewhere(i)
    BY <2>1, <1>1, <1>2 DEF Somewhere
  <2> QED
    BY <2>3, <2>4, <2>5, <1>0 DEF Moved
<1> QED
  BY <1>4, <1>5 DEF Encode

\* Moving outcomes disturbs neither what the callers were told nor the calls
\* that are under way.
LEMMA MovedKeeps ==
  ASSUME TypeInv, OutcomeInv, Moved, UNCHANGED <<told, issued>>, Ended',
         \A p \in Procs : Asking(p) \/ pc'[p] \in {"request", "send"} =>
                          pc'[p] = pc[p] /\ arg'[p] = arg[p]
  PROVE  OutcomeInv'
<1>0. /\ \A p \in Procs : Asking(p) => arg[p].id \in Ids
      /\ \A i \in Ids : i # 0
  BY LimitsAssumption DEF TypeInv, CallInv, Asking, Ids
<1>1. \A i \in Ids : InChunks(i)' => InChunks(i)
  BY <1>0 DEF Moved, InChunks
<1>2. Answers'
  BY <1>1 DEF OutcomeInv, Answers, Moved
<1>3. \A p \in Procs : pc'[p] \in {"request", "send"} =>
        Asking(p) /\ pc'[p] = pc[p] /\ arg'[p] = arg[p] /\ arg[p].id \in Ids
  BY <1>0 DEF Asking
<1>4. Askers'
  <2>1. \A p \in Procs : pc'[p] \in {"request", "send"} => arg'[p].id <= issued'
    BY <1>3 DEF OutcomeInv, Askers
  <2>2. \A p, r \in Procs :
          pc'[p] \in {"request", "send"} /\ pc'[r] \in {"request", "send"}
            /\ arg'[p].id = arg'[r].id => p = r
    BY <1>3 DEF OutcomeInv, Askers
  <2>3. ASSUME NEW p \in Procs, pc'[p] = "request"
        PROVE  ~ Somewhere(arg[p].id)' /\ told'[arg'[p].id] = "none"
    <3>1. pc[p] = "request" /\ arg'[p] = arg[p] /\ arg[p].id \in Ids
      BY <1>3, <2>3
    <3>2. ~ Somewhere(arg[p].id) /\ told[arg[p].id] = "none"
      BY <3>1 DEF OutcomeInv, Askers
    <3>3. \A i \in Ids : i = arg'[p].id => ~ Somewhere(i)'
      BY <3>1, <3>2 DEF Moved
    <3> QED
      BY <3>1, <3>2, <3>3
  <2>4. ASSUME NEW p \in Procs, pc'[p] = "send" PROVE Somewhere(arg[p].id)'
    <3>1. pc[p] = "send" /\ arg'[p] = arg[p] /\ arg[p].id \in Ids
      BY <1>3, <2>4
    <3>2. Somewhere(arg[p].id)
      BY <3>1 DEF OutcomeInv, Askers
    <3>3. \A i \in Ids : i = arg'[p].id => Somewhere(i)'
      BY <3>1, <3>2 DEF Moved
    <3> QED
      BY <3>1, <3>3
  <2>5. ASSUME NEW p \in Procs, NEW n \in Nonces, pc'[p] = "send", chunks'[n].id = arg'[p].id
        PROVE  n = arg'[p].nonce
    <3>1. pc[p] = "send" /\ arg'[p] = arg[p] /\ arg[p].id \in Ids
      BY <1>3, <2>5
    <3>2. chunks[n].id = arg[p].id
      BY <3>1, <2>5, <1>0 DEF Moved
    <3> QED
      BY <3>1, <3>2 DEF OutcomeInv, Askers
  <2> QED
    BY <2>1, <2>2, <2>3, <2>4, <2>5 DEF Askers, Asking
<1> QED
  BY <1>2, <1>4 DEF OutcomeInv, Moved

\* Nothing is moved.
LEMMA StayMoves ==
  ASSUME Unique, Apart, UNCHANGED <<failures, reports>>,
         \A n \in Nonces : chunks'[n].id = chunks[n].id,
         \A i \in Ids : Encoding(i)' <=> Encoding(i)
  PROVE  Moved
<1>1. \A i \in Ids : /\ InChunks(i)' <=> InChunks(i)
                     /\ Failed(i)' <=> Failed(i)
                     /\ Reported(i)' <=> Reported(i)
  BY DEF InChunks, Failed, Reported
<1>2. Unique'
  BY DEF Unique
<1>3. Apart'
  BY <1>1 DEF Apart
<1>4. \A i \in Ids : Somewhere(i)' <=> Somewhere(i)
  BY <1>1 DEF Somewhere
<1> QED
  BY <1>2, <1>3, <1>4 DEF Moved

\* Fail moves the queries it removes to the failures.
LEMMA FailIsMove ==
  ASSUME TypeOK, Unique, Apart, NEW now, NEW S \in SUBSET Pending, NEW reason,
         Fail(now, S, reason), reports' = reports,
         \A i \in Ids : Encoding(i)' <=> Encoding(i)
  PROVE  Moved
<1> DEFINE X == Expired(now)
           R == X \cup S
           w == [n \in R |-> IF n \in X THEN "timeout" ELSE reason]
<1>1. R \in SUBSET Pending /\ X \in SUBSET R /\ S \in SUBSET R /\ {} \in SUBSET Pending
  BY DEF Expired
<1>2. \A n \in Nonces : chunks'[n].id = IF n \in R \cup {} THEN 0 ELSE chunks[n].id
  BY NoQueryFacts DEF Fail
<1>3. failures' = failures \cup {<<chunks[n].id, w[n]>> : n \in R}
  <2>1. failures' = failures \cup {<<chunks[n].id, "timeout">> : n \in X}
                             \cup {<<chunks[n].id, reason>> : n \in S \ X}
    BY DEF Fail
  <2>2. \A n \in X : w[n] = "timeout"
    OBVIOUS
  <2>3. \A n \in S \ X : w[n] = reason
    OBVIOUS
  <2> HIDE DEF w, X
  <2>4. R = X \cup (S \ X)
    OBVIOUS
  <2> HIDE DEF R
  <2>5. {<<chunks[n].id, w[n]>> : n \in R}
          = {<<chunks[n].id, "timeout">> : n \in X} \cup {<<chunks[n].id, reason>> : n \in S \ X}
    BY <2>2, <2>3, <2>4
  <2> QED
    BY <2>1, <2>5
<1> DEFINE E == {}
<1>4. /\ E \in SUBSET Pending /\ R \cap E = {} /\ (E # {} => pc[Loop] # "encode")
      /\ \A m, n \in E : m = n
      /\ \A i \in Ids : Encoding(i)' <=> Encoding(i) \/ \E n \in E : chunks[n].id = i
  OBVIOUS
<1>5. \A n \in Nonces : chunks'[n].id = IF n \in R \cup E THEN 0 ELSE chunks[n].id
  BY <1>2
<1> HIDE DEF R, w, X, E
<1>6. MovesOut(R, E, w)
  BY <1>1, <1>3, <1>4, <1>5 DEF MovesOut
<1> QED
  BY <1>6, FailMoves

\* A new query is registered: it was nowhere, and is now among the pending.
LEMMA AcceptedPlaces ==
  ASSUME TypeInv, QueryInv, OutcomeInv, NEW p \in Procs, RequestAccepted(p)
  PROVE  /\ Unique' /\ Apart'
         /\ \A i \in Ids : Somewhere(i)' <=> Somewhere(i) \/ i = arg[p].id
         /\ \A n \in Nonces : chunks'[n].id # 0 /\ n # arg[p].nonce =>
                               chunks'[n].id = chunks[n].id
         /\ chunks'[arg[p].nonce].id = arg[p].id
<1> DEFINE c == arg[p]
           R == Expired(c.now)
           q == [NoQuery EXCEPT !.id = c.id, !.guild = c.guild, !.at = c.now]
           InR(i) == \E n \in R : chunks[n].id = i
<1>0. /\ Pending \subseteq Nonces /\ R \subseteq Pending /\ \A n \in Pending : chunks[n].id \in Ids
      /\ \A i \in Ids : i # 0
  BY PendingTyped, LimitsAssumption DEF Pending, Ids, Expired, TypeInv
<1>1. /\ pc[p] = "request" /\ c.id \in Ids /\ c.nonce \in Nonces /\ c.nonce \notin Pending \ R
      /\ pc' = [pc EXCEPT ![p] = "send"] /\ arg' = arg /\ reports' = reports
      /\ failures' = failures \cup {<<chunks[n].id, "timeout">> : n \in R}
  <2>1. c \in Call
    BY DEF TypeInv, TypeOK
  <2> QED
    BY <2>1 DEF RequestAccepted, TypeInv, CallInv, Call
<1>2. q.id = c.id
  BY DEF NoQuery
<1>3. \A n \in Nonces : chunks'[n] = IF n = c.nonce THEN q
                        ELSE IF n \in Pending \ R THEN chunks[n] ELSE NoQuery
  BY DEF RequestAccepted
<1>4. ~ Somewhere(c.id)
  BY <1>1 DEF OutcomeInv, Askers
<1>e. \A i \in Ids : Encoding(i)' <=> Encoding(i)
  BY <1>1, LoopAssumption DEF Encoding, TypeInv, TypeOK
<1> HIDE DEF c, q, R
<1>5. \A n \in Nonces : chunks'[n].id = IF n = c.nonce THEN c.id
                        ELSE IF n \in Pending \ R THEN chunks[n].id ELSE 0
  BY <1>2, <1>3, NoQueryFacts
<1>6. ASSUME NEW i \in Ids
      PROVE  /\ InChunks(i) \/ i = c.id <=> InChunks(i)' \/ InR(i)
             /\ InR(i) => ~ InChunks(i)'
             /\ InR(i) => InChunks(i)
             /\ i # c.id /\ InChunks(i)' => InChunks(i)
             /\ Failed(i)' <=> Failed(i) \/ InR(i)
             /\ Reported(i)' <=> Reported(i)
  <2>0. \A n \in Nonces : chunks[n].id # c.id
    BY <1>4 DEF Somewhere, InChunks
  <2>1. InR(i) => InChunks(i)
    BY <1>0 DEF InChunks
  <2>2. i # c.id /\ InChunks(i)' => InChunks(i)
    BY <1>0, <1>5 DEF InChunks
  <2>3. InR(i) => ~ InChunks(i)'
    BY <1>0, <1>5, <2>0 DEF InChunks, OutcomeInv, Unique
  <2>4. InChunks(i) => InChunks(i)' \/ InR(i)
    <3> SUFFICES ASSUME NEW n \in Nonces, chunks[n].id = i, ~ InR(i) PROVE InChunks(i)'
      BY DEF InChunks
    <3>1. n \in Pending \ R
      BY <1>0 DEF Pending
    <3>2. n # c.nonce
      BY <1>1, <3>1
    <3> QED
      BY <1>5, <3>1, <3>2 DEF InChunks
  <2>5. i = c.id => InChunks(i)'
    BY <1>1, <1>5 DEF InChunks
  <2>6. Failed(i)' <=> Failed(i) \/ InR(i)
    <3>1. ASSUME NEW f \in failures', f[1] = i, f \notin failures PROVE InR(i)
      <4>1. PICK n \in R : f = <<chunks[n].id, "timeout">>
        BY <1>1, <3>1
      <4> QED
        BY <4>1, <3>1
    <3>2. ASSUME NEW n \in R, chunks[n].id = i PROVE Failed(i)'
      <4>1. <<chunks[n].id, "timeout">> \in failures'
        BY <1>1
      <4> QED
        BY <3>2, <4>1 DEF Failed
    <3>3. Failed(i) => Failed(i)'
      BY <1>1 DEF Failed
    <3> QED
      BY <3>1, <3>2, <3>3 DEF Failed
  <2>7. Reported(i)' <=> Reported(i)
    BY <1>1 DEF Reported
  <2>8. i = c.id => ~ InR(i)
    BY <2>0, <1>0
  <2> HIDE DEF InR
  <2> QED
    BY <2>1, <2>2, <2>3, <2>4, <2>5, <2>6, <2>7
<1>7. Unique'
  <2>1. \A m, n \in Nonces : chunks'[m].id # 0 /\ chunks'[m].id = chunks'[n].id => m = n
    <3>1. \A n \in Nonces : chunks[n].id # c.id
      BY <1>4 DEF Somewhere, InChunks
    <3> QED
      BY <1>5, <3>1 DEF OutcomeInv, Unique
  <2>2. ASSUME NEW e \in failures', NEW f \in failures', e[1] = f[1] PROVE e = f
    <3>1. \A n \in R, x \in failures : x[1] # chunks[n].id
      BY <1>0 DEF OutcomeInv, Apart, InChunks, Failed
    <3>2. CASE e \in failures /\ f \in failures
      BY <3>2, <2>2 DEF OutcomeInv, Unique
    <3>3. CASE e \notin failures \/ f \notin failures
      BY <1>0, <1>1, <3>1, <3>3, <2>2 DEF OutcomeInv, Unique
    <3> QED
      BY <3>2, <3>3
  <2> QED
    BY <2>1, <2>2, <1>1 DEF Unique, OutcomeInv
<1> HIDE DEF InR
<1>8. Apart'
  <2> SUFFICES ASSUME NEW i \in Ids
               PROVE  /\ InChunks(i)' => ~ Encoding(i)' /\ ~ Failed(i)' /\ ~ Reported(i)'
                      /\ Encoding(i)' => ~ Failed(i)' /\ ~ Reported(i)'
                      /\ Failed(i)' => ~ Reported(i)'
    BY DEF Apart
  <2>1. /\ InChunks(i) => ~ Encoding(i) /\ ~ Failed(i) /\ ~ Reported(i)
        /\ Encoding(i) => ~ Failed(i) /\ ~ Reported(i)
        /\ Failed(i) => ~ Reported(i)
    BY DEF OutcomeInv, Apart
  <2>2. i = c.id => ~ InChunks(i) /\ ~ Encoding(i) /\ ~ Failed(i) /\ ~ Reported(i)
    BY <1>4 DEF Somewhere
  <2> QED
    BY <1>6, <1>e, <2>1, <2>2
<1>9. \A i \in Ids : Somewhere(i)' <=> Somewhere(i) \/ i = c.id
  BY <1>6, <1>e DEF Somewhere
<1> QED
  BY <1>1, <1>5, <1>7, <1>8, <1>9 DEF c

\* The calls: asking, being refused or accepted, and returning.
LEMMA AskStep ==
  ASSUME TypeInv, OutcomeInv, NEW p \in Procs, NEW n \in Nonces, NEW g, NEW needs,
         RequestMembers(p, n, g, needs)
  PROVE  OutcomeInv'
<1> DEFINE k == issued + 1
<1>0. /\ pc \in [Procs -> {"idle", "request", "send", "update", "encode"}] /\ issued \in Nat
      /\ k \in Ids /\ k > issued /\ \A r \in Procs : Asking(r) => arg[r].id \in Ids
  BY LimitsAssumption DEF TypeInv, TypeOK, CallInv, Asking, Ids, RequestMembers
<1>1. /\ pc[p] = "idle" /\ issued' = k /\ pc' = [pc EXCEPT ![p] = "request"]
      /\ arg'[p].id = k /\ \A r \in Procs : r # p => arg'[r] = arg[r]
      /\ UNCHANGED <<chunks, failures, reports, told, socket>>
  BY DEF RequestMembers, gateway, TypeInv, TypeOK
<1>2. \A i \in Ids : Encoding(i)' <=> Encoding(i)
  BY <1>0, <1>1, LoopAssumption DEF Encoding
<1>3. Moved
  BY <1>1, <1>2, StayMoves DEF OutcomeInv
<1>4. Ended'
  BY <1>0, <1>1, LoopAssumption DEF OutcomeInv, Ended, Pending
<1> HIDE DEF k
<1>5. \A i \in Ids : InChunks(i)' <=> InChunks(i)
  BY <1>1 DEF InChunks
<1>6. \A i \in Ids : i > issued' => i > issued
  BY <1>0, <1>1, LimitsAssumption DEF Ids
<1>7. Answers'
  BY <1>1, <1>3, <1>5, <1>6 DEF OutcomeInv, Answers, Moved
<1>8. \A r \in Procs : r # p => pc'[r] = pc[r] /\ arg'[r] = arg[r]
  BY <1>0, <1>1
<1>9. ~ Somewhere(k) /\ told[k] = "none"
  BY <1>0 DEF OutcomeInv, Answers
<1>10. pc'[p] = "request" /\ arg'[p].id = k
  BY <1>0, <1>1
<1>11. \A r \in Procs : Asking(r) => arg[r].id <= issued /\ arg[r].id # k
  <2>1. \A r \in Procs : Asking(r) => arg[r].id <= issued /\ arg[r].id \in Nat
    BY <1>0, LimitsAssumption DEF OutcomeInv, Askers, Ids
  <2> QED
    BY <2>1, <1>0
<1>12. Askers'
  <2>1. \A r \in Procs : pc'[r] \in {"request", "send"} => arg'[r].id <= issued'
    <3>1. ASSUME NEW r \in Procs, pc'[r] \in {"request", "send"}, r # p PROVE arg'[r].id <= issued'
      <4>1. arg[r].id <= issued /\ arg[r].id \in Nat
        BY <3>1, <1>8, <1>11, <1>0, LimitsAssumption DEF Asking, Ids
      <4> QED
        BY <4>1, <3>1, <1>8, <1>0, <1>1, LimitsAssumption DEF k
    <3>2. arg'[p].id <= issued'
      BY <1>0, <1>1, <1>10 DEF k
    <3> QED
      BY <3>1, <3>2
  <2>2. \A q, r \in Procs :
          pc'[q] \in {"request", "send"} /\ pc'[r] \in {"request", "send"}
            /\ arg'[q].id = arg'[r].id => q = r
    BY <1>8, <1>10, <1>11 DEF OutcomeInv, Askers, Asking
  <2>3. ASSUME NEW r \in Procs, pc'[r] = "request"
        PROVE  ~ Somewhere(arg[r].id)' /\ told'[arg'[r].id] = "none"
    <3>1. CASE r = p
      <4>1. \A j \in Ids : j = k => ~ Somewhere(j)'
        BY <1>0, <1>3, <1>9 DEF Moved
      <4> QED
        BY <3>1, <4>1, <1>0, <1>1, <1>9, <1>10
    <3>2. CASE r # p
      <4>1. pc[r] = "request" /\ arg'[r] = arg[r] /\ arg[r].id \in Ids
        BY <3>2, <2>3, <1>0, <1>8 DEF Asking
      <4>2. ~ Somewhere(arg[r].id) /\ told[arg[r].id] = "none"
        BY <4>1 DEF OutcomeInv, Askers
      <4>3. \A j \in Ids : j = arg'[r].id => ~ Somewhere(j)'
        BY <4>1, <4>2, <1>3 DEF Moved
      <4> QED
        BY <4>1, <4>2, <4>3, <1>1
    <3> QED
      BY <3>1, <3>2
  <2>4. ASSUME NEW r \in Procs, pc'[r] = "send" PROVE Somewhere(arg[r].id)'
    <3>1. pc[r] = "send" /\ arg'[r] = arg[r] /\ arg[r].id \in Ids
      BY <2>4, <1>0, <1>8, <1>10 DEF Asking
    <3>2. Somewhere(arg[r].id)
      BY <3>1 DEF OutcomeInv, Askers
    <3>3. \A j \in Ids : j = arg'[r].id => Somewhere(j)'
      BY <3>1, <3>2, <1>3 DEF Moved
    <3> QED
      BY <3>1, <3>3
  <2>5. ASSUME NEW r \in Procs, NEW m \in Nonces, pc'[r] = "send", chunks'[m].id = arg'[r].id
        PROVE  m = arg'[r].nonce
    BY <2>5, <1>1, <1>8, <1>10 DEF OutcomeInv, Askers
  <2> QED
    BY <2>1, <2>2, <2>3, <2>4, <2>5 DEF Askers, Asking
<1> QED
  BY <1>3, <1>4, <1>7, <1>12 DEF OutcomeInv, Moved

\* A call ends: its caller is told t, and no query but its own was touched.
LEMMA AnswerStep ==
  ASSUME TypeInv, OutcomeInv, NEW p \in Procs, Asking(p), NEW t \in {"ok", "err"},
         told' = [told EXCEPT ![arg[p].id] = t], Return(p), issued' = issued,
         Unique', Apart', Ended',
         \A i \in Ids : i # arg[p].id => (Somewhere(i)' <=> Somewhere(i)),
         \A n \in Nonces : chunks'[n].id # 0 => chunks'[n].id = chunks[n].id,
         \A i \in Ids : i = arg[p].id => IF t = "ok" THEN Somewhere(i)' ELSE ~ InChunks(i)'
  PROVE  OutcomeInv'
<1> DEFINE k == arg[p].id
<1>0. /\ \A r \in Procs : Asking(r) => arg[r].id \in Ids
      /\ \A i \in Ids : i # 0
      /\ told \in [Ids -> {"none", "ok", "err"}] /\ k \in Ids /\ k <= issued /\ issued \in Nat
  BY LimitsAssumption DEF TypeInv, TypeOK, CallInv, Asking, Ids, OutcomeInv, Askers
<1>1. /\ pc'[p] = "idle" /\ \A r \in Procs : r # p => pc'[r] = pc[r] /\ arg'[r] = arg[r]
  BY ReturnTyped
<1>2. \A i \in Ids : told'[i] = IF i = k THEN t ELSE told[i]
  BY <1>0
<1>3. \A i \in Ids : InChunks(i)' => InChunks(i)
  BY <1>0 DEF InChunks
<1>4. ~ (k > issued)
  BY <1>0, LimitsAssumption DEF Ids
<1>5. \A r \in Procs : pc'[r] \in {"request", "send"} =>
        /\ r # p /\ Asking(r) /\ pc'[r] = pc[r] /\ arg'[r] = arg[r]
        /\ arg[r].id \in Ids /\ arg[r].id # k
  BY <1>0, <1>1 DEF OutcomeInv, Askers, Asking
<1>6. Answers'
  <2> SUFFICES ASSUME NEW i \in Ids
               PROVE  /\ told'[i] = "ok" => Somewhere(i)'
                      /\ told'[i] = "err" => ~ InChunks(i)'
                      /\ i > issued' => ~ Somewhere(i)' /\ told'[i] = "none"
    BY DEF Answers
  <2>1. CASE i = k
    BY <2>1, <1>2, <1>4
  <2>2. CASE i # k
    BY <2>2, <1>2, <1>3 DEF OutcomeInv, Answers
  <2> QED
    BY <2>1, <2>2
<1> HIDE DEF k
<1>7. Askers'
  <2>1. \A r \in Procs : pc'[r] \in {"request", "send"} => arg'[r].id <= issued'
    BY <1>5 DEF OutcomeInv, Askers
  <2>2. \A q, r \in Procs :
          pc'[q] \in {"request", "send"} /\ pc'[r] \in {"request", "send"}
            /\ arg'[q].id = arg'[r].id => q = r
    BY <1>5 DEF OutcomeInv, Askers
  <2>3. ASSUME NEW r \in Procs, pc'[r] = "request"
        PROVE  ~ Somewhere(arg[r].id)' /\ told'[arg'[r].id] = "none"
    <3>1. pc[r] = "request" /\ arg'[r] = arg[r] /\ arg[r].id \in Ids /\ arg[r].id # k
      BY <2>3, <1>5
    <3>2. ~ Somewhere(arg[r].id) /\ told[arg[r].id] = "none"
      BY <3>1 DEF OutcomeInv, Askers
    <3>3. \A j \in Ids : j = arg'[r].id => ~ Somewhere(j)'
      BY <3>1, <3>2 DEF k
    <3> QED
      BY <3>1, <3>2, <3>3, <1>2
  <2>4. ASSUME NEW r \in Procs, pc'[r] = "send" PROVE Somewhere(arg[r].id)'
    <3>1. pc[r] = "send" /\ arg'[r] = arg[r] /\ arg[r].id \in Ids /\ arg[r].id # k
      BY <2>4, <1>5
    <3>2. Somewhere(arg[r].id)
      BY <3>1 DEF OutcomeInv, Askers
    <3>3. \A j \in Ids : j = arg'[r].id => Somewhere(j)'
      BY <3>1, <3>2 DEF k
    <3> QED
      BY <3>1, <3>3
  <2>5. ASSUME NEW r \in Procs, NEW m \in Nonces, pc'[r] = "send", chunks'[m].id = arg'[r].id
        PROVE  m = arg'[r].nonce
    <3>1. pc[r] = "send" /\ arg'[r] = arg[r] /\ arg[r].id \in Ids
      BY <2>5, <1>5
    <3>2. chunks[m].id = arg[r].id
      BY <3>1, <2>5, <1>0
    <3> QED
      BY <3>1, <3>2 DEF OutcomeInv, Askers
  <2> QED
    BY <2>1, <2>2, <2>3, <2>4, <2>5 DEF Askers, Asking
<1> QED
  BY <1>6, <1>7 DEF OutcomeInv

\* A call that returns was not, and is not, the one that encodes.
LEMMA ReturnEncodes ==
  ASSUME TypeInv, NEW p \in Procs, pc[p] # "encode", Return(p)
  PROVE  /\ pc'[Loop] = "encode" <=> pc[Loop] = "encode"
         /\ \A i \in Ids : Encoding(i)' <=> Encoding(i)
<1>1. pc'[p] = "idle" /\ \A r \in Procs : r # p => pc'[r] = pc[r] /\ arg'[r] = arg[r]
  BY ReturnTyped
<1> QED
  BY <1>1, LoopAssumption DEF Encoding

LEMMA RefusedOutcome ==
  ASSUME TypeInv, OutcomeInv, NEW p \in Procs, RequestRefused(p)
  PROVE  OutcomeInv'
<1>1. /\ pc[p] = "request" /\ Fail(arg[p].now, {}, "timeout") /\ Return(p)
      /\ told' = [told EXCEPT ![arg[p].id] = "err"]
      /\ UNCHANGED <<socket, issued, reports>>
  BY DEF RequestRefused, Expire, Refuse
<1>2. /\ pc'[Loop] = "encode" <=> pc[Loop] = "encode"
      /\ \A i \in Ids : Encoding(i)' <=> Encoding(i)
  BY <1>1, ReturnEncodes
<1>3. Moved
  <2>1. {} \in SUBSET Pending /\ TypeOK /\ Unique /\ Apart
    BY DEF TypeInv, OutcomeInv
  <2> QED
    BY <1>1, <1>2, <2>1, FailIsMove
<1>4. Ended'
  BY <1>1, <1>2, NoQueryFacts DEF OutcomeInv, Ended, Fail, Expired, Pending
<1>5. arg[p].id \in Ids /\ Asking(p) /\ ~ Somewhere(arg[p].id)
  BY <1>1 DEF OutcomeInv, Askers, Asking, TypeInv, CallInv
<1>6. \A i \in Ids : i = arg[p].id => ~ InChunks(i)'
  BY <1>3, <1>5 DEF Moved, Somewhere
<1>7. /\ \A i \in Ids : i # arg[p].id => (Somewhere(i)' <=> Somewhere(i))
      /\ \A n \in Nonces : chunks'[n].id # 0 => chunks'[n].id = chunks[n].id
      /\ Unique' /\ Apart'
  BY <1>3 DEF Moved
<1>8. \A i \in Ids : i = arg[p].id => IF "err" = "ok" THEN Somewhere(i)' ELSE ~ InChunks(i)'
  BY <1>6
<1> DEFINE t == "err"
<1>9. /\ t \in {"ok", "err"} /\ told' = [told EXCEPT ![arg[p].id] = t]
      /\ \A i \in Ids : i = arg[p].id => IF t = "ok" THEN Somewhere(i)' ELSE ~ InChunks(i)'
  BY <1>1, <1>8
<1> HIDE DEF t
<1> QED
  BY <1>1, <1>4, <1>5, <1>7, <1>9, AnswerStep

LEMMA SentOutcome ==
  ASSUME TypeInv, OutcomeInv, NEW p \in Procs, RequestSent(p)
  PROVE  OutcomeInv'
<1>1. /\ pc[p] = "send" /\ Return(p) /\ told' = [told EXCEPT ![arg[p].id] = "ok"]
      /\ UNCHANGED <<socket, chunks, failures, issued, reports>>
  BY DEF RequestSent, gateway
<1>2. /\ pc'[Loop] = "encode" <=> pc[Loop] = "encode"
      /\ \A i \in Ids : Encoding(i)' <=> Encoding(i)
  BY <1>1, ReturnEncodes
<1>3. Moved
  BY <1>1, <1>2, StayMoves DEF OutcomeInv
<1>4. Ended'
  BY <1>1, <1>2 DEF OutcomeInv, Ended, Pending
<1>5. arg[p].id \in Ids /\ Asking(p) /\ Somewhere(arg[p].id)
  BY <1>1 DEF OutcomeInv, Askers, Asking, TypeInv, CallInv
<1>6. \A i \in Ids : i = arg[p].id => Somewhere(i)'
  BY <1>3, <1>5 DEF Moved
<1>7. /\ \A i \in Ids : i # arg[p].id => (Somewhere(i)' <=> Somewhere(i))
      /\ \A n \in Nonces : chunks'[n].id # 0 => chunks'[n].id = chunks[n].id
      /\ Unique' /\ Apart'
  BY <1>3 DEF Moved
<1> DEFINE t == "ok"
<1>8. /\ t \in {"ok", "err"} /\ told' = [told EXCEPT ![arg[p].id] = t]
      /\ \A i \in Ids : i = arg[p].id => IF t = "ok" THEN Somewhere(i)' ELSE ~ InChunks(i)'
  BY <1>1, <1>6
<1> HIDE DEF t
<1> QED
  BY <1>1, <1>4, <1>5, <1>7, <1>8, AnswerStep

LEMMA NotSentOutcome ==
  ASSUME TypeInv, OutcomeInv, NEW p \in Procs, RequestNotSent(p)
  PROVE  OutcomeInv'
<1> DEFINE k == arg[p].id
           mine == {n \in {arg[p].nonce} : chunks[n].id = k}
<1>1. /\ pc[p] = "send" /\ Return(p) /\ told' = [told EXCEPT ![k] = "err"]
      /\ chunks' = [n \in Nonces |-> IF n \in mine THEN NoQuery ELSE chunks[n]]
      /\ UNCHANGED <<socket, failures, issued, reports>>
  BY DEF RequestNotSent
<1>2. /\ pc'[Loop] = "encode" <=> pc[Loop] = "encode"
      /\ \A i \in Ids : Encoding(i)' <=> Encoding(i)
  BY <1>1, ReturnEncodes
<1>3. k \in Ids /\ Asking(p) /\ \A i \in Ids : i # 0
  BY <1>1, LimitsAssumption DEF Asking, TypeInv, CallInv, Ids
<1>4. \A n \in Nonces : chunks[n].id = k <=> n \in mine
  BY <1>1, <1>3 DEF OutcomeInv, Askers, TypeInv, TypeOK, Call
<1> HIDE DEF mine
<1>5. \A n \in Nonces : chunks'[n].id = IF chunks[n].id = k THEN 0 ELSE chunks[n].id
  BY <1>1, <1>4, NoQueryFacts
<1> HIDE DEF k
<1>6. \A i \in Ids : /\ InChunks(i)' <=> InChunks(i) /\ i # k
                     /\ Failed(i)' <=> Failed(i)
                     /\ Reported(i)' <=> Reported(i)
  <2>1. \A i \in Ids : InChunks(i)' <=> InChunks(i) /\ i # k
    BY <1>3, <1>5 DEF InChunks
  <2>2. \A i \in Ids : (Failed(i)' <=> Failed(i)) /\ (Reported(i)' <=> Reported(i))
    BY <1>1 DEF Failed, Reported
  <2> QED
    BY <2>1, <2>2
<1>7. Unique'
  BY <1>1, <1>5 DEF OutcomeInv, Unique
<1>8. Apart'
  BY <1>2, <1>6 DEF OutcomeInv, Apart
<1>9. Ended'
  BY <1>1, <1>2, <1>5 DEF OutcomeInv, Ended, Pending
<1>10. /\ \A i \in Ids : i # k => (Somewhere(i)' <=> Somewhere(i))
       /\ \A n \in Nonces : chunks'[n].id # 0 => chunks'[n].id = chunks[n].id
  <2>1. \A i \in Ids : i # k => (Somewhere(i)' <=> Somewhere(i))
    BY <1>2, <1>6 DEF Somewhere
  <2> QED
    BY <2>1, <1>5
<1> DEFINE t == "err"
<1>11. /\ t \in {"ok", "err"} /\ told' = [told EXCEPT ![k] = t]
       /\ \A i \in Ids : i = k => IF t = "ok" THEN Somewhere(i)' ELSE ~ InChunks(i)'
  BY <1>1, <1>6
<1> HIDE DEF t
<1> QED
  BY <1>1, <1>3, <1>7, <1>8, <1>9, <1>10, <1>11, AnswerStep DEF k

LEMMA AcceptedOutcome ==
  ASSUME TypeInv, QueryInv, OutcomeInv, NEW p \in Procs, RequestAccepted(p)
  PROVE  OutcomeInv'
<1> DEFINE k == arg[p].id
<1>0. /\ pc \in [Procs -> {"idle", "request", "send", "update", "encode"}] /\ issued \in Nat
      /\ k \in Ids /\ \A r \in Procs : Asking(r) => arg[r].id \in Ids
      /\ \A i \in Ids : i # 0
  BY LimitsAssumption DEF TypeInv, TypeOK, CallInv, Asking, Ids, RequestAccepted
<1>1. /\ pc[p] = "request" /\ pc' = [pc EXCEPT ![p] = "send"] /\ arg' = arg /\ socket = "open"
      /\ UNCHANGED <<socket, issued, told>>
  BY DEF RequestAccepted
<1>2. /\ Unique' /\ Apart'
      /\ \A i \in Ids : Somewhere(i)' <=> Somewhere(i) \/ i = k
      /\ \A n \in Nonces : chunks'[n].id # 0 /\ n # arg[p].nonce => chunks'[n].id = chunks[n].id
      /\ chunks'[arg[p].nonce].id = k
  BY AcceptedPlaces
<1>3. /\ k <= issued /\ told[k] = "none" /\ ~ Somewhere(k)
      /\ \A r \in Procs : Asking(r) /\ r # p => arg[r].id # k
  BY <1>1 DEF OutcomeInv, Askers, Asking
<1>4. \A r \in Procs : pc'[r] = IF r = p THEN "send" ELSE pc[r]
  BY <1>0, <1>1
<1> HIDE DEF k
<1>5. Ended'
  BY <1>1 DEF Ended
<1>6. \A i \in Ids : InChunks(i)' => InChunks(i) \/ i = k
  BY <1>0, <1>2 DEF InChunks
<1>7. Answers'
  <2>1. ~ (k > issued)
    BY <1>0, <1>3, LimitsAssumption DEF Ids
  <2> QED
    BY <2>1, <1>1, <1>2, <1>3, <1>6 DEF OutcomeInv, Answers
<1>8. Askers'
  <2>1. \A r \in Procs : pc'[r] \in {"request", "send"} => Asking(r)
    BY <1>1, <1>4 DEF Asking
  <2>2. ASSUME NEW r \in Procs, pc'[r] = "request"
        PROVE  ~ Somewhere(arg[r].id)' /\ told'[arg'[r].id] = "none"
    <3>1. pc[r] = "request" /\ arg[r].id \in Ids /\ arg[r].id # k
      BY <2>2, <1>0, <1>3, <1>4 DEF Asking
    <3>2. ~ Somewhere(arg[r].id) /\ told[arg[r].id] = "none"
      BY <3>1 DEF OutcomeInv, Askers
    <3>3. \A j \in Ids : j = arg'[r].id => ~ Somewhere(j)'
      BY <3>1, <3>2, <1>1, <1>2
    <3> QED
      BY <3>1, <3>2, <3>3, <1>1
  <2>3. ASSUME NEW r \in Procs, pc'[r] = "send" PROVE Somewhere(arg[r].id)'
    <3>1. arg[r].id \in Ids /\ (Somewhere(arg[r].id) \/ arg[r].id = k)
      BY <2>1, <2>3, <1>0, <1>4 DEF OutcomeInv, Askers, k
    <3>2. \A j \in Ids : j = arg'[r].id => Somewhere(j)'
      BY <3>1, <1>1, <1>2
    <3> QED
      BY <3>1, <3>2, <1>1
  <2>4. ASSUME NEW r \in Procs, NEW m \in Nonces, pc'[r] = "send", chunks'[m].id = arg'[r].id
        PROVE  m = arg'[r].nonce
    <3>0. \A n \in Nonces : chunks[n].id # k
      BY <1>3 DEF Somewhere, InChunks
    <3>1. CASE r = p
      BY <3>0, <3>1, <2>4, <1>0, <1>1, <1>2 DEF k
    <3>2. CASE r # p
      <4>1. pc[r] = "send" /\ arg[r].id \in Ids /\ arg[r].id # k
        BY <3>2, <2>4, <1>0, <1>3, <1>4 DEF Asking
      <4>2. m # arg[p].nonce
        BY <4>1, <2>4, <1>1, <1>2
      <4>3. chunks[m].id = arg[r].id
        BY <4>1, <4>2, <2>4, <1>0, <1>1, <1>2
      <4> QED
        BY <4>1, <4>3, <1>1 DEF OutcomeInv, Askers
    <3> QED
      BY <3>1, <3>2
  <2>5. \A q, r \in Procs :
          pc'[q] \in {"request", "send"} /\ pc'[r] \in {"request", "send"}
            /\ arg'[q].id = arg'[r].id => q = r
    BY <2>1, <1>1 DEF OutcomeInv, Askers
  <2>6. \A r \in Procs : pc'[r] \in {"request", "send"} => arg'[r].id <= issued'
    BY <2>1, <1>1 DEF OutcomeInv, Askers
  <2> QED
    BY <2>2, <2>3, <2>4, <2>5, <2>6 DEF Askers, Asking
<1> QED
  BY <1>2, <1>5, <1>7, <1>8 DEF OutcomeInv

\* A chunk is kept: its query stays pending, or goes to be encoded.
LEMMA KeptMoves ==
  ASSUME TypeInv, Unique, Apart, NEW n \in Nonces, NEW g, NEW count, NEW i, NEW size,
         ChunkKept(n, g, count, i, size)
  PROVE  Moved
<1> DEFINE X == Expired(clock)
           w == [m \in X |-> "timeout"]
           q == chunks[n]
           r == [q EXCEPT !.count = count, !.got = q.got \cup {i}, !.bytes = q.bytes + size]
<1>t. TypeOK
  BY DEF TypeInv
<1>1. /\ n \in Pending /\ n \notin X /\ X \in SUBSET Pending /\ pc[Loop] = "idle"
      /\ reports' = reports
      /\ failures' = failures \cup {<<chunks[m].id, "timeout">> : m \in X}
  BY DEF ChunkKept, LoopIdle, history, Expired
<1>2. q \in Query /\ r.id = q.id
  BY <1>t, PendingTyped DEF Query
<1>3. failures' = failures \cup {<<chunks[m].id, w[m]>> : m \in X}
  <2>1. {<<chunks[m].id, "timeout">> : m \in X} = {<<chunks[m].id, w[m]>> : m \in X}
    OBVIOUS
  <2> QED
    BY <1>1, <2>1
<1>p. pc \in [Procs -> {"idle", "request", "send", "update", "encode"}] /\ arg \in [Procs -> Call]
      /\ Loop \in Procs
  BY LoopAssumption DEF TypeInv, TypeOK
<1>4. CASE /\ chunks' = [m \in Nonces |-> IF m = n \/ m \in X THEN NoQuery ELSE chunks[m]]
           /\ pc' = [pc EXCEPT ![Loop] = "encode"]
           /\ arg' = [arg EXCEPT ![Loop] = [NoCall EXCEPT !.id = q.id, !.nonce = n]]
  <2> DEFINE E == {n}
  <2>1. \A m \in Nonces : chunks'[m].id = IF m \in X \cup E THEN 0 ELSE chunks[m].id
    BY <1>4, NoQueryFacts
  <2>2. pc'[Loop] = "encode" /\ arg'[Loop].id = q.id
    BY <1>4, <1>p DEF NoCall
  <2>3. \A j \in Ids : Encoding(j)' <=> Encoding(j) \/ \E m \in E : chunks[m].id = j
    BY <2>2, <1>1 DEF Encoding
  <2>4. E \in SUBSET Pending /\ X \cap E = {} /\ \A m, o \in E : m = o
    BY <1>1
  <2> HIDE DEF X, E, w
  <2>5. MovesOut(X, E, w)
    BY <1>1, <1>3, <2>1, <2>3, <2>4 DEF MovesOut
  <2> QED
    BY <1>t, <2>5, FailMoves
<1>5. CASE /\ chunks' = [m \in Nonces |-> IF m = n THEN r ELSE IF m \in X THEN NoQuery ELSE chunks[m]]
           /\ UNCHANGED <<pc, arg>>
  <2> DEFINE E == {}
  <2> HIDE DEF r
  <2>1. \A m \in Nonces : chunks'[m].id = IF m \in X \cup E THEN 0 ELSE chunks[m].id
    BY <1>1, <1>2, <1>5, NoQueryFacts
  <2>2. \A j \in Ids : Encoding(j)' <=> Encoding(j) \/ \E m \in E : chunks[m].id = j
    BY <1>5 DEF Encoding
  <2>3. E \in SUBSET Pending /\ X \cap E = {} /\ \A m, o \in E : m = o
    OBVIOUS
  <2> HIDE DEF X, E, w
  <2>4. MovesOut(X, E, w)
    BY <1>1, <1>3, <2>1, <2>2, <2>3 DEF MovesOut
  <2> QED
    BY <1>t, <2>4, FailMoves
<1> QED
  BY <1>4, <1>5 DEF ChunkKept

LEMMA OutcomeStep == TypeInv /\ QueryInv /\ OutcomeInv /\ [Next]_vars => OutcomeInv'
<1> SUFFICES ASSUME TypeInv, QueryInv, OutcomeInv, [Next]_vars PROVE OutcomeInv'
  OBVIOUS
<1>0. /\ TypeOK /\ Unique /\ Apart /\ Ended /\ Loop \in Procs
      /\ pc \in [Procs -> {"idle", "request", "send", "update", "encode"}]
  BY LoopAssumption DEF TypeInv, TypeOK, OutcomeInv
<1>m. ASSUME Moved, UNCHANGED <<told, issued, pc, arg>>, Ended' PROVE OutcomeInv'
  BY <1>m, MovedKeeps
<1>e. ASSUME UNCHANGED <<pc, arg>> PROVE \A i \in Ids : Encoding(i)' <=> Encoding(i)
  BY <1>e DEF Encoding
<1>s. ASSUME UNCHANGED <<chunks, failures, reports, pc, arg, told, issued>>,
             socket' = socket \/ socket' = "closed"
      PROVE  OutcomeInv'
  <2>1. Moved
    BY <1>0, <1>e, <1>s, StayMoves
  <2>2. Ended'
    BY <1>0, <1>s DEF Ended, Pending
  <2> QED
    BY <1>m, <1>s, <2>1, <2>2
<1>f. ASSUME NEW S \in SUBSET Pending, NEW reason, Fail(clock, S, reason),
             UNCHANGED <<reports, pc, arg, told, issued, socket>>
      PROVE  OutcomeInv'
  <2>1. Moved
    BY <1>0, <1>e, <1>f, FailIsMove
  <2>2. Ended'
    BY <1>0, <1>f, NoQueryFacts DEF Ended, Fail, Expired, Pending
  <2> QED
    BY <1>m, <1>f, <2>1, <2>2
<1>1. CASE Tick \/ PeerCloses
  BY <1>1, <1>s DEF Tick, PeerCloses, gateway, history
<1>2. CASE Bind
  <2>1. \A n \in Nonces : chunks'[n].id = chunks[n].id
    BY <1>0, <1>2, NoQueryFacts DEF Bind, Ended, Pending
  <2>2. UNCHANGED <<failures, reports, told, issued, pc, arg>>
    BY <1>0, <1>2 DEF Bind, Ended
  <2>3. Moved
    BY <1>0, <1>e, <2>1, <2>2, StayMoves
  <2>4. Ended'
    BY <1>2 DEF Bind, Ended
  <2> QED
    BY <1>m, <2>2, <2>3, <2>4
<1>3. CASE Unbind
  <2>1. \A n \in Nonces : chunks'[n].id = IF n \in Pending THEN 0 ELSE chunks[n].id
    BY <1>3, NoQueryFacts DEF Unbind, Pending
  <2>2. /\ Report({f[1] : f \in failures} \cup {chunks[n].id : n \in Pending})
        /\ failures' = {} /\ pc[Loop] = "idle" /\ UNCHANGED <<told, issued, pc, arg>>
    BY <1>3 DEF Unbind, LoopIdle
  <2>3. Pending \in SUBSET Pending
    OBVIOUS
  <2>4. Moved
    BY <1>0, <1>e, <2>1, <2>2, <2>3, ReportMoves
  <2>5. Ended'
    BY <1>3, <2>2, NoQueryFacts DEF Unbind, Ended, Pending
  <2> QED
    BY <1>m, <2>2, <2>4, <2>5
<1>4. ASSUME NEW p \in Procs, SendUpdate(p) PROVE OutcomeInv'
  <2>1. /\ UNCHANGED <<chunks, failures, reports, told, issued, socket>> /\ pc[p] = "idle"
        /\ \/ UNCHANGED <<pc, arg>>
           \/ /\ pc' = [pc EXCEPT ![p] = "update"]
              /\ arg' = [arg EXCEPT ![p] = [NoCall EXCEPT !.now = clock]]
    BY <1>4 DEF SendUpdate
  <2>2. \A r \in Procs : (pc'[r] = pc[r] /\ arg'[r] = arg[r])
                         \/ (r = p /\ pc'[r] = "update" /\ pc[r] = "idle")
    <3>1. /\ arg \in [Procs -> Call]
          /\ pc \in [Procs -> {"idle", "request", "send", "update", "encode"}]
      BY DEF TypeInv, TypeOK
    <3> QED
      BY <2>1, <3>1
  <2>3. \A i \in Ids : Encoding(i)' <=> Encoding(i)
    BY <1>0, <2>1, <2>2 DEF Encoding
  <2>4. Moved
    BY <1>0, <2>1, <2>3, StayMoves
  <2>5. Ended'
    BY <1>0, <2>1, <2>2 DEF Ended, Pending
  <2>6. \A r \in Procs : Asking(r) \/ pc'[r] \in {"request", "send"} =>
                         pc'[r] = pc[r] /\ arg'[r] = arg[r]
    BY <2>1, <2>2 DEF Asking
  <2> QED
    BY <2>1, <2>4, <2>5, <2>6, MovedKeeps
<1>5. ASSUME NEW p \in Procs, UpdateReturns(p) PROVE OutcomeInv'
  <2>1. /\ UNCHANGED <<chunks, failures, reports, told, issued, socket>> /\ pc[p] = "update"
        /\ Return(p)
    BY <1>5 DEF UpdateReturns, gateway, history
  <2>2. /\ pc'[Loop] = "encode" <=> pc[Loop] = "encode"
        /\ \A i \in Ids : Encoding(i)' <=> Encoding(i)
    BY <2>1, ReturnEncodes
  <2>3. Moved
    BY <1>0, <2>1, <2>2, StayMoves
  <2>4. Ended'
    BY <1>0, <2>1, <2>2 DEF Ended, Pending
  <2>5. \A r \in Procs : Asking(r) \/ pc'[r] \in {"request", "send"} =>
                         pc'[r] = pc[r] /\ arg'[r] = arg[r]
    <3>1. pc'[p] = "idle" /\ \A r \in Procs : r # p => pc'[r] = pc[r] /\ arg'[r] = arg[r]
      BY <2>1, ReturnTyped
    <3> QED
      BY <2>1, <3>1 DEF Asking
  <2> QED
    BY <2>1, <2>3, <2>4, <2>5, MovedKeeps
<1>6. ASSUME NEW p \in Procs, NEW n \in Nonces, NEW g, NEW needs, RequestMembers(p, n, g, needs)
      PROVE  OutcomeInv'
  BY <1>6, AskStep
<1>7. ASSUME NEW p \in Procs, CallStep(p) PROVE OutcomeInv'
  BY <1>5, <1>7, RefusedOutcome, AcceptedOutcome, SentOutcome, NotSentOutcome DEF CallStep
<1>8. ASSUME NEW n, NEW g, NEW count, NEW i, ChunkIgnored(n, g, count, i) PROVE OutcomeInv'
  <2>1. Fail(clock, {}, "timeout") /\ UNCHANGED <<reports, pc, arg, told, issued, socket>>
    BY <1>8 DEF ChunkIgnored, Expire, history
  <2> QED
    BY <2>1, <1>f
<1>9. ASSUME NEW n, NEW g, NEW count, NEW i, NEW size, ChunkRejected(n, g, count, i, size)
      PROVE  OutcomeInv'
  <2>1. {n} \in SUBSET Pending /\ UNCHANGED <<reports, pc, arg, told, issued, socket>>
    BY <1>9 DEF ChunkRejected, history
  <2>2. \E reason : Fail(clock, {n}, reason)
    BY <1>9 DEF ChunkRejected
  <2> QED
    BY <2>1, <2>2, <1>f
<1>10. ASSUME NEW n \in Nonces, NEW g, NEW count, NEW i, NEW size, ChunkKept(n, g, count, i, size)
       PROVE  OutcomeInv'
  <2>1. Moved
    BY <1>0, <1>10, KeptMoves
  <2>2. n \in Pending /\ pc[Loop] = "idle" /\ UNCHANGED <<told, issued, socket>>
    BY <1>10 DEF ChunkKept, LoopIdle, history
  <2>3. \A r \in Procs : r # Loop => pc'[r] = pc[r] /\ arg'[r] = arg[r]
    BY <1>0, <1>10 DEF ChunkKept, TypeOK
  <2>4. pc'[Loop] = "encode" \/ pc'[Loop] = pc[Loop]
    BY <1>0, <1>10 DEF ChunkKept
  <2>5. \A r \in Procs : Asking(r) \/ pc'[r] \in {"request", "send"} =>
                         pc'[r] = pc[r] /\ arg'[r] = arg[r]
    BY <2>2, <2>3, <2>4 DEF Asking
  <2>6. Ended'
    BY <1>0, <2>2 DEF Ended
  <2> QED
    BY <2>1, <2>2, <2>5, <2>6, MovedKeeps
<1>11. CASE Encode
  <2>1. Moved
    BY <1>0, <1>11, EncodeMoves
  <2>2. pc[Loop] = "encode" /\ UNCHANGED <<told, issued, socket>> /\ Return(Loop)
    BY <1>11 DEF Encode
  <2>3. pc'[Loop] = "idle" /\ \A r \in Procs : r # Loop => pc'[r] = pc[r] /\ arg'[r] = arg[r]
    BY <1>0, <2>2, ReturnTyped
  <2>4. \A r \in Procs : Asking(r) \/ pc'[r] \in {"request", "send"} =>
                         pc'[r] = pc[r] /\ arg'[r] = arg[r]
    BY <2>2, <2>3 DEF Asking
  <2>5. Ended'
    BY <1>0, <2>2 DEF Ended
  <2> QED
    BY <2>1, <2>2, <2>4, <2>5, MovedKeeps
<1>12. ASSUME NEW n, NEW g, RateLimited(n, g) PROVE OutcomeInv'
  <2> DEFINE S == {m \in Pending \ Expired(clock) : m = n /\ chunks[m].guild = g}
  <2>1. /\ Fail(clock, S, "rate_limited") /\ S \in SUBSET Pending
        /\ UNCHANGED <<reports, pc, arg, told, issued, socket>>
    BY <1>12 DEF RateLimited, history
  <2> HIDE DEF S
  <2> QED
    BY <2>1, <1>f
<1>13. CASE TakeFailures
  <2> DEFINE X == Expired(clock)
  <2>1. X \in SUBSET Pending /\ \A n \in Nonces : chunks'[n].id = IF n \in X THEN 0 ELSE chunks[n].id
    BY <1>13, NoQueryFacts DEF TakeFailures, Expired
  <2>2. /\ Report({f[1] : f \in failures} \cup {chunks[n].id : n \in X})
        /\ failures' = {} /\ UNCHANGED <<told, issued, pc, arg, socket>>
    BY <1>13 DEF TakeFailures
  <2> HIDE DEF X
  <2>3. Moved
    BY <1>0, <1>e, <2>1, <2>2, ReportMoves
  <2>4. Ended'
    BY <1>0, <2>1, <2>2 DEF Ended, Pending
  <2> QED
    BY <1>m, <2>2, <2>3, <2>4
<1>14. CASE UNCHANGED vars
  BY <1>14, <1>s DEF vars, gateway, history
<1> QED
  BY <1>1, <1>2, <1>3, <1>4, <1>6, <1>7, <1>8, <1>9, <1>10, <1>11, <1>12, <1>13, <1>14
  DEF Next, Chunk

\* Every query whose caller was told "ok" has exactly one outcome, among the
\* pending, at the encoder, in the failure queue or with Bot.run, whatever
\* chunks, expiry, rate limits, failing writes and the end of the session do;
\* a query whose caller was told "err" has one at most, and is not pending.
THEOREM OutcomeIsUnique == Spec => []OneOutcome
<1>1. Init => OutcomeInv
  <2> SUFFICES ASSUME Init PROVE OutcomeInv
    OBVIOUS
  <2>0. /\ \A n \in Nonces : chunks[n].id = 0
        /\ failures = {} /\ \A i \in Ids : i # 0 /\ reports[i] = 0 /\ told[i] = "none"
        /\ \A p \in Procs : pc[p] = "idle"
    BY NoQueryFacts, LimitsAssumption DEF Init, Ids
  <2>1. \A i \in Ids : ~ InChunks(i) /\ ~ Encoding(i) /\ ~ Failed(i) /\ ~ Reported(i)
    BY <2>0, LoopAssumption DEF InChunks, Encoding, Failed, Reported
  <2>2. Unique
    BY <2>0 DEF Unique
  <2>3. Apart /\ Answers
    BY <2>0, <2>1 DEF Apart, Answers, Somewhere
  <2>4. Askers /\ Ended
    BY <2>0, LoopAssumption DEF Askers, Asking, Ended, Pending
  <2> QED
    BY <2>2, <2>3, <2>4 DEF OutcomeInv
<1>2. TypeInv /\ QueryInv /\ OutcomeInv /\ [Next]_vars => OutcomeInv'
  BY OutcomeStep
<1>3. TypeInv /\ OutcomeInv => OneOutcome
  <2> SUFFICES ASSUME TypeInv, OutcomeInv, NEW i \in Ids
               PROVE  /\ told[i] = "ok" => Places(i) = 1
                      /\ told[i] = "err" => Places(i) <= 1 /\ \A n \in Nonces : chunks[n].id # i
    BY DEF OneOutcome
  <2> DEFINE C == {n \in Nonces : chunks[n].id = i}
             F == {f \in failures : f[1] = i}
             e == IF Encoding(i) THEN 1 ELSE 0
  <2>0. i # 0 /\ reports[i] \in Nat /\ reports[i] <= 1
    BY LimitsAssumption DEF Ids, TypeInv, TypeOK, OutcomeInv, Unique
  <2>1. Cardinality(C) = IF InChunks(i) THEN 1 ELSE 0
    <3>1. CASE InChunks(i)
      <4>1. PICK n \in Nonces : C = {n}
        BY <2>0, <3>1 DEF InChunks, OutcomeInv, Unique
      <4> QED
        BY <3>1, <4>1, FS_Singleton
    <3>2. CASE ~ InChunks(i)
      <4>1. C = {}
        BY <3>2 DEF InChunks
      <4> QED
        BY <3>2, <4>1, FS_EmptySet
    <3> QED
      BY <3>1, <3>2
  <2>2. Cardinality(F) = IF Failed(i) THEN 1 ELSE 0
    <3>1. CASE Failed(i)
      <4>1. PICK f \in failures : F = {f}
        BY <3>1 DEF Failed, OutcomeInv, Unique
      <4> QED
        BY <3>1, <4>1, FS_Singleton
    <3>2. CASE ~ Failed(i)
      <4>1. F = {}
        BY <3>2 DEF Failed
      <4> QED
        BY <3>2, <4>1, FS_EmptySet
    <3> QED
      BY <3>1, <3>2
  <2>3. reports[i] = IF Reported(i) THEN 1 ELSE 0
    BY <2>0 DEF Reported
  <2>4. Places(i) = Cardinality(C) + e + Cardinality(F) + reports[i]
    BY DEF Places, Encoding
  <2> HIDE DEF C, F
  <2>5. Places(i) = IF Somewhere(i) THEN 1 ELSE 0
    <3>1. /\ InChunks(i) => ~ Encoding(i) /\ ~ Failed(i) /\ ~ Reported(i)
          /\ Encoding(i) => ~ Failed(i) /\ ~ Reported(i)
          /\ Failed(i) => ~ Reported(i)
      BY DEF OutcomeInv, Apart
    <3> QED
      BY <3>1, <2>1, <2>2, <2>3, <2>4 DEF Somewhere
  <2> QED
    BY <2>5 DEF OutcomeInv, Answers, InChunks
<1> QED
  BY <1>1, <1>2, <1>3, QueryInvariant, PTL DEF Spec
=============================================================================
