--------------------------- MODULE WebSocketProofs ---------------------------
(***************************************************************************)
(* Proofs about WebSocket, for any set of sending threads, message limit   *)
(* and frames of the peer.                                                 *)
(***************************************************************************)
EXTENDS WebSocket, InductionLemmas

---------------------------------------------------------------------------
(***************************************************************************)
(* Frames are written whole                                                *)
(***************************************************************************)

\* Whoever is between the two halves of a frame holds writeMu.
MutexInv ==
  /\ writer \in [Writers -> WriterPlaces]
  /\ \A p \in Writers : writer[p] \in {"head", "rest"} => writeMu = p

\* The steps in which nobody moves in sendFrame but p, which enters or leaves.
LEMMA PassingKeepsMutex ==
  ASSUME NEW p \in Writers, MutexInv, EnterSendFrame(p) \/ LeaveSendFrame(p)
  PROVE  MutexInv'
BY DEF MutexInv, EnterSendFrame, LeaveSendFrame, WriterPlaces

\* Each step of Next preserves MutexInv.
LEMMA MutexStep == MutexInv /\ [Next]_vars => MutexInv'
<1> SUFFICES ASSUME MutexInv, [Next]_vars PROVE MutexInv'
  OBVIOUS
<1> USE PartiesAssumption
<1>0. Owner \in Writers /\ Reader \in Writers /\ Senders \subseteq Writers
  BY DEF Writers
<1>1. CASE UNCHANGED writeVars
  BY <1>1 DEF MutexInv, writeVars
<1>2. CASE World
  <2>1. ASSUME NEW p \in Senders, SenderSends(p) \/ SenderReturns(p) PROVE MutexInv'
    BY <2>1, <1>0, PassingKeepsMutex DEF SenderSends, SenderReturns
  <2>2. CASE PeerLeaves \/ Cancel \/ \E f \in Frames : PeerSends(f)
    BY <2>2, <1>1 DEF PeerLeaves, Cancel, PeerSends
  <2> QED
    BY <1>2, <2>1, <2>2 DEF World
<1>3. CASE SendBegins
  BY <1>3, <1>0, <1>1, PassingKeepsMutex DEF SendBegins
<1>4. CASE \E type \in {"text", "binary"} : CallStep(type)
  <2>1. ASSUME NEW type, ReceiveReturns(type) \/ TimerFires PROVE MutexInv'
    BY <2>1, <1>1 DEF ReceiveReturns, TimerFires
  <2>2. CASE SendReturns \/ CloseReturns
    BY <2>2, <1>0, PassingKeepsMutex DEF SendReturns, CloseReturns
  <2>3. CASE CloseMarks
    BY <2>3, <1>0, <1>1, PassingKeepsMutex DEF CloseMarks, writeVars
  <2> QED
    BY <1>4, <2>1, <2>2, <2>3 DEF CallStep
<1>5. CASE ReaderStep
  <2>1. CASE PongBegins
    BY <2>1, <1>0, <1>1, PassingKeepsMutex DEF PongBegins
  <2>2. CASE PongEnds
    BY <2>2, <1>0, PassingKeepsMutex DEF PongEnds
  <2>3. CASE \/ ReaderStarts \/ ReadBegins \/ ReadFails \/ ReadRefuses \/ ReaderHangsUp
             \/ ReadPing \/ ReadPong \/ ReadClose \/ ReadData \/ ReadContinuation
             \/ ReadReserved \/ ReaderDelivers
    BY <2>3, <1>1 DEF ReaderStarts, ReadBegins, ReadFails, ReadRefuses, ReaderHangsUp,
       ReadPing, ReadPong, ReadClose, ReadData, ReadContinuation, ReadReserved,
       ReaderDelivers
  <2> QED
    BY <1>5, <2>1, <2>2, <2>3 DEF ReaderStep
<1>6. CASE \E p \in Writers : WriterStep(p)
  <2> PICK p \in Writers : WriterStep(p)
    BY <1>6
  <2>1. CASE Acquire(p)
    BY <2>1 DEF MutexInv, Acquire, Writers, WriterPlaces
  <2>2. CASE WriteHead(p)
    BY <2>2 DEF MutexInv, WriteHead, WriterPlaces
  <2>3. CASE WriteRest(p)
    BY <2>3 DEF MutexInv, WriteRest, WriterPlaces
  <2>4. CASE WriteFails(p)
    BY <2>4 DEF MutexInv, WriteFails, WriterPlaces
  <2> QED
    BY <2>1, <2>2, <2>3, <2>4 DEF WriterStep
<1>7. CASE CloseBegins \/ \E kind \in {"receive", "timed"} : ReceiveBegins(kind)
  BY <1>7, <1>1 DEF CloseBegins, ReceiveBegins
<1>8. CASE UNCHANGED vars
  BY <1>8, <1>1 DEF vars
<1> QED
  BY <1>2, <1>3, <1>4, <1>5, <1>6, <1>7, <1>8 DEF Next

\* Nothing is written between the two halves of a frame, for any number of
\* senders: sendFrame holds writeMu from the first write to the second.
THEOREM FramesAreWhole == Spec => []FramesWhole
<1>1. Init => MutexInv
  BY DEF Init, MutexInv, WriterPlaces
<1>2. MutexInv => FramesWhole
  BY DEF MutexInv, FramesWhole
<1> QED
  BY <1>1, <1>2, MutexStep, PTL DEF Spec

---------------------------------------------------------------------------
(***************************************************************************)
(* Frames are read from their first byte                                   *)
(***************************************************************************)

\* Part of a frame stays in the stream only with the reader that reads it, or
\* when no later reader will look at it; and there is at most one reader, for
\* a receive starts one only when the connection holds no channel.
AlignInv ==
  /\ midFrame \in BOOLEAN /\ closed \in BOOLEAN /\ cancelled \in BOOLEAN
  /\ reader # "none" => pendingRead = Empty
  /\ midFrame =>
       \/ reader = "rest"
       \/ /\ closed \/ cancelled
          /\ reader \in {"none", "start", "hangup", "deliver"}

\* A frame is read from its first byte, whatever stopped the earlier reader.
THEOREM ReadsAreAligned == Spec => []ReadsAligned
<1>1. Init => AlignInv
  BY DEF Init, AlignInv
<1>2. AlignInv /\ [Next]_vars => AlignInv'
  <2> SUFFICES ASSUME AlignInv, [Next]_vars PROVE AlignInv'
    OBVIOUS
  <2>1. CASE World
    <3>1. ASSUME NEW f, PeerSends(f) PROVE AlignInv'
      BY <3>1 DEF AlignInv, PeerSends, connVars, callVars
    <3>2. CASE PeerLeaves
      BY <3>2 DEF AlignInv, PeerLeaves, connVars, callVars
    <3>3. CASE Cancel
      BY <3>3 DEF AlignInv, Cancel, readVars, callVars
    <3>4. ASSUME NEW p, SenderSends(p) \/ SenderReturns(p) PROVE AlignInv'
      BY <3>4 DEF AlignInv, SenderSends, SenderReturns, readVars, connVars, callVars
    <3> QED
      BY <2>1, <3>1, <3>2, <3>3, <3>4 DEF World
  <2>2. CASE SendBegins \/ CloseBegins
    BY <2>2 DEF AlignInv, SendBegins, CloseBegins, readVars, connVars
  <2>3. ASSUME NEW kind, ReceiveBegins(kind) PROVE AlignInv'
    <3>1. Nil # Empty
      BY DEF Nil, Empty, Failure
    <3> QED
      BY <2>3, <3>1 DEF AlignInv, ReceiveBegins, connVars
  <2>4. ASSUME NEW type, CallStep(type) PROVE AlignInv'
    <3>1. CASE ReceiveReturns(type)
      BY <3>1 DEF AlignInv, ReceiveReturns, readVars, connVars
    <3>2. CASE TimerFires \/ SendReturns
      BY <3>2 DEF AlignInv, TimerFires, TimedOut, SendReturns, readVars, connVars
    <3>3. CASE CloseMarks
      BY <3>3 DEF AlignInv, CloseMarks, readVars
    <3>4. CASE CloseReturns
      BY <3>4 DEF AlignInv, CloseReturns, readVars
    <3> QED
      BY <2>4, <3>1, <3>2, <3>3, <3>4 DEF CallStep
  <2>5. CASE ReaderStep
    <3>1. CASE ReaderStarts
      BY <3>1 DEF AlignInv, ReaderStarts, Finish, connVars, callVars
    <3>2. CASE ReadBegins
      BY <3>2 DEF AlignInv, ReadBegins, connVars, callVars
    <3>3. CASE ReaderHangsUp
      BY <3>3 DEF AlignInv, ReaderHangsUp, callVars
    <3>4. CASE ReaderDelivers
      BY <3>4 DEF AlignInv, ReaderDelivers, connVars
    <3>5. CASE ReadFails \/ ReadRefuses
      <4>1. FrameError /\ UNCHANGED <<midFrame, cancelled, pendingRead>>
        BY <3>5 DEF ReadFails, ReadRefuses, callVars
      <4>2. reader # "none"
        BY <3>5 DEF ReadFails, ReadRefuses
      <4>3. CASE cancelled
        BY <4>1, <4>2, <4>3 DEF AlignInv, FrameError, Finish
      <4>4. CASE ~ cancelled
        BY <4>1, <4>2, <4>4 DEF AlignInv, FrameError, Marks
      <4> QED
        BY <4>3, <4>4
    <3>6. CASE ReadPing \/ ReadPong \/ ReadClose
      BY <3>6 DEF AlignInv, ReadPing, ReadPong, ReadClose, FrameRead, Marks, connVars, callVars
    <3>7. CASE ReadData \/ ReadContinuation \/ ReadReserved
      BY <3>7 DEF AlignInv, ReadData, ReadContinuation, ReadReserved, FrameRead, connVars, callVars
    <3>8. CASE PongBegins \/ PongEnds
      BY <3>8 DEF AlignInv, PongBegins, PongEnds, Finish, connVars, callVars
    <3> QED
      BY <2>5, <3>1, <3>2, <3>3, <3>4, <3>5, <3>6, <3>7, <3>8 DEF ReaderStep
  <2>6. ASSUME NEW p, WriterStep(p) PROVE AlignInv'
    BY <2>6 DEF AlignInv, WriterStep, Acquire, WriteHead, WriteRest, WriteFails, readVars,
       connVars, callVars
  <2>7. CASE UNCHANGED vars
    BY <2>7 DEF AlignInv, vars, readVars, connVars, callVars
  <2> QED
    BY <2>1, <2>2, <2>3, <2>4, <2>5, <2>6, <2>7 DEF Next
<1>3. AlignInv => ReadsAligned
  BY DEF AlignInv, ReadsAligned
<1> QED
  BY <1>1, <1>2, <1>3, PTL DEF Spec

---------------------------------------------------------------------------
(***************************************************************************)
(* The size of a message                                                   *)
(***************************************************************************)

\* What Size says of the function it computes.
Sizes(m, f) ==
  f = [i \in 0 .. Len(m) |-> IF i = 0 THEN 0 ELSE f[i-1] + m[i].frame.size]

LEMMA SizesExist ==
  ASSUME NEW m \in Seq(Numbered)
  PROVE  \E f : Sizes(m, f) /\ f \in [0 .. Len(m) -> Nat]
<1> DEFINE N == Len(m)
           h == [q \in (1 .. N) \X Nat |-> q[2] + m[q[1]].frame.size]
<1>1. N \in Nat
  OBVIOUS
<1>2. \A k \in 1 .. N : m[k].frame.size \in Nat
  <2>1. \A k \in 1 .. N : m[k] \in Numbered
    OBVIOUS
  <2> QED
    BY <2>1 DEF Numbered, Frame
<1>3. h \in [(1 .. N) \X Nat -> Nat]
  BY <1>2
<1> HIDE DEF N, h
<1>4. PICK f : Recursive(N, Nat, 0, h, f)
  BY <1>1, <1>3, RecursionExists
<1>5. f \in [0 .. N -> Nat] /\ f[0] = 0 /\ \A n \in 1 .. N : f[n] = h[<<n, f[n-1]>>]
  BY <1>4 DEF Recursive
<1>6. ASSUME NEW n \in 1 .. N PROVE f[n] = f[n-1] + m[n].frame.size
  <2>1. f[n-1] \in Nat
    BY <1>1, <1>5
  <2> QED
    BY <1>5, <2>1 DEF h
<1> DEFINE e(k) == IF k = 0 THEN 0 ELSE f[k-1] + m[k].frame.size
<1>7. ASSUME NEW k \in 0 .. N PROVE f[k] = e(k)
  <2>1. CASE k = 0
    BY <2>1, <1>5
  <2>2. CASE k # 0
    <3>1. k \in 1 .. N
      BY <2>2, <1>1
    <3> QED
      BY <3>1, <2>2, <1>6
  <2> QED
    BY <2>1, <2>2
<1> HIDE DEF e
<1>8. f = [k \in 0 .. N |-> f[k]]
  BY <1>5
<1>9. f = [k \in 0 .. N |-> e(k)]
  BY <1>7, <1>8
<1> QED
  BY <1>5, <1>9 DEF Sizes, N, e

\* The sizes of a message and of a longer one agree on what they share.
LEMMA SizesAgree ==
  ASSUME NEW s \in Seq(Numbered), NEW t \in Seq(Numbered), Len(s) <= Len(t),
         \A k \in 1 .. Len(s) : s[k] = t[k],
         NEW f, NEW g, Sizes(s, f), Sizes(t, g)
  PROVE  \A k \in 0 .. Len(s) : f[k] = g[k]
<1> DEFINE P == {k \in Nat : k <= Len(s) => f[k] = g[k]}
<1>0. Len(s) \in Nat /\ Len(t) \in Nat
  OBVIOUS
<1>1. 0 \in P
  <2>1. 0 \in 0 .. Len(s) /\ 0 \in 0 .. Len(t)
    BY <1>0
  <2> QED
    BY <2>1 DEF Sizes
<1>2. ASSUME NEW k \in Nat, k \in P PROVE k + 1 \in P
  <2> SUFFICES ASSUME k + 1 <= Len(s) PROVE f[k+1] = g[k+1]
    OBVIOUS
  <2>1. /\ k + 1 \in 0 .. Len(s) /\ k + 1 \in 0 .. Len(t) /\ k + 1 \in 1 .. Len(s)
        /\ k + 1 # 0 /\ (k + 1) - 1 = k /\ k <= Len(s)
    BY <1>0
  <2>2. f[k+1] = f[k] + s[k+1].frame.size
    BY <2>1 DEF Sizes
  <2>3. g[k+1] = g[k] + t[k+1].frame.size
    BY <2>1 DEF Sizes
  <2>4. f[k] = g[k] /\ s[k+1] = t[k+1]
    BY <1>2, <2>1
  <2> QED
    BY <2>2, <2>3, <2>4
<1> HIDE DEF P
<1>3. Nat \subseteq P
  BY <1>1, <1>2, SetInduction
<1> QED
  BY <1>0, <1>3 DEF P

LEMMA SizeIs ==
  ASSUME NEW m PROVE Size(m) = (CHOOSE f : Sizes(m, f))[Len(m)]
BY DEF Size, Sizes

\* A frame adds its size, and nothing has none.
LEMMA SizeAppend ==
  ASSUME NEW m \in Seq(Numbered), NEW w \in Numbered
  PROVE  /\ Size(Append(m, w)) = Size(m) + w.frame.size
         /\ Size(m) \in Nat /\ w.frame.size \in Nat
<1> DEFINE t == Append(m, w)
           f == CHOOSE h : Sizes(m, h)
           g == CHOOSE h : Sizes(t, h)
           n == Len(m)
<1>1. t \in Seq(Numbered) /\ Len(t) = n + 1 /\ n \in Nat /\ t[n+1] = w
      /\ \A k \in 1 .. n : m[k] = t[k]
  OBVIOUS
<1>2. Sizes(m, f)
  BY SizesExist
<1>3. Sizes(t, g)
  BY <1>1, SizesExist
<1>4. Size(m) = f[n] /\ Size(t) = g[Len(t)]
  BY SizeIs
<1> HIDE DEF f, g, t, n
<1>5. Len(m) = n /\ Len(m) <= Len(t) /\ \A k \in 1 .. Len(m) : m[k] = t[k]
  BY <1>1 DEF n
<1>6. \A k \in 0 .. Len(m) : f[k] = g[k]
  BY <1>1, <1>2, <1>3, <1>5, SizesAgree
<1>7. f[n] = g[n]
  BY <1>1, <1>5, <1>6
<1>8. n + 1 \in 0 .. Len(t) /\ n + 1 # 0 /\ (n + 1) - 1 = n
  BY <1>1
<1>9. g[n+1] = g[n] + t[n+1].frame.size
  BY <1>3, <1>8 DEF Sizes
<1>10. Size(m) \in Nat
  <2>1. PICK d : Sizes(m, d) /\ d \in [0 .. Len(m) -> Nat]
    BY SizesExist
  <2>2. Len(m) <= Len(m) /\ \A k \in 1 .. Len(m) : m[k] = m[k]
    BY <1>1, <1>5
  <2>3. \A k \in 0 .. Len(m) : f[k] = d[k]
    BY <1>2, <2>1, <2>2, SizesAgree
  <2> QED
    BY <1>1, <1>4, <1>5, <2>1, <2>3
<1>11. w.frame.size \in Nat
  BY DEF Numbered, Frame
<1> QED
  BY <1>1, <1>4, <1>7, <1>9, <1>10, <1>11 DEF t

LEMMA SizeEmpty == Size(<< >>) = 0
<1> DEFINE m == << >>
           f == CHOOSE f : Sizes(m, f)
<1>1. m \in Seq(Numbered) /\ Len(m) = 0
  OBVIOUS
<1>2. Sizes(m, f)
  BY <1>1, SizesExist
<1>3. Size(m) = f[Len(m)]
  BY SizeIs
<1> HIDE DEF f, m
<1>4. f[0] = 0
  BY <1>1, <1>2 DEF Sizes
<1> QED
  BY <1>1, <1>3, <1>4 DEF m

---------------------------------------------------------------------------
(***************************************************************************)
(* Types, and what the reader has collected                                *)
(***************************************************************************)

\* The frames of a message that has begun: a text or binary frame and
\* continuations, consecutive and without fin, within the limit.
Begun(m) ==
  m # << >> =>
    /\ m[1].frame.op \in {"text", "binary"}
    /\ \A j \in DOMAIN m :
         /\ j > 1 => m[j].frame.op = "cont" /\ m[j].n = m[j-1].n + 1
         /\ ~ m[j].frame.fin
    /\ Size(m) <= Max

\* What the reader has collected ends with the last data frame of the peer, or
\* with the one before the frame that is on its way.
ReadInv ==
  /\ wire # NoFrame => wire.n = data
  /\ reader = "rest" => wire # NoFrame
  /\ Begun(message)
  /\ message # << >> =>
       message[Len(message)].n = IF wire # NoFrame /\ ~ Control(wire.frame) THEN data - 1 ELSE data

TypeInv == TypeOK /\ ReadInv

LEMMA FailureTyped == ASSUME NEW k \in Kinds PROVE Failure(k) \in Result /\ Failure(k).message = << >>
<1>1. << >> \in Seq(Numbered)
  OBVIOUS
<1> QED
  BY <1>1 DEF Failure, Result, Codes

LEMMA NoResults ==
  /\ Nil \in Result /\ Empty \in Result /\ Nil # Empty
  /\ Nil.message = << >> /\ Empty.message = << >>
<1>1. "nil" \in Kinds /\ "empty" \in Kinds
  BY DEF Kinds
<1>2. Nil # Empty
  BY DEF Nil, Empty, Failure
<1> QED
  BY <1>1, <1>2, FailureTyped DEF Nil, Empty

LEMMA WireTyped ==
  ASSUME TypeOK, wire # NoFrame
  PROVE  /\ wire \in Numbered /\ wire.frame \in Frame
         /\ wire.frame.op \in Ops /\ wire.frame.fin \in BOOLEAN
         /\ wire.frame.size \in Nat /\ wire.frame.code \in Codes
<1>1. wire \in Numbered
  BY DEF TypeOK
<1>2. wire.frame \in Frame
  BY <1>1 DEF Numbered
<1> QED
  BY <1>1, <1>2 DEF Frame

\* The steps that leave the reader and its message alone.
LEMMA OthersKeepReadInv ==
  ASSUME ReadInv, UNCHANGED <<wire, data, reader, message>>
  PROVE  ReadInv'
BY DEF ReadInv, Begun

LEMMA InitTyped == Init => TypeInv
<1> SUFFICES ASSUME Init PROVE TypeInv
  OBVIOUS
<1>1. << >> \in Seq(Numbered) /\ << >> \in Seq(Seq(Numbered))
  OBVIOUS
<1>2. TypeOK
  <2>1. message \in Seq(Numbered) /\ completed \in Seq(Seq(Numbered)) /\ taken \in Seq(Seq(Numbered))
    BY <1>1 DEF Init
  <2>2. result \in Result /\ pendingRead \in Result /\ answer \in Result
    BY NoResults DEF Init
  <2>3. writer \in [Writers -> WriterPlaces] /\ writeMu \in Writers \cup {Nobody}
    BY DEF Init, WriterPlaces
  <2>4. arrived \in 0 .. MaxFrames /\ data \in 0 .. arrived
    BY BoundsAssumption DEF Init
  <2>5. /\ closed \in BOOLEAN /\ connOpen \in BOOLEAN /\ cancelled \in BOOLEAN
        /\ peerGone \in BOOLEAN /\ midFrame \in BOOLEAN
        /\ wire = NoFrame /\ reader = "none" /\ call = "idle" /\ closeCode = "none"
    BY DEF Init
  <2> QED
    BY <2>1, <2>2, <2>3, <2>4, <2>5 DEF TypeOK, ReaderPlaces, Calls, Codes
<1>3. ReadInv
  BY DEF Init, ReadInv, Begun
<1> QED
  BY <1>2, <1>3 DEF TypeInv

\* The world outside.
LEMMA WorldTyped == TypeInv /\ World => TypeInv'
<1> SUFFICES ASSUME TypeInv, World PROVE TypeInv'
  OBVIOUS
<1>t. TypeOK /\ ReadInv
  BY DEF TypeInv
<1>1. ASSUME NEW f \in Frames, PeerSends(f) PROVE TypeInv'
  <2>1. f \in Frame /\ arrived \in Nat /\ data \in Nat
    BY <1>t, FramesAssumption, BoundsAssumption DEF TypeOK
  <2>2. /\ wire = NoFrame /\ arrived' \in 0 .. MaxFrames /\ data' \in 0 .. arrived'
        /\ data' = IF Control(f) THEN data ELSE data + 1
    BY <1>1, <1>t, <2>1, BoundsAssumption DEF PeerSends, TypeOK
  <2>3. data' \in 0 .. MaxFrames /\ wire' = [n |-> data', frame |-> f]
    BY <1>1, <2>2, BoundsAssumption DEF PeerSends
  <2>4. wire' \in Numbered /\ wire'.n = data' /\ wire'.frame = f
    BY <2>1, <2>3 DEF Numbered
  <2>5. wire' # NoFrame
    BY <2>1, <2>2, <2>4 DEF NoFrame
  <2>6. UNCHANGED <<peerGone, midFrame, reader, message, result, completed, closeCode,
                    writeVars, connVars, callVars>>
    BY <1>1 DEF PeerSends
  <2>7. TypeOK'
    BY <1>t, <2>2, <2>4, <2>6 DEF TypeOK, writeVars, connVars, callVars
  <2>8. ReadInv'
    <3>1. message # << >> => message[Len(message)].n = data
      BY <1>t, <2>2 DEF ReadInv
    <3>2. Begun(message)'
      BY <1>t, <2>6 DEF ReadInv, Begun
    <3>3. message' # << >> =>
            message'[Len(message')].n =
              IF wire' # NoFrame /\ ~ Control(wire'.frame) THEN data' - 1 ELSE data'
      BY <3>1, <2>1, <2>2, <2>4, <2>5, <2>6 DEF Control
    <3>4. reader' = "rest" => wire' # NoFrame
      BY <2>5
    <3> QED
      BY <3>2, <3>3, <3>4, <2>4 DEF ReadInv, Control
  <2> QED
    BY <2>7, <2>8 DEF TypeInv
<1>2. CASE PeerLeaves
  <2>1. TypeOK'
    BY <1>2, <1>t DEF PeerLeaves, TypeOK, writeVars, connVars, callVars
  <2> QED
    BY <1>2, <1>t, <2>1, OthersKeepReadInv DEF PeerLeaves, TypeInv
<1>3. CASE Cancel
  <2>1. TypeOK'
    BY <1>3, <1>t DEF Cancel, TypeOK, writeVars, readVars, callVars
  <2> QED
    BY <1>3, <1>t, <2>1, OthersKeepReadInv DEF Cancel, TypeInv, readVars
<1>4. ASSUME NEW p \in Senders, SenderSends(p) \/ SenderReturns(p) PROVE TypeInv'
  <2>1. writer' \in [Writers -> WriterPlaces] /\ writeMu' = writeMu
    BY <1>4, <1>t DEF SenderSends, SenderReturns, EnterSendFrame, LeaveSendFrame, TypeOK,
                      WriterPlaces
  <2>2. UNCHANGED <<readVars, connVars, callVars>>
    BY <1>4 DEF SenderSends, SenderReturns
  <2>3. TypeOK'
    BY <1>t, <2>1, <2>2 DEF TypeOK, readVars, connVars, callVars
  <2> QED
    BY <1>t, <2>2, <2>3, OthersKeepReadInv DEF TypeInv, readVars
<1> QED
  BY <1>1, <1>2, <1>3, <1>4 DEF World

\* sendFrame.
LEMMA WriterTyped == ASSUME TypeInv, NEW p \in Writers, WriterStep(p) PROVE TypeInv'
<1>t. TypeOK /\ ReadInv
  BY DEF TypeInv
<1>1. UNCHANGED <<readVars, connVars, callVars>>
  BY DEF WriterStep, Acquire, WriteHead, WriteRest, WriteFails
<1>2. writer' \in [Writers -> WriterPlaces] /\ writeMu' \in Writers \cup {Nobody}
  BY <1>t DEF WriterStep, Acquire, WriteHead, WriteRest, WriteFails, TypeOK, WriterPlaces
<1>3. TypeOK'
  BY <1>t, <1>1, <1>2 DEF TypeOK, readVars, connVars, callVars
<1> QED
  BY <1>t, <1>1, <1>3, OthersKeepReadInv DEF TypeInv, readVars

\* The owner's calls.
LEMMA OwnerTyped ==
  ASSUME TypeInv,
         \/ \E kind \in {"receive", "timed"} : ReceiveBegins(kind)
         \/ SendBegins \/ CloseBegins
         \/ \E type \in {"text", "binary"} : CallStep(type)
  PROVE  TypeInv'
<1>t. TypeOK /\ ReadInv /\ Owner \in Writers
  BY DEF TypeInv, Writers
<1>k. \A k \in {"closed_handle", "timed_out", "sent", "not_sent", "closed", "close_failed"} :
        Failure(k) \in Result
  BY FailureTyped DEF Kinds
<1>w. ASSUME NEW p \in Writers, EnterSendFrame(p) \/ LeaveSendFrame(p)
      PROVE  writer' \in [Writers -> WriterPlaces] /\ writeMu' = writeMu
  BY <1>t, <1>w DEF EnterSendFrame, LeaveSendFrame, TypeOK, WriterPlaces
<1>1. ASSUME NEW kind \in {"receive", "timed"}, ReceiveBegins(kind) PROVE TypeInv'
  <2>1. TypeOK'
    <3>1. /\ call' \in Calls /\ answer' \in Result /\ pendingRead' \in Result
          /\ reader' \in ReaderPlaces /\ (reader' # "none" => pendingRead' = Empty)
      BY <1>1, <1>t, <1>k, NoResults
      DEF ReceiveBegins, Answered, TypeOK, Calls, ReaderPlaces
    <3> QED
      BY <1>1, <1>t, <3>1 DEF ReceiveBegins, TypeOK, writeVars, connVars
  <2>2. ReadInv'
    <3>1. /\ UNCHANGED <<wire, data, message>>
          /\ reader' = reader \/ reader' = "start"
      BY <1>1 DEF ReceiveBegins
    <3> QED
      BY <1>t, <3>1 DEF ReadInv, Begun
  <2> QED
    BY <2>1, <2>2 DEF TypeInv
<1>2. CASE SendBegins
  <2>1. writer' \in [Writers -> WriterPlaces] /\ writeMu' = writeMu
        /\ call' \in Calls /\ answer' \in Result
    BY <1>2, <1>t, <1>k, <1>w DEF SendBegins, Answered, Calls, TypeOK, writeVars
  <2>2. TypeOK'
    BY <1>2, <1>t, <2>1 DEF SendBegins, TypeOK, readVars, connVars
  <2> QED
    BY <1>2, <1>t, <2>2, OthersKeepReadInv DEF SendBegins, TypeInv, readVars
<1>3. CASE CloseBegins
  <2>1. call' \in Calls /\ answer' \in Result
    BY <1>3, <1>t, <1>k DEF CloseBegins, Answered, Calls, TypeOK
  <2>2. TypeOK'
    BY <1>3, <1>t, <2>1 DEF CloseBegins, TypeOK, readVars, connVars, writeVars
  <2> QED
    BY <1>3, <1>t, <2>2, OthersKeepReadInv DEF CloseBegins, TypeInv, readVars
<1>4. ASSUME NEW type \in {"text", "binary"}, ReceiveReturns(type) PROVE TypeInv'
  <2>1. answer' \in Result
    <3>1. pendingRead \in Result /\ answer' = Wanted(pendingRead, type)
      BY <1>4, <1>t DEF ReceiveReturns, Answered, TypeOK
    <3> QED
      BY <3>1 DEF Wanted, Result, Kinds
  <2>2. taken' \in Seq(Seq(Numbered))
    <3>1. pendingRead.message \in Seq(Numbered) /\ taken \in Seq(Seq(Numbered))
      BY <1>t DEF TypeOK, Result
    <3> QED
      BY <1>4, <3>1 DEF ReceiveReturns
  <2>3. reader = "none" /\ pendingRead' = Nil /\ call' = "idle" /\ UNCHANGED <<readVars, writeVars, connVars>>
    BY <1>4, <1>t DEF ReceiveReturns, Answered, TypeOK
  <2>4. TypeOK'
    BY <1>t, <2>1, <2>2, <2>3, NoResults DEF TypeOK, readVars, writeVars, connVars, Calls
  <2> QED
    BY <1>t, <2>3, <2>4, OthersKeepReadInv DEF TypeInv, readVars
<1>5. CASE TimerFires
  <2>1. TypeOK'
    BY <1>5, <1>t, <1>k DEF TimerFires, TimedOut, Answered, TypeOK, Calls, readVars, writeVars, connVars
  <2> QED
    BY <1>5, <1>t, <2>1, OthersKeepReadInv DEF TimerFires, TypeInv, readVars
<1>6. CASE SendReturns
  <2>1. writer' \in [Writers -> WriterPlaces] /\ writeMu' = writeMu
        /\ call' \in Calls /\ answer' \in Result
    BY <1>6, <1>t, <1>k, <1>w DEF SendReturns, Answered, Calls
  <2>2. TypeOK'
    BY <1>6, <1>t, <2>1 DEF SendReturns, TypeOK, readVars, connVars
  <2> QED
    BY <1>6, <1>t, <2>2, OthersKeepReadInv DEF SendReturns, TypeInv, readVars
<1>7. CASE CloseMarks
  <2>1. writer' \in [Writers -> WriterPlaces] /\ writeMu' = writeMu
        /\ call' \in Calls /\ answer' \in Result /\ closed' \in BOOLEAN
    BY <1>7, <1>t, <1>k, <1>w DEF CloseMarks, Answered, Calls, TypeOK, writeVars
  <2>2. TypeOK'
    BY <1>7, <1>t, <2>1 DEF CloseMarks, TypeOK, readVars
  <2> QED
    BY <1>7, <1>t, <2>2, OthersKeepReadInv DEF CloseMarks, TypeInv, readVars
<1>8. CASE CloseReturns
  <2>1. writer' \in [Writers -> WriterPlaces] /\ writeMu' = writeMu
        /\ call' \in Calls /\ answer' \in Result /\ connOpen' \in BOOLEAN
    BY <1>8, <1>t, <1>k, <1>w DEF CloseReturns, HangsUp, Answered, Calls
  <2>2. TypeOK'
    BY <1>8, <1>t, <2>1 DEF CloseReturns, TypeOK, readVars
  <2> QED
    BY <1>8, <1>t, <2>2, OthersKeepReadInv DEF CloseReturns, TypeInv, readVars
<1> QED
  BY <1>1, <1>2, <1>3, <1>4, <1>5, <1>6, <1>7, <1>8 DEF CallStep

\* What every step of the reader leaves alone, or typed.
ReaderFrame ==
  /\ UNCHANGED <<arrived, data, peerGone, call, answer, taken, pendingRead>>
  /\ writer' \in [Writers -> WriterPlaces] /\ writeMu' = writeMu
  /\ closed' \in BOOLEAN /\ connOpen' \in BOOLEAN /\ cancelled' \in BOOLEAN
  /\ midFrame' \in BOOLEAN /\ closeCode' \in Codes
  /\ wire' = wire \/ wire' = NoFrame
  /\ completed' \in Seq(Seq(Numbered))

\* The reader has a result.
LEMMA FinishTyped ==
  ASSUME TypeInv, reader # "none", ReaderFrame, NEW r \in Result, Finish(r) \/ Marks(r)
  PROVE  TypeInv'
<1>1. reader' \in {"deliver", "hangup"} /\ message' = << >> /\ result' = r
  BY DEF Finish, Marks
<1>2. message' \in Seq(Numbered)
  BY <1>1
<1>3. TypeOK'
  BY <1>1, <1>2 DEF TypeInv, TypeOK, ReaderFrame, ReaderPlaces
<1>4. ReadInv'
  BY <1>1 DEF TypeInv, ReadInv, ReaderFrame, Begun
<1> QED
  BY <1>3, <1>4 DEF TypeInv

\* The reader goes on.
LEMMA GoesOnTyped ==
  ASSUME TypeInv, reader # "none", ReaderFrame, ReadInv', UNCHANGED result,
         reader' \in ReaderPlaces \ {"none"}, message' \in Seq(Numbered)
  PROVE  TypeInv'
<1>1. TypeOK'
  BY DEF TypeInv, TypeOK, ReaderFrame
<1> QED
  BY <1>1 DEF TypeInv

\* A frame has been read.
LEMMA FrameReadTyped ==
  ASSUME TypeInv, FrameRead
  PROVE  /\ reader # "none" /\ wire # NoFrame /\ wire' = NoFrame /\ midFrame' \in BOOLEAN
         /\ wire.n = data /\ UNCHANGED <<arrived, data, peerGone>>
         /\ wire.frame.size <= Max
<1>1. reader = "rest" /\ ~ Unacceptable(wire.frame)
  BY DEF FrameRead
<1>2. wire # NoFrame /\ wire.n = data /\ TypeOK
  BY <1>1 DEF TypeInv, ReadInv
<1>3. wire.frame.size <= Max
  BY <1>1, <1>2, WireTyped, BoundsAssumption DEF Unacceptable
<1> QED
  BY <1>1, <1>2, <1>3 DEF FrameRead

\* A frame joins the message it continues.
LEMMA JoinedBegun ==
  ASSUME TypeInv, wire # NoFrame, wire.frame.op = "cont", Collecting, ~ TooLong
  PROVE  /\ Joined \in Seq(Numbered) /\ Joined # << >>
         /\ Len(Joined) = Len(message) + 1 /\ Len(message) \in Nat \ {0}
         /\ Joined[Len(message) + 1] = wire
         /\ \A j \in 1 .. Len(message) : Joined[j] = message[j]
         /\ Joined[1].frame.op \in {"text", "binary"}
         /\ \A j \in DOMAIN Joined :
              /\ j > 1 => Joined[j].frame.op = "cont" /\ Joined[j].n = Joined[j-1].n + 1
              /\ j # Len(Joined) => ~ Joined[j].frame.fin
         /\ Size(Joined) <= Max
<1> DEFINE k == Len(message)
           J == Joined
<1>1. wire \in Numbered /\ message \in Seq(Numbered) /\ message # << >> /\ Begun(message)
      /\ data \in Int /\ wire.n = data
  BY WireTyped, BoundsAssumption DEF TypeInv, TypeOK, ReadInv, Collecting
<1>2. k \in Nat \ {0} /\ DOMAIN message = 1 .. k
  BY <1>1
<1>3. /\ J \in Seq(Numbered) /\ Len(J) = k + 1 /\ J[k + 1] = wire
      /\ \A j \in 1 .. k : J[j] = message[j]
  BY <1>1, <1>2 DEF Joined
<1>4. J # << >> /\ DOMAIN J = 1 .. (k + 1)
  BY <1>2, <1>3
<1>5. message[k].n = data - 1
  <2>1. ~ Control(wire.frame)
    BY DEF Control
  <2> QED
    BY <1>1, <2>1 DEF TypeInv, ReadInv
<1>6. Size(J) <= Max
  BY <1>1, SizeAppend, BoundsAssumption DEF Joined, TooLong
<1>7. /\ message[1].frame.op \in {"text", "binary"}
      /\ \A j \in 1 .. k : /\ j > 1 => message[j].frame.op = "cont" /\ message[j].n = message[j-1].n + 1
                           /\ ~ message[j].frame.fin
  BY <1>1, <1>2 DEF Begun
<1> HIDE DEF k, J
<1>8. ASSUME NEW j \in DOMAIN J
      PROVE  /\ j > 1 => J[j].frame.op = "cont" /\ J[j].n = J[j-1].n + 1
             /\ j # Len(J) => ~ J[j].frame.fin
  <2>1. CASE j = k + 1
    <3>1. k \in 1 .. k /\ j - 1 = k
      BY <2>1, <1>2
    <3>2. J[j] = wire /\ J[j-1] = message[k]
      BY <3>1, <2>1, <1>3
    <3> QED
      BY <3>2, <2>1, <1>1, <1>3, <1>5
  <2>2. CASE j # k + 1
    <3>1. j \in 1 .. k
      BY <2>2, <1>2, <1>4
    <3>2. J[j] = message[j] /\ (j > 1 => j - 1 \in 1 .. k /\ J[j-1] = message[j-1])
      BY <3>1, <1>2, <1>3
    <3> QED
      BY <3>1, <3>2, <1>7
  <2> QED
    BY <2>1, <2>2
<1>9. J[1] = message[1]
  BY <1>2, <1>3
<1> QED
  BY <1>2, <1>3, <1>4, <1>6, <1>7, <1>8, <1>9 DEF J, k

\* The reader.
LEMMA ReaderTyped == TypeInv /\ ReaderStep => TypeInv'
<1> SUFFICES ASSUME TypeInv, ReaderStep PROVE TypeInv'
  OBVIOUS
<1>t. TypeOK /\ ReadInv /\ Reader \in Writers
  BY DEF TypeInv, Writers
<1>f. Failure("failed") \in Result /\ Failure("cancelled") \in Result
  BY FailureTyped DEF Kinds
<1>1. CASE ReaderStarts
  <2>1. reader # "none" /\ ReaderFrame
    BY <1>1, <1>t DEF ReaderStarts, ReaderFrame, TypeOK, writeVars, connVars, callVars
  <2>2. CASE reader' = "frame" /\ UNCHANGED <<message, result>>
    <3>1. ReadInv'
      BY <1>1, <1>t, <2>2 DEF ReaderStarts, ReadInv, Begun
    <3> QED
      BY <2>1, <2>2, <3>1, <1>t, GoesOnTyped DEF TypeOK, ReaderPlaces
  <2>3. CASE \E r \in Result : Finish(r)
    BY <2>1, <2>3, FinishTyped
  <2> QED
    BY <1>1, <1>f, <2>2, <2>3 DEF ReaderStarts
<1>2. CASE ReadBegins
  <2>1. reader # "none" /\ ReaderFrame
    BY <1>2, <1>t DEF ReadBegins, ReaderFrame, TypeOK, writeVars, connVars, callVars
  <2>2. ReadInv'
    BY <1>2, <1>t DEF ReadBegins, ReadInv, Begun
  <2> QED
    BY <1>2, <2>1, <2>2, <1>t, GoesOnTyped DEF ReadBegins, TypeOK, ReaderPlaces
<1>3. CASE ReadFails \/ ReadRefuses
  <2>1. reader # "none" /\ FrameError
    BY <1>3 DEF ReadFails, ReadRefuses
  <2>2. PICK r \in Result : Finish(r) \/ Marks(r)
    BY <2>1, <1>f DEF FrameError
  <2>3. closed' \in BOOLEAN
    BY <2>1, <1>t DEF FrameError, Marks, TypeOK
  <2>4. ReaderFrame
    BY <1>3, <1>t, <2>3 DEF ReadFails, ReadRefuses, ReaderFrame, TypeOK, writeVars, callVars
  <2> QED
    BY <2>1, <2>2, <2>4, FinishTyped
<1>4. CASE ReaderHangsUp
  <2>1. reader # "none" /\ ReaderFrame
    BY <1>4, <1>t DEF ReaderHangsUp, ReaderFrame, TypeOK, writeVars, callVars
  <2>2. ReadInv'
    BY <1>4, <1>t DEF ReaderHangsUp, ReadInv, Begun
  <2> QED
    BY <1>4, <2>1, <2>2, <1>t, GoesOnTyped DEF ReaderHangsUp, TypeOK, ReaderPlaces
<1>5. CASE ReadPing \/ ReadPong
  <2>1. /\ FrameRead /\ wire.frame.op \in {"ping", "pong"} /\ reader' \in {"pong", "frame"}
        /\ UNCHANGED <<message, result, completed, closeCode, writeVars, connVars, callVars>>
    BY <1>5 DEF ReadPing, ReadPong
  <2>2. ReaderFrame
    BY <2>1, <1>t, FrameReadTyped DEF ReaderFrame, TypeOK, writeVars, connVars, callVars
  <2>3. ReadInv'
    <3>1. message # << >> => message[Len(message)].n = data
      BY <2>1, <1>t DEF ReadInv, Control
    <3> QED
      BY <2>1, <3>1, <1>t, FrameReadTyped DEF ReadInv, Begun
  <2> QED
    BY <2>1, <2>2, <2>3, <1>t, FrameReadTyped, GoesOnTyped DEF TypeOK, ReaderPlaces
<1>6. CASE ReadClose
  <2> DEFINE r == [kind |-> "peer_closed", message |-> << >>, code |-> wire.frame.code]
  <2>1. FrameRead /\ Marks(r) /\ closeCode' = wire.frame.code /\ closed' = TRUE
    BY <1>6 DEF ReadClose, Marks
  <2>2. wire.frame.code \in Codes
    BY <2>1, <1>t, FrameReadTyped, WireTyped
  <2>3. << >> \in Seq(Numbered)
    OBVIOUS
  <2>4. r \in Result
    BY <2>2, <2>3 DEF Result, Kinds
  <2> HIDE DEF r
  <2>5. ReaderFrame
    BY <1>6, <2>1, <2>2, <1>t, FrameReadTyped DEF ReadClose, ReaderFrame, TypeOK, writeVars, callVars
  <2> QED
    BY <2>1, <2>4, <2>5, FrameReadTyped, FinishTyped
<1>7. CASE ReadData
  <2>1. /\ FrameRead /\ wire.frame.op \in {"text", "binary"}
        /\ UNCHANGED <<closeCode, writeVars, connVars, callVars>>
    BY <1>7 DEF ReadData
  <2>2. wire # NoFrame /\ wire \in Numbered
    BY <2>1, <1>t, FrameReadTyped, WireTyped
  <2>3. completed' \in Seq(Seq(Numbered)) => ReaderFrame
    BY <2>1, <1>t, FrameReadTyped DEF ReaderFrame, TypeOK, writeVars, connVars, callVars
  <2>4. <<wire>> \in Seq(Numbered) /\ <<wire>> # << >> /\ Len(<<wire>>) = 1 /\ <<wire>>[1] = wire
    BY <2>2
  <2>5. CASE Finish(Failure("failed")) /\ UNCHANGED completed
    BY <2>1, <2>3, <2>5, <1>f, <1>t, FrameReadTyped, FinishTyped DEF TypeOK
  <2>6. CASE Complete(wire.frame.op, <<wire>>)
    <3>1. completed' \in Seq(Seq(Numbered))
      BY <2>4, <2>6, <1>t DEF Complete, TypeOK
    <3>2. [kind |-> wire.frame.op, message |-> <<wire>>, code |-> "none"] \in Result
      BY <2>1, <2>4 DEF Result, Kinds, Codes
    <3> QED
      BY <2>1, <2>3, <2>6, <3>1, <3>2, FrameReadTyped, FinishTyped DEF Complete
  <2>7. CASE /\ ~ Collecting /\ ~ wire.frame.fin /\ reader' = "frame" /\ message' = <<wire>>
             /\ UNCHANGED <<result, completed>>
    <3>1. Size(<<wire>>) <= Max
      <4>1. << >> \in Seq(Numbered) /\ <<wire>> = Append(<< >>, wire)
        BY <2>2
      <4>2. Size(<<wire>>) = 0 + wire.frame.size /\ wire.frame.size \in Nat
        BY <4>1, <2>2, SizeAppend, SizeEmpty
      <4> QED
        BY <4>2, <2>1, FrameReadTyped
    <3>2. Begun(<<wire>>)
      BY <3>1, <2>1, <2>4, <2>7 DEF Begun
    <3>3. ReadInv'
      <4>1. Begun(message)'
        BY <2>7, <3>2
      <4>2. message'[Len(message')].n = data' /\ wire' = NoFrame
        BY <2>1, <2>4, <2>7, FrameReadTyped
      <4> QED
        BY <4>1, <4>2, <2>7 DEF ReadInv
    <3> QED
      BY <2>1, <2>3, <2>4, <2>7, <3>3, <1>t, FrameReadTyped, GoesOnTyped DEF TypeOK, ReaderPlaces
  <2> QED
    BY <1>7, <2>5, <2>6, <2>7 DEF ReadData
<1>8. CASE ReadContinuation
  <2>1. /\ FrameRead /\ wire.frame.op = "cont"
        /\ UNCHANGED <<closeCode, writeVars, connVars, callVars>>
    BY <1>8 DEF ReadContinuation
  <2>2. wire # NoFrame /\ wire \in Numbered
    BY <2>1, <1>t, FrameReadTyped, WireTyped
  <2>3. completed' \in Seq(Seq(Numbered)) => ReaderFrame
    BY <2>1, <1>t, FrameReadTyped DEF ReaderFrame, TypeOK, writeVars, connVars, callVars
  <2>4. CASE Finish(Failure("failed")) /\ UNCHANGED completed
    BY <2>1, <2>3, <2>4, <1>f, <1>t, FrameReadTyped, FinishTyped DEF TypeOK
  <2>5. CASE Collecting /\ ~ TooLong /\ Complete(message[1].frame.op, Joined)
    <3>1. Joined \in Seq(Numbered) /\ Joined[1].frame.op \in {"text", "binary"}
          /\ Joined[1] = message[1]
      BY <2>1, <2>2, <2>5, JoinedBegun
    <3>2. completed' \in Seq(Seq(Numbered))
      BY <3>1, <2>5, <1>t DEF Complete, TypeOK
    <3>3. [kind |-> message[1].frame.op, message |-> Joined, code |-> "none"] \in Result
      BY <3>1 DEF Result, Kinds, Codes
    <3> QED
      BY <2>1, <2>3, <2>5, <3>2, <3>3, FrameReadTyped, FinishTyped DEF Complete
  <2>6. CASE /\ Collecting /\ ~ TooLong /\ ~ wire.frame.fin /\ reader' = "frame"
             /\ message' = Joined /\ UNCHANGED <<result, completed>>
    <3>1. /\ Joined \in Seq(Numbered) /\ Len(Joined) = Len(message) + 1
          /\ Joined[Len(Joined)] = wire
      BY <2>1, <2>2, <2>6, JoinedBegun
    <3>2. Begun(Joined)
      <4>1. ASSUME NEW j \in DOMAIN Joined PROVE ~ Joined[j].frame.fin
        BY <3>1, <2>1, <2>2, <2>6, JoinedBegun
      <4> QED
        BY <4>1, <2>1, <2>2, <2>6, JoinedBegun DEF Begun
    <3>3. ReadInv'
      <4>1. Begun(message)'
        BY <2>6, <3>2
      <4>2. message'[Len(message')].n = data' /\ wire' = NoFrame
        BY <2>1, <2>6, <3>1, FrameReadTyped
      <4> QED
        BY <4>1, <4>2, <2>6 DEF ReadInv
    <3> QED
      BY <2>1, <2>3, <2>6, <3>1, <3>3, <1>t, FrameReadTyped, GoesOnTyped DEF TypeOK, ReaderPlaces
  <2> QED
    BY <1>8, <2>4, <2>5, <2>6 DEF ReadContinuation
<1>9. CASE ReadReserved
  <2>1. ReaderFrame
    BY <1>9, <1>t, FrameReadTyped DEF ReadReserved, ReaderFrame, TypeOK, writeVars, connVars, callVars
  <2> QED
    BY <1>9, <1>f, <2>1, FrameReadTyped, FinishTyped DEF ReadReserved
<1>10. CASE PongBegins \/ PongEnds
  <2>1. reader # "none" /\ ReaderFrame
    <3>1. writer' \in [Writers -> WriterPlaces] /\ writeMu' = writeMu
      BY <1>10, <1>t DEF PongBegins, PongEnds, EnterSendFrame, LeaveSendFrame, TypeOK,
                         WriterPlaces, writeVars
    <3> QED
      BY <1>10, <1>t, <3>1 DEF PongBegins, PongEnds, ReaderFrame, TypeOK, connVars, callVars
  <2>2. CASE Finish(Failure("failed"))
    BY <2>1, <2>2, <1>f, FinishTyped
  <2>3. CASE reader' \in {"ponging", "frame"} /\ UNCHANGED <<message, result>>
    <3>1. ReadInv'
      BY <1>10, <1>t, <2>3 DEF PongBegins, PongEnds, ReadInv, Begun
    <3> QED
      BY <2>1, <2>3, <3>1, <1>t, GoesOnTyped DEF TypeOK, ReaderPlaces
  <2> QED
    BY <1>10, <2>2, <2>3 DEF PongBegins, PongEnds
<1>11. CASE ReaderDelivers
  <2>1. TypeOK'
    BY <1>11, <1>t, NoResults DEF ReaderDelivers, TypeOK, ReaderPlaces, writeVars, connVars
  <2>2. ReadInv'
    BY <1>11, <1>t DEF ReaderDelivers, ReadInv, Begun
  <2> QED
    BY <2>1, <2>2 DEF TypeInv
<1> QED
  BY <1>1, <1>2, <1>3, <1>4, <1>5, <1>6, <1>7, <1>8, <1>9, <1>10, <1>11 DEF ReaderStep

\* Each step of Next preserves TypeInv.
LEMMA TypeStep == TypeInv /\ [Next]_vars => TypeInv'
<1> SUFFICES ASSUME TypeInv, [Next]_vars PROVE TypeInv'
  OBVIOUS
<1>1. CASE UNCHANGED vars
  BY <1>1, OthersKeepReadInv
  DEF TypeInv, TypeOK, vars, readVars, writeVars, connVars, callVars
<1> QED
  BY <1>1, WorldTyped, WriterTyped, OwnerTyped, ReaderTyped DEF Next

\* A connection keeps its shape, and no receive starts a second reader while
\* one runs.
THEOREM WebSocketTypeCorrect == Spec => []TypeOK
<1>1. TypeInv => TypeOK
  BY DEF TypeInv
<1> QED
  BY <1>1, InitTyped, TypeStep, PTL DEF Spec
---------------------------------------------------------------------------
(***************************************************************************)
(* Messages are whole                                                      *)
(***************************************************************************)

\* What MessagesWhole says of one message.
Whole(m) ==
  /\ m[1].frame.op \in {"text", "binary"}
  /\ \A j \in DOMAIN m :
       /\ j > 1 => m[j].frame.op = "cont" /\ m[j].n = m[j-1].n + 1
       /\ m[j].frame.fin <=> j = Len(m)
  /\ Size(m) <= Max

\* Only a data frame with fin ends a message, and it ends a whole one.
LEMMA CompletesWhole ==
  ASSUME TypeInv, [Next]_vars, completed' # completed
  PROVE  \E m \in Seq(Numbered) : Whole(m) /\ completed' = Append(completed, m)
<1>1. ReadData \/ ReadContinuation
  <2>1. CASE ReaderStep
    BY <2>1 DEF ReaderStep, ReaderStarts, ReadBegins, ReadFails, ReadRefuses, ReaderHangsUp,
       ReadPing, ReadPong, ReadClose, ReadReserved, PongBegins, PongEnds, ReaderDelivers
  <2>2. CASE World
    BY <2>2 DEF World, PeerSends, PeerLeaves, Cancel, SenderSends, SenderReturns, readVars
  <2>3. CASE \/ SendBegins \/ CloseBegins
             \/ \E kind \in {"receive", "timed"} : ReceiveBegins(kind)
    BY <2>3 DEF SendBegins, CloseBegins, ReceiveBegins, readVars
  <2>4. CASE \E type \in {"text", "binary"} : CallStep(type)
    BY <2>4 DEF CallStep, ReceiveReturns, TimerFires, SendReturns, CloseMarks, CloseReturns, readVars
  <2>5. CASE \E p \in Writers : WriterStep(p)
    BY <2>5 DEF WriterStep, Acquire, WriteHead, WriteRest, WriteFails, readVars
  <2>6. CASE UNCHANGED vars
    BY <2>6 DEF vars, readVars
  <2> QED
    BY <2>1, <2>2, <2>3, <2>4, <2>5, <2>6 DEF Next
<1>2. FrameRead
  BY <1>1 DEF ReadData, ReadContinuation
<1>3. wire # NoFrame /\ wire \in Numbered /\ wire.frame.fin \in BOOLEAN /\ wire.frame.size <= Max
  BY <1>2, FrameReadTyped, WireTyped DEF TypeInv
<1>4. CASE ReadData
  <2>1. /\ wire.frame.fin /\ wire.frame.op \in {"text", "binary"}
        /\ completed' = Append(completed, <<wire>>)
    BY <1>4 DEF ReadData, Complete
  <2>2. <<wire>> \in Seq(Numbered) /\ Len(<<wire>>) = 1 /\ <<wire>>[1] = wire
        /\ DOMAIN <<wire>> = {1}
    BY <1>3
  <2>3. Size(<<wire>>) <= Max
    <3>1. << >> \in Seq(Numbered) /\ <<wire>> = Append(<< >>, wire)
      BY <1>3
    <3>2. Size(<<wire>>) = 0 + wire.frame.size /\ wire.frame.size \in Nat
      BY <3>1, <1>3, SizeAppend, SizeEmpty
    <3> QED
      BY <3>2, <1>3
  <2>4. Whole(<<wire>>)
    BY <2>1, <2>2, <2>3 DEF Whole
  <2> QED
    BY <2>1, <2>2, <2>4
<1>5. CASE ReadContinuation
  <2>1. /\ wire.frame.fin /\ wire.frame.op = "cont" /\ Collecting /\ ~ TooLong
        /\ completed' = Append(completed, Joined)
    BY <1>5 DEF ReadContinuation, Complete
  <2>2. ASSUME NEW j \in DOMAIN Joined PROVE Joined[j].frame.fin <=> j = Len(Joined)
    BY <2>1, <1>3, JoinedBegun
  <2>3. Joined \in Seq(Numbered) /\ Whole(Joined)
    BY <2>1, <2>2, <1>3, JoinedBegun DEF Whole
  <2> QED
    BY <2>1, <2>3
<1> QED
  BY <1>1, <1>4, <1>5

\* A message is made of consecutive data frames, begins with text or binary,
\* ends at the first fin and stays within the limit, for any limit and any
\* sequence of frames of the peer: receiveMessageRaw adds what it collected
\* before to the frame it measures, and drops it with every error.
THEOREM MessagesAreWhole == Spec => []MessagesWhole
<1> DEFINE Inv == TypeInv /\ MessagesWhole
<1>1. Init => MessagesWhole
  BY DEF Init, MessagesWhole
<1>2. Inv /\ [Next]_vars => MessagesWhole'
  <2> SUFFICES ASSUME TypeInv, MessagesWhole, [Next]_vars PROVE MessagesWhole'
    OBVIOUS
  <2>0. MessagesWhole <=> \A i \in DOMAIN completed : Whole(completed[i])
    BY DEF MessagesWhole, Whole
  <2>1. ASSUME \A i \in DOMAIN completed' : Whole(completed'[i]) PROVE MessagesWhole'
    BY <2>1 DEF MessagesWhole, Whole
  <2>2. CASE completed' = completed
    BY <2>0, <2>1, <2>2
  <2>3. CASE completed' # completed
    <3>1. PICK m \in Seq(Numbered) : Whole(m) /\ completed' = Append(completed, m)
      BY <2>3, CompletesWhole
    <3>2. completed \in Seq(Seq(Numbered))
      BY DEF TypeInv, TypeOK
    <3>3. ASSUME NEW i \in DOMAIN completed' PROVE Whole(completed'[i])
      <4>1. completed'[i] = m \/ (i \in DOMAIN completed /\ completed'[i] = completed[i])
        BY <3>1, <3>2
      <4> QED
        BY <4>1, <3>1, <2>0
    <3> QED
      BY <3>3, <2>1
  <2> QED
    BY <2>2, <2>3
<1>3. Inv /\ [Next]_vars => Inv'
  BY <1>2, TypeStep
<1>4. Init => Inv
  BY <1>1, InitTyped
<1> QED
  BY <1>3, <1>4, PTL DEF Spec

---------------------------------------------------------------------------
(***************************************************************************)
(* A timeout loses nothing and repeats nothing                             *)
(***************************************************************************)

\* A message that was completed and not yet returned is in the channel or with
\* the reader, never in both: the channel is empty while a reader runs.
Kept(whole, out, r, s) ==
  whole = IF r.message # << >> THEN Append(out, r.message)
          ELSE IF s.message # << >> THEN Append(out, s.message)
          ELSE out

KeptInv ==
  /\ reader \notin {"hangup", "deliver"} => result = Nil
  /\ Kept(completed, taken, pendingRead, result)

\* The steps of others.
LEMMA OthersKeep ==
  ASSUME KeptInv, UNCHANGED <<completed, taken, pendingRead, result>>,
         reader' \notin {"hangup", "deliver"} => reader \notin {"hangup", "deliver"}
  PROVE  KeptInv'
BY DEF KeptInv

\* The reader has a result, with the message it has completed, if any.
LEMMA FinishKeeps ==
  ASSUME TypeInv, KeptInv, reader \notin {"none", "hangup", "deliver"}, NEW r \in Result,
         Finish(r) \/ Marks(r), UNCHANGED <<taken, pendingRead>>,
         completed' = IF r.message # << >> THEN Append(completed, r.message) ELSE completed
  PROVE  KeptInv'
<1>1. pendingRead = Empty /\ result = Nil
  BY DEF TypeInv, TypeOK, KeptInv
<1>2. completed = taken
  BY <1>1, NoResults DEF KeptInv, Kept
<1>3. reader' \in {"hangup", "deliver"} /\ result' = r
  BY DEF Finish, Marks
<1>4. pendingRead' = Empty
  BY <1>1
<1>5. Kept(completed', taken', pendingRead', result')
  BY <1>2, <1>3, <1>4, NoResults DEF Kept
<1> QED
  BY <1>3, <1>5 DEF KeptInv

LEMMA ReaderKeeps == TypeInv /\ KeptInv /\ ReaderStep => KeptInv'
<1> SUFFICES ASSUME TypeInv, KeptInv, ReaderStep PROVE KeptInv'
  OBVIOUS
<1>t. TypeOK
  BY DEF TypeInv
<1>f. /\ Failure("failed") \in Result /\ Failure("cancelled") \in Result
      /\ Failure("failed").message = << >> /\ Failure("cancelled").message = << >>
  BY FailureTyped DEF Kinds
<1>r. ASSUME NEW r \in Result, Finish(r) \/ Marks(r), r.message = << >>,
             reader \notin {"none", "hangup", "deliver"},
             UNCHANGED <<taken, pendingRead, completed>>
      PROVE  KeptInv'
  BY <1>r, FinishKeeps
<1>1. CASE ReaderStarts
  <2>1. reader = "start" /\ UNCHANGED <<taken, pendingRead, completed>>
    BY <1>1 DEF ReaderStarts, callVars
  <2>2. \/ Finish(Failure("failed")) \/ Finish(Failure("cancelled"))
        \/ UNCHANGED <<message, result>> /\ reader' = "frame"
    BY <1>1 DEF ReaderStarts
  <2> QED
    BY <2>1, <2>2, <1>f, <1>r, OthersKeep
<1>2. CASE ReadBegins
  BY <1>2, OthersKeep DEF ReadBegins, callVars
<1>3. CASE ReadFails \/ ReadRefuses
  <2>1. reader \in {"frame", "rest"} /\ FrameError /\ UNCHANGED <<taken, pendingRead, completed>>
    BY <1>3 DEF ReadFails, ReadRefuses, callVars
  <2>2. Finish(Failure("cancelled")) \/ Marks(Failure("failed"))
    BY <2>1 DEF FrameError
  <2> QED
    BY <2>1, <2>2, <1>f, <1>r
<1>4. CASE ReaderHangsUp
  BY <1>4, OthersKeep DEF ReaderHangsUp, callVars
<1>5. CASE ReadPing \/ ReadPong
  BY <1>5, OthersKeep DEF ReadPing, ReadPong, FrameRead, callVars
<1>6. CASE ReadClose
  <2> DEFINE r == [kind |-> "peer_closed", message |-> << >>, code |-> wire.frame.code]
  <2>1. FrameRead /\ Marks(r) /\ UNCHANGED <<taken, pendingRead, completed>>
    BY <1>6 DEF ReadClose, callVars
  <2>2. wire.frame.code \in Codes /\ reader = "rest"
    BY <2>1, <1>t, FrameReadTyped, WireTyped DEF FrameRead
  <2>3. << >> \in Seq(Numbered)
    OBVIOUS
  <2>4. r \in Result /\ r.message = << >>
    BY <2>2, <2>3 DEF Result, Kinds
  <2> HIDE DEF r
  <2> QED
    BY <2>1, <2>2, <2>4, <1>r
<1>7. CASE ReadData \/ ReadContinuation
  <2>1. FrameRead /\ reader = "rest" /\ UNCHANGED <<taken, pendingRead>>
    BY <1>7 DEF ReadData, ReadContinuation, FrameRead, callVars
  <2>2. wire \in Numbered
    BY <2>1, <1>t, FrameReadTyped, WireTyped
  <2>3. CASE Finish(Failure("failed")) /\ UNCHANGED completed
    BY <2>1, <2>3, <1>f, <1>r
  <2>4. CASE reader' = "frame" /\ UNCHANGED <<result, completed>>
    BY <2>1, <2>4, OthersKeep
  <2>5. ASSUME NEW op \in {"text", "binary"}, NEW m \in Seq(Numbered), m # << >>, Complete(op, m)
        PROVE  KeptInv'
    <3> DEFINE r == [kind |-> op, message |-> m, code |-> "none"]
    <3>1. r \in Result /\ r.message = m
      BY DEF Result, Kinds, Codes
    <3>2. Finish(r) /\ completed' = Append(completed, m)
      BY <2>5 DEF Complete
    <3> HIDE DEF r
    <3> QED
      BY <3>1, <3>2, <2>1, <2>5, FinishKeeps
  <2>6. CASE ReadData /\ Complete(wire.frame.op, <<wire>>)
    <3>1. <<wire>> \in Seq(Numbered) /\ <<wire>> # << >> /\ wire.frame.op \in {"text", "binary"}
      BY <2>2, <2>6 DEF ReadData
    <3> QED
      BY <3>1, <2>5, <2>6
  <2>7. CASE ReadContinuation /\ Collecting /\ ~ TooLong /\ Complete(message[1].frame.op, Joined)
    <3>1. /\ Joined \in Seq(Numbered) /\ Joined # << >> /\ message[1].frame.op \in {"text", "binary"}
      <4>1. wire.frame.op = "cont" /\ wire # NoFrame
        BY <2>1, <2>7, FrameReadTyped DEF ReadContinuation
      <4>2. /\ Joined \in Seq(Numbered) /\ Joined # << >> /\ Joined[1] = message[1]
            /\ Joined[1].frame.op \in {"text", "binary"}
        BY <4>1, <2>7, JoinedBegun
      <4> QED
        BY <4>2
    <3> QED
      BY <3>1, <2>5, <2>7
  <2> QED
    BY <1>7, <2>3, <2>4, <2>6, <2>7 DEF ReadData, ReadContinuation
<1>8. CASE ReadReserved
  <2>1. Finish(Failure("failed")) /\ reader = "rest" /\ UNCHANGED <<taken, pendingRead, completed>>
    BY <1>8 DEF ReadReserved, FrameRead, callVars
  <2> QED
    BY <2>1, <1>f, <1>r
<1>9. CASE PongBegins \/ PongEnds
  <2>1. reader \in {"pong", "ponging"} /\ UNCHANGED <<taken, pendingRead, completed>>
    BY <1>9 DEF PongBegins, PongEnds, callVars
  <2>2. \/ Finish(Failure("failed"))
        \/ UNCHANGED <<message, result>> /\ reader' \in {"ponging", "frame"}
    BY <1>9 DEF PongBegins, PongEnds
  <2> QED
    BY <2>1, <2>2, <1>f, <1>r, OthersKeep
<1>10. CASE ReaderDelivers
  <2>1. /\ pendingRead = Empty /\ pendingRead' = result /\ result' = Nil
        /\ UNCHANGED <<completed, taken>>
    BY <1>10 DEF ReaderDelivers, DeliverReady
  <2>2. Kept(completed', taken', pendingRead', result')
    BY <2>1, NoResults DEF KeptInv, Kept
  <2> QED
    BY <2>1, <2>2 DEF KeptInv
<1> QED
  BY <1>1, <1>2, <1>3, <1>4, <1>5, <1>6, <1>7, <1>8, <1>9, <1>10 DEF ReaderStep

LEMMA KeptStep == TypeInv /\ KeptInv /\ [Next]_vars => KeptInv'
<1> SUFFICES ASSUME TypeInv, KeptInv, [Next]_vars PROVE KeptInv'
  OBVIOUS
<1>1. CASE World
  BY <1>1, OthersKeep DEF World, PeerSends, PeerLeaves, Cancel, SenderSends, SenderReturns,
     readVars, callVars
<1>2. CASE SendBegins \/ CloseBegins
  BY <1>2, OthersKeep DEF SendBegins, CloseBegins, readVars
<1>3. ASSUME NEW kind, ReceiveBegins(kind) PROVE KeptInv'
  <2>1. UNCHANGED <<completed, taken, result>>
    BY <1>3 DEF ReceiveBegins
  <2>2. CASE UNCHANGED <<pendingRead, reader>>
    BY <2>1, <2>2, OthersKeep
  <2>3. CASE pendingRead = Nil /\ pendingRead' = Empty /\ reader' = "start"
    <3>1. reader = "none"
      BY <2>3, NoResults DEF TypeInv, TypeOK
    <3>2. Kept(completed', taken', pendingRead', result')
      BY <2>1, <2>3, NoResults DEF KeptInv, Kept
    <3> QED
      BY <2>1, <3>1, <3>2 DEF KeptInv
  <2> QED
    BY <1>3, <2>2, <2>3 DEF ReceiveBegins
<1>4. ASSUME NEW type, CallStep(type) PROVE KeptInv'
  <2>1. CASE TimerFires \/ SendReturns \/ CloseMarks \/ CloseReturns
    BY <2>1, OthersKeep
    DEF TimerFires, TimedOut, SendReturns, CloseMarks, CloseReturns, readVars
  <2>2. CASE ReceiveReturns(type)
    <3>1. /\ pendingRead \notin {Nil, Empty} /\ pendingRead' = Nil
          /\ taken' = IF pendingRead.message = << >> THEN taken
                                                     ELSE Append(taken, pendingRead.message)
          /\ UNCHANGED <<completed, reader, result>>
      BY <2>2 DEF ReceiveReturns, readVars
    <3>2. reader = "none" /\ result = Nil
      BY <3>1 DEF TypeInv, TypeOK, KeptInv
    <3>3. Kept(completed', taken', pendingRead', result')
      BY <3>1, <3>2, NoResults DEF KeptInv, Kept
    <3> QED
      BY <3>1, <3>2, <3>3 DEF KeptInv
  <2> QED
    BY <1>4, <2>1, <2>2 DEF CallStep
<1>5. ASSUME NEW p, WriterStep(p) PROVE KeptInv'
  BY <1>5, OthersKeep DEF WriterStep, Acquire, WriteHead, WriteRest, WriteFails, readVars, callVars
<1>6. CASE UNCHANGED vars
  BY <1>6, OthersKeep DEF vars, readVars, callVars
<1> QED
  BY <1>1, <1>2, <1>3, <1>4, <1>5, <1>6, ReaderKeeps DEF Next

\* A receive that times out leaves the reader and its channel to the next one:
\* the whole messages are, in order and once each, those that receives have
\* returned and those in the channel or with the reader, whatever the order of
\* timeouts, errors and frames.
THEOREM TimeoutsKeep == Spec => []TimeoutKeeps
<1> DEFINE Inv == TypeInv /\ KeptInv
<1>1. Init => KeptInv
  BY NoResults DEF Init, KeptInv, Kept
<1>2. Inv => TimeoutKeeps
  <2> SUFFICES ASSUME TypeInv, KeptInv PROVE TimeoutKeeps
    OBVIOUS
  <2> DEFINE kept(r) == IF r.message = << >> THEN << >> ELSE <<r.message>>
  <2>1. taken \in Seq(Seq(Numbered)) /\ pendingRead.message \in Seq(Numbered)
        /\ result.message \in Seq(Numbered)
    BY DEF TypeInv, TypeOK, Result
  <2>2. pendingRead.message = << >> \/ result.message = << >>
    <3>1. CASE reader = "none"
      BY <3>1, NoResults DEF KeptInv
    <3>2. CASE reader # "none"
      BY <3>2, NoResults DEF TypeInv, TypeOK
    <3> QED
      BY <3>1, <3>2
  <2>3. taken \o << >> = taken
    BY <2>1
  <2>4. taken \o <<pendingRead.message>> = Append(taken, pendingRead.message)
        /\ taken \o <<result.message>> = Append(taken, result.message)
    BY <2>1
  <2>5. ASSUME NEW m \in Seq(Numbered) PROVE Append(taken, m) \o << >> = Append(taken, m)
    BY <2>1
  <2>6. completed = taken \o kept(pendingRead) \o kept(result)
    BY <2>1, <2>2, <2>3, <2>4, <2>5 DEF KeptInv, Kept
  <2> QED
    BY <2>6 DEF TimeoutKeeps
<1>3. Inv /\ [Next]_vars => Inv'
  BY KeptStep, TypeStep
<1>4. Init => Inv
  BY <1>1, InitTyped
<1> QED
  BY <1>2, <1>3, <1>4, PTL DEF Spec
=============================================================================
