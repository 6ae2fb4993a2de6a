------------------------------ MODULE WebSocket ------------------------------
(***************************************************************************)
(* A connection of the WebSocket client, internal/kry/websocket.go, after  *)
(* the handshake.                                                          *)
(*                                                                         *)
(* One thread owns the handle, which cannot cross threads: it receives,    *)
(* sends and closes.  The Discord gateway lets other threads, the Senders, *)
(* send on it.  A receive leaves the reading to a goroutine, the reader,   *)
(* which lives until it has a whole message or an error: a receive that    *)
(* times out leaves the reader where it is and the next receive waits for  *)
(* the same one.  The reader answers pings, so it writes as well.          *)
(*                                                                         *)
(* A frame is written with two calls of conn.Write and read with several   *)
(* reads, so a deadline or a close can cut it.  The peer is free to send   *)
(* any sequence of frames.                                                 *)
(***************************************************************************)
EXTENDS Integers, Sequences

CONSTANTS
  Owner,       \* the thread that owns the handle
  Senders,     \* the threads that send through the gateway session
  Reader,      \* the reader goroutine
  Nobody,      \* no writer
  Max,         \* the limit of a message, r.Lim.MaxSourceBytes
  Frames,      \* the frames that the peer sends
  MaxFrames    \* a bound: frames that the peer sends in all

Ops   == {"text", "binary", "cont", "ping", "pong", "close", "reserved"}
Codes == {"none", "terminal", "expired", "other"}
Frame == [op : Ops, fin : BOOLEAN, size : Nat, code : Codes]

ASSUME PartiesAssumption ==
  /\ Owner # Reader /\ Owner \notin Senders /\ Reader \notin Senders
  /\ Nobody \notin Senders \cup {Owner, Reader}
ASSUME FramesAssumption == Frames \subseteq Frame
ASSUME BoundsAssumption == Max \in Nat /\ MaxFrames \in Nat

Writers == Senders \cup {Owner, Reader}

Control(f) == f.op \in {"ping", "pong", "close"}

\* A frame on the wire: the n-th data frame of the peer, or a control frame
\* after the n-th data frame.
Numbered == [n : 0 .. MaxFrames, frame : Frame]
NoFrame  == [n |-> -1]

\* How a call ends.  "refused": a whole message, but of the other type.
Kinds == {"nil", "empty", "text", "binary", "refused", "peer_closed", "failed",
          "cancelled", "closed_handle", "timed_out", "sent", "not_sent", "closed",
          "close_failed"}
Result == [kind : Kinds, message : Seq(Numbered), code : Codes]
Failure(kind) == [kind |-> kind, message |-> << >>, code |-> "none"]

Nil   == Failure("nil")     \* no result; pendingRead is nil
Empty == Failure("empty")   \* pendingRead is a channel with nothing in it

VARIABLES
  closed,       \* w.closed
  connOpen,     \* net.Conn has not been closed
  cancelled,    \* w.ctx is done
  wire,         \* the next frame on its way from the peer, or NoFrame
  arrived,      \* the number of frames the peer has sent
  data,         \* the number of data frames among them
  peerGone,     \* the peer has closed its end
  midFrame,     \* part of the frame in wire has been read
  reader,       \* where the reader is
  message,      \* the frames of the message the reader is collecting
  result,       \* what the reader is about to deliver
  pendingRead,  \* w.pendingRead: Nil, Empty, or the Result in the channel
  writer,       \* writer[p]: where p is in sendFrame
  writeMu,      \* who holds writeMu
  call,         \* the owner's call
  answer,       \* what the owner's last call returned
  completed,    \* history: the whole messages the reader has produced
  taken,        \* history: the messages that receives have returned
  closeCode     \* history: the code of the close frame that was read

readVars  == <<wire, arrived, data, peerGone, midFrame, reader, message, result,
               completed, closeCode>>
writeVars == <<writer, writeMu>>
connVars  == <<closed, connOpen, cancelled>>
callVars  == <<pendingRead, call, answer, taken>>
vars == <<readVars, writeVars, connVars, callVars>>

ReaderPlaces ==
  {"none", "start", "frame", "rest", "pong", "ponging", "hangup", "deliver"}
WriterPlaces == {"idle", "lock", "head", "rest", "ok", "failed"}
Calls == {"idle", "receive", "timed", "send", "closing", "close_frame"}

\* Every variable has the shape its declaration gives it, and a reader that
\* runs is the one whose channel the connection holds.
TypeOK ==
  /\ closed \in BOOLEAN /\ connOpen \in BOOLEAN /\ cancelled \in BOOLEAN
  /\ wire \in Numbered \cup {NoFrame}
  /\ arrived \in 0 .. MaxFrames /\ data \in 0 .. arrived
  /\ peerGone \in BOOLEAN /\ midFrame \in BOOLEAN
  /\ reader \in ReaderPlaces
  /\ message \in Seq(Numbered)
  /\ result \in Result
  /\ pendingRead \in Result
  /\ writer \in [Writers -> WriterPlaces]
  /\ writeMu \in Writers \cup {Nobody}
  /\ call \in Calls
  /\ answer \in Result
  /\ completed \in Seq(Seq(Numbered)) /\ taken \in Seq(Seq(Numbered))
  /\ closeCode \in Codes
  /\ reader # "none" => pendingRead = Empty

\* connectWebSocket has returned a handle.
Init ==
  /\ closed = FALSE /\ connOpen = TRUE /\ cancelled = FALSE
  /\ wire = NoFrame /\ arrived = 0 /\ data = 0 /\ peerGone = FALSE
  /\ midFrame = FALSE /\ reader = "none" /\ message = << >> /\ result = Nil
  /\ pendingRead = Nil
  /\ writer = [p \in Writers |-> "idle"]
  /\ writeMu = Nobody
  /\ call = "idle" /\ answer = Nil
  /\ completed = << >> /\ taken = << >> /\ closeCode = "none"

---------------------------------------------------------------------------
(***************************************************************************)
(* The world outside                                                       *)
(***************************************************************************)

PeerSends(f) ==
  /\ wire = NoFrame /\ ~ peerGone
  /\ arrived < MaxFrames
  /\ arrived' = arrived + 1
  /\ data' = IF Control(f) THEN data ELSE data + 1
  /\ wire' = [n |-> data', frame |-> f]
  /\ UNCHANGED <<peerGone, midFrame, reader, message, result, completed, closeCode,
                 writeVars, connVars, callVars>>

PeerLeaves ==
  /\ ~ peerGone
  /\ peerGone' = TRUE
  /\ UNCHANGED <<wire, arrived, data, midFrame, reader, message, result, completed, closeCode,
                 writeVars, connVars, callVars>>

\* The wall clock, or the end of the invocation, cancels the context.
Cancel ==
  /\ ~ cancelled
  /\ cancelled' = TRUE
  /\ UNCHANGED <<closed, connOpen, readVars, writeVars, callVars>>

---------------------------------------------------------------------------
(***************************************************************************)
(* sendFrame, by whoever writes                                            *)
(***************************************************************************)

\* sendText, sendBinary and sendPong have seen that the handle is open.
EnterSendFrame(p) ==
  /\ writer[p] = "idle"
  /\ writer' = [writer EXCEPT ![p] = "lock"]
  /\ UNCHANGED writeMu

\* A mutant of Acquire: the frame is written without writeMu.
AcquireUnlocked(p) ==
  /\ writer[p] = "lock"
  /\ writer' = [writer EXCEPT ![p] = IF cancelled THEN "failed" ELSE "head"]
  /\ UNCHANGED <<writeMu, readVars, connVars, callVars>>

\* writeMu is taken; a context that is done ends the call.
Acquire(p) ==
  /\ writer[p] = "lock"
  /\ writeMu = Nobody
  /\ IF cancelled
     THEN writer' = [writer EXCEPT ![p] = "failed"] /\ UNCHANGED writeMu
     ELSE writer' = [writer EXCEPT ![p] = "head"] /\ writeMu' = p
  /\ UNCHANGED <<readVars, connVars, callVars>>

\* The two writes of a frame.
WriteHead(p) ==
  /\ writer[p] = "head" /\ connOpen
  /\ writer' = [writer EXCEPT ![p] = "rest"]
  /\ UNCHANGED <<writeMu, readVars, connVars, callVars>>

WriteRest(p) ==
  /\ writer[p] = "rest" /\ connOpen
  /\ writer' = [writer EXCEPT ![p] = "ok"]
  /\ writeMu' = Nobody
  /\ UNCHANGED <<readVars, connVars, callVars>>

\* The peer does not read until the write deadline, the context is done, or
\* the connection is closed.  The deferred functions release everything and
\* leave the connection as it is: the peer keeps waiting for the rest.
WriteFails(p) ==
  /\ writer[p] \in {"head", "rest"}
  /\ writer' = [writer EXCEPT ![p] = "failed"]
  /\ writeMu' = Nobody
  /\ UNCHANGED <<readVars, connVars, callVars>>

\* The caller has the outcome of its sendFrame.
LeaveSendFrame(p) ==
  /\ writer[p] \in {"ok", "failed"}
  /\ writer' = [writer EXCEPT ![p] = "idle"]
  /\ UNCHANGED writeMu

\* sendText on another thread.
SenderSends(p) ==
  /\ ~ closed
  /\ EnterSendFrame(p)
  /\ UNCHANGED <<readVars, connVars, callVars>>

SenderReturns(p) ==
  /\ LeaveSendFrame(p)
  /\ UNCHANGED <<readVars, connVars, callVars>>

---------------------------------------------------------------------------
(***************************************************************************)
(* The reader goroutine                                                    *)
(***************************************************************************)

\* The message is abandoned or finished; r goes to the channel.
Finish(r) ==
  /\ reader' = "deliver"
  /\ message' = << >>
  /\ result' = r

\* The handle is marked closed; ReaderHangsUp closes the connection, and then
\* r goes to the channel.
Marks(r) ==
  /\ closed' = TRUE
  /\ reader' = "hangup"
  /\ message' = << >>
  /\ result' = r

ReaderHangsUp ==
  /\ reader = "hangup"
  /\ connOpen' = FALSE
  /\ reader' = "deliver"
  /\ UNCHANGED <<wire, arrived, data, peerGone, midFrame, message, result, completed,
                 closeCode, closed, cancelled, writeVars, callVars>>

\* A read failed or the frame is not acceptable: with the context done the
\* connection is left alone, otherwise it is closed.
FrameError ==
  IF cancelled
  THEN Finish(Failure("cancelled")) /\ UNCHANGED closed
  ELSE Marks(Failure("failed"))

\* A mutant of ReaderStarts: the context is not looked at.
ReaderStartsBlind ==
  /\ reader = "start"
  /\ IF closed THEN Finish(Failure("failed"))
     ELSE reader' = "frame" /\ UNCHANGED <<message, result>>
  /\ UNCHANGED <<wire, arrived, data, peerGone, midFrame, completed, closeCode,
                 writeVars, connVars, callVars>>

\* The tests at the head of receiveMessageRaw.
ReaderStarts ==
  /\ reader = "start"
  /\ \/ closed /\ Finish(Failure("failed"))
     \/ ~ closed /\ cancelled /\ Finish(Failure("cancelled"))
     \/ /\ ~ closed /\ ~ cancelled
        /\ reader' = "frame"
        /\ UNCHANGED <<message, result>>
  /\ UNCHANGED <<wire, arrived, data, peerGone, midFrame, completed, closeCode,
                 writeVars, connVars, callVars>>

\* The first bytes of a frame; the buffer may hold them although the
\* connection has been closed or the read deadline has passed.
ReadBegins ==
  /\ reader = "frame"
  /\ wire # NoFrame
  /\ reader' = "rest"
  /\ midFrame' = TRUE
  /\ UNCHANGED <<wire, arrived, data, peerGone, message, result, completed, closeCode,
                 writeVars, connVars, callVars>>

\* A mutant of ReadBroken: the context does not set the read deadline.
ReadBrokenUncancelled == ~ connOpen \/ peerGone

\* What makes a read return with an error.
ReadBroken == ~ connOpen \/ cancelled \/ peerGone

ReadFails ==
  /\ reader \in {"frame", "rest"}
  /\ ReadBroken
  /\ FrameError
  /\ UNCHANGED <<wire, arrived, data, peerGone, midFrame, completed, closeCode,
                 connOpen, cancelled, writeVars, callVars>>

\* receiveFrame refuses it before it reads the payload.
Unacceptable(f) == f.size > Max \/ (Control(f) /\ ~ f.fin)

ReadRefuses ==
  /\ reader = "rest"
  /\ Unacceptable(wire.frame)
  /\ FrameError
  /\ UNCHANGED <<wire, arrived, data, peerGone, midFrame, completed, closeCode,
                 connOpen, cancelled, writeVars, callVars>>

\* A whole frame has been read.
FrameRead ==
  /\ reader = "rest"
  /\ ~ Unacceptable(wire.frame)
  /\ wire' = NoFrame
  /\ midFrame' = FALSE
  /\ UNCHANGED <<arrived, data, peerGone>>

ReadPing ==
  /\ FrameRead
  /\ wire.frame.op = "ping"
  /\ reader' = "pong"
  /\ UNCHANGED <<message, result, completed, closeCode, writeVars, connVars, callVars>>

ReadPong ==
  /\ FrameRead
  /\ wire.frame.op = "pong"
  /\ reader' = "frame"
  /\ UNCHANGED <<message, result, completed, closeCode, writeVars, connVars, callVars>>

ReadClose ==
  /\ FrameRead
  /\ wire.frame.op = "close"
  /\ Marks([kind |-> "peer_closed", message |-> << >>, code |-> wire.frame.code])
  /\ closeCode' = wire.frame.code
  /\ UNCHANGED <<completed, connOpen, cancelled, writeVars, callVars>>

\* A whole message goes to the channel.
Complete(op, frames) ==
  /\ Finish([kind |-> op, message |-> frames, code |-> "none"])
  /\ completed' = Append(completed, frames)

Size(frames) ==
  LET upTo[i \in 0 .. Len(frames)] ==
        IF i = 0 THEN 0 ELSE upTo[i-1] + frames[i].frame.size
  IN upTo[Len(frames)]

\* The message the reader has begun; the frame that was read; both together.
Collecting == message # << >>
Joined == Append(message, wire)

\* A mutant of TooLong: each fragment is measured alone.
TooLongAlone == wire.frame.size > Max

TooLong == wire.frame.size > Max - Size(message)

\* A text or binary frame: a message of its own, or the first part of one.
ReadData ==
  /\ FrameRead
  /\ wire.frame.op \in {"text", "binary"}
  /\ \/ Collecting /\ Finish(Failure("failed")) /\ UNCHANGED completed
     \/ ~ Collecting /\ wire.frame.fin /\ Complete(wire.frame.op, <<wire>>)
     \/ /\ ~ Collecting /\ ~ wire.frame.fin
        /\ reader' = "frame"
        /\ message' = <<wire>>
        /\ UNCHANGED <<result, completed>>
  /\ UNCHANGED <<closeCode, writeVars, connVars, callVars>>

\* A continuation.  What is not acceptable ends the receive and not the
\* connection; the reader of the next receive has nothing collected.
ReadContinuation ==
  /\ FrameRead
  /\ wire.frame.op = "cont"
  /\ \/ ~ Collecting /\ Finish(Failure("failed")) /\ UNCHANGED completed
     \/ Collecting /\ TooLong /\ Finish(Failure("failed")) /\ UNCHANGED completed
     \/ /\ Collecting /\ ~ TooLong /\ wire.frame.fin
        /\ Complete(message[1].frame.op, Joined)
     \/ /\ Collecting /\ ~ TooLong /\ ~ wire.frame.fin
        /\ reader' = "frame"
        /\ message' = Joined
        /\ UNCHANGED <<result, completed>>
  /\ UNCHANGED <<closeCode, writeVars, connVars, callVars>>

\* An opcode without a meaning ends the receive, and what was collected is lost.
ReadReserved ==
  /\ FrameRead
  /\ wire.frame.op = "reserved"
  /\ Finish(Failure("failed"))
  /\ UNCHANGED <<completed, closeCode, writeVars, connVars, callVars>>

\* sendPong; the reader goes on when the frame is out.
PongBegins ==
  /\ reader = "pong"
  /\ IF closed
     THEN Finish(Failure("failed")) /\ UNCHANGED writeVars
     ELSE reader' = "ponging" /\ EnterSendFrame(Reader) /\ UNCHANGED <<message, result>>
  /\ UNCHANGED <<wire, arrived, data, peerGone, midFrame, completed, closeCode,
                 connVars, callVars>>

PongEnds ==
  /\ reader = "ponging"
  /\ IF writer[Reader] = "ok"
     THEN reader' = "frame" /\ UNCHANGED <<message, result>>
     ELSE Finish(Failure("failed"))
  /\ LeaveSendFrame(Reader)
  /\ UNCHANGED <<wire, arrived, data, peerGone, midFrame, completed, closeCode,
                 connVars, callVars>>

\* A mutant of DeliverReady: the channel has no buffer.
DeliverReadyUnbuffered == call \in {"receive", "timed"}

\* The channel has room for the one result.
DeliverReady == pendingRead = Empty

ReaderDelivers ==
  /\ reader = "deliver"
  /\ DeliverReady
  /\ pendingRead' = result
  /\ reader' = "none"
  /\ result' = Nil
  /\ UNCHANGED <<wire, arrived, data, peerGone, midFrame, message, completed, closeCode,
                 writeVars, connVars, call, answer, taken>>

---------------------------------------------------------------------------
(***************************************************************************)
(* The owner's calls                                                       *)
(***************************************************************************)

Answered(a) == call' = "idle" /\ answer' = a

\* receiveMessageTimeout: the first receive, or the first after a result was
\* taken, starts a reader.
ReceiveBegins(kind) ==
  /\ call = "idle"
  /\ \/ /\ closed
        /\ Answered(Failure("closed_handle"))
        /\ UNCHANGED <<pendingRead, reader>>
     \/ /\ ~ closed /\ pendingRead = Nil
        /\ call' = kind
        /\ pendingRead' = Empty /\ reader' = "start"
        /\ UNCHANGED answer
     \/ /\ ~ closed /\ pendingRead # Nil
        /\ call' = kind
        /\ UNCHANGED <<pendingRead, reader, answer>>
  /\ UNCHANGED <<wire, arrived, data, peerGone, midFrame, message, result, completed,
                 closeCode, taken, writeVars, connVars>>

\* receiveTextTimeout and receiveBinaryTimeout refuse the other type of
\* message after it has left the channel.
Wanted(r, type) ==
  IF r.kind \in {"text", "binary"} /\ r.kind # type THEN [r EXCEPT !.kind = "refused"] ELSE r

ReceiveReturns(type) ==
  /\ call \in {"receive", "timed"}
  /\ pendingRead \notin {Nil, Empty}
  /\ pendingRead' = Nil
  /\ Answered(Wanted(pendingRead, type))
  /\ taken' = IF pendingRead.message = << >> THEN taken
                                             ELSE Append(taken, pendingRead.message)
  /\ UNCHANGED <<readVars, writeVars, connVars>>

\* A mutant of TimedOut: the channel is forgotten.
TimedOutForgets == pendingRead' = Nil

\* A timeout leaves the reader and its channel to the next receive.
TimedOut == UNCHANGED pendingRead

TimerFires ==
  /\ call = "timed"
  /\ TimedOut
  /\ Answered(Failure("timed_out"))
  /\ UNCHANGED <<readVars, writeVars, connVars, taken>>

\* websocket_send: sendText or sendBinary.
SendBegins ==
  /\ call = "idle"
  /\ IF closed
     THEN Answered(Failure("not_sent")) /\ UNCHANGED writeVars
     ELSE call' = "send" /\ EnterSendFrame(Owner) /\ UNCHANGED answer
  /\ UNCHANGED <<readVars, connVars, pendingRead, taken>>

SendReturns ==
  /\ call = "send"
  /\ LeaveSendFrame(Owner)
  /\ Answered(Failure(IF writer[Owner] = "ok" THEN "sent" ELSE "not_sent"))
  /\ UNCHANGED <<readVars, connVars, pendingRead, taken>>

\* A mutant of CloseBegins: the handle is closed without asking first.
CloseBeginsUnasked ==
  /\ call = "idle"
  /\ call' = "closing"
  /\ UNCHANGED <<readVars, writeVars, connVars, pendingRead, taken, answer>>

\* websocket_close, and closeResources, first ask whether the handle is open.
CloseBegins ==
  /\ call = "idle"
  /\ IF closed THEN Answered(Failure("closed"))
               ELSE call' = "closing" /\ UNCHANGED answer
  /\ UNCHANGED <<readVars, writeVars, connVars, pendingRead, taken>>

\* close: marked before the close frame is written.  The reader may have
\* marked it since it was asked.
CloseMarks ==
  /\ call = "closing"
  /\ IF closed
     THEN /\ Answered(Failure("close_failed"))
          /\ UNCHANGED <<closed, writeVars>>
     ELSE /\ closed' = TRUE
          /\ call' = "close_frame"
          /\ EnterSendFrame(Owner)
          /\ UNCHANGED answer
  /\ UNCHANGED <<readVars, connOpen, cancelled, pendingRead, taken>>

\* A mutant of HangsUp: the connection is closed only after a good close frame.
HangsUpOnSuccess == connOpen' = (connOpen /\ writer[Owner] # "ok")

\* conn.Close, whatever became of the close frame.
HangsUp == connOpen' = FALSE

CloseReturns ==
  /\ call = "close_frame"
  /\ LeaveSendFrame(Owner)
  /\ HangsUp
  /\ Answered(Failure(IF writer[Owner] = "ok" THEN "closed" ELSE "close_failed"))
  /\ UNCHANGED <<readVars, closed, cancelled, pendingRead, taken>>

---------------------------------------------------------------------------

ReaderStep ==
  \/ ReaderStarts \/ ReadBegins \/ ReadFails \/ ReadRefuses \/ ReaderHangsUp
  \/ ReadPing \/ ReadPong \/ ReadClose \/ ReadData \/ ReadContinuation
  \/ ReadReserved \/ PongBegins \/ PongEnds \/ ReaderDelivers

WriterStep(p) == Acquire(p) \/ WriteHead(p) \/ WriteRest(p) \/ WriteFails(p)

\* The rest of a call of the owner that receives messages of one type.
CallStep(type) ==
  \/ ReceiveReturns(type) \/ TimerFires
  \/ SendReturns \/ CloseMarks \/ CloseReturns

World ==
  \/ \E f \in Frames : PeerSends(f)
  \/ PeerLeaves \/ Cancel
  \/ \E p \in Senders : SenderSends(p) \/ SenderReturns(p)

\* An owner that makes any call at any time.
Next ==
  \/ World
  \/ \E kind \in {"receive", "timed"} : ReceiveBegins(kind)
  \/ SendBegins \/ CloseBegins
  \/ \E type \in {"text", "binary"} : CallStep(type)
  \/ ReaderStep
  \/ \E p \in Writers : WriterStep(p)

Spec == Init /\ [][Next]_vars

(***************************************************************************)
(* Fairness.  The reader runs while it has something to do, a call that    *)
(* can return returns, and a frame that is being written ends, for its     *)
(* deadline bounds it; writeMu does not starve a writer.  Nothing is asked *)
(* of the peer.                                                            *)
(***************************************************************************)
LiveSpec ==
  /\ Spec
  /\ WF_vars(\E type \in {"text", "binary"} : CallStep(type))
  /\ WF_vars(ReaderStep)
  /\ \A p \in Writers : SF_vars(WriterStep(p))

---------------------------------------------------------------------------
(***************************************************************************)
(* Properties                                                              *)
(***************************************************************************)

\* A message is made of consecutive data frames of the peer: a text or binary
\* frame, continuations, fin on the last and on no other, within the limit.
\* Parts of two messages are never joined, although errors and timeouts come
\* between the receives.
MessagesWhole ==
  \A i \in DOMAIN completed :
    LET m == completed[i] IN
    /\ m[1].frame.op \in {"text", "binary"}
    /\ \A j \in DOMAIN m :
         /\ j > 1 => m[j].frame.op = "cont" /\ m[j].n = m[j-1].n + 1
         /\ m[j].frame.fin <=> j = Len(m)
    /\ Size(m) <= Max

\* A timeout loses nothing and repeats nothing: the whole messages are, in
\* order, those that receives have returned, then the one in the channel,
\* then the one that the reader is about to put there.
TimeoutKeeps ==
  LET kept(r) == IF r.message = << >> THEN << >> ELSE <<r.message>>
  IN completed = taken \o kept(pendingRead) \o kept(result)

\* A frame is read from its first byte: no reader starts in the middle of a
\* frame that an earlier one, stopped by the context, has left there.
ReadsAligned == reader = "frame" => ~ midFrame

\* Nothing is written between the two halves of a frame: not by a sender on
\* another thread, a pong of the reader or the close frame.
FramesWhole ==
  \A p, q \in Writers : writer[p] = "rest" /\ writer[q] \in {"head", "rest"} => p = q

\* A receive without a time limit ends when the peer goes away, the context is
\* done or the connection is closed, wherever the reader is at that moment.
ReceiveEnds ==
  call = "receive" /\ (cancelled \/ peerGone \/ ~ connOpen) ~> call # "receive"

\* A closed connection leaves no reader behind: it wakes up, and it can deliver
\* its result although nobody may receive any more.
ReaderEnds == ~ connOpen ~> reader = "none"
=============================================================================
