-------------------------- MODULE GatewayLoopProofs --------------------------
(***************************************************************************)
(* Proofs about GatewayLoop, for any senders and any frames of the peer.   *)
(* The session loop is one of the owners that WebSocket allows, so what is *)
(* proved of a connection holds of the one the loop runs on.               *)
(***************************************************************************)
EXTENDS GatewayLoop, WebSocketProofs

---------------------------------------------------------------------------
(***************************************************************************)
(* The loop is an owner of a connection                                    *)
(***************************************************************************)

\* A step of the loop is a step of the connection or leaves it alone.
LEMMA LoopIsOwner == [LoopNext]_sessionVars => [Next]_vars
<1> SUFFICES ASSUME [LoopNext]_sessionVars PROVE Next \/ UNCHANGED vars
  OBVIOUS
<1>1. CASE UNCHANGED sessionVars
  BY <1>1 DEF sessionVars
<1>2. CASE ConnectionStep /\ UNCHANGED loopVars
  BY <1>2 DEF ConnectionStep, Next
<1>3. CASE Aborts
  BY <1>3 DEF Aborts
<1>4. CASE LoopStep
  <2>1. CASE Hello \/ LoopReceives
    BY <2>1 DEF Hello, LoopReceives, Next
  <2>2. CASE Greeted \/ LoopTimesOut \/ LoopHandles
    BY <2>2 DEF Greeted, LoopTimesOut, LoopHandles, HeartbeatDue, Next
  <2>3. CASE Identified \/ LoopFails \/ HeartbeatSent \/ HungUp
    BY <2>3 DEF Identified, LoopFails, HeartbeatSent, HungUp
  <2>4. CASE HangUp
    BY <2>4 DEF HangUp, Next
  <2> QED
    BY <1>4, <2>1, <2>2, <2>3, <2>4 DEF LoopStep
<1> QED
  BY <1>1, <1>2, <1>3, <1>4 DEF LoopNext

\* run_gateway_session uses its socket as any owner may: everything proved of
\* WebSocket holds of the gateway's connection.
THEOREM LoopImplementsOwner == LoopSpec => Spec
<1>1. LoopInit => Init
  BY DEF LoopInit
<1> QED
  BY <1>1, LoopIsOwner, PTL DEF LoopSpec, Spec

---------------------------------------------------------------------------
(***************************************************************************)
(* Types                                                                   *)
(***************************************************************************)

\* What LoopTypeOK says of the loop's own variables.
LoopVarsOK == phase \in Phases /\ awaitingAck \in BOOLEAN /\ session \in Outcomes /\ known \in Codes

LEMMA EndsTyped ==
  ASSUME LoopVarsOK, closeCode \in Codes,
         \E outcome \in Outcomes : Ends(outcome)
  PROVE  LoopVarsOK'
BY DEF LoopVarsOK, Ends, Phases, Outcomes

LEMMA GoesTyped == ASSUME LoopVarsOK, NEW p \in Phases, Goes(p) PROVE LoopVarsOK'
BY DEF LoopVarsOK, Goes

LEMMA LoopVarsStep == LoopVarsOK /\ closeCode \in Codes /\ [LoopNext]_sessionVars => LoopVarsOK'
<1> SUFFICES ASSUME LoopVarsOK, closeCode \in Codes, [LoopNext]_sessionVars PROVE LoopVarsOK'
  OBVIOUS
<1>0. {"greeted", "identify", "loop", "received", "beating", "hanging_up", "ended", "failed"}
        \subseteq Phases
  BY DEF Phases
<1>e. ASSUME NEW o \in {"resume", "new", "stopped", "aborted"}, Ends(o) PROVE LoopVarsOK'
  BY <1>e, EndsTyped DEF Outcomes
<1>g. ASSUME NEW p \in {"greeted", "identify", "loop", "received", "beating", "hanging_up",
                        "ended", "failed"},
             Goes(p)
      PROVE  LoopVarsOK'
  BY <1>g, <1>0, GoesTyped
<1>1. CASE UNCHANGED loopVars
  BY <1>1 DEF loopVars, LoopVarsOK
<1>2. CASE Aborts
  BY <1>2, <1>e DEF Aborts
<1>3. CASE Hello \/ Greeted \/ Identified \/ LoopReceives \/ HangUp \/ HungUp
  BY <1>3, <1>e, <1>g DEF Hello, Greeted, Identified, LoopReceives, HangUp, HungUp
<1>4. CASE LoopFails
  BY <1>4, <1>e DEF LoopFails, CloseTransition
<1>h. ASSUME HeartbeatDue PROVE LoopVarsOK'
  BY <1>h, <1>e, <1>g DEF HeartbeatDue
<1>5. CASE LoopTimesOut
  BY <1>5, <1>h DEF LoopTimesOut
<1>6. CASE LoopHandles
  <2>1. CASE phase' = "loop" /\ awaitingAck' = FALSE /\ UNCHANGED <<session, known>>
    BY <2>1 DEF LoopVarsOK, Phases
  <2> QED
    BY <1>6, <1>e, <1>g, <1>h, <2>1 DEF LoopHandles
<1>7. CASE HeartbeatSent
  <2>1. CASE phase' = "loop" /\ awaitingAck' = TRUE /\ UNCHANGED <<session, known>>
    BY <2>1 DEF LoopVarsOK, Phases
  <2> QED
    BY <1>7, <1>e, <2>1 DEF HeartbeatSent
<1> QED
  BY <1>1, <1>2, <1>3, <1>4, <1>5, <1>6, <1>7 DEF LoopNext, LoopStep, sessionVars

\* A session and the connection it runs on keep their shape.
THEOREM LoopTypeCorrect == LoopSpec => []LoopTypeOK
<1> DEFINE Inv == TypeInv /\ LoopVarsOK
<1>1. LoopInit => Inv
  BY InitTyped DEF LoopInit, LoopVarsOK, Phases, Outcomes, Codes
<1>2. Inv /\ [LoopNext]_sessionVars => Inv'
  <2>1. TypeInv => closeCode \in Codes
    BY DEF TypeInv, TypeOK
  <2> QED
    BY <2>1, LoopIsOwner, TypeStep, LoopVarsStep
<1>3. Inv => LoopTypeOK
  BY DEF TypeInv, LoopVarsOK, LoopTypeOK
<1> QED
  BY <1>1, <1>2, <1>3, PTL DEF LoopSpec

---------------------------------------------------------------------------
(***************************************************************************)
(* A session that has ended has hung up                                    *)
(***************************************************************************)

\* Whoever marks the handle closed is the one that hangs up: the reader, or the
\* owner in close, who marks it before the close frame.
MarkInv ==
  /\ closed => ~ connOpen \/ reader = "hangup" \/ call = "close_frame"
  /\ call = "close_frame" => closed

\* A session that hangs up finds the handle marked, or marks it itself before
\* its close returns.
HangInv ==
  /\ MarkInv
  /\ phase = "hanging_up" => call \in {"closing", "close_frame"} \/ (call = "idle" /\ closed)
  /\ phase \in {"ended", "failed"} => call = "idle" /\ closed

LEMMA MarkStep == MarkInv /\ [Next]_vars => MarkInv'
<1> SUFFICES ASSUME MarkInv, [Next]_vars PROVE MarkInv'
  OBVIOUS
<1>0. ASSUME UNCHANGED <<closed, connOpen, reader, call>> PROVE MarkInv'
  BY <1>0 DEF MarkInv
<1>1. CASE World
  BY <1>1, <1>0
  DEF World, PeerSends, PeerLeaves, Cancel, SenderSends, SenderReturns, readVars, connVars, callVars
<1>2. CASE SendBegins \/ CloseBegins
  BY <1>2 DEF MarkInv, SendBegins, CloseBegins, Answered, readVars, connVars
<1>3. ASSUME NEW kind \in {"receive", "timed"}, ReceiveBegins(kind) PROVE MarkInv'
  BY <1>3 DEF MarkInv, ReceiveBegins, Answered, connVars
<1>4. ASSUME NEW type, CallStep(type) PROVE MarkInv'
  <2>1. CASE ReceiveReturns(type) \/ TimerFires \/ SendReturns
    BY <2>1 DEF MarkInv, ReceiveReturns, TimerFires, SendReturns, Answered, readVars, connVars
  <2>2. CASE CloseMarks
    BY <2>2 DEF MarkInv, CloseMarks, Answered, readVars
  <2>3. CASE CloseReturns
    BY <2>3 DEF MarkInv, CloseReturns, HangsUp, Answered, readVars
  <2> QED
    BY <1>4, <2>1, <2>2, <2>3 DEF CallStep
<1>5. CASE ReaderStep
  <2>1. CASE ReaderStarts \/ ReadBegins \/ ReaderDelivers
    BY <2>1 DEF MarkInv, ReaderStarts, ReadBegins, ReaderDelivers, Finish, connVars, callVars
  <2>2. CASE ReadFails \/ ReadRefuses
    <3>1. FrameError /\ UNCHANGED <<connOpen, call>> /\ reader # "hangup"
      BY <2>2 DEF ReadFails, ReadRefuses, callVars
    <3> QED
      BY <3>1 DEF MarkInv, FrameError, Finish, Marks
  <2>3. CASE ReaderHangsUp
    BY <2>3 DEF MarkInv, ReaderHangsUp, callVars
  <2>4. CASE ReadClose
    BY <2>4 DEF MarkInv, ReadClose, Marks, callVars
  <2>5. CASE ReadPing \/ ReadPong \/ ReadReserved \/ ReadData \/ ReadContinuation
    <3>1. reader = "rest" /\ UNCHANGED <<closed, connOpen, call>>
      BY <2>5 DEF ReadPing, ReadPong, ReadReserved, ReadData, ReadContinuation, FrameRead,
                  connVars, callVars
    <3> QED
      BY <3>1 DEF MarkInv
  <2>6. CASE PongBegins \/ PongEnds
    <3>1. reader # "hangup" /\ UNCHANGED <<closed, connOpen, call>>
      BY <2>6 DEF PongBegins, PongEnds, connVars, callVars
    <3> QED
      BY <3>1 DEF MarkInv
  <2> QED
    BY <1>5, <2>1, <2>2, <2>3, <2>4, <2>5, <2>6 DEF ReaderStep
<1>6. ASSUME NEW p, WriterStep(p) PROVE MarkInv'
  BY <1>6, <1>0 DEF WriterStep, Acquire, WriteHead, WriteRest, WriteFails, readVars, connVars, callVars
<1>7. CASE UNCHANGED vars
  BY <1>7, <1>0 DEF vars, readVars, connVars, callVars
<1> QED
  BY <1>1, <1>2, <1>3, <1>4, <1>5, <1>6, <1>7 DEF Next

\* A handle that is closed stays closed, and only the rest of a call moves call.
LEMMA ConnectionKeeps ==
  ASSUME ConnectionStep
  PROVE  /\ closed => closed'
         /\ UNCHANGED call \/ CallStep("text")
<1>1. CASE World
  BY <1>1 DEF World, PeerSends, PeerLeaves, Cancel, SenderSends, SenderReturns, connVars, callVars
<1>2. CASE CallStep("text")
  BY <1>2 DEF CallStep, ReceiveReturns, TimerFires, SendReturns, CloseMarks, CloseReturns, connVars
<1>3. CASE \E p \in Writers : WriterStep(p)
  BY <1>3 DEF WriterStep, Acquire, WriteHead, WriteRest, WriteFails, connVars, callVars
<1>4. CASE ReaderStep
  BY <1>4 DEF ReaderStep, ReaderStarts, ReadBegins, ReadFails, ReadRefuses, FrameError, Marks,
     ReaderHangsUp, ReadPing, ReadPong, ReadClose, ReadData, ReadContinuation, ReadReserved,
     PongBegins, PongEnds, ReaderDelivers, connVars, callVars
<1> QED
  BY <1>1, <1>2, <1>3, <1>4 DEF ConnectionStep

LEMMA HangStep == HangInv /\ [LoopNext]_sessionVars => HangInv'
<1> SUFFICES ASSUME HangInv, [LoopNext]_sessionVars PROVE HangInv'
  OBVIOUS
<1>m. MarkInv'
  BY LoopIsOwner, MarkStep DEF HangInv
<1>0. ASSUME phase' \notin {"hanging_up", "ended", "failed"} PROVE HangInv'
  BY <1>0, <1>m DEF HangInv
<1>1. CASE UNCHANGED sessionVars
  BY <1>1, <1>m DEF HangInv, sessionVars, vars, connVars, callVars, loopVars
<1>2. CASE ConnectionStep /\ UNCHANGED loopVars
  <2>1. phase' = phase
    BY <1>2 DEF loopVars
  <2>2. CASE UNCHANGED call
    BY <1>2, <1>m, <2>1, <2>2, ConnectionKeeps DEF HangInv
  <2>3. CASE CallStep("text") /\ ~ UNCHANGED call
    <3>1. CASE phase = "hanging_up"
      <4>1. CloseMarks \/ CloseReturns
        BY <2>3, <3>1
        DEF HangInv, CallStep, ReceiveReturns, TimerFires, SendReturns
      <4>2. CASE CloseMarks
        BY <4>2, <2>1, <3>1, <1>m DEF HangInv, CloseMarks, Answered
      <4>3. CASE CloseReturns
        BY <4>3, <2>1, <3>1, <1>m DEF HangInv, MarkInv, CloseReturns, Answered
      <4> QED
        BY <4>1, <4>2, <4>3
    <3>2. CASE phase \in {"ended", "failed"}
      BY <2>3, <3>2
      DEF HangInv, CallStep, ReceiveReturns, TimerFires, SendReturns, CloseMarks, CloseReturns
    <3>3. CASE phase \notin {"hanging_up", "ended", "failed"}
      BY <2>1, <3>3, <1>0
    <3> QED
      BY <3>1, <3>2, <3>3
  <2> QED
    BY <1>2, <2>2, <2>3, ConnectionKeeps
<1>3. CASE Aborts
  BY <1>3, <1>0 DEF Aborts, Ends
<1>4. CASE LoopStep
  <2>1. CASE Hello \/ Greeted \/ Identified \/ LoopReceives
    BY <2>1, <1>0 DEF Hello, Greeted, Identified, LoopReceives, Goes, Ends
  <2>2. CASE LoopFails
    BY <2>2, <1>0 DEF LoopFails, CloseTransition, Ends
  <2>3. CASE LoopTimesOut \/ LoopHandles \/ HeartbeatSent
    BY <2>3, <1>0 DEF LoopTimesOut, LoopHandles, HeartbeatSent, HeartbeatDue, Ends, Goes
  <2>4. CASE HangUp
    BY <2>4, <1>m DEF HangUp, CloseBegins, Answered, Goes, HangInv, connVars
  <2>5. CASE HungUp
    BY <2>5, <1>m DEF HungUp, Goes, HangInv, vars, connVars, callVars
  <2> QED
    BY <1>4, <2>1, <2>2, <2>3, <2>4, <2>5 DEF LoopStep
<1> QED
  BY <1>1, <1>2, <1>3, <1>4 DEF LoopNext

\* When Bot.run goes on from a session, and when the program fails because
\* websocket_close does, the connection is closed, or the reader has marked the
\* handle and is about to close it, although the two race to mark it.
THEOREM SessionsHangUp == LoopSpec => []HungUpForGood
<1>1. LoopInit => HangInv
  BY DEF LoopInit, Init, HangInv, MarkInv
<1>2. HangInv => HungUpForGood
  BY DEF HangInv, MarkInv, HungUpForGood
<1> QED
  BY <1>1, <1>2, HangStep, PTL DEF LoopSpec

---------------------------------------------------------------------------
(***************************************************************************)
(* A close code decides                                                    *)
(***************************************************************************)

\* Whoever knows the code of the peer's close frame finds the handle marked, so
\* its websocket_close answers at once.
CodeInv ==
  /\ closeCode # "none" => closed
  /\ known # "none" => closed
  /\ known # "none" /\ phase = "hanging_up" => call = "idle" /\ answer.kind = "closed"
  /\ CloseCodeDecides

LEMMA CodeMarked ==
  ASSUME [Next]_vars, closeCode # "none" => closed
  PROVE  /\ closeCode' # "none" => closed'
         /\ closed => closed'
<1>1. CASE World
  BY <1>1 DEF World, PeerSends, PeerLeaves, Cancel, SenderSends, SenderReturns, readVars, connVars
<1>2. CASE SendBegins \/ CloseBegins
  BY <1>2 DEF SendBegins, CloseBegins, readVars, connVars
<1>3. ASSUME NEW kind \in {"receive", "timed"}, ReceiveBegins(kind)
      PROVE  UNCHANGED <<closeCode, closed>>
  BY <1>3 DEF ReceiveBegins, connVars
<1>4. ASSUME NEW type, CallStep(type) PROVE UNCHANGED closeCode /\ (closed => closed')
  BY <1>4 DEF CallStep, ReceiveReturns, TimerFires, SendReturns, CloseMarks, CloseReturns,
              readVars, connVars
<1>5. CASE ReadClose
  BY <1>5 DEF ReadClose, Marks
<1>6. CASE ReaderStep /\ ~ ReadClose
  BY <1>6 DEF ReaderStep, ReaderStarts, ReadBegins, ReadFails, ReadRefuses, FrameError, Marks,
     ReaderHangsUp, ReadPing, ReadPong, ReadData, ReadContinuation, ReadReserved,
     PongBegins, PongEnds, ReaderDelivers, connVars, callVars
<1>7. ASSUME NEW p, WriterStep(p) PROVE UNCHANGED <<closeCode, closed>>
  BY <1>7 DEF WriterStep, Acquire, WriteHead, WriteRest, WriteFails, readVars, connVars
<1>8. CASE UNCHANGED vars
  BY <1>8 DEF vars, readVars, connVars
<1> QED
  BY <1>1, <1>2, <1>3, <1>4, <1>5, <1>6, <1>7, <1>8 DEF Next

LEMMA CodeStep == CodeInv /\ [LoopNext]_sessionVars => CodeInv'
<1> SUFFICES ASSUME CodeInv, [LoopNext]_sessionVars PROVE CodeInv'
  OBVIOUS
<1>c. (closeCode' # "none" => closed') /\ (closed => closed')
  BY LoopIsOwner, CodeMarked DEF CodeInv
<1>e. ASSUME NEW o, Ends(o), UNCHANGED vars PROVE CodeInv'
  BY <1>c, <1>e DEF Ends, CodeInv, CloseCodeDecides, vars, readVars, connVars
<1>g. ASSUME NEW p, p \notin {"hanging_up", "failed"}, Goes(p) PROVE CodeInv'
  BY <1>c, <1>g DEF Goes, CodeInv, CloseCodeDecides
<1>l. ASSUME phase' = "loop", UNCHANGED known PROVE CodeInv'
  BY <1>c, <1>l DEF CodeInv, CloseCodeDecides
<1>1. CASE UNCHANGED sessionVars
  BY <1>1, <1>c DEF CodeInv, CloseCodeDecides, sessionVars, vars, callVars, loopVars
<1>2. CASE ConnectionStep /\ UNCHANGED loopVars
  <2>1. UNCHANGED <<phase, known>>
    BY <1>2 DEF loopVars
  <2>2. call = "idle" => UNCHANGED <<call, answer>>
    BY <1>2 DEF ConnectionStep, World, PeerSends, PeerLeaves, Cancel, SenderSends, SenderReturns,
       CallStep, ReceiveReturns, TimerFires, SendReturns, CloseMarks, CloseReturns,
       WriterStep, Acquire, WriteHead, WriteRest, WriteFails, ReaderStep, ReaderStarts,
       ReadBegins, ReadFails, ReadRefuses, ReaderHangsUp, ReadPing, ReadPong, ReadClose,
       ReadData, ReadContinuation, ReadReserved, PongBegins, PongEnds, ReaderDelivers, callVars
  <2> QED
    BY <1>c, <2>1, <2>2 DEF CodeInv, CloseCodeDecides
<1>3. CASE Aborts
  BY <1>3, <1>e DEF Aborts
<1>4. CASE LoopStep
  <2>1. CASE Hello \/ Greeted \/ Identified \/ LoopReceives
    BY <2>1, <1>e, <1>g DEF Hello, Greeted, Identified, LoopReceives
  <2>2. CASE LoopFails
    BY <2>2, <1>e DEF LoopFails, CloseTransition
  <2>3. ASSUME HeartbeatDue PROVE CodeInv'
    BY <2>3, <1>e, <1>g DEF HeartbeatDue
  <2>4. CASE LoopTimesOut \/ LoopHandles \/ HeartbeatSent
    BY <2>4, <2>3, <1>e, <1>g, <1>l DEF LoopTimesOut, LoopHandles, HeartbeatSent
  <2>5. CASE HangUp
    BY <2>5, <1>c DEF HangUp, CloseBegins, Answered, Failure, Goes, CodeInv, CloseCodeDecides
  <2>6. CASE HungUp
    BY <2>6, <1>c DEF HungUp, CloseFailed, Goes, CodeInv, CloseCodeDecides
  <2> QED
    BY <1>4, <2>1, <2>2, <2>4, <2>5, <2>6 DEF LoopStep
<1> QED
  BY <1>1, <1>2, <1>3, <1>4 DEF LoopNext

\* A close code that was read before the session ended is acted upon: the close
\* of Bot.run finds the handle marked and does not fail the program.
THEOREM CodesDecide == LoopSpec => []CloseCodeDecides
<1>1. LoopInit => CodeInv
  BY DEF LoopInit, Init, CodeInv, CloseCodeDecides
<1>2. CodeInv => CloseCodeDecides
  BY DEF CodeInv
<1> QED
  BY <1>1, <1>2, CodeStep, PTL DEF LoopSpec
=============================================================================
