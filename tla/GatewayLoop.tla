----------------------------- MODULE GatewayLoop -----------------------------
(***************************************************************************)
(* One gateway session of the Discord package, run_gateway_session in      *)
(* packages/discord/gateway.kry, on a WebSocket connection: HELLO,         *)
(* Identify, then a loop that receives with a timeout, sends a heartbeat   *)
(* when the timeout comes, and decides what Bot.run does next when the     *)
(* connection ends.                                                        *)
(*                                                                         *)
(* What a text message says is the peer's choice.  What a handler of a     *)
(* dispatch sends through the session is one of the Senders' frames.       *)
(***************************************************************************)
EXTENDS WebSocket

VARIABLES
  phase,        \* where run_gateway_session is
  awaitingAck,  \* awaiting_ack
  session,      \* what Bot.run does next: "resume" the session, start a "new"
                \* one, or stop with an error ("stopped"); "open": undecided;
                \* "aborted": the interpreter has stopped the program
  known         \* history: closeCode when that was decided

loopVars == <<phase, awaitingAck, session, known>>
sessionVars == <<vars, loopVars>>

Phases == {"hello", "greeted", "identify", "loop", "received",
           "beating", "ending", "hanging_up", "ended", "failed"}
Outcomes == {"open", "resume", "new", "stopped", "aborted"}

\* Every variable has the shape its declaration gives it.
LoopTypeOK ==
  /\ TypeOK
  /\ phase \in Phases
  /\ awaitingAck \in BOOLEAN
  /\ session \in Outcomes
  /\ known \in Codes

LoopInit ==
  /\ Init
  /\ phase = "hello"
  /\ awaitingAck = FALSE
  /\ session = "open"
  /\ known = "none"

\* The session returns: Bot.run unbinds it and closes the socket.  Where the
\* session has closed it already that second close does nothing.
Ends(outcome) ==
  /\ phase' = "ending"
  /\ session' = outcome
  /\ known' = closeCode
  /\ UNCHANGED awaitingAck

Goes(p) == phase' = p /\ UNCHANGED <<awaitingAck, session, known>>

\* HELLO, within 30 seconds.
Hello ==
  /\ phase = "hello"
  /\ ReceiveBegins("timed")
  /\ Goes("greeted")

\* Only a good HELLO goes on to Identify.
Greeted ==
  /\ phase = "greeted" /\ call = "idle"
  /\ \/ answer.kind = "text" /\ SendBegins /\ Goes("identify")
     \/ Ends("stopped") /\ UNCHANGED vars

Identified ==
  /\ phase = "identify" /\ call = "idle"
  /\ IF answer.kind = "sent" THEN Goes("loop") ELSE Ends("stopped")
  /\ UNCHANGED vars

\* The loop waits for a message until the next heartbeat is due.
LoopReceives ==
  /\ phase = "loop"
  /\ ReceiveBegins("timed")
  /\ Goes("received")

\* gateway_close_transition.
CloseTransition(code) ==
  CASE code = "terminal" -> Ends("stopped")
    [] code = "expired" -> Ends("new")
    [] OTHER -> Ends("resume")

\* The receive failed; "none" is a code that gateway_close_code does not know.
LoopFails ==
  /\ phase = "received" /\ call = "idle"
  /\ answer.kind \notin {"text", "timed_out"}
  /\ IF answer.kind = "peer_closed" THEN CloseTransition(answer.code) ELSE Ends("resume")
  /\ UNCHANGED vars

\* A mutant of AckMissing: a missing acknowledgement is not noticed.
AckMissingNever == FALSE

\* The previous heartbeat has not been acknowledged.
AckMissing == awaitingAck

\* A heartbeat is due, on a timeout or at the peer's request.
HeartbeatDue ==
  IF AckMissing
  THEN Ends("resume") /\ UNCHANGED vars
  ELSE SendBegins /\ Goes("beating")

LoopTimesOut ==
  /\ phase = "received" /\ call = "idle"
  /\ answer.kind = "timed_out"
  /\ HeartbeatDue

\* A message: a dispatch, a heartbeat request, a reconnect, an invalid session
\* or an acknowledgement, or one that is not acceptable.
LoopHandles ==
  /\ phase = "received" /\ call = "idle"
  /\ answer.kind = "text"
  /\ \/ Goes("loop") /\ UNCHANGED vars
     \/ HeartbeatDue
     \/ \E outcome \in {"resume", "new", "stopped"} : Ends(outcome) /\ UNCHANGED vars
     \/ /\ phase' = "loop" /\ awaitingAck' = FALSE
        /\ UNCHANGED <<session, known, vars>>

HeartbeatSent ==
  /\ phase = "beating" /\ call = "idle"
  /\ IF answer.kind = "sent"
     THEN phase' = "loop" /\ awaitingAck' = TRUE /\ UNCHANGED <<session, known>>
     ELSE Ends("resume")
  /\ UNCHANGED vars

\* The interpreter stops between two calls when the context is done, also
\* before Bot.run closes the socket; closeResources closes it then.
Aborts ==
  /\ cancelled
  /\ phase \in {"hello", "greeted", "identify", "loop", "received", "beating", "ending"}
  /\ session # "aborted"
  /\ call = "idle"
  /\ Ends("aborted")
  /\ UNCHANGED vars

HangUp ==
  /\ phase = "ending"
  /\ CloseBegins
  /\ Goes("hanging_up")

\* A websocket_close that fails is a runtime diagnostic: the program fails, and
\* Bot.run does not come to what the session decided.  closeResources does not
\* look at what close answers.
CloseFailed == answer.kind = "close_failed" /\ session # "aborted"

HungUp ==
  /\ phase = "hanging_up" /\ call = "idle"
  /\ Goes(IF CloseFailed THEN "failed" ELSE "ended")
  /\ UNCHANGED vars

---------------------------------------------------------------------------

LoopStep ==
  \/ Hello \/ Greeted \/ Identified
  \/ LoopReceives \/ LoopFails \/ LoopTimesOut \/ LoopHandles \/ HeartbeatSent
  \/ HangUp \/ HungUp

ConnectionStep ==
  World \/ ReaderStep \/ CallStep("text") \/ \E p \in Writers : WriterStep(p)

LoopNext ==
  \/ LoopStep
  \/ Aborts
  \/ ConnectionStep /\ UNCHANGED loopVars

LoopSpec == LoopInit /\ [][LoopNext]_sessionVars

(***************************************************************************)
(* Fairness.  That of the connection; the loop runs and its timers fire.   *)
(***************************************************************************)
LoopLiveSpec ==
  /\ LoopSpec
  /\ WF_sessionVars(LoopStep)
  /\ WF_sessionVars(CallStep("text") /\ UNCHANGED loopVars)
  /\ WF_sessionVars(ReaderStep /\ UNCHANGED loopVars)
  /\ \A p \in Writers : SF_sessionVars(WriterStep(p) /\ UNCHANGED loopVars)

---------------------------------------------------------------------------
(***************************************************************************)
(* Properties                                                              *)
(***************************************************************************)

\* No session leaves an open connection behind, neither one that Bot.run goes
\* on from nor one whose websocket_close fails and ends the program: because
\* the close frame could not be written, or because the reader marked the
\* handle after isClosed was asked.  The connection is closed, or the reader is
\* about to close it.
HungUpForGood == phase \in {"ended", "failed"} => ~ connOpen \/ reader = "hangup"

\* What the session decided when the peer had closed the connection comes to
\* Bot.run: the close code triggers the recovery path or stops the bot, and
\* websocket_close does not fail the program instead.  The reader marks the
\* handle before it delivers the code, so there is nothing left to close.
CloseCodeDecides == known # "none" => phase # "failed"

\* A peer that falls silent is noticed: the heartbeats that it does not
\* acknowledge end the session, and Bot.run goes on or the program fails.
SilenceEnds == <>(phase \in {"ended", "failed"})

\* The documented decision: when the peer has closed the connection with a
\* code that is not reconnectable, Bot.run stops.
TerminalCodeStops ==
  phase = "ended" /\ known = "terminal" => session \notin {"resume", "new"}
=============================================================================
