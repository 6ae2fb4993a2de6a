----------------------------- MODULE ChannelProofs ----------------------------
(***************************************************************************)
(* Machine-checked proofs about Channel, for every set of processes, every *)
(* capacity, every menu of operations and every number of calls.           *)
(***************************************************************************)
EXTENDS Channel, SequenceTheorems, TLAPS

\* The strengthening of LateSendRejected that the steps preserve.  A process
\* that got past isClosed was called when the channel was open, because the
\* channel never opens again.
Passed ==
  \A p \in Procs :
    /\ pc[p] = "idle" <=> op[p] = "none"
    /\ pc[p] = "idle" => ~ late[p]
    /\ late[p] => closed
    /\ pc[p] = "select" /\ op[p] \in CheckedOps => ~ late[p]
    /\ pc[p] = "check" => op[p] \in CheckedOps

\* The values in the channel's history come from calls that have returned.
AcceptedReturned ==
  \A i \in 1 .. Len(accepted) : accepted[i][2] <= Len(answers[accepted[i][1]])

\* The capacity newChannel makes is at least one.
LEMMA CapacityPositive == Capacity \in Nat \ {0}
  BY RequestedAssumption DEF Capacity

\* Moving the head of a sequence to the end of the one before it.
LEMMA MoveHead ==
  ASSUME NEW S, NEW s \in Seq(S), NEW t \in Seq(S), t # << >>
  PROVE  s \o t = Append(s, Head(t)) \o Tail(t)
<1>1. Head(t) \in S /\ Tail(t) \in Seq(S) /\ Len(Tail(t)) = Len(t) - 1
  BY HeadTailProperties
<1>2. Append(s, Head(t)) = s \o <<Head(t)>> /\ <<Head(t)>> \in Seq(S)
  BY <1>1, AppendIsConcat
<1>3. t = <<Head(t)>> \o Tail(t)
  BY <1>1
<1>4. (s \o <<Head(t)>>) \o Tail(t) = s \o (<<Head(t)>> \o Tail(t))
  BY <1>1, <1>2, ConcatAssociative
<1> QED
  BY <1>2, <1>3, <1>4

\* What a channel operation's return does to the local state of its caller.
LEMMA ReturnType ==
  ASSUME TypeOK, NEW p \in Procs, NEW r \in Results, Return(p, r), op[p] \in Ops
  PROVE  /\ answers' \in [Procs -> Seq(Answers)]
         /\ pc' \in [Procs -> {"idle", "check", "select"}]
         /\ op' \in [Procs -> Ops \cup {"none"}]
         /\ late' \in [Procs -> BOOLEAN]
<1>1. Answer(op[p], late[p], r) \in Answers
  BY DEF TypeOK, Answers, Answer
<1>2. Append(answers[p], Answer(op[p], late[p], r)) \in Seq(Answers)
  BY <1>1 DEF TypeOK
<1> QED
  BY <1>1, <1>2 DEF TypeOK, Return

\* The variables keep their types and the buffer never outgrows its capacity.
THEOREM ChannelTypeCorrect == Spec => [](TypeOK /\ Passed)
<1>1. Init => TypeOK /\ Passed
  <2> SUFFICES ASSUME Init PROVE TypeOK /\ Passed
    OBVIOUS
  <2>1. TypeOK
    <3>1. << >> \in Seq(Messages) /\ Len(<< >>) = 0 /\ << >> \in Seq(Answers)
      OBVIOUS
    <3>2. Len(data) <= Capacity
      BY <3>1, CapacityPositive DEF Init
    <3> QED
      BY <3>1, <3>2 DEF Init, TypeOK
  <2>2. Passed
    BY DEF Init, Passed
  <2> QED
    BY <2>1, <2>2
<1>2. TypeOK /\ Passed /\ [Next]_vars => TypeOK' /\ Passed'
  <2> SUFFICES ASSUME TypeOK, Passed, [Next]_vars
               PROVE  TypeOK' /\ Passed'
    OBVIOUS
  <2> USE CapacityPositive
  <2>1. ASSUME NEW p \in Procs, NEW o \in Ops, Call(p, o)
        PROVE  TypeOK' /\ Passed'
    BY <2>1 DEF TypeOK, Passed, Call, MayCall, FirstStep, Ops, SendOps, ReceiveOps, CheckedOps
  <2>2. ASSUME NEW p \in Procs, NEW o \in Ops, BadArgument(p, o)
        PROVE  TypeOK' /\ Passed'
    <3>1. Answer(o, closed, "rejected") \in Answers
      BY DEF TypeOK, Answer, Answers, Results
    <3>2. Append(answers[p], Answer(o, closed, "rejected")) \in Seq(Answers)
      BY <3>1 DEF TypeOK
    <3> QED
      BY <2>2, <3>1, <3>2 DEF TypeOK, Passed, BadArgument
  <2>3. ASSUME NEW p \in Procs, CheckClosed(p)
        PROVE  TypeOK' /\ Passed'
    <3>1. op[p] \in CheckedOps /\ op[p] \in Ops
      BY <2>3 DEF CheckClosed, Passed, CheckedOps, Ops, SendOps
    <3>2. CASE closed /\ Return(p, "closed")
      <4>1. "closed" \in Results
        BY DEF Results
      <4> QED
        BY <2>3, <3>1, <3>2, <4>1, ReturnType DEF TypeOK, Passed, CheckClosed, Return
    <3>3. CASE ~ closed /\ pc' = [pc EXCEPT ![p] = "select"] /\ UNCHANGED <<op, late, answers>>
      BY <2>3, <3>1, <3>3 DEF TypeOK, Passed, CheckClosed, CheckedOps
    <3> QED
      BY <2>3, <3>2, <3>3 DEF CheckClosed
  <2>4. ASSUME NEW p \in Procs, Select(p)
        PROVE  TypeOK' /\ Passed'
    <3>1. pc[p] = "select" /\ op[p] \in Ops
      BY <2>4 DEF Select, SendCase, ReceiveCase, DoneCase, ContextCase, TimerCase,
                  DefaultCase, Passed, TypeOK
    <3>2. \E r \in Results : Return(p, r)
      BY <2>4 DEF Select, SendCase, ReceiveCase, DoneCase, ContextCase, TimerCase,
                  DefaultCase, Results
    <3>3. PICK r \in Results : Return(p, r)
      BY <3>2
    <3>4. /\ answers' \in [Procs -> Seq(Answers)]
          /\ pc' \in [Procs -> {"idle", "check", "select"}]
          /\ op' \in [Procs -> Ops \cup {"none"}]
          /\ late' \in [Procs -> BOOLEAN]
      BY <3>1, <3>3, ReturnType
    <3>5. closed' = closed /\ ctxDone' = ctxDone
      BY <2>4 DEF Select, SendCase, ReceiveCase, DoneCase, ContextCase, TimerCase, DefaultCase
    <3>6. Passed'
      BY <3>3, <3>5 DEF Passed, Return, TypeOK
    <3>7. Message(p) \in Messages
      BY DEF Message, Messages, TypeOK
    <3>8. /\ data' \in Seq(Messages) /\ Len(data') <= Capacity
          /\ accepted' \in Seq(Messages)
          /\ delivered' \in Seq(Messages)
      <4>1. CASE SendCase(p)
        BY <3>7, <4>1 DEF SendCase, TypeOK
      <4>2. CASE ReceiveCase(p)
        <5>1. Head(data) \in Messages /\ Tail(data) \in Seq(Messages)
              /\ Len(Tail(data)) = Len(data) - 1
          BY <4>2 DEF ReceiveCase, TypeOK
        <5> QED
          BY <4>2, <5>1 DEF ReceiveCase, TypeOK
      <4>3. CASE DoneCase(p) \/ ContextCase(p) \/ TimerCase(p) \/ DefaultCase(p)
        BY <4>3 DEF DoneCase, ContextCase, TimerCase, DefaultCase, TypeOK
      <4> QED
        BY <2>4, <4>1, <4>2, <4>3 DEF Select
    <3> QED
      BY <3>4, <3>5, <3>6, <3>8 DEF TypeOK
  <2>5. ASSUME NEW p \in Procs, Close(p)
        PROVE  TypeOK' /\ Passed'
    <3>1. Answer("close", closed, "ok") \in Answers
      BY DEF TypeOK, Answer, Answers, Results
    <3>2. Append(answers[p], Answer("close", closed, "ok")) \in Seq(Answers)
      BY <3>1 DEF TypeOK
    <3> QED
      BY <2>5, <3>1, <3>2 DEF TypeOK, Passed, Close
  <2>6. ASSUME NEW p \in Procs, Cancel(p)
        PROVE  TypeOK' /\ Passed'
    BY <2>6 DEF TypeOK, Passed, Cancel
  <2>7. CASE UNCHANGED vars
    BY <2>7 DEF TypeOK, Passed, vars
  <2> QED
    BY <2>1, <2>2, <2>3, <2>4, <2>5, <2>6, <2>7 DEF Next
<1> QED
  BY <1>1, <1>2, PTL DEF Spec

\* A send that tests Closed first and is called after the close fails,
\* however its isClosed, its select and the other processes interleave.
THEOREM LateSendsFail == Spec => []LateSendRejected
<1> DEFINE Inv == TypeOK /\ Passed
<1>1. Init => LateSendRejected
  BY DEF Init, LateSendRejected
<1>2. Inv /\ LateSendRejected /\ [Next]_vars => LateSendRejected'
  <2> SUFFICES ASSUME TypeOK, Passed, LateSendRejected, [Next]_vars
               PROVE  LateSendRejected'
    OBVIOUS
  \* A step that appends one acceptable answer to p's answers is fine.
  <2>1. ASSUME NEW p \in Procs, NEW a \in Answers,
               answers' = [answers EXCEPT ![p] = Append(@, a)],
               a.op \in CheckedOps /\ a.late => a.res # "ok"
        PROVE  LateSendRejected'
    <3> SUFFICES ASSUME NEW q \in Procs, NEW k \in 1 .. Len(answers'[q]),
                        answers'[q][k].op \in CheckedOps, answers'[q][k].late
                 PROVE  answers'[q][k].res # "ok"
      BY DEF LateSendRejected
    <3>1. CASE q # p
      BY <2>1, <3>1 DEF LateSendRejected, TypeOK
    <3>2. CASE q = p
      <4>1. answers'[q] = Append(answers[q], a) /\ answers[q] \in Seq(Answers)
        BY <2>1, <3>2 DEF TypeOK
      <4>2. CASE k = Len(answers[q]) + 1
        BY <2>1, <4>1, <4>2
      <4>3. CASE k \in 1 .. Len(answers[q])
        BY <4>1, <4>3 DEF LateSendRejected
      <4> QED
        BY <4>1, <4>2, <4>3
    <3> QED
      BY <3>1, <3>2
  <2>2. ASSUME NEW p \in Procs, NEW r \in Results, Return(p, r), op[p] \in Ops,
               op[p] \in CheckedOps /\ late[p] => r # "ok"
        PROVE  LateSendRejected'
    <3>1. Answer(op[p], late[p], r) \in Answers
      BY <2>2 DEF TypeOK, Answers, Answer
    <3>2. answers' = [answers EXCEPT ![p] = Append(@, Answer(op[p], late[p], r))]
      BY <2>2 DEF Return
    <3> QED
      BY <2>1, <2>2, <3>1, <3>2 DEF Answer
  <2>3. ASSUME NEW p \in Procs, NEW o \in Ops, Call(p, o)
        PROVE  LateSendRejected'
    BY <2>3 DEF Call, LateSendRejected
  <2>4. ASSUME NEW p \in Procs, NEW o \in Ops, BadArgument(p, o)
        PROVE  LateSendRejected'
    <3>1. Answer(o, closed, "rejected") \in Answers
      BY DEF TypeOK, Answer, Answers, Results
    <3> QED
      BY <2>1, <2>4, <3>1 DEF BadArgument, Answer
  <2>5. ASSUME NEW p \in Procs, CheckClosed(p)
        PROVE  LateSendRejected'
    <3>1. op[p] \in Ops
      BY <2>5 DEF CheckClosed, Passed, CheckedOps, Ops, SendOps
    <3>2. CASE Return(p, "closed")
      <4>1. "closed" \in Results
        BY DEF Results
      <4> QED
        BY <2>2, <3>1, <3>2, <4>1
    <3>3. CASE UNCHANGED answers
      BY <3>3 DEF LateSendRejected
    <3> QED
      BY <2>5, <3>2, <3>3 DEF CheckClosed
  <2>6. ASSUME NEW p \in Procs, Select(p)
        PROVE  LateSendRejected'
    <3>1. pc[p] = "select" /\ op[p] \in Ops
      BY <2>6 DEF Select, SendCase, ReceiveCase, DoneCase, ContextCase, TimerCase,
                  DefaultCase, Passed, TypeOK
    <3>2. op[p] \in CheckedOps => ~ late[p]
      BY <3>1 DEF Passed
    <3>3. PICK r \in Results : Return(p, r)
      BY <2>6 DEF Select, SendCase, ReceiveCase, DoneCase, ContextCase, TimerCase,
                  DefaultCase, Results
    <3> QED
      BY <2>2, <3>1, <3>2, <3>3
  <2>7. ASSUME NEW p \in Procs, Close(p)
        PROVE  LateSendRejected'
    <3>1. Answer("close", closed, "ok") \in Answers
      BY DEF TypeOK, Answer, Answers, Results
    <3> QED
      BY <2>1, <2>7, <3>1 DEF Close, Answer, CheckedOps
  <2>8. ASSUME NEW p \in Procs, Cancel(p)
        PROVE  LateSendRejected'
    BY <2>8 DEF Cancel, LateSendRejected
  <2>9. CASE UNCHANGED vars
    BY <2>9 DEF vars, LateSendRejected
  <2> QED
    BY <2>3, <2>4, <2>5, <2>6, <2>7, <2>8, <2>9 DEF Next
<1> QED
  BY <1>1, <1>2, ChannelTypeCorrect, PTL DEF Spec

\* The channel is first in, first out, and loses and duplicates nothing.
THEOREM ChannelIsFifo == Spec => []FirstInFirstOut
<1>1. Init => FirstInFirstOut
  <2> SUFFICES ASSUME Init PROVE << >> = << >> \o << >>
    BY DEF Init, FirstInFirstOut
  <2> QED
    OBVIOUS
<1>2. TypeOK /\ FirstInFirstOut /\ [Next]_vars => FirstInFirstOut'
  <2> SUFFICES ASSUME TypeOK, FirstInFirstOut, [Next]_vars
               PROVE  FirstInFirstOut'
    OBVIOUS
  <2>1. ASSUME NEW p \in Procs, SendCase(p)
        PROVE  FirstInFirstOut'
    <3>1. Message(p) \in Messages
      BY DEF Message, Messages, TypeOK
    <3>2. delivered \in Seq(Messages) /\ data \in Seq(Messages)
      BY DEF TypeOK
    <3>3. Append(delivered \o data, Message(p)) = delivered \o Append(data, Message(p))
      <4>1. delivered \o data \in Seq(Messages) /\ <<Message(p)>> \in Seq(Messages)
        BY <3>1, <3>2, ConcatProperties
      <4>2. Append(delivered \o data, Message(p)) = (delivered \o data) \o <<Message(p)>>
        BY <3>1, <4>1, AppendIsConcat
      <4>3. Append(data, Message(p)) = data \o <<Message(p)>>
        BY <3>1, <3>2, AppendIsConcat
      <4> QED
        BY <3>2, <4>1, <4>2, <4>3, ConcatAssociative
    <3> QED
      BY <2>1, <3>3 DEF SendCase, FirstInFirstOut
  <2>2. ASSUME NEW p \in Procs, ReceiveCase(p)
        PROVE  FirstInFirstOut'
    <3>1. data # << >> /\ data \in Seq(Messages) /\ delivered \in Seq(Messages)
      BY <2>2 DEF ReceiveCase, TypeOK
    <3>2. delivered \o data = Append(delivered, Head(data)) \o Tail(data)
      BY <3>1, MoveHead
    <3> QED
      BY <2>2, <3>2 DEF ReceiveCase, FirstInFirstOut
  <2>3. CASE UNCHANGED <<data, accepted, delivered>>
    BY <2>3 DEF FirstInFirstOut
  <2> QED
    BY <2>1, <2>2, <2>3 DEF Next, vars, Select, Call, BadArgument, CheckClosed, DoneCase,
       ContextCase, TimerCase, DefaultCase, Close, Cancel
<1> QED
  BY <1>1, <1>2, ChannelTypeCorrect, PTL DEF Spec

\* A sender is told "ok" exactly when its value went into the channel.  The
\* induction needs AcceptedReturned: the value of a call still in progress is
\* not in the channel yet.
THEOREM AnswersAreTrue == Spec => []AnswerTellsTruth
<1> DEFINE In(m) == \E i \in 1 .. Len(accepted) : accepted[i] = m
           Inv == AcceptedReturned /\ AnswerTellsTruth
<1>1. Init => Inv
  BY DEF Init, AcceptedReturned, AnswerTellsTruth
<1>2. TypeOK /\ Passed /\ Inv /\ [Next]_vars => Inv'
  <2> SUFFICES ASSUME TypeOK, Passed, AcceptedReturned, AnswerTellsTruth, [Next]_vars
               PROVE  AcceptedReturned' /\ AnswerTellsTruth'
    OBVIOUS
  <2>0. /\ \A q \in Procs : answers[q] \in Seq(Answers) /\ Len(answers[q]) \in Nat
        /\ accepted \in Seq(Messages) /\ Len(accepted) \in Nat
        /\ \A i \in 1 .. Len(accepted) : accepted[i] \in Messages
    BY DEF TypeOK
  <2>0a. ASSUME NEW q \in Procs, NEW k \in Nat, k > Len(answers[q])
         PROVE  ~ In(<<q, k>>)
    <3> SUFFICES ASSUME NEW i \in 1 .. Len(accepted), accepted[i] = <<q, k>>
                 PROVE  FALSE
      OBVIOUS
    <3>1. accepted[i][1] = q /\ accepted[i][2] = k
      OBVIOUS
    <3> QED
      BY <2>0, <2>0a, <3>1 DEF AcceptedReturned
  \* One more answer for p, which does not claim that a value was sent.
  <2>1. ASSUME NEW p \in Procs, NEW a \in Answers,
               answers' = [answers EXCEPT ![p] = Append(@, a)], accepted' = accepted,
               a.op \in SendOps => a.res # "ok"
        PROVE  AcceptedReturned' /\ AnswerTellsTruth'
    <3>1. \A q \in Procs : Len(answers'[q]) = IF q = p THEN Len(answers[q]) + 1
                                                        ELSE Len(answers[q])
      BY <2>0, <2>1 DEF TypeOK
    <3>2. \A q \in Procs : \A k \in 1 .. Len(answers[q]) : answers'[q][k] = answers[q][k]
      BY <2>0, <2>1 DEF TypeOK
    <3>3. answers'[p][Len(answers[p]) + 1] = a
      BY <2>0, <2>1 DEF TypeOK
    <3>4. AcceptedReturned'
      <4> SUFFICES ASSUME NEW i \in 1 .. Len(accepted)
                   PROVE  accepted[i][2] <= Len(answers'[accepted[i][1]])
        BY <2>1 DEF AcceptedReturned
      <4>1. accepted[i][1] \in Procs /\ accepted[i][2] \in Nat
        BY <2>0 DEF Messages
      <4> QED
        BY <2>0, <3>1, <4>1 DEF AcceptedReturned
    <3>5. AnswerTellsTruth'
      <4> SUFFICES ASSUME NEW q \in Procs, NEW k \in 1 .. Len(answers'[q]),
                          answers'[q][k].op \in SendOps
                   PROVE  answers'[q][k].res = "ok" <=> In(<<q, k>>)
        BY <2>1 DEF AnswerTellsTruth
      <4>1. CASE k \in 1 .. Len(answers[q])
        BY <3>2, <4>1 DEF AnswerTellsTruth
      <4>2. CASE q = p /\ k = Len(answers[p]) + 1
        <5>0. k \in Nat /\ k > Len(answers[q])
          BY <2>0, <4>2
        <5>1. ~ In(<<q, k>>)
          BY <2>0a, <5>0
        <5> QED
          BY <2>1, <3>3, <4>2, <5>1
      <4>3. k \in 1 .. Len(answers[q]) \/ (q = p /\ k = Len(answers[p]) + 1)
        BY <2>0, <3>1
      <4> QED
        BY <4>1, <4>2, <4>3
    <3> QED
      BY <3>4, <3>5
  <2>2. ASSUME NEW p \in Procs, SendCase(p)
        PROVE  AcceptedReturned' /\ AnswerTellsTruth'
    <3> DEFINE n == Len(answers[p]) + 1
               a == Answer(op[p], late[p], "ok")
    <3>0. n \in Nat /\ <<p, n>> \in Messages
      BY <2>0 DEF Messages
    <3>1. \A q \in Procs : Len(answers'[q]) = IF q = p THEN n ELSE Len(answers[q])
      BY <2>0, <2>2 DEF TypeOK, SendCase, Return
    <3>2. \A q \in Procs : \A k \in 1 .. Len(answers[q]) : answers'[q][k] = answers[q][k]
      BY <2>0, <2>2 DEF TypeOK, SendCase, Return
    <3>3. answers'[p][n].res = "ok"
      BY <2>0, <2>2 DEF TypeOK, SendCase, Return, Answer
    <3>4. /\ Len(accepted') = Len(accepted) + 1
          /\ \A i \in 1 .. Len(accepted) : accepted'[i] = accepted[i]
          /\ accepted'[Len(accepted) + 1] = <<p, n>>
      BY <2>0, <2>2, <3>0 DEF SendCase, Message
    <3>5. AcceptedReturned'
      <4> SUFFICES ASSUME NEW i \in 1 .. Len(accepted')
                   PROVE  accepted'[i][2] <= Len(answers'[accepted'[i][1]])
        BY DEF AcceptedReturned
      <4>1. CASE i = Len(accepted) + 1
        BY <3>0, <3>1, <3>4, <4>1
      <4>2. CASE i \in 1 .. Len(accepted)
        <5>1. accepted[i][1] \in Procs /\ accepted[i][2] \in Nat
          BY <2>0, <4>2 DEF Messages
        <5>2. accepted[i][2] <= Len(answers[accepted[i][1]])
          BY <4>2 DEF AcceptedReturned
        <5> QED
          BY <2>0, <3>1, <3>4, <4>2, <5>1, <5>2
      <4> QED
        BY <2>0, <3>4, <4>1, <4>2
    <3>6. AnswerTellsTruth'
      <4> SUFFICES ASSUME NEW q \in Procs, NEW k \in 1 .. Len(answers'[q]),
                          answers'[q][k].op \in SendOps
                   PROVE  answers'[q][k].res = "ok"
                            <=> \E i \in 1 .. Len(accepted') : accepted'[i] = <<q, k>>
        BY DEF AnswerTellsTruth
      <4>1. CASE q = p /\ k = n
        BY <2>0, <3>3, <3>4, <4>1
      <4>2. CASE k \in 1 .. Len(answers[q])
        <5>1. answers[q][k].res = "ok" <=> In(<<q, k>>)
          BY <3>2, <4>2 DEF AnswerTellsTruth
        <5>2. <<q, k>> # <<p, n>>
          BY <2>0, <4>2
        <5>3. (\E i \in 1 .. Len(accepted') : accepted'[i] = <<q, k>>) <=> In(<<q, k>>)
          <6>1. ASSUME NEW i \in 1 .. Len(accepted'), accepted'[i] = <<q, k>>
                PROVE  In(<<q, k>>)
            <7>1. i # Len(accepted) + 1
              BY <3>4, <5>2, <6>1
            <7>2. i \in 1 .. Len(accepted)
              BY <2>0, <3>4, <7>1
            <7> QED
              BY <3>4, <6>1, <7>2
          <6>2. ASSUME NEW i \in 1 .. Len(accepted), accepted[i] = <<q, k>>
                PROVE  i \in 1 .. Len(accepted') /\ accepted'[i] = <<q, k>>
            BY <2>0, <3>4, <6>2
          <6> QED
            BY <6>1, <6>2
        <5> QED
          BY <3>2, <4>2, <5>1, <5>3
      <4> QED
        BY <2>0, <3>1, <4>1, <4>2
    <3> QED
      BY <3>5, <3>6
  \* Every other return leaves accepted alone and is no "ok" of a send.
  <2>3. ASSUME NEW p \in Procs, NEW r \in Results, Return(p, r), accepted' = accepted,
               op[p] \in Ops, op[p] \in SendOps => r # "ok"
        PROVE  AcceptedReturned' /\ AnswerTellsTruth'
    <3>1. Answer(op[p], late[p], r) \in Answers
      BY <2>3 DEF TypeOK, Answers, Answer
    <3> QED
      BY <2>1, <2>3, <3>1 DEF Return, Answer
  <2>4. ASSUME NEW p \in Procs, CheckClosed(p)
        PROVE  AcceptedReturned' /\ AnswerTellsTruth'
    <3>1. op[p] \in Ops
      BY <2>4 DEF CheckClosed, Passed, CheckedOps, Ops, SendOps
    <3>2. CASE Return(p, "closed")
      BY <2>3, <2>4, <3>1, <3>2 DEF CheckClosed, Results
    <3>3. CASE UNCHANGED answers
      BY <2>4, <3>3 DEF CheckClosed, AcceptedReturned, AnswerTellsTruth
    <3> QED
      BY <2>4, <3>2, <3>3 DEF CheckClosed
  <2>5. ASSUME NEW p \in Procs,
               ReceiveCase(p) \/ DoneCase(p) \/ ContextCase(p) \/ TimerCase(p) \/ DefaultCase(p)
        PROVE  AcceptedReturned' /\ AnswerTellsTruth'
    <3>1. op[p] \in Ops /\ accepted' = accepted
      BY <2>5 DEF ReceiveCase, DoneCase, ContextCase, TimerCase, DefaultCase, Passed, TypeOK
    <3>2. PICK r \in Results : Return(p, r) /\ (op[p] \in SendOps => r # "ok")
      BY <2>5 DEF ReceiveCase, DoneCase, ContextCase, TimerCase, DefaultCase, Results,
                  SendOps, ReceiveOps
    <3> QED
      BY <2>3, <3>1, <3>2
  <2>6. ASSUME NEW p \in Procs, NEW o \in Ops, BadArgument(p, o)
        PROVE  AcceptedReturned' /\ AnswerTellsTruth'
    <3>1. Answer(o, closed, "rejected") \in Answers
      BY DEF TypeOK, Answer, Answers, Results
    <3> QED
      BY <2>1, <2>6, <3>1 DEF BadArgument, Answer
  <2>7. ASSUME NEW p \in Procs, Close(p)
        PROVE  AcceptedReturned' /\ AnswerTellsTruth'
    <3>1. Answer("close", closed, "ok") \in Answers
      BY DEF TypeOK, Answer, Answers, Results
    <3> QED
      BY <2>1, <2>7, <3>1 DEF Close, Answer, SendOps
  <2>8. CASE UNCHANGED <<answers, accepted>>
    BY <2>8 DEF AcceptedReturned, AnswerTellsTruth
  <2> QED
    BY <2>2, <2>4, <2>5, <2>6, <2>7, <2>8 DEF Next, Select, Call, Cancel, vars
<1> QED
  BY <1>1, <1>2, ChannelTypeCorrect, PTL DEF Spec

\* The refinement mapping takes a return of the channel to an answer of the
\* queue: the caller's call record becomes NoCall again.
LEMMA ReturnMapped ==
  ASSUME TypeOK, NEW p \in Procs, NEW r \in Results, Return(p, r)
  PROVE  Queue!Reply(p, r)
<1>1. [q \in Procs |-> [op |-> op'[q], late |-> late'[q]]]
      = [[q \in Procs |-> [op |-> op[q], late |-> late[q]]]
           EXCEPT ![p] = [op |-> "none", late |-> FALSE]]
  BY DEF Return, TypeOK
<1> QED
  BY <1>1 DEF Return, Queue!Reply, Queue!NoCall, Answer, TypeOK

\* Every behaviour of the builtins is a behaviour of the bounded queue.
THEOREM ChannelRefinesQueue == Spec => ImplementsBoundedQueue
<1>1. Init => Queue!Init
  BY DEF Init, Queue!Init, Queue!NoCall
<1>2. TypeOK /\ Passed /\ [Next]_vars => [Queue!Next]_(Queue!vars)
  <2> SUFFICES ASSUME TypeOK, Passed, [Next]_vars
               PROVE  Queue!Next \/ UNCHANGED Queue!vars
    OBVIOUS
  <2>1. ASSUME NEW p \in Procs, NEW o \in Ops, Call(p, o)
        PROVE  Queue!Begin(p, o) /\ o \in Queue!Ops
    <3>1. op[p] = "none" /\ ~ late[p]
      BY <2>1 DEF Call, MayCall, Passed
    <3>2. [q \in Procs |-> [op |-> op'[q], late |-> late'[q]]]
          = [[q \in Procs |-> [op |-> op[q], late |-> late[q]]]
               EXCEPT ![p] = [op |-> o, late |-> closed]]
      BY <2>1 DEF Call, TypeOK
    <3> QED
      BY <2>1, <3>1, <3>2 DEF Call, Queue!Begin, Queue!NoCall, Ops, Queue!Ops, SendOps,
         ReceiveOps, Queue!SendOps, Queue!ReceiveOps, TypeOK
  <2>2. ASSUME NEW p \in Procs, NEW o \in Ops, BadArgument(p, o)
        PROVE  Queue!Refuse(p, o) /\ o \in Queue!Ops
    <3>1. op[p] = "none" /\ ~ late[p]
      BY <2>2 DEF BadArgument, MayCall, Passed
    <3> QED
      BY <2>2, <3>1 DEF BadArgument, Answer, Queue!Refuse, Queue!NoCall, Ops, Queue!Ops,
         SendOps, ReceiveOps, Queue!SendOps, Queue!ReceiveOps, TypeOK
  <2>3. ASSUME NEW p \in Procs, CheckClosed(p)
        PROVE  Queue!Fail(p, "closed") \/ UNCHANGED Queue!vars
    <3>1. CASE closed /\ Return(p, "closed")
      <4>1. Queue!Reply(p, "closed")
        BY <3>1, ReturnMapped DEF Results
      <4>2. op[p] # "none"
        BY <2>3 DEF CheckClosed, Passed
      <4> QED
        BY <2>3, <3>1, <4>1, <4>2 DEF CheckClosed, Queue!Fail, Queue!Excuse, Queue!NoCall
    <3>2. CASE UNCHANGED <<op, late, answers>>
      BY <2>3, <3>2 DEF CheckClosed, Queue!vars
    <3> QED
      BY <2>3, <3>1, <3>2 DEF CheckClosed
  <2>4. ASSUME NEW p \in Procs, SendCase(p)
        PROVE  Queue!Enqueue(p)
    <3>1. Queue!Reply(p, "ok")
      BY <2>4, ReturnMapped DEF SendCase, Results
    <3>2. ~ (late[p] /\ op[p] \in CheckedOps)
      BY <2>4 DEF SendCase, Passed
    <3> QED
      BY <2>4, <3>1, <3>2 DEF SendCase, Queue!Enqueue, Queue!SendOps, SendOps, CheckedOps,
         Queue!CheckedOps, Message, Queue!Message
  <2>5. ASSUME NEW p \in Procs, ReceiveCase(p)
        PROVE  Queue!Dequeue(p)
    <3>1. Queue!Reply(p, "ok")
      BY <2>5, ReturnMapped DEF ReceiveCase, Results
    <3> QED
      BY <2>5, <3>1 DEF ReceiveCase, Queue!Dequeue, Queue!ReceiveOps, ReceiveOps
  <2>6. ASSUME NEW p \in Procs, DoneCase(p) \/ ContextCase(p) \/ TimerCase(p) \/ DefaultCase(p)
        PROVE  \E r \in {"closed", "full", "empty", "timeout", "cancelled"} : Queue!Fail(p, r)
    <3>1. op[p] # "none"
      BY <2>6 DEF DoneCase, ContextCase, TimerCase, DefaultCase, Passed
    <3>2. PICK r \in {"closed", "full", "empty", "timeout", "cancelled"} :
                 Return(p, r) /\ Queue!Excuse(p, r)
      BY <2>6 DEF DoneCase, ContextCase, TimerCase, DefaultCase, Queue!Excuse, TimedOps,
         Queue!TimedOps, Queue!BlockingOps, TypeOK
    <3>3. Queue!Reply(p, r)
      BY <3>2, ReturnMapped DEF Results
    <3>4. UNCHANGED <<data, closed>>
      BY <2>6 DEF DoneCase, ContextCase, TimerCase, DefaultCase
    <3> QED
      BY <3>1, <3>2, <3>3, <3>4 DEF Queue!Fail, Queue!NoCall
  <2>7. ASSUME NEW p \in Procs, Close(p)
        PROVE  Queue!Close(p)
    <3>1. op[p] = "none" /\ ~ late[p]
      BY <2>7 DEF Close, MayCall, Passed
    <3> QED
      BY <2>7, <3>1 DEF Close, Answer, Queue!Close, Queue!NoCall, TypeOK
  <2>8. ASSUME NEW p \in Procs, Cancel(p)
        PROVE  UNCHANGED Queue!vars
    BY <2>8 DEF Cancel, Queue!vars
  <2>9. CASE UNCHANGED vars
    BY <2>9 DEF vars, Queue!vars
  <2> QED
    BY <2>1, <2>2, <2>3, <2>4, <2>5, <2>6, <2>7, <2>8, <2>9 DEF Next, Select, Queue!Next
<1> QED
  BY <1>1, <1>2, ChannelTypeCorrect, PTL DEF Spec, ImplementsBoundedQueue, Queue!Spec
=============================================================================
