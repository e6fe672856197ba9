--------------------------- MODULE PredictionProofs ---------------------------
(***************************************************************************)
(* For any number of requests, prompts of any size and any backlog: a      *)
(* request gets no length that is not the default or its own, and a server *)
(* that works predicts the short prompts.                                  *)
(***************************************************************************)
EXTENDS PredictionService, TLAPS

\* A request has a length from the start of its thread, which writes once.
LengthsInv ==
    \A r \in Requests :
      /\ thread[r] = "none" => outputLen[r] = Unset /\ copiedLen[r] = Unset
      /\ thread[r] \in {"connecting", "sending", "receiving"} => outputLen[r] = DefaultLen
      /\ outputLen[r] \in {Unset, DefaultLen, Answer[r]} \ {0}
      /\ copiedLen[r] \in {Unset, DefaultLen, outputLen[r]}

\* A prompt is being sent until it is sent whole.
SentInv ==
    \A r \in Requests :
      /\ thread[r] \in {"none", "connecting"} => sent[r] = 0
      /\ thread[r] = "sending" => sent[r] < Size[r]

\* A reply is the answer to the request, and comes after the connection.
RepliesInv ==
    \A r \in Requests :
      /\ reply[r] \in {Open, Closed, Answer[r]}
      /\ alive /\ thread[r] \in {"none", "connecting"} => reply[r] = Open

\* A server that cannot fail closes no connection of a prompt of one segment.
WorkingInv ==
    ~mayFail => /\ alive
                /\ \A r \in Requests : Size[r] = 1 => reply[r] # Closed

\* The connections, by what they are members of.
Waits(r) == \E i \in DOMAIN queue : queue[i] = r

OpenInv ==
    /\ \A i, j \in DOMAIN queue : i # j => queue[i] # queue[j]
    /\ \A r \in Requests :
         r = serving \/ Waits(r) =>
           thread[r] \in {"sending", "receiving"} /\ reply[r] = Open
    /\ \A r \in Requests : ~(r = serving /\ Waits(r))

\* The steps of the requests, for the case distinctions.
RequestStep(r) ==
    \/ StartPrediction(r) \/ MakeGroup(r) \/ Connect(r) \/ Refused(r) \/ Send(r)
    \/ ReceiveReply(r) \/ NoReply(r) \/ HandleRequest(r)

LEMMA StepIsRequestStep ==
    ASSUME [Next]_vars
    PROVE  (\E r \in Requests : RequestStep(r)) \/ Accept \/ Die \/ UNCHANGED vars
  BY DEF Next, ThreadStep, RequestStep

\* The lengths are proved for one request at a time: a step of one leaves the
\* lengths of the others alone.
LEMMA LengthsStep ==
    ASSUME TypeOK, LengthsInv, RepliesInv, [Next]_vars
    PROVE  LengthsInv'
<1> USE PredictionAssumption DEF TypeOK, LengthsInv, Unset, Open, Closed
<1>1. CASE \E r \in Requests : RequestStep(r)
  <2> PICK r \in Requests : RequestStep(r)
    BY <1>1
  <2>1. CASE StartPrediction(r)
    BY <2>1 DEF StartPrediction
  <2>2. CASE MakeGroup(r)
    BY <2>2 DEF MakeGroup
  <2>3. CASE Connect(r)
    BY <2>3 DEF Connect
  <2>4. CASE Refused(r)
    BY <2>4 DEF Refused
  <2>5. CASE Send(r)
    BY <2>5 DEF Send
  <2>6. CASE ReceiveReply(r)
    BY <2>6 DEF ReceiveReply, EndWith, RepliesInv
  <2>7. CASE NoReply(r)
    BY <2>7 DEF NoReply, EndWith
  <2>8. CASE HandleRequest(r)
    BY <2>8 DEF HandleRequest
  <2> QED
    BY <2>1, <2>2, <2>3, <2>4, <2>5, <2>6, <2>7, <2>8 DEF RequestStep
<1>2. CASE Accept
  BY <1>2 DEF Accept
<1>3. CASE Die
  BY <1>3 DEF Die
<1>4. CASE UNCHANGED vars
  BY <1>4 DEF vars
<1> QED
  BY <1>1, <1>2, <1>3, <1>4, StepIsRequestStep

\* What the server replies.
LEMMA ReplyIsOwn ==
    ASSUME NEW r \in Requests, TypeOK, NEW answer \in Reply(r)
    PROVE  /\ answer \in {Answer[r], Closed}
           /\ ~mayFail /\ Size[r] = 1 /\ arrived[r] > 0 => answer = Answer[r]
<1>1. answer \in {Answer[r], Closed}
  BY DEF Reply
<1>2. ASSUME ~mayFail, Size[r] = 1, arrived[r] > 0
      PROVE  Least2(arrived[r], Chunk) = Size[r]
  BY <1>2, PredictionAssumption DEF TypeOK, Least2
<1> QED
  BY <1>1, <1>2 DEF Reply

LEMMA RepliesStep ==
    ASSUME TypeOK, RepliesInv, OpenInv, WorkingInv, [Next]_vars
    PROVE  RepliesInv' /\ WorkingInv'
<1> USE PredictionAssumption DEF TypeOK, RepliesInv, WorkingInv, Open, Closed
<1>1. CASE \E r \in Requests : RequestStep(r)
  <2> PICK r \in Requests : RequestStep(r)
    BY <1>1
  <2>1. CASE StartPrediction(r)
    BY <2>1 DEF StartPrediction
  <2>2. CASE MakeGroup(r)
    BY <2>2 DEF MakeGroup
  <2>3. CASE Connect(r)
    BY <2>3 DEF Connect
  <2>4. CASE Refused(r)
    BY <2>4 DEF Refused
  <2>5. CASE Send(r)
    BY <2>5 DEF Send
  <2>6. CASE ReceiveReply(r)
    BY <2>6 DEF ReceiveReply, EndWith
  <2>7. CASE NoReply(r)
    BY <2>7 DEF NoReply, EndWith
  <2>8. CASE HandleRequest(r)
    <3>1. PICK answer \in Reply(r) : reply' = [reply EXCEPT ![r] = answer]
      BY <2>8 DEF HandleRequest
    <3>2. /\ answer \in {Answer[r], Closed}
          /\ ~mayFail /\ Size[r] = 1 => answer = Answer[r]
      BY <2>8, ReplyIsOwn DEF HandleRequest
    <3>3. thread[r] \in {"sending", "receiving"} /\ thread' = thread
          /\ alive' = alive /\ mayFail' = mayFail
      BY <2>8 DEF HandleRequest, OpenInv
    <3> QED
      BY <3>1, <3>2, <3>3
  <2> QED
    BY <2>1, <2>2, <2>3, <2>4, <2>5, <2>6, <2>7, <2>8 DEF RequestStep
<1>2. CASE Accept
  BY <1>2 DEF Accept
<1>3. CASE Die
  BY <1>3 DEF Die
<1>4. CASE UNCHANGED vars
  BY <1>4 DEF vars
<1> QED
  BY <1>1, <1>2, <1>3, <1>4, StepIsRequestStep

\* The reads of the server leave the rest of what has arrived.
LEMMA RestOfArrived ==
    ASSUME TypeOK, NEW r \in Requests
    PROVE  /\ arrived[r] - Least2(arrived[r], Chunk) \in Nat
           /\ arrived[r] - Least2(arrived[r], Chunk) <= arrived[r]
  BY PredictionAssumption DEF TypeOK, Least2

LEMMA TypeStep ==
    ASSUME TypeOK, SentInv, RepliesInv, [Next]_vars
    PROVE  TypeOK' /\ SentInv'
<1> USE PredictionAssumption DEF TypeOK, SentInv, Unset, Open, Closed
<1>1. CASE \E r \in Requests : RequestStep(r)
  <2> PICK r \in Requests : RequestStep(r)
    BY <1>1
  <2>1. CASE StartPrediction(r)
    BY <2>1 DEF StartPrediction
  <2>2. CASE MakeGroup(r)
    BY <2>2 DEF MakeGroup
  <2>3. CASE Connect(r)
    <3>1. queue' \in Seq(Requests) /\ Len(queue') = Len(queue) + 1
      BY <2>3 DEF Connect
    <3>2. Len(queue') <= Backlog
      BY <2>3, <3>1 DEF Connect
    <3>3. /\ thread' = [thread EXCEPT ![r] = "sending"] /\ thread[r] = "connecting"
          /\ UNCHANGED <<outputLen, copiedLen, arrived, sent, serving, reply, alive, mayFail>>
      BY <2>3 DEF Connect
    <3>4. sent[r] = 0 /\ sent[r] < Size[r]
      BY <3>3
    <3> QED
      BY <3>1, <3>2, <3>3, <3>4
  <2>4. CASE Refused(r)
    BY <2>4 DEF Refused
  <2>5. CASE Send(r)
    <3>1. /\ thread[r] = "sending"
          /\ sent' = [sent EXCEPT ![r] = sent[r] + 1]
          /\ arrived' = [arrived EXCEPT ![r] = arrived[r] + 1]
          /\ thread' = IF sent[r] + 1 = Size[r] THEN [thread EXCEPT ![r] = "receiving"]
                       ELSE thread
          /\ UNCHANGED <<outputLen, copiedLen, queue, serving, reply, alive, mayFail>>
      BY <2>5 DEF Send
    <3>2. sent[r] + 1 <= Size[r] /\ arrived[r] + 1 <= sent[r] + 1
      BY <3>1
    <3>3. sent' \in [Requests -> Nat] /\ arrived' \in [Requests -> Nat]
      BY <3>1
    <3>4. \A q \in Requests : arrived'[q] <= sent'[q] /\ sent'[q] <= Size[q]
      BY <3>1, <3>2
    <3>5. thread' \in [Requests -> {"none", "connecting", "sending", "receiving", "ended"}]
      BY <3>1
    <3>6. SentInv'
      BY <3>1, <3>2
    <3> QED
      BY <3>1, <3>3, <3>4, <3>5, <3>6
  <2>6. CASE ReceiveReply(r)
    BY <2>6 DEF ReceiveReply, EndWith
  <2>7. CASE NoReply(r)
    BY <2>7 DEF NoReply, EndWith
  <2>8. CASE HandleRequest(r)
    <3>1. PICK answer \in Reply(r) : reply' = [reply EXCEPT ![r] = answer]
      BY <2>8 DEF HandleRequest
    <3>2. answer \in {Answer[r], Closed}
      BY <3>1, ReplyIsOwn
    <3>3. PICK rest \in Nat : rest <= arrived[r] /\ arrived' = [arrived EXCEPT ![r] = rest]
      BY <2>8, RestOfArrived DEF HandleRequest
    <3>4. /\ serving' = Nobody
          /\ UNCHANGED <<thread, outputLen, copiedLen, sent, queue, alive, mayFail>>
      BY <2>8 DEF HandleRequest
    <3> QED
      BY <3>1, <3>2, <3>3, <3>4
  <2> QED
    BY <2>1, <2>2, <2>3, <2>4, <2>5, <2>6, <2>7, <2>8 DEF RequestStep
<1>2. CASE Accept
  <2>1. queue' \in Seq(Requests) /\ Len(queue') <= Len(queue) /\ serving' \in Requests
    BY <1>2 DEF Accept
  <2> QED
    BY <1>2, <2>1 DEF Accept
<1>3. CASE Die
  <2>1. queue' \in Seq(Requests) /\ Len(queue') <= Backlog
    BY <1>3 DEF Die
  <2>2. /\ reply' = [r \in Requests |-> IF reply[r] = Open THEN Closed ELSE reply[r]]
        /\ serving' = Nobody /\ alive' = FALSE
        /\ UNCHANGED <<thread, outputLen, copiedLen, arrived, sent, mayFail>>
    BY <1>3 DEF Die
  <2> QED
    BY <2>1, <2>2
<1>4. CASE UNCHANGED vars
  BY <1>4 DEF vars
<1> QED
  BY <1>1, <1>2, <1>3, <1>4, StepIsRequestStep

-----------------------------------------------------------------------------

\* A request whose connection neither waits nor is served may get a reply, or
\* its thread end.
LEMMA OpenInvIsLocal ==
    ASSUME TypeOK, OpenInv, NEW r \in Requests, r # serving, ~Waits(r),
           UNCHANGED <<queue, serving>>,
           \A q \in Requests \ {r} : thread'[q] = thread[q] /\ reply'[q] = reply[q]
    PROVE  OpenInv'
  BY DEF OpenInv, Waits

LEMMA OpenStep ==
    ASSUME TypeOK, RepliesInv, OpenInv, [Next]_vars
    PROVE  OpenInv'
<1> USE PredictionAssumption DEF TypeOK
<1>1. CASE \E r \in Requests : RequestStep(r)
  <2> PICK r \in Requests : RequestStep(r)
    BY <1>1
  <2>1. CASE StartPrediction(r)
    BY <2>1, OpenInvIsLocal DEF StartPrediction, OpenInv
  <2>2. CASE MakeGroup(r)
    BY <2>2 DEF MakeGroup, OpenInv, Waits
  <2>3. CASE Connect(r)
    <3>1. r # serving /\ ~Waits(r) /\ reply[r] = Open
      BY <2>3 DEF Connect, OpenInv, RepliesInv
    <3>2. /\ DOMAIN queue' = 1 .. Len(queue) + 1
          /\ \A i \in 1 .. Len(queue) : queue'[i] = queue[i]
          /\ queue'[Len(queue) + 1] = r
          /\ DOMAIN queue = 1 .. Len(queue) /\ Len(queue) \in Nat
      BY <2>3 DEF Connect
    <3>3. ASSUME NEW q \in Requests, Waits(q)', q # r
          PROVE  Waits(q)
      <4>1. PICK i \in 1 .. Len(queue) + 1 : queue'[i] = q
        BY <3>2, <3>3 DEF Waits
      <4>2. i \in 1 .. Len(queue)
        BY <3>2, <3>3, <4>1
      <4>3. i \in DOMAIN queue /\ queue[i] = q
        BY <3>2, <4>1, <4>2, Zenon
      <4> QED
        BY <4>3, Zenon DEF Waits
    <3>4. /\ thread' = [thread EXCEPT ![r] = "sending"]
          /\ UNCHANGED <<serving, reply>>
      BY <2>3 DEF Connect
    <3>5. \A i, j \in DOMAIN queue' : i # j => queue'[i] # queue'[j]
      <4> SUFFICES ASSUME NEW i \in 1 .. Len(queue) + 1,
                          NEW j \in 1 .. Len(queue) + 1, i # j
                   PROVE  queue'[i] # queue'[j]
        BY <3>2
      <4>1. CASE i \in 1 .. Len(queue) /\ j \in 1 .. Len(queue)
        BY <3>2, <4>1 DEF OpenInv
      <4>2. \A k \in 1 .. Len(queue) : queue'[k] # r
        BY <3>1, <3>2 DEF Waits
      <4>3. CASE i = Len(queue) + 1 \/ j = Len(queue) + 1
        BY <3>2, <4>2, <4>3
      <4>4. /\ i \in 1 .. Len(queue) \/ i = Len(queue) + 1
            /\ j \in 1 .. Len(queue) \/ j = Len(queue) + 1
        BY <3>2
      <4> QED
        BY <4>1, <4>3, <4>4, Zenon
    <3>6. ASSUME NEW q \in Requests, q = serving \/ Waits(q)'
          PROVE  thread'[q] \in {"sending", "receiving"} /\ reply'[q] = Open
      <4>1. CASE q = r
        BY <3>1, <3>4, <4>1
      <4>2. CASE q # r
        <5>1. q = serving \/ Waits(q)
          BY <3>3, <3>6, <4>2
        <5>2. thread'[q] = thread[q] /\ reply'[q] = reply[q]
          BY <3>4, <4>2
        <5> QED
          BY <5>1, <5>2 DEF OpenInv
      <4> QED
        BY <4>1, <4>2
    <3>7. ASSUME NEW q \in Requests
          PROVE  ~(q = serving /\ Waits(q)')
      BY <3>1, <3>3, <3>7 DEF OpenInv
    <3> QED
      BY <3>4, <3>5, <3>6, <3>7, Zenon DEF OpenInv
  <2>4. CASE Refused(r)
    BY <2>4, OpenInvIsLocal DEF Refused, OpenInv
  <2>5. CASE Send(r)
    BY <2>5 DEF Send, OpenInv, Waits
  <2>6. CASE ReceiveReply(r)
    <3>1. r # serving /\ ~Waits(r)
      BY <2>6 DEF ReceiveReply, OpenInv, Open
    <3> QED
      BY <2>6, <3>1, OpenInvIsLocal DEF ReceiveReply, EndWith
  <2>7. CASE NoReply(r)
    <3>1. r # serving /\ ~Waits(r)
      BY <2>7 DEF NoReply, OpenInv, Open, Closed
    <3> QED
      BY <2>7, <3>1, OpenInvIsLocal DEF NoReply, EndWith
  <2>8. CASE HandleRequest(r)
    <3>1. ~Waits(r)
      BY <2>8 DEF HandleRequest, OpenInv
    <3>2. \A q \in Requests \ {r} : reply'[q] = reply[q]
      BY <2>8 DEF HandleRequest
    <3>3. serving' = Nobody /\ UNCHANGED <<thread, queue>>
      BY <2>8 DEF HandleRequest
    <3> QED
      BY <3>1, <3>2, <3>3 DEF OpenInv, Waits
  <2> QED
    BY <2>1, <2>2, <2>3, <2>4, <2>5, <2>6, <2>7, <2>8 DEF RequestStep
<1>2. CASE Accept
  <2>1. /\ queue # <<>> /\ serving' = queue[1] /\ queue' = Tail(queue)
        /\ UNCHANGED <<thread, reply>>
    BY <1>2 DEF Accept
  <2>2. /\ DOMAIN queue = 1 .. Len(queue) /\ Len(queue) \in Nat \ {0}
        /\ DOMAIN queue' = 1 .. Len(queue) - 1
        /\ \A i \in 1 .. Len(queue) - 1 : queue'[i] = queue[i + 1]
    BY <2>1
  <2>3. \A i, j \in DOMAIN queue' : i # j => queue'[i] # queue'[j]
    <3> SUFFICES ASSUME NEW i \in 1 .. Len(queue) - 1, NEW j \in 1 .. Len(queue) - 1,
                        i # j
                 PROVE  queue'[i] # queue'[j]
      BY <2>2
    <3>1. i + 1 \in DOMAIN queue /\ j + 1 \in DOMAIN queue /\ i + 1 # j + 1
      BY <2>2
    <3>2. queue[i + 1] # queue[j + 1]
      BY <3>1 DEF OpenInv
    <3> QED
      BY <2>2, <3>2
  <2>4. ASSUME NEW q \in Requests, Waits(q)'
        PROVE  Waits(q) /\ q # serving'
    <3>1. PICK i \in 1 .. Len(queue) - 1 : queue'[i] = q
      BY <2>2, <2>4 DEF Waits
    <3>2. /\ i + 1 \in DOMAIN queue /\ queue[i + 1] = q
          /\ 1 \in DOMAIN queue /\ i + 1 # 1
      BY <2>2, <3>1, SMTT(30)
    <3>3. queue[i + 1] # queue[1]
      BY <3>2 DEF OpenInv
    <3> QED
      BY <2>1, <3>2, <3>3 DEF Waits
  <2>5. Waits(serving')
    BY <2>1, <2>2 DEF Waits
  <2> QED
    BY <2>1, <2>3, <2>4, <2>5 DEF OpenInv
<1>3. CASE Die
  BY <1>3 DEF Die, OpenInv, Waits
<1>4. CASE UNCHANGED vars
  BY <1>4 DEF vars, OpenInv, Waits
<1> QED
  BY <1>1, <1>2, <1>3, <1>4, StepIsRequestStep

-----------------------------------------------------------------------------

\* A reply that can be received is the answer.
LEMMA ReceivedIsAnswer ==
    ASSUME RepliesInv, NEW r \in Requests, reply[r] >= 0
    PROVE  reply[r] = Answer[r]
  BY DEF RepliesInv, Open, Closed

LEMMA ShortStep ==
    ASSUME TypeOK, LengthsInv, RepliesInv, WorkingInv, ShortIsPredicted, [Next]_vars
    PROVE  ShortIsPredicted'
<1> USE PredictionAssumption DEF TypeOK, ShortIsPredicted
<1>1. CASE \E r \in Requests : RequestStep(r)
  <2> PICK r \in Requests : RequestStep(r)
    BY <1>1
  <2>1. CASE StartPrediction(r)
    BY <2>1 DEF StartPrediction
  <2>2. CASE MakeGroup(r)
    BY <2>2 DEF MakeGroup
  <2>3. CASE Connect(r)
    BY <2>3 DEF Connect
  <2>4. CASE Refused(r)
    BY <2>4 DEF Refused, WorkingInv
  <2>5. CASE Send(r)
    BY <2>5 DEF Send
  <2>6. CASE ReceiveReply(r)
    <3>1. reply[r] = Answer[r]
      BY <2>6, ReceivedIsAnswer DEF ReceiveReply
    <3>2. /\ thread' = [thread EXCEPT ![r] = "ended"]
          /\ outputLen' = IF Answer[r] # 0 THEN [outputLen EXCEPT ![r] = Answer[r]]
                          ELSE outputLen
          /\ mayFail' = mayFail
      BY <2>6, <3>1 DEF ReceiveReply, EndWith
    <3> QED
      BY <3>2
  <2>7. CASE NoReply(r)
    BY <2>7 DEF NoReply, EndWith, WorkingInv
  <2>8. CASE HandleRequest(r)
    BY <2>8 DEF HandleRequest
  <2> QED
    BY <2>1, <2>2, <2>3, <2>4, <2>5, <2>6, <2>7, <2>8 DEF RequestStep
<1>2. CASE Accept
  BY <1>2 DEF Accept
<1>3. CASE Die
  BY <1>3 DEF Die
<1>4. CASE UNCHANGED vars
  BY <1>4 DEF vars
<1> QED
  BY <1>1, <1>2, <1>3, <1>4, StepIsRequestStep

-----------------------------------------------------------------------------

\* The inductive invariant.
PredictionInv ==
    /\ TypeOK /\ SentInv /\ LengthsInv
    /\ RepliesInv /\ WorkingInv /\ OpenInv
    /\ ShortIsPredicted

LEMMA PredictionInit ==
    Init => PredictionInv
<1> SUFFICES ASSUME Init PROVE PredictionInv
  OBVIOUS
<1> USE PredictionAssumption DEF Init, Unset, Open, Closed
<1>1. TypeOK
  BY DEF TypeOK
<1>2. SentInv /\ LengthsInv
  BY DEF SentInv, LengthsInv
<1>3. RepliesInv /\ WorkingInv
  BY DEF RepliesInv, WorkingInv
<1>4. OpenInv
  BY DEF OpenInv, Waits
<1>5. ShortIsPredicted
  BY DEF ShortIsPredicted
<1> QED
  BY <1>1, <1>2, <1>3, <1>4, <1>5 DEF PredictionInv

LEMMA PredictionInduction ==
    Spec => []PredictionInv
<1>1. PredictionInv /\ [Next]_vars => PredictionInv'
  BY TypeStep, LengthsStep, RepliesStep, OpenStep, ShortStep DEF PredictionInv
<1> QED
  BY <1>1, PredictionInit, PTL DEF Spec

\* The fields of the threads, the connections and the server keep their types:
\* no more segments arrive than were sent, and no more connections wait than
\* the backlog admits (server.py:67-90, prediction.py:32-65).
THEOREM PredictionTypeCorrect == Spec => []TypeOK
<1>1. PredictionInv => TypeOK
  BY DEF PredictionInv
<1> QED
  BY <1>1, PredictionInduction, PTL

\* However the threads, the engine and the prediction server interleave, the
\* length of a request, and the copy of it in the group, is the default or the
\* model's answer to this request's whole prompt (server.py:67-90).
THEOREM LengthsAreOwn == Spec => []LengthIsOwn
<1>1. PredictionInv => LengthIsOwn
  BY DEF PredictionInv, LengthsInv, LengthIsOwn
<1> QED
  BY <1>1, PredictionInduction, PTL

\* With a server that neither dies nor raises, every prompt of one segment
\* gets the model's answer, whatever the other connections hold
\* (prediction.py:32-48).
THEOREM ShortPromptsArePredicted == Spec => []ShortIsPredicted
<1>1. PredictionInv => ShortIsPredicted
  BY DEF PredictionInv
<1> QED
  BY <1>1, PredictionInduction, PTL
=============================================================================
