-------------------------- MODULE PredictionService --------------------------
(***************************************************************************)
(* The prediction of output lengths: the request handler starts a thread   *)
(* per request (jitserve/server.py), the thread sends the prompt to the    *)
(* prediction server over a connection of its own, and that server handles *)
(* one connection after the other (jitserve/request_analyzer/              *)
(* prediction.py).  The handler makes the sequence group meanwhile.        *)
(*                                                                         *)
(* A pickled prompt is a number of segments that arrive one by one, and a  *)
(* read returns what has arrived, up to Chunk segments; a prompt that was  *)
(* not read whole cannot be unpickled.  A reply fits one segment.  The     *)
(* connections, the accept queue and the model are external.               *)
(***************************************************************************)
EXTENDS Integers, Sequences, FiniteSets

CONSTANTS
    Requests,
    Size,          \* Size[r]: segments of the pickled prompt
    Chunk,         \* segments a recv returns at most (4096 bytes)
    Answer,        \* Answer[r]: the length the model predicts, perhaps 0
    DefaultLen,    \* DEFAULT_PREDICTION_LENGTH
    Backlog        \* connections that may wait (listen(5))

Nobody == "nobody"

ASSUME PredictionAssumption ==
    /\ \A r \in Requests : Size[r] \in Nat \ {0} /\ Answer[r] \in Nat
    /\ Chunk \in Nat \ {0} /\ Backlog \in Nat \ {0} /\ DefaultLen \in Nat \ {0}
    /\ Nobody \notin Requests

VARIABLES
    thread,      \* where the thread of a request is
    outputLen,   \* request_info.output_len; Unset before the request is here
    copiedLen,   \* predict_output_length of the group
    arrived,     \* segments of the prompt that have arrived and are not read
    sent,        \* segments that have been sent
    queue,       \* connections to accept
    serving,     \* the connection that is handled, or Nobody
    reply,       \* the reply on a connection: a length, Open or Closed
    alive,       \* the prediction server runs
    mayFail      \* the server may die and the model may raise, in this behaviour

vars == <<thread, outputLen, copiedLen, arrived, sent, queue, serving, reply, alive,
          mayFail>>

Unset == -1
Open == -2
Closed == -1

Init ==
    /\ thread = [r \in Requests |-> "none"]
    /\ outputLen = [r \in Requests |-> Unset]
    /\ copiedLen = [r \in Requests |-> Unset]
    /\ arrived = [r \in Requests |-> 0]
    /\ sent = [r \in Requests |-> 0]
    /\ queue = <<>>
    /\ serving = Nobody
    /\ reply = [r \in Requests |-> Open]
    /\ alive = TRUE
    /\ mayFail \in BOOLEAN

-----------------------------------------------------------------------------
(* The request handler.                                                    *)

\* _maybe_start_prediction.
StartPrediction(r) ==
    /\ thread[r] = "none"
    /\ outputLen' = [outputLen EXCEPT ![r] = DefaultLen]
    /\ thread' = [thread EXCEPT ![r] = "connecting"]
    /\ UNCHANGED <<copiedLen, arrived, sent, queue, serving, reply, alive, mayFail>>

\* The engine makes the sequence group, whenever it gets there.
MakeGroup(r) ==
    /\ outputLen[r] # Unset /\ copiedLen[r] = Unset
    /\ copiedLen' = [copiedLen EXCEPT ![r] = outputLen[r]]
    /\ UNCHANGED <<thread, outputLen, arrived, sent, queue, serving, reply, alive, mayFail>>

-----------------------------------------------------------------------------
(* The thread: send_and_update_request_info, send_request_to_prediction.   *)

Connect(r) ==
    /\ thread[r] = "connecting" /\ alive /\ Len(queue) < Backlog
    /\ queue' = Append(queue, r)
    /\ thread' = [thread EXCEPT ![r] = "sending"]
    /\ UNCHANGED <<outputLen, copiedLen, arrived, sent, serving, reply, alive, mayFail>>

\* Nobody listens; the exception ends the thread.
Refused(r) ==
    /\ thread[r] = "connecting" /\ ~alive
    /\ thread' = [thread EXCEPT ![r] = "ended"]
    /\ UNCHANGED <<outputLen, copiedLen, arrived, sent, queue, serving, reply, alive, mayFail>>

\* sendall, a segment at a time.
Send(r) ==
    /\ thread[r] = "sending" /\ reply[r] # Closed
    /\ sent' = [sent EXCEPT ![r] = @ + 1]
    /\ arrived' = [arrived EXCEPT ![r] = @ + 1]
    /\ thread' = IF sent[r] + 1 = Size[r] THEN [thread EXCEPT ![r] = "receiving"]
                 ELSE thread
    /\ UNCHANGED <<outputLen, copiedLen, queue, serving, reply, alive, mayFail>>

\* Mutant: the answer is written only while there is no group.
EndBeforeGroup(r, len) ==
    /\ thread' = [thread EXCEPT ![r] = "ended"]
    /\ outputLen' = IF len # 0 /\ copiedLen[r] = Unset
                    THEN [outputLen EXCEPT ![r] = len] ELSE outputLen
    /\ UNCHANGED <<copiedLen, arrived, sent, queue, serving, reply, alive, mayFail>>

\* What the thread does with the length it has: 0 is ignored.
EndWith(r, len) ==
    /\ thread' = [thread EXCEPT ![r] = "ended"]
    /\ outputLen' = IF len # 0 THEN [outputLen EXCEPT ![r] = len] ELSE outputLen
    /\ UNCHANGED <<copiedLen, arrived, sent, queue, serving, reply, alive, mayFail>>

ReceiveReply(r) ==
    /\ thread[r] = "receiving" /\ reply[r] >= 0
    /\ EndWith(r, reply[r])

\* The connection was closed: no data, or a socket error.
NoReply(r) ==
    /\ thread[r] \in {"sending", "receiving"} /\ reply[r] = Closed
    /\ EndWith(r, DefaultLen)

-----------------------------------------------------------------------------
(* The prediction server: start_client, handle_request.                    *)

Accept ==
    /\ alive /\ serving = Nobody /\ queue # <<>>
    /\ serving' = Head(queue)
    /\ queue' = Tail(queue)
    /\ UNCHANGED <<thread, outputLen, copiedLen, arrived, sent, reply, alive, mayFail>>

Least2(a, b) == IF a <= b THEN a ELSE b

\* Mutant: the parts of a prompt are predicted for what they are.
ReplyToPart(r) ==
    LET read == Least2(arrived[r], Chunk)
    IN {IF read = Size[r] THEN Answer[r] ELSE read}
         \cup (IF mayFail THEN {Closed} ELSE {})

\* The reply after one recv; an exception is caught and the connection closed.
Reply(r) ==
    LET read == Least2(arrived[r], Chunk)
    IN (IF read = Size[r] THEN {Answer[r]} ELSE {Closed})
         \cup (IF mayFail THEN {Closed} ELSE {})

\* Mutant: an exception leaves the connection open.
HandleOrForget(r) ==
    /\ alive /\ serving = r /\ arrived[r] > 0
    /\ \E answer \in Reply(r) :
         reply' = [reply EXCEPT ![r] = IF answer = Closed THEN @ ELSE answer]
    /\ arrived' = [arrived EXCEPT ![r] = @ - Least2(@, Chunk)]
    /\ serving' = Nobody
    /\ UNCHANGED <<thread, outputLen, copiedLen, sent, queue, alive, mayFail>>

HandleRequest(r) ==
    /\ alive /\ serving = r /\ arrived[r] > 0
    /\ \E answer \in Reply(r) : reply' = [reply EXCEPT ![r] = answer]
    /\ arrived' = [arrived EXCEPT ![r] = @ - Least2(@, Chunk)]
    /\ serving' = Nobody
    /\ UNCHANGED <<thread, outputLen, copiedLen, sent, queue, alive, mayFail>>

\* The process dies, and its connections with it.
Die ==
    /\ mayFail /\ alive
    /\ alive' = FALSE
    /\ reply' = [r \in Requests |-> IF reply[r] = Open THEN Closed ELSE reply[r]]
    /\ queue' = <<>>
    /\ serving' = Nobody
    /\ UNCHANGED <<thread, outputLen, copiedLen, arrived, sent, mayFail>>

ThreadStep(r) == Connect(r) \/ Refused(r) \/ Send(r) \/ ReceiveReply(r) \/ NoReply(r)

Next ==
    \/ \E r \in Requests : \/ StartPrediction(r) \/ MakeGroup(r)
                           \/ ThreadStep(r) \/ HandleRequest(r)
    \/ Accept
    \/ Die

\* Threads are scheduled, and the server's loop runs while its process does.
Spec ==
    /\ Init /\ [][Next]_vars
    /\ \A r \in Requests : WF_vars(ThreadStep(r)) /\ WF_vars(HandleRequest(r))
    /\ WF_vars(Accept)

-----------------------------------------------------------------------------
TypeOK ==
    /\ thread \in [Requests -> {"none", "connecting", "sending", "receiving", "ended"}]
    /\ outputLen \in [Requests -> Nat \cup {Unset}]
    /\ copiedLen \in [Requests -> Nat \cup {Unset}]
    /\ arrived \in [Requests -> Nat] /\ sent \in [Requests -> Nat]
    /\ \A r \in Requests : arrived[r] <= sent[r] /\ sent[r] <= Size[r]
    /\ queue \in Seq(Requests) /\ Len(queue) <= Backlog
    /\ serving \in Requests \cup {Nobody}
    /\ reply \in [Requests -> Nat \cup {Open, Closed}]
    /\ alive \in BOOLEAN /\ mayFail \in BOOLEAN

(* The length of a request, which the scheduler and the policy read at any  *)
(* time and the group copies at some time, is the default or the model's    *)
(* answer to this request's whole prompt, never another's, a part's or 0    *)
(* (server.py:67-90, prediction.py:32-48).                                  *)
LengthIsOwn ==
    \A r \in Requests : /\ outputLen[r] \in {Unset, DefaultLen, Answer[r]} \ {0}
                        /\ copiedLen[r] \in {Unset, DefaultLen, outputLen[r]}

(* No thread hangs: each ends, also when its prompt cannot be read, the     *)
(* model raises, or the prediction server dies (no time-out is set on       *)
(* either side, server.py:67-90).                                           *)
ThreadsEnd ==
    \A r \in Requests : (thread[r] = "connecting") ~> (thread[r] = "ended")

(* A server that does not die or raise serves all: a thread whose prompt is *)
(* one segment gets the model's answer however many others are served       *)
(* badly before it.                                                         *)
ShortIsPredicted ==
    \A r \in Requests : thread[r] = "ended" /\ Size[r] = 1 /\ ~mayFail /\ Answer[r] # 0 =>
        outputLen[r] = Answer[r]
=============================================================================
