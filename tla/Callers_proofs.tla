---------------------------- MODULE Callers_proofs ----------------------------
(***************************************************************************)
(* Proofs about the three ways a caller waits for an answer: a lookup in a *)
(* language server started for it, a request on a kept connection, and a   *)
(* request over HTTP.  Each part has its inductive invariant, and its      *)
(* steps map to those of the abstract call of Calls.                       *)
(***************************************************************************)
EXTENDS Lookup, WarmConn, Transport, TLAPS

-----------------------------------------------------------------------------
(***************************************************************************)
(* Proof that a lookup in a language server returns the answer to its      *)
(* references request or nothing, whatever else the server says and        *)
(* whenever it dies.                                                       *)
(***************************************************************************)

Said == [id : {0, Initialize, References}, kind : {"notice", "runaway", "ask", "answer", "error"}]

\* The worker has not asked for references yet.
NotAsked == worker \in {"start", "handshake", "open"}

\* The server answers a request once, and what it asked for references was
\* asked before it answered.
AnswersOnce ==
    /\ stdout \in Seq(Said)
    /\ NotAsked => References \notin received
    /\ \A i \in 1..Len(stdout) :
          stdout[i].id = References /\ stdout[i].kind = "answer"
              => ~NotAsked /\ References \notin received

\* What was found was found by a worker that has ended.
FoundAtTheEnd ==
    /\ found # Nothing => worker = "ended" /\ found = "answer" /\ References \notin received
    /\ result # Nothing => worker = "ended" /\ result = "answer" /\ References \notin received
    /\ caller = "waiting" => result = Nothing

LookupInv == AnswersOnce /\ FoundAtTheEnd

-----------------------------------------------------------------------------
LEMMA LookupInitInvariant == LookupInit => LookupInv
BY DEF LookupInit, LookupInv, AnswersOnce, FoundAtTheEnd, NotAsked

\* What the server says when it is not an answer, or when it is one to a
\* request it has.
LEMMA SayingIsSafe ==
    ASSUME NEW m \in Said, LookupInv, Say(m),
           UNCHANGED <<caller, worker, found, result>>,
           received' \subseteq received,
           m.id = References /\ m.kind = "answer" =>
               References \in received /\ References \notin received'
    PROVE  LookupInv'
<1>1. stdout' \in Seq(Said) /\ Len(stdout') = Len(stdout) + 1
  BY DEF Say, LookupInv, AnswersOnce
<1>2. \A i \in 1..Len(stdout') : stdout'[i] = IF i <= Len(stdout) THEN stdout[i] ELSE m
  BY DEF Say, LookupInv, AnswersOnce
<1>3. AnswersOnce'
  <2> SUFFICES ASSUME NEW i \in 1..Len(stdout'),
                      stdout'[i].id = References, stdout'[i].kind = "answer"
               PROVE  ~NotAsked' /\ References \notin received'
    BY <1>1 DEF LookupInv, AnswersOnce, NotAsked
  <2>1. CASE i <= Len(stdout)
    <3>1. i \in 1..Len(stdout) /\ stdout'[i] = stdout[i]
      BY <1>1, <1>2, <2>1
    <3> QED
      BY <3>1 DEF LookupInv, AnswersOnce, NotAsked
  <2>2. CASE ~(i <= Len(stdout))
    <3>1. stdout'[i] = m
      BY <1>2, <2>2
    <3> QED
      BY <3>1 DEF LookupInv, AnswersOnce, NotAsked
  <2> QED
    BY <2>1, <2>2
<1> QED
  BY <1>3 DEF LookupInv, FoundAtTheEnd

LEMMA LookupNextInvariant ==
    ASSUME LookupInv, [LookupNext]_lookupVars
    PROVE  LookupInv'
<1> USE DEF LookupInv, AnswersOnce, FoundAtTheEnd, NotAsked
<1>1. CASE Spawn
  BY <1>1 DEF Spawn
<1>2. CASE Receive
  BY <1>2 DEF Receive
<1>3. CASE TimeOut
  BY <1>3 DEF TimeOut
<1>4. CASE Kill
  BY <1>4 DEF Kill
<1>5. CASE Join
  BY <1>5 DEF Join
<1>6. CASE SendInitialize
  BY <1>6 DEF SendInitialize, EndWith, Initialize, References, Nothing
<1>7. CASE SendReferences
  BY <1>7 DEF SendReferences, EndWith, References, Nothing
<1>8. CASE ReadMessage
  <2> DEFINE m == Head(stdout)
  <2>1. /\ stdout # <<>>
        /\ stdout' = Tail(stdout)
        /\ m = stdout[1]
        /\ m \in Said
        /\ stdout' \in Seq(Said)
        /\ Len(stdout') = Len(stdout) - 1
        /\ \A i \in 1..Len(stdout') : stdout'[i] = stdout[i + 1] /\ i + 1 \in 1..Len(stdout)
        /\ 1 \in 1..Len(stdout)
    BY <1>8 DEF ReadMessage
  <2>2. worker \in {"handshake", "references"} /\ UNCHANGED <<received, result>>
    BY <1>8 DEF ReadMessage
  <2>3. found = Nothing /\ result = Nothing
    BY <2>2
  <2>4. \/ EndWith(Nothing)
        \/ worker = "handshake" /\ worker' = "open" /\ UNCHANGED found
        \/ /\ m.id = References /\ worker = "references"
           /\ EndWith(ParseReferences(m))
        \/ UNCHANGED <<worker, found>>
    BY <1>8 DEF ReadMessage
  <2>5. CASE m.id = References /\ worker = "references" /\ EndWith(ParseReferences(m))
    <3>1. CASE m.kind = "answer"
      <4>1. References \notin received
        BY <2>1, <2>5, <3>1
      <4> QED
        BY <2>1, <2>2, <2>3, <2>5, <3>1, <4>1 DEF EndWith, ParseReferences
    <3>2. CASE m.kind # "answer"
      BY <2>1, <2>2, <2>3, <2>5, <3>2 DEF EndWith, ParseReferences
    <3> QED
      BY <3>1, <3>2
  <2>6. CASE EndWith(Nothing)
    BY <2>1, <2>2, <2>3, <2>6 DEF EndWith
  <2>7. CASE worker = "handshake" /\ worker' = "open" /\ UNCHANGED found
    BY <2>1, <2>2, <2>3, <2>7
  <2>8. CASE UNCHANGED <<worker, found>>
    BY <2>1, <2>2, <2>3, <2>8
  <2> QED
    BY <2>4, <2>5, <2>6, <2>7, <2>8
<1>9. CASE ReadEnd
  BY <1>9 DEF ReadEnd, EndWith, Nothing
<1>10. ASSUME NEW id \in {Initialize, References}, NEW kind \in {"answer", "error"},
              Answer(id, kind)
       PROVE  LookupInv'
  <2>1. [id |-> id, kind |-> kind] \in Said
    BY DEF Said
  <2> HIDE DEF LookupInv
  <2> QED
    BY <1>10, <2>1, SayingIsSafe DEF Answer
<1>11. ASSUME NEW m \in Interjections, Interject(m)
       PROVE  LookupInv'
  <2>1. m \in Said /\ m.kind # "answer"
    BY DEF Said, Interjections
  <2> HIDE DEF LookupInv
  <2> QED
    BY <1>11, <2>1, SayingIsSafe DEF Interject
<1>12. CASE Die
  BY <1>12 DEF Die
<1>13. CASE UNCHANGED lookupVars
  BY <1>13 DEF lookupVars
<1> QED
  BY <1>1, <1>2, <1>3, <1>4, <1>5, <1>6, <1>7, <1>8, <1>9, <1>10, <1>11, <1>12, <1>13
     DEF LookupNext, WorkerNext

-----------------------------------------------------------------------------
(* A lookup is a call. *)

Result == IF result = Nothing THEN "nothing" ELSE IF result = "answer" THEN "answer" ELSE "other"

\* What may happen to a lookup, in the words of Calls.
LEMMA LookupIsACall ==
    ASSUME \/ (caller' # "idle" <=> caller # "idle") /\ Result' = Result
           \/ caller = "idle" /\ Result' = "nothing"
           \/ caller # "idle" /\ Result = "nothing" /\ Result' = "answer"
           \/ caller # "idle" /\ caller' = "idle" /\ Result' = Result
    PROVE  [LookupCalls!Next]_(LookupCalls!vars)
<1> DEFINE open == [c \in {"lookup"} |-> caller # "idle"]
           got  == [c \in {"lookup"} |-> Result]
<1>1. [c \in {"lookup"} |->
          IF result = Nothing THEN "nothing"
          ELSE IF result = "answer" THEN "answer" ELSE "other"] = got
  BY DEF Result
<1>2. /\ open' = [open EXCEPT !["lookup"] = caller' # "idle"]
      /\ got' = [got EXCEPT !["lookup"] = Result']
      /\ open["lookup"] = (caller # "idle") /\ got["lookup"] = Result
      /\ (caller' # "idle") \in BOOLEAN
  OBVIOUS
<1>3. CASE (caller' # "idle" <=> caller # "idle") /\ Result' = Result
  BY <1>3 DEF LookupCalls!vars, Result
<1>4. CASE caller = "idle" /\ Result' = "nothing"
  BY <1>2, <1>4 DEF LookupCalls!Next, LookupCalls!Ask, LookupCalls!Nothing, Result
<1>5. CASE caller # "idle" /\ Result = "nothing" /\ Result' = "answer"
  BY <1>2, <1>5 DEF LookupCalls!Next, LookupCalls!Get, LookupCalls!Nothing, LookupCalls!Answer, Result
<1>6. CASE caller # "idle" /\ caller' = "idle" /\ Result' = Result
  BY <1>2, <1>6 DEF LookupCalls!Next, LookupCalls!Leave, Result
<1> QED
  BY <1>3, <1>4, <1>5, <1>6

LEMMA LookupStepIsACall ==
    ASSUME LookupInv, LookupInv', [LookupNext]_lookupVars
    PROVE  [LookupCalls!Next]_(LookupCalls!vars)
<1>1. CASE Spawn
  BY <1>1, LookupIsACall DEF Spawn, Result
<1>2. CASE Receive
  <2>1. caller # "idle" /\ caller' # "idle" /\ result = Nothing
    BY <1>2 DEF Receive, LookupInv, FoundAtTheEnd
  <2>2. result' = Nothing \/ result' = "answer"
    BY DEF LookupInv, FoundAtTheEnd
  <2> QED
    BY <2>1, <2>2, LookupIsACall DEF Result
<1>3. CASE Join
  BY <1>3, LookupIsACall DEF Join, Result
<1>4. CASE (caller' # "idle" <=> caller # "idle") /\ UNCHANGED result
  BY <1>4, LookupIsACall DEF Result
<1>5. CASE TimeOut \/ Kill \/ WorkerNext \/ Die \/ UNCHANGED lookupVars
  <2>1. (caller' # "idle" <=> caller # "idle") /\ UNCHANGED result
    BY <1>5 DEF TimeOut, Kill, WorkerNext, Die, lookupVars,
                SendInitialize, SendReferences, ReadMessage, ReadEnd
  <2> QED
    BY <1>4, <2>1
<1>6. ASSUME NEW id \in {Initialize, References}, NEW kind \in {"answer", "error"},
             Answer(id, kind)
      PROVE  [LookupCalls!Next]_(LookupCalls!vars)
  BY <1>4, <1>6 DEF Answer
<1>7. ASSUME NEW m \in Interjections, Interject(m)
      PROVE  [LookupCalls!Next]_(LookupCalls!vars)
  BY <1>4, <1>7 DEF Interject
<1> QED
  BY <1>1, <1>2, <1>3, <1>5, <1>6, <1>7 DEF LookupNext

LEMMA LookupStartsAsACall == LookupInit => LookupCalls!Init
BY DEF LookupInit, LookupCalls!Init, LookupCalls!Nothing

-----------------------------------------------------------------------------
\* A lookup comes back with the answer to its references request, or with
\* nothing.
THEOREM LookupsAreAnswered == LookupSpec => []LookupIsAnswer
<1>1. LookupInv => LookupIsAnswer
  BY DEF LookupInv, FoundAtTheEnd, LookupIsAnswer
<1>2. LookupInv /\ [LookupNext]_lookupVars => LookupInv'
  BY LookupNextInvariant
<1> QED
  BY <1>1, <1>2, LookupInitInvariant, PTL DEF LookupSpec

-----------------------------------------------------------------------------
(***************************************************************************)
(* Proof that a kept connection never returns an old answer, for any       *)
(* number of requests, late answers and notices.                           *)
(*                                                                         *)
(* What arrives late stays in the channel, so an answer to an earlier      *)
(* request may be the next message a request takes.  Ids are never used    *)
(* twice: the id of every message tells the request it belongs to.         *)
(***************************************************************************)

\* Messages whose id tells their request; a notice has neither.
Matched == {m \in [id : Nat, call : Nat] : m.id = m.call}

\* While a request waits nothing has been returned to it.
Waits == waiting \in BOOLEAN /\ (waiting => returned = NoMessage)

ConnInv ==
    /\ requests \in Nat
    /\ next_id = requests
    /\ channel \in Seq(Matched)
    /\ output \in Seq(Matched)
    /\ pending \subseteq Matched
    /\ returned \in Matched
    /\ Waits
    /\ AnswerIsMine

-----------------------------------------------------------------------------
LEMMA NoMessageMatched == NoMessage \in Matched
BY DEF NoMessage, Matched

LEMMA ConnInitInvariant == ConnInit => ConnInv
<1>1. ConnInit => Waits
  BY Zenon DEF ConnInit, Waits
<1> QED
  BY <1>1, NoMessageMatched DEF ConnInit, ConnInv, AnswerIsMine

\* A message that is taken off the front of a sequence is one of its messages.
LEMMA FrontOf ==
    ASSUME NEW s \in Seq(Matched), s # <<>>
    PROVE  Head(s) \in Matched /\ Tail(s) \in Seq(Matched)
OBVIOUS

LEMMA ConnNextInvariant ==
    ASSUME ConnInv, [ConnNext]_connVars
    PROVE  ConnInv'
<1>0. Waits'
  <2>1. waiting \in BOOLEAN /\ (waiting => returned = NoMessage)
    BY DEF ConnInv, Waits
  <2>2. CASE Request
    <3>1. returned' = NoMessage
      BY <2>2 DEF Request
    <3>2. waiting' = TRUE \/ waiting' = waiting
      BY <2>2 DEF Request
    <3> QED
      BY <2>1, <3>1, <3>2 DEF Waits
  <2>3. CASE Take
    <3>1. waiting' = FALSE \/ (waiting' = waiting /\ returned' = returned)
      BY <2>3 DEF Take, Return
    <3>2. CASE waiting' = FALSE
      BY <3>2 DEF Waits
    <3>3. CASE waiting' = waiting /\ returned' = returned
      BY <2>1, <3>3 DEF Waits
    <3> QED
      BY <3>1, <3>2, <3>3
  <2>4. CASE GiveUp
    <3>1. waiting' = FALSE
      BY <2>4 DEF GiveUp, Return
    <3> QED
      BY <3>1 DEF Waits
  <2>5. CASE Pump \/ StopPump \/ (\E p \in pending : Reply(p)) \/ Notice \/ Exit
             \/ UNCHANGED connVars
    <3>1. waiting' = waiting /\ returned' = returned
      BY <2>5 DEF Pump, StopPump, Reply, Notice, Exit, connVars
    <3> QED
      BY <2>1, <3>1 DEF Waits
  <2> QED
    BY <2>2, <2>3, <2>4, <2>5 DEF ConnNext
<1>1. CASE Request
  <2>1. requests' = requests + 1 /\ next_id' = requests' /\ requests' \in Nat
    BY <1>1 DEF Request, Fresh, ConnInv
  <2>2. pending' \subseteq Matched
    <3>1. [id |-> next_id', call |-> requests'] \in Matched
      BY <2>1 DEF Matched
    <3> QED
      BY <1>1, <3>1 DEF Request, ConnInv
  <2>3. returned' = NoMessage
    BY <1>1 DEF Request
  <2> QED
    BY <1>0, <1>1, <2>1, <2>2, <2>3, NoMessageMatched DEF Request, ConnInv, AnswerIsMine
<1>2. CASE Take
  <2>1. Head(channel) \in Matched /\ channel' \in Seq(Matched)
    BY <1>2, FrontOf DEF Take, ConnInv
  <2>2. UNCHANGED <<next_id, requests, output, pending>>
    BY <1>2 DEF Take
  <2>3. CASE Head(channel).id = next_id
    <3>1. returned' = Head(channel)
      BY <1>2, <2>3 DEF Take, Return
    <3>2. returned'.call = requests'
      BY <2>1, <2>2, <2>3, <3>1 DEF Matched, ConnInv
    <3> QED
      BY <1>0, <2>1, <2>2, <3>1, <3>2 DEF ConnInv, AnswerIsMine
  <2>4. CASE Head(channel).id # next_id
    BY <1>0, <1>2, <2>1, <2>2, <2>4 DEF Take, ConnInv, AnswerIsMine
  <2> QED
    BY <2>3, <2>4
<1>3. CASE GiveUp
  BY <1>0, <1>3, NoMessageMatched DEF GiveUp, Return, ConnInv, AnswerIsMine
<1>4. CASE Pump
  <2>1. Head(output) \in Matched /\ output' \in Seq(Matched)
    BY <1>4, FrontOf DEF Pump, ConnInv
  <2>2. channel' \in Seq(Matched)
    BY <1>4, <2>1 DEF Pump, ConnInv
  <2> QED
    BY <1>0, <1>4, <2>1, <2>2 DEF Pump, ConnInv, AnswerIsMine
<1>5. CASE StopPump
  BY <1>0, <1>5 DEF StopPump, ConnInv, AnswerIsMine
<1>6. ASSUME NEW p \in pending, Reply(p)
      PROVE  ConnInv'
  <2>1. p \in Matched
    BY DEF ConnInv
  <2>2. output' \in Seq(Matched)
    BY <1>6, <2>1 DEF Reply, ConnInv
  <2> QED
    BY <1>0, <1>6, <2>2 DEF Reply, ConnInv, AnswerIsMine
<1>7. CASE Notice
  <2>1. output' \in Seq(Matched)
    BY <1>7, NoMessageMatched DEF Notice, ConnInv
  <2> QED
    BY <1>0, <1>7, <2>1 DEF Notice, ConnInv, AnswerIsMine
<1>8. CASE Exit
  BY <1>0, <1>8 DEF Exit, ConnInv, AnswerIsMine
<1>9. CASE UNCHANGED connVars
  BY <1>0, <1>9 DEF connVars, ConnInv, AnswerIsMine
<1> QED
  BY <1>1, <1>2, <1>3, <1>4, <1>5, <1>6, <1>7, <1>8, <1>9 DEF ConnNext

-----------------------------------------------------------------------------
(* A request is a call. *)

Received == IF returned = NoMessage THEN "nothing"
       ELSE IF returned.call = requests THEN "answer" ELSE "other"

\* What may happen to a request, in the words of Calls.
LEMMA RequestIsACall ==
    ASSUME waiting \in BOOLEAN, waiting' \in BOOLEAN,
           \/ waiting' = waiting /\ Received' = Received
           \/ ~waiting /\ Received' = "nothing"
           \/ waiting /\ Received = "nothing" /\ Received' = "answer"
           \/ waiting /\ ~waiting' /\ Received' = Received
    PROVE  [ConnCalls!Next]_(ConnCalls!vars)
<1> DEFINE open == [c \in {"request"} |-> waiting]
           got  == [c \in {"request"} |-> Received]
<1>1. /\ open' = [open EXCEPT !["request"] = waiting']
      /\ got' = [got EXCEPT !["request"] = Received']
      /\ open["request"] = waiting /\ got["request"] = Received
  OBVIOUS
<1>2. CASE waiting' = waiting /\ Received' = Received
  BY <1>2 DEF ConnCalls!vars, Received
<1>3. CASE ~waiting /\ Received' = "nothing"
  BY <1>1, <1>3 DEF ConnCalls!Next, ConnCalls!Ask, ConnCalls!Nothing, Received
<1>4. CASE waiting /\ Received = "nothing" /\ Received' = "answer"
  BY <1>1, <1>4 DEF ConnCalls!Next, ConnCalls!Get, ConnCalls!Nothing, ConnCalls!Answer, Received
<1>5. CASE waiting /\ ~waiting' /\ Received' = Received
  BY <1>1, <1>5 DEF ConnCalls!Next, ConnCalls!Leave, Received
<1> QED
  BY <1>2, <1>3, <1>4, <1>5

LEMMA ConnStepIsACall ==
    ASSUME ConnInv, ConnInv', [ConnNext]_connVars
    PROVE  [ConnCalls!Next]_(ConnCalls!vars)
<1>1. waiting \in BOOLEAN /\ waiting' \in BOOLEAN
  BY DEF ConnInv, Waits
<1>2. CASE Request
  BY <1>1, <1>2, RequestIsACall DEF Request, Received
<1>3. CASE Take
  <2>1. CASE Head(channel).id = next_id
    <3>1. waiting /\ ~waiting' /\ Received = "nothing"
      BY <1>3, <2>1 DEF Take, Return, ConnInv, Waits, Received
    <3>2. Received' = "nothing" \/ Received' = "answer"
      BY DEF ConnInv, AnswerIsMine, Received
    <3> QED
      BY <1>1, <3>1, <3>2, RequestIsACall
  <2>2. CASE Head(channel).id # next_id
    BY <1>1, <1>3, <2>2, RequestIsACall DEF Take, Received
  <2> QED
    BY <2>1, <2>2
<1>4. CASE GiveUp
  <2>1. waiting /\ ~waiting' /\ Received = "nothing" /\ Received' = "nothing"
    BY <1>4 DEF GiveUp, Return, ConnInv, Waits, Received
  <2> QED
    BY <1>1, <2>1, RequestIsACall
<1>5. CASE UNCHANGED <<waiting, returned, requests>>
  BY <1>1, <1>5, RequestIsACall DEF Received
<1>6. CASE Pump \/ StopPump \/ (\E p \in pending : Reply(p)) \/ Notice \/ Exit
  BY <1>5, <1>6 DEF Pump, StopPump, Reply, Notice, Exit
<1>7. CASE UNCHANGED connVars
  BY <1>5, <1>7 DEF connVars
<1> QED
  BY <1>2, <1>3, <1>4, <1>6, <1>7 DEF ConnNext

LEMMA ConnStartsAsACall == ConnInit => ConnCalls!Init
BY DEF ConnInit, ConnCalls!Init, ConnCalls!Nothing

-----------------------------------------------------------------------------
\* What a request on a kept connection returns is the answer to it.
THEOREM AnswersAreMine == ConnSpec => []AnswerIsMine
<1>1. ConnInv => AnswerIsMine
  BY DEF ConnInv
<1>2. ConnInv /\ [ConnNext]_connVars => ConnInv'
  BY ConnNextInvariant
<1> QED
  BY <1>1, <1>2, ConnInitInvariant, PTL DEF ConnSpec

-----------------------------------------------------------------------------
(***************************************************************************)
(* Proof that each client of the HTTP transport gets the reply to its own  *)
(* request and that nothing runs without the token, for any number of      *)
(* clients that connect, stall and hang up in any order.                   *)
(***************************************************************************)

Outcomes == {"none", "parse error", "empty", "result", "method not found"}

Replies == [status : {0, 200, 401, 405}, outcome : Outcomes]

TransportTyped ==
    /\ sends \in [Clients -> Requests]
    /\ sent \in [Clients -> {"nothing", "connected", "head", "whole", "gone"}]
    /\ backlog \in Seq(Clients)
    /\ stage \in {"accept", "head", "body"}
    /\ reply \in [Clients -> Replies]
    /\ ran \in [Clients -> BOOLEAN]

\* A client that has not connected, waits or is served has no reply yet.
NoneYet(c) == ~ran[c] /\ reply[c] = NoReply

\* A connection is in one place: waiting, once, or served.
OnePlace ==
    /\ stage = "accept" <=> serving = Nobody
    /\ stage # "accept" => serving \in Clients /\ NoneYet(serving) /\ sent[serving] # "nothing"
    /\ \A i \in 1..Len(backlog) :
          /\ NoneYet(backlog[i])
          /\ sent[backlog[i]] # "nothing"
          /\ backlog[i] # serving
          /\ \A j \in 1..Len(backlog) : backlog[i] = backlog[j] => i = j
    /\ \A c \in Clients : sent[c] = "nothing" => NoneYet(c)

\* The head of a request is checked before its body is read.
HeadChecked == stage = "body" => sends[serving].post /\ sends[serving].token

\* What was replied fits what was sent.
ReplyFits(c) ==
    /\ ran[c] => sends[c].post /\ sends[c].token /\ sends[c].json /\ sends[c].id
    /\ reply[c].status = 200 =>
          sends[c].post /\ sends[c].token /\ (ran[c] <=> reply[c].outcome = "result")
    /\ reply[c].status = 401 => ~sends[c].token

TransportInv ==
    /\ TransportTyped
    /\ OnePlace
    /\ HeadChecked
    /\ \A c \in Clients : ReplyFits(c)

-----------------------------------------------------------------------------
LEMMA TransportInitInvariant == TransportInit => TransportInv
<1> SUFFICES ASSUME TransportInit
             PROVE  TransportInv
  OBVIOUS
<1>1. NoReply \in Replies /\ NoReply.status = 0
  BY DEF NoReply, Replies, Outcomes
<1>2. TransportTyped
  BY <1>1 DEF TransportInit, TransportTyped
<1>3. OnePlace
  BY DEF TransportInit, OnePlace, NoneYet
<1>4. HeadChecked
  BY DEF TransportInit, HeadChecked
<1>5. \A c \in Clients : ReplyFits(c)
  BY <1>1 DEF TransportInit, ReplyFits
<1> QED
  BY <1>2, <1>3, <1>4, <1>5 DEF TransportInv

\* A client that waits or goes on leaves what the server has done alone.
LEMMA ClientKeeps ==
    ASSUME TransportInv, NEW c \in Clients,
           UNCHANGED <<sends, backlog, stage, serving, reply, ran>>,
           sent[c] # "nothing",
           NEW to \in {"head", "whole", "gone"},
           sent' = [sent EXCEPT ![c] = to]
    PROVE  TransportInv'
<1>1. TransportTyped'
  BY DEF TransportInv, TransportTyped
<1>2. \A d \in Clients : sent'[d] = "nothing" <=> sent[d] = "nothing"
  BY DEF TransportInv, TransportTyped
<1>3. \A i \in 1..Len(backlog) : backlog[i] \in Clients
  BY DEF TransportInv, TransportTyped
<1>4. OnePlace'
  BY <1>2, <1>3 DEF TransportInv, OnePlace, NoneYet
<1> QED
  BY <1>1, <1>4 DEF TransportInv, HeadChecked, ReplyFits

LEMMA ConnectKeeps ==
    ASSUME TransportInv, NEW c \in Clients, Connect(c)
    PROVE  TransportInv'
<1>1. TransportTyped'
  BY DEF TransportInv, TransportTyped, Connect, Step
<1>2. /\ UNCHANGED <<sends, stage, serving, reply, ran>>
      /\ sent[c] = "nothing" /\ NoneYet(c)
      /\ \A d \in Clients : sent'[d] = IF d = c THEN "connected" ELSE sent[d]
  BY DEF TransportInv, TransportTyped, OnePlace, Connect, Step
<1>3. /\ Len(backlog') = Len(backlog) + 1
      /\ \A i \in 1..Len(backlog') :
            backlog'[i] = IF i <= Len(backlog) THEN backlog[i] ELSE c
      /\ \A i \in 1..Len(backlog) : backlog[i] \in Clients /\ backlog[i] # c
      /\ c # serving
  BY <1>2, TransportAssumption DEF TransportInv, TransportTyped, OnePlace, Connect
<1>4. OnePlace'
  <2>1. /\ stage' = "accept" <=> serving' = Nobody
        /\ stage' # "accept" =>
              serving' \in Clients /\ NoneYet(serving)' /\ sent'[serving'] # "nothing"
        /\ \A d \in Clients : sent'[d] = "nothing" => NoneYet(d)'
    BY <1>2, <1>3 DEF TransportInv, OnePlace, NoneYet
  <2>2. ASSUME NEW i \in 1..Len(backlog')
        PROVE  /\ NoneYet(backlog[i])'
               /\ sent'[backlog'[i]] # "nothing"
               /\ backlog'[i] # serving'
               /\ \A j \in 1..Len(backlog') : backlog'[i] = backlog'[j] => i = j
    <3>1. Len(backlog) \in Nat
      BY DEF TransportInv, TransportTyped
    <3>2. CASE i <= Len(backlog)
      <4>1. i \in 1..Len(backlog) /\ backlog'[i] = backlog[i]
        BY <1>3, <3>1, <3>2
      <4> QED
        BY <1>2, <1>3, <3>1, <4>1 DEF TransportInv, OnePlace, NoneYet
    <3>3. CASE ~(i <= Len(backlog))
      <4>1. i = Len(backlog) + 1 /\ backlog'[i] = c
        BY <1>3, <3>1, <3>3
      <4> QED
        BY <1>2, <1>3, <3>1, <4>1 DEF NoneYet
    <3> QED
      BY <3>2, <3>3
  <2> QED
    BY <2>1, <2>2 DEF OnePlace
<1>5. HeadChecked' /\ \A d \in Clients : ReplyFits(d)'
  BY <1>2 DEF TransportInv, HeadChecked, ReplyFits
<1> QED
  BY <1>1, <1>4, <1>5 DEF TransportInv

LEMMA AcceptKeeps ==
    ASSUME TransportInv, AcceptNext
    PROVE  TransportInv'
<1>1. /\ UNCHANGED <<sends, sent, reply, ran>>
      /\ stage' = "head"
      /\ serving' = backlog[1]
      /\ 1 \in 1..Len(backlog)
      /\ backlog[1] \in Clients
      /\ Len(backlog') = Len(backlog) - 1
      /\ \A i \in 1..Len(backlog') : backlog'[i] = backlog[i + 1] /\ i + 1 \in 1..Len(backlog)
      /\ backlog' \in Seq(Clients)
      /\ Len(backlog) \in Nat
  BY DEF AcceptNext, TransportInv, TransportTyped
<1>2. OnePlace'
  <2>1. /\ serving' \in Clients /\ serving' # Nobody
        /\ NoneYet(serving)' /\ sent'[serving'] # "nothing"
    BY <1>1, TransportAssumption DEF TransportInv, OnePlace, NoneYet
  <2>2. ASSUME NEW i \in 1..Len(backlog')
        PROVE  /\ NoneYet(backlog[i])'
               /\ sent'[backlog'[i]] # "nothing"
               /\ backlog'[i] # serving'
               /\ \A j \in 1..Len(backlog') : backlog'[i] = backlog'[j] => i = j
    BY <1>1 DEF TransportInv, OnePlace, NoneYet
  <2>3. \A c \in Clients : sent'[c] = "nothing" => NoneYet(c)'
    BY <1>1 DEF TransportInv, OnePlace, NoneYet
  <2> QED
    BY <1>1, <2>1, <2>2, <2>3 DEF OnePlace
<1> QED
  BY <1>1, <1>2 DEF TransportInv, TransportTyped, HeadChecked, ReplyFits

\* What may be told to a client that sent r.
May(r, status, outcome, engine) ==
    /\ engine => r.post /\ r.token /\ r.json /\ r.id
    /\ status = 200 => r.post /\ r.token /\ (engine <=> outcome = "result")
    /\ status = 401 => ~r.token

\* Whatever the client being served is told, if it fits, the rest stays.
LEMMA FinishKeeps ==
    ASSUME TransportInv, stage # "accept",
           NEW status \in {0, 200, 401, 405}, NEW outcome \in Outcomes,
           NEW engine \in BOOLEAN,
           Finish(status, outcome, engine),
           May(sends[serving], status, outcome, engine)
    PROVE  TransportInv'
<1>1. /\ serving \in Clients
      /\ stage' = "accept" /\ serving' = Nobody
      /\ UNCHANGED <<sends, sent, backlog>>
  BY DEF Finish, TransportInv, OnePlace
<1>2. /\ reply' \in [Clients -> Replies]
      /\ reply'[serving] \in {NoReply, [status |-> status, outcome |-> outcome]}
      /\ \A c \in Clients : c # serving => reply'[c] = reply[c]
  <2> DEFINE told == IF sent[serving] = "gone" THEN NoReply
                     ELSE [status |-> status, outcome |-> outcome]
  <2>1. reply' = [reply EXCEPT ![serving] = told]
    BY DEF Finish
  <2>2. told \in {NoReply, [status |-> status, outcome |-> outcome]} /\ told \in Replies
    BY DEF Replies, Outcomes, NoReply
  <2>3. reply \in [Clients -> Replies]
    BY DEF TransportInv, TransportTyped
  <2> HIDE DEF told
  <2> QED
    BY <1>1, <2>1, <2>2, <2>3
<1>3. /\ ran' \in [Clients -> BOOLEAN]
      /\ ran'[serving] = engine
      /\ \A c \in Clients : c # serving => ran'[c] = ran[c]
  BY <1>1 DEF Finish, TransportInv, TransportTyped
<1>4. TransportTyped'
  BY <1>1, <1>2, <1>3 DEF TransportInv, TransportTyped
<1>5. OnePlace'
  <2>1. \A i \in 1..Len(backlog) : backlog[i] \in Clients /\ backlog[i] # serving
    BY DEF TransportInv, TransportTyped, OnePlace
  <2>2. sent[serving] # "nothing"
    BY DEF TransportInv, OnePlace
  <2> QED
    BY <1>1, <1>2, <1>3, <2>1, <2>2, TransportAssumption DEF TransportInv, OnePlace, NoneYet
<1>6. ASSUME NEW c \in Clients
      PROVE  ReplyFits(c)'
  <2>1. CASE c = serving
    <3>1. CASE reply'[serving] = NoReply
      BY <1>1, <1>3, <2>1, <3>1 DEF ReplyFits, NoReply, May
    <3>2. CASE reply'[serving] = [status |-> status, outcome |-> outcome]
      BY <1>1, <1>3, <2>1, <3>2 DEF ReplyFits, May
    <3> QED
      BY <1>2, <3>1, <3>2
  <2>2. CASE c # serving
    BY <1>1, <1>2, <1>3, <2>2 DEF TransportInv, ReplyFits
  <2> QED
    BY <2>1, <2>2
<1> QED
  BY <1>1, <1>4, <1>5, <1>6 DEF TransportInv, HeadChecked

\* A request that is not run.
LEMMA RefuseKeeps ==
    ASSUME TransportInv, stage # "accept",
           NEW status \in {0, 401, 405},
           Finish(status, "none", FALSE),
           status = 401 => ~sends[serving].token
    PROVE  TransportInv'
<1>1. "none" \in Outcomes /\ FALSE \in BOOLEAN
  BY DEF Outcomes
<1>2. status \in {0, 200, 401, 405} /\ status # 200
  OBVIOUS
<1>3. May(sends[serving], status, "none", FALSE)
  BY <1>2 DEF May
<1>4. \A engine \in BOOLEAN :
          Finish(status, "none", engine) /\ May(sends[serving], status, "none", engine)
              => TransportInv'
  BY <1>1, <1>2, FinishKeeps
<1> QED
  BY <1>1, <1>3, <1>4

LEMMA TransportNextInvariant ==
    ASSUME TransportInv, [TransportNext]_transportVars
    PROVE  TransportInv'
<1>1. CASE AcceptNext
  BY <1>1, AcceptKeeps
<1>2. CASE Drop
  <2>1. stage # "accept" /\ Finish(0, "none", FALSE)
    BY <1>2 DEF Drop
  <2>2. 0 \in {0, 401, 405} /\ (0 = 401 => ~sends[serving].token)
    OBVIOUS
  <2> QED
    BY <2>1, <2>2, RefuseKeeps
<1>3. CASE ReadHead
  <2> DEFINE r == sends[serving]
  <2>1. stage = "head"
    BY <1>3 DEF ReadHead
  <2>2. CASE ~r.post
    <3>1. Finish(405, "none", FALSE)
      BY <1>3, <2>2 DEF ReadHead
    <3>2. 405 = 401 => ~sends[serving].token
      BY <2>2
    <3>3. stage # "accept" /\ 405 \in {0, 401, 405}
      BY <2>1
    <3> HIDE DEF r
    <3> QED
      BY <3>1, <3>2, <3>3, RefuseKeeps
  <2>3. CASE r.post /\ ~r.token
    <3>1. Finish(401, "none", FALSE)
      BY <1>3, <2>3 DEF ReadHead
    <3>2. 401 = 401 => ~sends[serving].token
      BY <2>3
    <3>3. stage # "accept" /\ 401 \in {0, 401, 405}
      BY <2>1
    <3> HIDE DEF r
    <3> QED
      BY <3>1, <3>2, <3>3, RefuseKeeps
  <2>4. CASE r.post /\ r.token
    <3>1. stage' = "body" /\ UNCHANGED <<sends, sent, backlog, serving, reply, ran>>
      BY <1>3, <2>4 DEF ReadHead
    <3> QED
      BY <2>1, <2>4, <3>1
         DEF TransportInv, TransportTyped, OnePlace, NoneYet, HeadChecked, ReplyFits
  <2> QED
    BY <2>2, <2>3, <2>4
<1>4. CASE ReadBody
  <2> DEFINE r == sends[serving]
  <2>1. r.post /\ r.token /\ r \in Requests /\ stage = "body"
    BY <1>4 DEF ReadBody, TransportInv, TransportTyped, OnePlace, HeadChecked
  <2>2. Runs(r) \in BOOLEAN /\ Outcome(r) \in Outcomes
    BY <2>1, TransportAssumption DEF Runs, Outcome, Outcomes
  <2>3. May(r, 200, Outcome(r), Runs(r))
    BY <2>1, TransportAssumption DEF Runs, Outcome, May
  <2>4. Finish(200, Outcome(r), Runs(r))
    BY <1>4 DEF ReadBody
  <2> QED
    BY <2>1, <2>2, <2>3, <2>4, FinishKeeps
<1>5. ASSUME NEW c \in Clients, ClientNext(c)
      PROVE  TransportInv'
  <2>1. CASE Connect(c)
    BY <2>1, ConnectKeeps
  <2>2. CASE SendHead(c)
    BY <2>2, ClientKeeps DEF SendHead, Step
  <2>3. CASE SendBody(c)
    BY <2>3, ClientKeeps DEF SendBody, Step
  <2>4. CASE HangUp(c)
    BY <2>4, ClientKeeps DEF HangUp
  <2> QED
    BY <1>5, <2>1, <2>2, <2>3, <2>4 DEF ClientNext
<1>6. CASE UNCHANGED transportVars
  BY <1>6 DEF transportVars, TransportInv, TransportTyped, OnePlace, NoneYet, HeadChecked, ReplyFits
<1> QED
  BY <1>1, <1>2, <1>3, <1>4, <1>5, <1>6 DEF TransportNext, ServerNext

-----------------------------------------------------------------------------
(* A client's request is a call. *)

Open(c) == sent[c] \in {"connected", "head", "whole"} /\ reply[c] = NoReply

Told(c) == IF reply[c] = NoReply THEN "nothing"
           ELSE IF reply[c] = CalledFor(sends[c]) THEN "answer" ELSE "other"

\* What may happen to the client whose turn it is, in the words of Calls.
LEMMA RequestsAreCalls ==
    ASSUME NEW c \in Clients,
           \A d \in Clients \ {c} : Open(d)' = Open(d) /\ Told(d)' = Told(d),
           \/ Open(c)' = Open(c) /\ Told(c)' = Told(c)
           \/ ~Open(c) /\ Told(c)' = "nothing"
           \/ Open(c) /\ Told(c) = "nothing" /\ Told(c)' = "answer"
           \/ Open(c) /\ ~Open(c)' /\ Told(c)' = Told(c)
    PROVE  [ClientCalls!Next]_(ClientCalls!vars)
<1> DEFINE open == [d \in Clients |-> Open(d)]
           got  == [d \in Clients |-> Told(d)]
<1>1. ClientCalls!vars = <<open, got>>
  BY DEF ClientCalls!vars, Open, Told
<1>2. ClientCalls!vars' = <<open', got'>>
  BY DEF ClientCalls!vars, Open, Told
<1>3. /\ open' = [open EXCEPT ![c] = Open(c)']
      /\ got' = [got EXCEPT ![c] = Told(c)']
      /\ open[c] = Open(c) /\ got[c] = Told(c)
      /\ Open(c)' \in BOOLEAN
  BY DEF Open
<1>4. CASE Open(c)' = Open(c) /\ Told(c)' = Told(c)
  <2>1. open' = open /\ got' = got
    BY <1>4
  <2> QED
    BY <1>1, <1>2, <2>1
<1>5. CASE ~Open(c) /\ Told(c)' = "nothing"
  <2>1. ClientCalls!Ask(c)
    BY <1>3, <1>5 DEF ClientCalls!Ask, ClientCalls!Nothing, Open, Told
  <2> QED
    BY <2>1 DEF ClientCalls!Next
<1>6. CASE Open(c) /\ Told(c) = "nothing" /\ Told(c)' = "answer"
  <2>1. ClientCalls!Get(c)
    BY <1>3, <1>6 DEF ClientCalls!Get, ClientCalls!Nothing, ClientCalls!Answer, Open, Told
  <2> QED
    BY <2>1 DEF ClientCalls!Next
<1>7. CASE Open(c) /\ ~Open(c)' /\ Told(c)' = Told(c)
  <2>1. ClientCalls!Leave(c)
    BY <1>3, <1>7 DEF ClientCalls!Leave, Open, Told
  <2> QED
    BY <2>1 DEF ClientCalls!Next
<1> QED
  BY <1>4, <1>5, <1>6, <1>7

\* Whoever is served and told what its request calls for was waiting for it.
LEMMA FinishIsACall ==
    ASSUME TransportInv, stage # "accept", sent[serving] # "gone",
           NEW status \in {200, 401, 405}, NEW outcome \in Outcomes, NEW engine \in BOOLEAN,
           Finish(status, outcome, engine),
           CalledFor(sends[serving]) = [status |-> status, outcome |-> outcome]
    PROVE  [ClientCalls!Next]_(ClientCalls!vars)
<1>1. PICK c \in Clients : c = serving /\ reply[c] = NoReply /\ sent[c] # "nothing"
  BY DEF TransportInv, OnePlace, NoneYet
<1> DEFINE told == [status |-> status, outcome |-> outcome]
<1>2. Open(c) /\ Told(c) = "nothing"
  BY <1>1 DEF TransportInv, TransportTyped, Open, Told
<1>3. UNCHANGED <<sends, sent>> /\ reply' = [reply EXCEPT ![c] = told]
  BY <1>1 DEF Finish
<1>4. told # NoReply /\ CalledFor(sends[c]) = told
  BY <1>1 DEF NoReply
<1>5. reply'[c] = told /\ \A d \in Clients \ {c} : reply'[d] = reply[d]
  BY <1>1, <1>3 DEF TransportInv, TransportTyped
<1> HIDE DEF told
<1>6. Told(c)' = "answer"
  BY <1>3, <1>4, <1>5 DEF Told
<1>7. \A d \in Clients \ {c} : Open(d)' = Open(d) /\ Told(d)' = Told(d)
  BY <1>3, <1>5 DEF Open, Told
<1> QED
  BY <1>1, <1>2, <1>6, <1>7, RequestsAreCalls

\* A request that is not run.
LEMMA RefuseIsACall ==
    ASSUME TransportInv, stage # "accept", sent[serving] # "gone",
           NEW status \in {401, 405},
           Finish(status, "none", FALSE),
           CalledFor(sends[serving]) = [status |-> status, outcome |-> "none"]
    PROVE  [ClientCalls!Next]_(ClientCalls!vars)
<1>1. "none" \in Outcomes /\ status \in {200, 401, 405}
  BY DEF Outcomes
<1>2. \A engine \in BOOLEAN :
          Finish(status, "none", engine) => [ClientCalls!Next]_(ClientCalls!vars)
  BY <1>1, FinishIsACall
<1> QED
  BY <1>2

LEMMA TransportStepIsACall ==
    ASSUME TransportInv, [TransportNext]_transportVars
    PROVE  [ClientCalls!Next]_(ClientCalls!vars)
<1>1. CASE UNCHANGED <<sends, sent, reply>>
  BY <1>1 DEF ClientCalls!vars, CalledFor
<1>2. CASE AcceptNext \/ UNCHANGED transportVars
  BY <1>1, <1>2 DEF AcceptNext, transportVars
<1>3. CASE Drop
  <2>1. sent[serving] = "gone" /\ serving \in Clients /\ reply[serving] = NoReply
    BY <1>3 DEF Drop, TransportInv, OnePlace, NoneYet
  <2>2. reply' = reply
    BY <1>3, <2>1 DEF Drop, Finish, TransportInv, TransportTyped
  <2> QED
    BY <1>1, <1>3, <2>2 DEF Drop, Finish
<1>4. CASE ReadHead
  <2> DEFINE r == sends[serving]
  <2>1. stage # "accept" /\ sent[serving] # "gone" /\ "none" \in Outcomes
    BY <1>4 DEF ReadHead, Outcomes
  <2>2. CASE ~r.post
    <3>1. Finish(405, "none", FALSE)
      BY <1>4, <2>2 DEF ReadHead
    <3>2. CalledFor(sends[serving]) = [status |-> 405, outcome |-> "none"]
      BY <2>2 DEF CalledFor
    <3> HIDE DEF r
    <3> QED
      BY <2>1, <3>1, <3>2, RefuseIsACall
  <2>3. CASE r.post /\ ~r.token
    <3>1. Finish(401, "none", FALSE)
      BY <1>4, <2>3 DEF ReadHead
    <3>2. CalledFor(sends[serving]) = [status |-> 401, outcome |-> "none"]
      BY <2>3 DEF CalledFor
    <3> HIDE DEF r
    <3> QED
      BY <2>1, <3>1, <3>2, RefuseIsACall
  <2>4. CASE r.post /\ r.token
    BY <1>1, <1>4, <2>4 DEF ReadHead
  <2> QED
    BY <2>2, <2>3, <2>4
<1>5. CASE ReadBody
  <2> DEFINE r == sends[serving]
  <2>1. stage # "accept" /\ sent[serving] # "gone"
    BY <1>5 DEF ReadBody
  <2>2. r.post /\ r.token
    BY <1>5 DEF ReadBody, TransportInv, HeadChecked
  <2>3. CalledFor(r) = [status |-> 200, outcome |-> Outcome(r)] /\ Outcome(r) \in Outcomes
    BY <2>2 DEF CalledFor, Outcome, Outcomes
  <2>4. Finish(200, Outcome(r), Runs(r)) /\ Runs(r) \in BOOLEAN
    BY <1>5, <2>2 DEF ReadBody, Runs, TransportInv, TransportTyped, OnePlace
  <2> QED
    BY <2>1, <2>3, <2>4, FinishIsACall
<1>6. ASSUME NEW c \in Clients, Connect(c)
      PROVE  [ClientCalls!Next]_(ClientCalls!vars)
  <2>1. ~Open(c) /\ reply[c] = NoReply
    BY <1>6 DEF Connect, Step, TransportInv, OnePlace, NoneYet, Open
  <2>2. Told(c)' = "nothing"
    BY <1>6, <2>1 DEF Connect, Told
  <2>3. \A d \in Clients \ {c} : Open(d)' = Open(d) /\ Told(d)' = Told(d)
    BY <1>6 DEF Connect, Step, Open, Told, CalledFor, TransportInv, TransportTyped
  <2> QED
    BY <2>1, <2>2, <2>3, RequestsAreCalls
<1>7. ASSUME NEW c \in Clients, SendHead(c) \/ SendBody(c)
      PROVE  [ClientCalls!Next]_(ClientCalls!vars)
  <2>1. \A d \in Clients : Open(d)' = Open(d)
    BY <1>7 DEF SendHead, SendBody, Step, Open, TransportInv, TransportTyped
  <2>2. \A d \in Clients : Told(d)' = Told(d)
    <3>1. sends' = sends /\ reply' = reply
      BY <1>7 DEF SendHead, SendBody
    <3> QED
      BY <3>1 DEF Told, CalledFor
  <2> QED
    BY <2>1, <2>2, RequestsAreCalls
<1>8. ASSUME NEW c \in Clients, HangUp(c)
      PROVE  [ClientCalls!Next]_(ClientCalls!vars)
  <2>1. \A d \in Clients : Told(d)' = Told(d)
    BY <1>8 DEF HangUp, Told, CalledFor
  <2>2. \A d \in Clients \ {c} : Open(d)' = Open(d)
    BY <1>8 DEF HangUp, Open, TransportInv, TransportTyped
  <2>3. ~Open(c)'
    BY <1>8 DEF HangUp, Open, TransportInv, TransportTyped
  <2>4. CASE Open(c)
    BY <2>1, <2>2, <2>3, <2>4, RequestsAreCalls
  <2>5. CASE ~Open(c)
    <3>1. Open(c)' = Open(c)
      BY <2>3, <2>5 DEF Open
    <3> QED
      BY <2>1, <2>2, <3>1, RequestsAreCalls
  <2> QED
    BY <2>4, <2>5
<1> QED
  BY <1>2, <1>3, <1>4, <1>5, <1>6, <1>7, <1>8 DEF TransportNext, ServerNext, ClientNext

LEMMA ClientsStartAsCalls == TransportInit => ClientCalls!Init
BY DEF TransportInit, ClientCalls!Init, ClientCalls!Nothing

-----------------------------------------------------------------------------
LEMMA InvariantImpliesRight == TransportInv => RepliesAreRight
<1> SUFFICES ASSUME TransportInv, NEW c \in Clients
             PROVE  /\ ReplyFits(c)
                    /\ reply[c] # NoReply => c \notin ToSet(backlog) /\ c # serving
  BY DEF RepliesAreRight, ReplyFits
<1>1. ReplyFits(c)
  BY DEF TransportInv
<1>2. reply[c] # NoReply => c # serving
  BY TransportAssumption DEF TransportInv, OnePlace, NoneYet
<1>3. reply[c] # NoReply => c \notin ToSet(backlog)
  <2>1. ASSUME NEW i \in DOMAIN backlog
        PROVE  i \in 1..Len(backlog)
    BY DEF TransportInv, TransportTyped
  <2> QED
    BY <2>1 DEF ToSet, TransportInv, OnePlace, NoneYet
<1> QED
  BY <1>1, <1>2, <1>3

\* Replies reach the clients they are for, and nothing runs for a client
\* without the token or for a notification.
THEOREM RepliesAlwaysRight == TransportSpec => []RepliesAreRight
<1>1. TransportInv /\ [TransportNext]_transportVars => TransportInv'
  BY TransportNextInvariant
<1> QED
  BY <1>1, InvariantImpliesRight, TransportInitInvariant, PTL DEF TransportSpec

=============================================================================
