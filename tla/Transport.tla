------------------------------ MODULE Transport ------------------------------
(***************************************************************************)
(* The HTTP transport and its dispatch (http.rs and jsonrpc.rs of          *)
(* crates/vyer-server): one thread accepts connections in turn, reads the  *)
(* head and the body of one request from each, runs it and replies.  No    *)
(* read has a timeout, so a client that stops in the middle of a request   *)
(* holds up all the others until it hangs up.                              *)
(***************************************************************************)
EXTENDS Naturals, Sequences, SequencesExt

CONSTANTS
    Clients,
    Methods,    \* of JSON-RPC
    Known,      \* those handle knows
    Requests    \* what a client may send

Nobody == "nobody"

ASSUME TransportAssumption ==
    /\ Nobody \notin Clients
    /\ Known \subseteq Methods
    /\ Requests \subseteq
        [post : BOOLEAN, token : BOOLEAN, json : BOOLEAN, id : BOOLEAN, method : Methods]

VARIABLES
    sends,      \* client -> its request
    sent,       \* client -> "nothing", "connected", "head", "whole", "gone"
    backlog,    \* connections not yet accepted, in order
    stage,      \* of the server: "accept", "head", "body"
    serving,    \* the client it serves, or Nobody
    reply,      \* client -> status and outcome, or NoReply
    ran         \* client -> the engine ran its request

transportVars == <<sends, sent, backlog, stage, serving, reply, ran>>

NoReply == [status |-> 0, outcome |-> "none"]

TransportInit ==
    /\ sends \in [Clients -> Requests]
    /\ sent = [c \in Clients |-> "nothing"]
    /\ backlog = <<>>
    /\ stage = "accept"
    /\ serving = Nobody
    /\ reply = [c \in Clients |-> NoReply]
    /\ ran = [c \in Clients |-> FALSE]

-----------------------------------------------------------------------------
(* Clients *)

Step(c, from, to) == sent[c] = from /\ sent' = [sent EXCEPT ![c] = to]

Connect(c) ==
    /\ Step(c, "nothing", "connected")
    /\ backlog' = Append(backlog, c)
    /\ UNCHANGED <<sends, stage, serving, reply, ran>>

SendHead(c) ==
    /\ Step(c, "connected", "head")
    /\ UNCHANGED <<sends, backlog, stage, serving, reply, ran>>

SendBody(c) ==
    /\ Step(c, "head", "whole")
    /\ UNCHANGED <<sends, backlog, stage, serving, reply, ran>>

HangUp(c) ==
    /\ sent[c] \in {"connected", "head"}
    /\ sent' = [sent EXCEPT ![c] = "gone"]
    /\ UNCHANGED <<sends, backlog, stage, serving, reply, ran>>

-----------------------------------------------------------------------------
(* The server *)

AcceptNext ==
    /\ stage = "accept"
    /\ backlog # <<>>
    /\ serving' = Head(backlog)
    /\ backlog' = Tail(backlog)
    /\ stage' = "head"
    /\ UNCHANGED <<sends, sent, reply, ran>>

Finish(status, outcome, engine) ==
    /\ stage' = "accept"
    /\ serving' = Nobody
    /\ reply' = [reply EXCEPT ![serving] =
                    IF sent[serving] = "gone" THEN NoReply ELSE [status |-> status, outcome |-> outcome]]
    /\ ran' = [ran EXCEPT ![serving] = engine]
    /\ UNCHANGED <<sends, sent, backlog>>

\* Of a client that hung up nothing more can be read: the connection is dropped.
Drop ==
    /\ stage # "accept"
    /\ sent[serving] = "gone"
    /\ Finish(0, "none", FALSE)

\* The method comes before the token.
ReadHead ==
    LET r == sends[serving]
    IN  /\ stage = "head"
        /\ sent[serving] \in {"head", "whole"}
        /\ IF ~r.post THEN Finish(405, "none", FALSE)
           ELSE IF ~r.token THEN Finish(401, "none", FALSE)
           ELSE /\ stage' = "body"
                /\ UNCHANGED <<sends, sent, backlog, serving, reply, ran>>

RunsAlways(r) == r.json /\ r.method \in Known

\* jsonrpc::handle: a message without an id is a notification and not run.
Runs(r) == r.json /\ r.id /\ r.method \in Known

Outcome(r) ==
    IF ~r.json THEN "parse error"
    ELSE IF ~r.id THEN "empty"
    ELSE IF r.method \in Known THEN "result"
    ELSE "method not found"

ReadBody ==
    /\ stage = "body"
    /\ sent[serving] = "whole"
    /\ Finish(200, Outcome(sends[serving]), Runs(sends[serving]))

ServerNext == AcceptNext \/ Drop \/ ReadHead \/ ReadBody

ClientNext(c) == Connect(c) \/ SendHead(c) \/ SendBody(c) \/ HangUp(c)

TransportNext == ServerNext \/ \E c \in Clients : ClientNext(c)

\* The server's thread runs; a client that began a request goes on with it, or
\* hangs up.
TransportFairness ==
    /\ WF_transportVars(ServerNext)
    /\ \A c \in Clients : WF_transportVars(SendHead(c) \/ SendBody(c) \/ HangUp(c))

TransportSpec == TransportInit /\ [][TransportNext]_transportVars /\ TransportFairness

-----------------------------------------------------------------------------
(* Properties *)

\* Every client gets the reply to its own request, and the engine runs what a
\* client sent with the token, by POST and with an id, and nothing else
\* (http.rs:7, jsonrpc.rs:30).
RepliesAreRight ==
    \A c \in Clients :
        LET r == sends[c]
        IN  /\ ran[c] => r.post /\ r.token /\ r.json /\ r.id
            /\ reply[c].status = 200 => r.post /\ r.token /\ (ran[c] <=> reply[c].outcome = "result")
            /\ reply[c].status = 401 => ~r.token
            /\ reply[c] # NoReply => c \notin ToSet(backlog) /\ c # serving

\* What a client's request calls for: the method is checked before the token,
\* and a notification is not answered (http.rs:7, jsonrpc.rs:30).
CalledFor(r) ==
    IF ~r.post THEN [status |-> 405, outcome |-> "none"]
    ELSE IF ~r.token THEN [status |-> 401, outcome |-> "none"]
    ELSE [status |-> 200,
          outcome |-> IF ~r.json THEN "parse error"
                      ELSE IF ~r.id THEN "empty"
                      ELSE IF r.method \in Known THEN "result" ELSE "method not found"]

\* A client's request seen as a call, which is open until it is replied to or
\* the client hangs up.
ClientCalls == INSTANCE Calls WITH
    Callers <- Clients,
    open    <- [c \in Clients |-> sent[c] \in {"connected", "head", "whole"} /\ reply[c] = NoReply],
    got     <- [c \in Clients |->
                    IF reply[c] = NoReply THEN "nothing"
                    ELSE IF reply[c] = CalledFor(sends[c]) THEN "answer" ELSE "other"]

\* Everyone who connects is served or leaves, however the others behave short
\* of stopping for ever (http.rs:37).
ClientsServed ==
    \A c \in Clients : (sent[c] # "nothing") ~> (reply[c] # NoReply \/ sent[c] = "gone")

=============================================================================
