-------------------------------- MODULE Lookup --------------------------------
(***************************************************************************)
(* A lookup of references in a language server (LspProvider::references_at *)
(* and lsp::drive_references in crates/vyer-server/src/semantic.rs): the   *)
(* server is a child process, a worker thread talks to it, and the caller  *)
(* waits for the worker, for so long, and kills the child.                 *)
(*                                                                         *)
(* The server may answer, be late, say other things in between, ask        *)
(* something of its own, not read what it is sent, or die; a process of    *)
(* its own, an heir, may keep the pipes open after it is killed.           *)
(***************************************************************************)
EXTENDS Naturals, Sequences

CONSTANT MaxInterjections       \* bound: messages that are not answers

ASSUME LookupAssumption == MaxInterjections \in Nat

VARIABLES
    caller,     \* "idle", "waiting", "leaving", "joining"
    worker,     \* "none", "start", "handshake", "open", "references", "ended"
    server,     \* "none", "up", "dead"
    deaf,       \* the server does not read: a large write to it blocks
    heir,       \* some other process holds its ends of the pipes
    received,   \* ids of the requests the server has and has not answered
    stdout,     \* messages the server wrote and the worker has not read
    noise,      \* number of messages that are no answers
    found,      \* what the worker came back with
    result      \* what the caller got

lookupVars == <<caller, worker, server, deaf, heir, received, stdout, noise, found, result>>

Nothing    == "none"
Initialize == 1
References == 2

LookupInit ==
    /\ caller = "idle"
    /\ worker = "none"
    /\ server = "none"
    /\ deaf = FALSE
    /\ heir = FALSE
    /\ received = {}
    /\ stdout = <<>>
    /\ noise = 0
    /\ found = Nothing
    /\ result = Nothing

-----------------------------------------------------------------------------
(* The caller *)

\* The child is started, and the worker.
Spawn ==
    /\ caller = "idle"
    /\ caller' = "waiting"
    /\ worker' = "start"
    /\ server' = "up"
    /\ deaf' \in BOOLEAN
    /\ heir' \in BOOLEAN
    /\ received' = {}
    /\ stdout' = <<>>
    /\ noise' = 0
    /\ found' = Nothing
    /\ result' = Nothing

Receive ==
    /\ caller = "waiting"
    /\ worker = "ended"
    /\ caller' = "leaving"
    /\ result' = found
    /\ UNCHANGED <<worker, server, deaf, heir, received, stdout, noise, found>>

\* recv_timeout has run out; a result that comes later is dropped.
TimeOut ==
    /\ caller = "waiting"
    /\ caller' = "leaving"
    /\ UNCHANGED <<worker, server, deaf, heir, received, stdout, noise, found, result>>

LeaveRunning ==
    /\ caller = "leaving"
    /\ caller' = "joining"
    /\ UNCHANGED <<worker, server, deaf, heir, received, stdout, noise, found, result>>

\* child.kill reaches the child only.
Kill ==
    /\ caller = "leaving"
    /\ caller' = "joining"
    /\ server' = "dead"
    /\ UNCHANGED <<worker, deaf, heir, received, stdout, noise, found, result>>

Join ==
    /\ caller = "joining"
    /\ worker = "ended"
    /\ caller' = "idle"
    /\ UNCHANGED <<worker, server, deaf, heir, received, stdout, noise, found, result>>

-----------------------------------------------------------------------------
(* The worker *)

PipesClosed == server = "dead" /\ ~heir

EndWith(value) == worker' = "ended" /\ found' = value

\* A short write does not wait for the reader; a closed pipe ends the worker.
SendInitialize ==
    /\ worker = "start"
    /\ IF PipesClosed
       THEN EndWith(Nothing) /\ UNCHANGED received
       ELSE /\ worker' = "handshake"
            /\ received' = received \cup {Initialize}
            /\ UNCHANGED found
    /\ UNCHANGED <<caller, server, deaf, heir, stdout, noise, result>>

\* The text of the file, then the request.
SendReferences ==
    /\ worker = "open"
    /\ PipesClosed \/ (server = "up" /\ ~deaf)
    /\ IF PipesClosed
       THEN EndWith(Nothing) /\ UNCHANGED received
       ELSE /\ worker' = "references"
            /\ received' = received \cup {References}
            /\ UNCHANGED found
    /\ UNCHANGED <<caller, server, deaf, heir, stdout, noise, result>>

ParseAnything(m) == m.kind

\* parse_references: a result, if the message is one.
ParseReferences(m) == IF m.kind = "answer" THEN "answer" ELSE Nothing

\* read_until_id: the first message with the id is taken, whatever it is.  A
\* message that exceeds the buffer, or bytes that are none, end the worker.
ReadMessage ==
    LET m == Head(stdout)
    IN  /\ worker \in {"handshake", "references"}
        /\ stdout # <<>>
        /\ stdout' = Tail(stdout)
        /\ CASE m.kind = "runaway" -> EndWith(Nothing)
             [] m.id = Initialize /\ worker = "handshake" -> worker' = "open" /\ UNCHANGED found
             [] m.id = References /\ worker = "references" -> EndWith(ParseReferences(m))
             [] OTHER -> UNCHANGED <<worker, found>>
        /\ UNCHANGED <<caller, server, deaf, heir, received, noise, result>>

ReadEnd ==
    /\ worker \in {"handshake", "references"}
    /\ stdout = <<>>
    /\ PipesClosed
    /\ EndWith(Nothing)
    /\ UNCHANGED <<caller, server, deaf, heir, received, stdout, noise, result>>

-----------------------------------------------------------------------------
(* The server *)

Say(m) == stdout' = Append(stdout, m)

Answer(id, kind) ==
    /\ server = "up"
    /\ ~deaf
    /\ id \in received
    /\ received' = received \ {id}
    /\ Say([id |-> id, kind |-> kind])
    /\ UNCHANGED <<caller, worker, server, deaf, heir, noise, found, result>>

Interjections ==
    [id : {0}, kind : {"notice", "runaway"}] \cup [id : {Initialize, References}, kind : {"ask"}]

\* A notification has no id; a request of the server has one of its own.
Interject(m) ==
    /\ server = "up"
    /\ noise < MaxInterjections
    /\ noise' = noise + 1
    /\ Say(m)
    /\ UNCHANGED <<caller, worker, server, deaf, heir, received, found, result>>

Die ==
    /\ server = "up"
    /\ server' = "dead"
    /\ UNCHANGED <<caller, worker, deaf, heir, received, stdout, noise, found, result>>

WorkerNext == SendInitialize \/ SendReferences \/ ReadMessage \/ ReadEnd

LookupNext ==
    \/ Spawn \/ Receive \/ TimeOut \/ Kill \/ Join
    \/ WorkerNext
    \/ \E id \in {Initialize, References}, kind \in {"answer", "error"} : Answer(id, kind)
    \/ \E m \in Interjections : Interject(m)
    \/ Die

\* Threads run, and the timeout runs out; nothing is assumed of the server.
LookupFairness ==
    /\ WF_lookupVars(WorkerNext)
    /\ WF_lookupVars(Receive \/ TimeOut)
    /\ WF_lookupVars(Kill)
    /\ WF_lookupVars(Join)

LookupSpec == LookupInit /\ [][LookupNext]_lookupVars /\ LookupFairness

-----------------------------------------------------------------------------
(* Properties *)

\* What a lookup returns is an answer, never something the server asked, and
\* it is the answer to the references request (semantic.rs:226).
LookupIsAnswer == result # Nothing => result = "answer" /\ References \notin received

\* A lookup seen as a call.
LookupCalls == INSTANCE Calls WITH
    Callers <- {"lookup"},
    open    <- [c \in {"lookup"} |-> caller # "idle"],
    got     <- [c \in {"lookup"} |->
                    IF result = Nothing THEN "nothing"
                    ELSE IF result = "answer" THEN "answer" ELSE "other"]

\* A server that hangs, floods, does not read or dies never blocks the query
\* (semantic.rs:71), if no other process holds its pipes open.
LookupReturns == (caller = "waiting" /\ ~heir) ~> (caller = "idle")

=============================================================================
