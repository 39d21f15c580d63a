------------------------------- MODULE WarmConn -------------------------------
(***************************************************************************)
(* A language-server connection kept for many requests (lsp::WarmConn in   *)
(* crates/vyer-server/src/semantic.rs): a pump thread moves messages from  *)
(* the server's output into a channel, and a request waits there for the   *)
(* message with its id, for so long.  What arrives after its request has   *)
(* given up stays in the channel for the next one.                         *)
(***************************************************************************)
EXTENDS Integers, Sequences

CONSTANTS
    MaxRequests,    \* bound
    MaxChatter        \* bound: messages that are no answers

ASSUME WarmConnAssumption == MaxRequests \in Nat /\ MaxChatter \in Nat

VARIABLES
    waiting,    \* a request waits for its answer
    next_id,
    alive,
    returned,   \* what the last request returned
    channel,    \* messages the pump has moved
    pump,       \* the pump thread runs
    output,     \* messages on the server's output
    peer,       \* "up" or "dead"
    pending,    \* requests the server has: [id, call]
    requests,   \* requests made so far; the code has no such number
    chatter     \* messages that are no answers so far

connVars == <<waiting, next_id, alive, returned, channel, pump, output, peer, pending,
              requests, chatter>>

NoMessage == [id |-> 0, call |-> 0]

ConnInit ==
    /\ waiting = FALSE
    /\ next_id = 0
    /\ alive = TRUE
    /\ returned = NoMessage
    /\ channel = <<>>
    /\ pump = TRUE
    /\ output = <<>>
    /\ peer = "up"
    /\ pending = {}
    /\ requests = 0
    /\ chatter = 0

-----------------------------------------------------------------------------
(* The client *)

FirstIdAgain(id) == 1

Fresh(id) == id + 1

\* Of a connection that is not alive nothing is requested.  A write to a server
\* that is gone fails.
Request ==
    /\ ~waiting
    /\ alive
    /\ requests < MaxRequests
    /\ requests' = requests + 1
    /\ next_id' = Fresh(next_id)
    /\ returned' = NoMessage
    /\ IF peer = "up"
       THEN /\ waiting' = TRUE
            /\ pending' = pending \cup {[id |-> next_id', call |-> requests']}
            /\ UNCHANGED alive
       ELSE /\ alive' = FALSE
            /\ UNCHANGED <<waiting, pending>>
    /\ UNCHANGED <<channel, pump, output, peer, chatter>>

Return(m) == waiting' = FALSE /\ returned' = m

TakeAnything ==
    /\ waiting
    /\ channel # <<>>
    /\ channel' = Tail(channel)
    /\ Return(Head(channel))
    /\ UNCHANGED <<next_id, alive, pump, output, peer, pending, requests, chatter>>

\* The message with the id is returned, any other is skipped.
Take ==
    /\ waiting
    /\ channel # <<>>
    /\ channel' = Tail(channel)
    /\ IF Head(channel).id = next_id
       THEN Return(Head(channel))
       ELSE UNCHANGED <<waiting, returned>>
    /\ UNCHANGED <<next_id, alive, pump, output, peer, pending, requests, chatter>>

GiveUp ==
    /\ waiting
    /\ channel = <<>>
    /\ Return(NoMessage)
    /\ alive' = (alive /\ pump)
    /\ UNCHANGED <<next_id, channel, pump, output, peer, pending, requests, chatter>>

-----------------------------------------------------------------------------
(* The pump and the server *)

Pump ==
    /\ pump
    /\ output # <<>>
    /\ channel' = Append(channel, Head(output))
    /\ output' = Tail(output)
    /\ UNCHANGED <<waiting, next_id, alive, returned, pump, peer, pending, requests, chatter>>

\* At the end of the output, or at a message that never ends.
StopPump ==
    /\ pump
    /\ output = <<>>
    /\ pump' = FALSE
    /\ UNCHANGED <<waiting, next_id, alive, returned, channel, output, peer, pending, requests, chatter>>

\* The server answers when and in what order it likes.
Reply(p) ==
    /\ peer = "up"
    /\ p \in pending
    /\ pending' = pending \ {p}
    /\ output' = Append(output, p)
    /\ UNCHANGED <<waiting, next_id, alive, returned, channel, pump, peer, requests, chatter>>

Notice ==
    /\ peer = "up"
    /\ chatter < MaxChatter
    /\ chatter' = chatter + 1
    /\ output' = Append(output, NoMessage)
    /\ UNCHANGED <<waiting, next_id, alive, returned, channel, pump, peer, pending, requests>>

Exit ==
    /\ peer = "up"
    /\ peer' = "dead"
    /\ UNCHANGED <<waiting, next_id, alive, returned, channel, pump, output, pending, requests, chatter>>

ConnNext ==
    \/ Request \/ Take \/ GiveUp
    \/ Pump \/ StopPump
    \/ \E p \in pending : Reply(p)
    \/ Notice \/ Exit

\* The timeout runs out.
ConnFairness == WF_connVars(Take \/ GiveUp)

ConnSpec == ConnInit /\ [][ConnNext]_connVars /\ ConnFairness

-----------------------------------------------------------------------------
(* Properties *)

\* What a request returns is the answer to it and not to an earlier request
\* that had given up, however late and in whatever order the server answers
\* (semantic.rs:373).
AnswerIsMine == returned # NoMessage => returned.call = requests

\* A request seen as a call: an answer to an earlier request is another one.
ConnCalls == INSTANCE Calls WITH
    Callers <- {"request"},
    open    <- [c \in {"request"} |-> waiting],
    got     <- [c \in {"request"} |->
                    IF returned = NoMessage THEN "nothing"
                    ELSE IF returned.call = requests THEN "answer" ELSE "other"]

\* A request returns, whatever the server does (semantic.rs:303), if it does not
\* talk for ever: past its deadline a request still takes what is in the
\* channel, so a server that fills it faster than that is waited for.
RequestReturns == waiting ~> ~waiting

=============================================================================
