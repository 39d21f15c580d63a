-------------------------------- MODULE Server --------------------------------
(***************************************************************************)
(* What the server does over many calls: the answers of the code tool with *)
(* their paging, what it remembers of edits and runs, its two ways to use  *)
(* a language server, and the HTTP transport.  They share no state; a      *)
(* behaviour takes one of them, the subject, through its steps.            *)
(***************************************************************************)
EXTENDS Answers, Session, Lookup, WarmConn, Transport

VARIABLE subject

serverVars == <<subject, answerVars, sessionVars, lookupVars, connVars, transportVars>>

ServerInit ==
    /\ subject \in {"answers", "session", "lookup", "conn", "transport"}
    /\ AnswersInit
    /\ SessionInit
    /\ LookupInit
    /\ ConnInit
    /\ TransportInit

ServerStep ==
    /\ \/ /\ subject = "answers" /\ AnswersNext
          /\ UNCHANGED <<sessionVars, lookupVars, connVars, transportVars>>
       \/ /\ subject = "session" /\ SessionNext
          /\ UNCHANGED <<answerVars, lookupVars, connVars, transportVars>>
       \/ /\ subject = "lookup" /\ LookupNext
          /\ UNCHANGED <<answerVars, sessionVars, connVars, transportVars>>
       \/ /\ subject = "conn" /\ ConnNext
          /\ UNCHANGED <<answerVars, sessionVars, lookupVars, transportVars>>
       \/ /\ subject = "transport" /\ TransportNext
          /\ UNCHANGED <<answerVars, sessionVars, lookupVars, connVars>>
    /\ UNCHANGED subject

ServerFairness == LookupFairness /\ ConnFairness /\ TransportFairness

ServerSpec == ServerInit /\ [][ServerStep]_serverVars /\ ServerFairness

-----------------------------------------------------------------------------
\* What comes back to a caller over threads, pipes and connections is the
\* answer to what it asked: from a language server started for the question,
\* from one kept for many, and over HTTP.
RepliesMatch == LookupIsAnswer /\ AnswerIsMine /\ RepliesAreRight

\* Each of the three implements what Calls promises: an answer comes once,
\* while its caller waits, and is kept; an answer to an earlier request, to
\* another client or from the server's own requests never takes its place.
CallsAreKept == LookupCalls!Spec /\ ConnCalls!Spec /\ ClientCalls!Spec

\* Nobody waits for ever: not on a language server that hangs, is late or
\* dies, and not on the other clients of the transport.
EveryCallReturns == LookupReturns /\ RequestReturns /\ ClientsServed

=============================================================================
