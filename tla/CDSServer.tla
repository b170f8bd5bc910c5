------------------------------ MODULE CDSServer ------------------------------
(***************************************************************************)
(* The local CDS server of the static discovery: Envoy keeps one delta     *)
(* stream to it and connects again when the stream breaks.  Every stream   *)
(* has a handler, which pushes all clusters once, and a goroutine that     *)
(* sends; the channel between them belongs to the server, so the streams   *)
(* share it.                                                               *)
(***************************************************************************)
EXTENDS Integers, Sequences

CONSTANTS
    MaxStreams,     \* bound: connections made
    ChanSize        \* capacity of responseChan, 100 in the code

Streams == 1 .. MaxStreams

VARIABLES
    clusters,       \* has the provider any cluster; fixed
    current,        \* the stream connected last, 0 before the first
    up,             \* is its context still good
    handler,        \* per stream: DeltaClusters
    sender,         \* per stream: the goroutine of processDeltaClusterResponse
    responseChan,   \* responses, each named for the stream it was pushed for
    errChan,        \* per stream: has an error been sent to it
    received        \* responses that reached Envoy

vars == <<clusters, current, up, handler, sender, responseChan, errChan, received>>

Init ==
    /\ clusters \in BOOLEAN
    /\ current = 0 /\ up = FALSE
    /\ handler = [s \in Streams |-> "none"]
    /\ sender = [s \in Streams |-> "none"]
    /\ responseChan = <<>>
    /\ errChan = [s \in Streams |-> FALSE]
    /\ received = {}

\* The context of a stream is done when Envoy is gone or the handler returned.
Alive(s) == s = current /\ up

\* Envoy connects: DeltaClusters starts the goroutine that sends.
Connect ==
    /\ ~up /\ current < MaxStreams
    /\ current' = current + 1 /\ up' = TRUE
    /\ handler' = [handler EXCEPT ![current + 1] = "push"]
    /\ sender' = [sender EXCEPT ![current + 1] = "select"]
    /\ UNCHANGED <<clusters, responseChan, errChan, received>>

Disconnect ==
    /\ up
    /\ up' = FALSE
    /\ UNCHANGED <<clusters, current, handler, sender, responseChan, errChan, received>>

\* processAllClusters: one response with every cluster, if there is any; the
\* send blocks while the channel is full.
processAllClusters(s) ==
    /\ handler[s] = "push"
    /\ clusters => Len(responseChan) < ChanSize
    /\ responseChan' = IF clusters THEN Append(responseChan, s) ELSE responseChan
    /\ handler' = [handler EXCEPT ![s] = "loop"]
    /\ UNCHANGED <<clusters, current, up, sender, errChan, received>>

\* The loop of DeltaClusters ends: an error of the sender, or a context that
\* is done.  Requests and acknowledgements change nothing.
ReturnHandler(s) ==
    /\ handler[s] = "loop"
    /\ errChan[s] \/ ~Alive(s)
    /\ handler' = [handler EXCEPT ![s] = "returned"]
    /\ up' = (up /\ s # current)
    /\ UNCHANGED <<clusters, current, sender, responseChan, errChan, received>>

\* The goroutine's select: with a response there and the context done it may
\* take either.
TakeResponse(s) ==
    /\ sender[s] = "select" /\ responseChan # <<>>
    /\ responseChan' = Tail(responseChan)
    /\ sender' = [sender EXCEPT ![s] = "sending"]
    /\ UNCHANGED <<clusters, current, up, handler, errChan, received>>

ContextDone(s) ==
    /\ sender[s] = "select" /\ ~Alive(s)
    /\ sender' = [sender EXCEPT ![s] = "exited"]
    /\ UNCHANGED <<clusters, current, up, handler, responseChan, errChan, received>>

\* stream.Send fails on a stream whose context is done, and what was to be
\* sent is gone.
Send(s) ==
    /\ sender[s] = "sending"
    /\ sender' = [sender EXCEPT ![s] = IF Alive(s) THEN "select" ELSE "exited"]
    /\ errChan' = [errChan EXCEPT ![s] = @ \/ ~Alive(s)]
    /\ received' = IF Alive(s) THEN received \cup {s} ELSE received
    /\ UNCHANGED <<clusters, current, up, handler, responseChan>>

Step(s) ==
    \/ processAllClusters(s)
    \/ ReturnHandler(s)
    \/ TakeResponse(s)
    \/ ContextDone(s)
    \/ Send(s)

Next == Connect \/ Disconnect \/ \E s \in Streams : Step(s)

\* The goroutines of the server go on whenever they can.
FairSpec == Init /\ [][Next]_vars /\ \A s \in Streams : WF_vars(Step(s))

-----------------------------------------------------------------------------
\* "delta clusters send by current stream. if reconnected the goroutine will
\* restart for new stream" (cds_server.go:108): a stream that stays up is
\* sent the clusters.
CurrentStreamSends ==
    \A s \in Streams : (clusters /\ s = current /\ up) ~> (s \in received \/ ~Alive(s))
=============================================================================
