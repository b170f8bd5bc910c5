-------------------------- MODULE LLMFilterProofs --------------------------
(***************************************************************************)
(* What the filter guarantees about its load reports, for responses of any *)
(* length and every interleaving of the callbacks with the timer.          *)
(***************************************************************************)
EXTENDS LLMFilter, TLAPS

One(b) == IF b THEN 1 ELSE 0

\* Before the request has been sent on, nothing of it is recorded.
Early == {"DecodeHeaders", "DecodeRequest", "LocalReply", "AddRequest", "Recorded"}

\* isIncreaseRecorded follows the accepted AddRequest, and everything that
\* takes load back is behind it.
RecordInv ==
    /\ accepted["AddRequest"] = One(isIncreaseRecorded \/ pc = "Recorded")
    /\ pc \in Early => ~isIncreaseRecorded
    /\ isIncreaseRecorded \/ pc \in {"AddRequest", "Recorded"} => cfg.loadAware
    /\ \A th \in Threads :
          del[th] \in {"stop", "call", "mark"} => isIncreaseRecorded
    /\ tried["DeleteRequestPrompt"] > 0 => isIncreaseRecorded
    /\ pc \in {"StopTimer", "DeleteRequest"} => isIncreaseRecorded
    /\ tried["DeleteRequest"] = One(pc = "Done" /\ isIncreaseRecorded)

\* A waiting timer can be reached through the field, except in the instant
\* before the field is set, and OnLog stops it.
TimerInv ==
    /\ timer # "none" => isIncreaseRecorded
    /\ timer = "armed" => /\ promptDecreaseTimer \/ pc = "KeepTimer"
                          /\ pc \notin {"DeleteRequest", "Done"}
    /\ del["timer"] # "idle" => timer = "fired"
    /\ del["main"] # "idle" => pc \in {"EncodeResponse", "EncodeData"}

\* Threads between the check of the flag and the release, and between the
\* release and the setting of the flag.
Rel(step) == One(step \in {"stop", "call"})

Mrk(step) == One(step = "mark")

Releasing == Rel(del["main"]) + Rel(del["timer"])

Marking == Mrk(del["main"]) + Mrk(del["timer"])

PromptInv ==
    /\ ~isPromptLengthDeleted => accepted["DeleteRequestPrompt"] = Marking
    /\ accepted["DeleteRequestPrompt"] + Releasing <= IF overlap THEN 2 ELSE 1

Streaming == {"WaitData", "EncodeData"}

BeforeBody == Early \cup {"KeepTimer", "Upstream", "WaitAllData", "EncodeResponse"}

DeliverInv ==
    /\ pc \in BeforeBody => delivered = <<>>
    /\ pc \in Streaming /\ ~chunkSeen => delivered = <<>>
    /\ pc \in BeforeBody => ~dropRespData
    /\ pc \in Streaming /\ ~dropRespData =>
          \A i \in 1 .. Len(delivered) : delivered[i] # "error"
    /\ ErrorStandsAlone

IndInv == TypeOK /\ RecordInv /\ TimerInv /\ PromptInv /\ DeliverInv

USE FrameBound DEF FrameBound

-----------------------------------------------------------------------------
\* Counting a report keeps the counters' types.
LEMMA ReportTypes ==
    ASSUME TypeOK, NEW op \in Ops, NEW ok, Report(op, ok)
    PROVE  /\ tried' \in [Ops -> Nat] /\ accepted' \in [Ops -> Nat]
           /\ overlap' \in BOOLEAN
  BY DEF Report, TypeOK

\* A call to the metadata center counts for its own operation only.
LEMMA ReportOthers ==
    ASSUME TypeOK, NEW op \in Ops, NEW ok \in BOOLEAN, Report(op, ok),
           NEW other \in Ops, other # op
    PROVE  accepted'[other] = accepted[other] /\ tried'[other] = tried[other]
<1>1. accepted \in [Ops -> Nat] /\ tried \in [Ops -> Nat]
  BY DEF TypeOK
<1>2. CASE ok
  BY <1>1, <1>2 DEF Report
<1>3. CASE ~ok
  BY <1>1, <1>3 DEF Report
<1> QED
  BY <1>2, <1>3

\* Stopping the timer clears the field and never starts a timer.
LEMMA StopEffect ==
    ASSUME TypeOK, StopPromptDecreaseTimer
    PROVE  /\ promptDecreaseTimer' \in BOOLEAN
           /\ timer' \in {"none", "armed", "stopped", "fired"}
           /\ timer' = timer \/ timer' = "stopped"
           /\ promptDecreaseTimer => timer' # "armed"
           /\ timer = "fired" => timer' = "fired"
           /\ timer' # "none" => timer # "none"
<1>1. timer \in {"none", "armed", "stopped", "fired"}
  BY DEF TypeOK
<1>2. promptDecreaseTimer' \in BOOLEAN
  BY DEF StopPromptDecreaseTimer
<1>3. CASE promptDecreaseTimer /\ timer = "armed"
  <2>1. timer' = "stopped"
    BY <1>3, Zenon DEF StopPromptDecreaseTimer
  <2> QED
    BY <1>2, <1>3, <2>1
<1>4. CASE ~(promptDecreaseTimer /\ timer = "armed")
  <2>1. timer' = timer
    BY <1>4, Zenon DEF StopPromptDecreaseTimer
  <2> QED
    BY <1>1, <1>2, <1>4, <2>1
<1> QED
  BY <1>3, <1>4

\* What doRespData makes of a frame of each kind.
LEMMA FrameEffect ==
    ASSUME NEW kind \in FrameKinds, ConvertFrame(kind)
    PROVE  \/ /\ kind = "firstError" /\ ~chunkSeen /\ ~dropRespData
              /\ status' = 400 /\ ~isStream' /\ dropRespData' /\ chunkSeen'
              /\ isStream' \in BOOLEAN /\ dropRespData' \in BOOLEAN
              /\ chunkSeen' \in BOOLEAN
              /\ pc' = "WaitData" /\ delivered' = Append(delivered, "error")
           \/ /\ kind = "messages" /\ ~dropRespData
              /\ UNCHANGED <<status, isStream, dropRespData>>
              /\ chunkSeen' /\ chunkSeen' \in BOOLEAN
              /\ pc' = "WaitData" /\ delivered' = Append(delivered, "data")
           \/ /\ kind \in {"partial", "invalid"} /\ ~dropRespData
              /\ UNCHANGED <<status, isStream, dropRespData>>
              /\ (chunkSeen' <=> chunkSeen) /\ chunkSeen' \in BOOLEAN
              /\ pc' \in {"WaitData", "Ended"} /\ delivered' = delivered
<1>1. CASE kind = "firstError"
  BY <1>1 DEF ConvertFrame, FirstError, FrameKinds
<1>2. CASE kind = "messages"
  BY <1>2 DEF ConvertFrame, FrameKinds
<1>3. CASE kind \in {"partial", "invalid"}
  BY <1>3 DEF ConvertFrame, FrameKinds
<1> QED
  BY <1>1, <1>2, <1>3 DEF FrameKinds

\* Converting a frame keeps the types of what it changes.
LEMMA FrameTypes ==
    ASSUME TypeOK, NEW kind \in FrameKinds, ConvertFrame(kind)
    PROVE  /\ delivered' \in Seq({"data", "error"}) /\ chunkSeen' \in BOOLEAN
           /\ status' \in UpstreamStatus \cup {0, 400, 404}
           /\ isStream' \in BOOLEAN /\ dropRespData' \in BOOLEAN /\ pc' \in Phases
<1>0. delivered \in Seq({"data", "error"})
  BY DEF TypeOK
<1>1. CASE kind = "firstError"
  <2>1. /\ status' = 400 /\ pc' = "WaitData" /\ delivered' = Append(delivered, "error")
        /\ isStream' \in BOOLEAN /\ dropRespData' \in BOOLEAN /\ chunkSeen' \in BOOLEAN
    BY <1>1, FrameEffect
  <2> QED
    BY <1>0, <2>1 DEF Phases
<1>2. CASE kind # "firstError"
  <2>1. /\ UNCHANGED <<status, isStream, dropRespData>> /\ chunkSeen' \in BOOLEAN
        /\ pc' \in {"WaitData", "Ended"}
        /\ delivered' = Append(delivered, "data") \/ delivered' = delivered
    BY <1>2, FrameEffect
  <2>2. delivered' \in Seq({"data", "error"})
    BY <1>0, <2>1
  <2>3. /\ status' \in UpstreamStatus \cup {0, 400, 404}
        /\ isStream' \in BOOLEAN /\ dropRespData' \in BOOLEAN
    BY <2>1 DEF TypeOK
  <2> QED
    BY <2>1, <2>2, <2>3 DEF Phases
<1> QED
  BY <1>1, <1>2

\* Every callback and every step of the timer keeps the state well typed.
LEMMA TypeInductive == TypeOK /\ [Next]_vars => TypeOK'
<1> SUFFICES ASSUME TypeOK, [Next]_vars PROVE TypeOK'
  OBVIOUS
<1> USE DEF TypeOK, Phases, Threads, DeleteSteps, UpstreamStatus, shared, body,
            reports
<1>1. CASE RequestPath
  <2>1. ASSUME NEW endStream \in BOOLEAN, DecodeHeaders(endStream) PROVE TypeOK'
    BY <2>1 DEF DecodeHeaders
  <2>2. ASSUME NEW code \in {400, 404}, RejectRequest(code) PROVE TypeOK'
    BY <2>2 DEF RejectRequest
  <2>3. ASSUME NEW stream \in BOOLEAN, AcceptRequest(stream) PROVE TypeOK'
    BY <2>3 DEF AcceptRequest
  <2>4. ASSUME NEW ok \in BOOLEAN, AddRequest(ok) PROVE TypeOK'
    BY <2>4, ReportTypes DEF AddRequest, Ops
  <2>5. CASE StartTimer
    BY <2>5 DEF StartTimer
  <2>6. CASE KeepTimer
    BY <2>6 DEF KeepTimer
  <2> QED
    BY <1>1, <2>1, <2>2, <2>3, <2>4, <2>5, <2>6 DEF RequestPath
<1>2. CASE ResponsePath
  <2>1. ASSUME NEW code \in UpstreamStatus \cup {400, 404}, EncodeErrorHeaders(code)
        PROVE  TypeOK'
    BY <2>1 DEF EncodeErrorHeaders
  <2>2. ASSUME NEW code \in UpstreamStatus, NEW saved \in BOOLEAN,
               NEW grpcError \in BOOLEAN, NEW endStream \in BOOLEAN,
               EncodeHeaders(code, saved, grpcError, endStream)
        PROVE  TypeOK'
    BY <2>2, ReportTypes DEF EncodeHeaders, Ops
  <2>3. CASE EncodeResponse
    BY <2>3 DEF EncodeResponse
  <2>4. ASSUME NEW out \in {<<>>, <<"data">>}, FinishResponse(out) PROVE TypeOK'
    <3>1. delivered' \in {<<>>, <<"data">>, <<"error">>}
      BY <2>4 DEF FinishResponse
    <3>2. \A x \in {"data", "error"} : <<x>> \in Seq({"data", "error"})
      OBVIOUS
    <3>3. delivered' \in Seq({"data", "error"})
      <4>1. CASE delivered' = <<>>
        BY <4>1
      <4>2. CASE delivered' = <<"data">>
        BY <3>2, <4>2
      <4>3. CASE delivered' = <<"error">>
        BY <3>2, <4>3
      <4> QED
        BY <3>1, <4>1, <4>2, <4>3
    <3> QED
      BY <2>4, <3>3 DEF FinishResponse
  <2>5. CASE EncodeData
    BY <2>5 DEF EncodeData
  <2>6. CASE DoRespData
    <3>1. CASE DropFrame
      BY <2>6, <3>1 DEF DoRespData, DropFrame
    <3>2. ASSUME NEW kind \in FrameKinds, ConvertFrame(kind) PROVE TypeOK'
      BY <2>6, <3>2, FrameTypes DEF DoRespData
    <3> QED
      BY <2>6, <3>1, <3>2 DEF DoRespData
  <2> HIDE DEF TypeOK
  <2> QED
    BY <1>2, <2>1, <2>2, <2>3, <2>4, <2>5, <2>6 DEF ResponsePath
<1>3. CASE Logging
  <2>1. CASE OnLog
    BY <2>1 DEF OnLog
  <2>2. CASE StopInLog
    <3>1. /\ promptDecreaseTimer' \in BOOLEAN
          /\ timer' \in {"none", "armed", "stopped", "fired"}
      <4>1. StopPromptDecreaseTimer
        BY <2>2 DEF StopInLog
      <4> HIDE DEF TypeOK
      <4> QED
        BY <4>1, StopEffect
    <3> QED
      BY <2>2, <3>1 DEF StopInLog
  <2>3. ASSUME NEW ok \in BOOLEAN, DeleteRequest(ok) PROVE TypeOK'
    BY <2>3, ReportTypes DEF DeleteRequest, Ops
  <2> QED
    BY <1>3, <2>1, <2>2, <2>3 DEF Logging
<1>4. ASSUME NEW th \in Threads, DeletePromptLength(th) PROVE TypeOK'
  <2>1. CASE CheckPrompt(th)
    BY <2>1 DEF CheckPrompt
  <2>2. CASE StopInDelete(th)
    <3>1. /\ promptDecreaseTimer' \in BOOLEAN
          /\ timer' \in {"none", "armed", "stopped", "fired"}
      <4>1. StopPromptDecreaseTimer
        BY <2>2 DEF StopInDelete
      <4> HIDE DEF TypeOK
      <4> QED
        BY <4>1, StopEffect
    <3> QED
      BY <2>2, <3>1 DEF StopInDelete
  <2>3. ASSUME NEW ok \in BOOLEAN, CallDelete(th, ok) PROVE TypeOK'
    <3>1. /\ tried' \in [Ops -> Nat] /\ accepted' \in [Ops -> Nat]
          /\ overlap' \in BOOLEAN
      BY <2>3, ReportTypes DEF CallDelete, Ops
    <3> QED
      BY <2>3, <3>1 DEF CallDelete
  <2>4. CASE MarkDeleted(th)
    BY <2>4 DEF MarkDeleted
  <2> QED
    BY <1>4, <2>1, <2>2, <2>3, <2>4 DEF DeletePromptLength
<1>5. CASE TimerFires
  BY <1>5 DEF TimerFires
<1>6. CASE UNCHANGED vars
  BY <1>6 DEF vars
<1> QED
  BY <1>1, <1>2, <1>3, <1>4, <1>5, <1>6 DEF Next, Main, Timer

\* Load is recorded once and given back once.
LEMMA RecordInductive ==
    ASSUME TypeOK, TimerInv, RecordInv, TypeOK', [Next]_vars PROVE RecordInv'
<1> USE DEF TypeOK, Ops, Threads, shared, body, reports, RecordInv, TimerInv,
            Early, One
<1>1. CASE RequestPath
  <2>1. ASSUME NEW endStream \in BOOLEAN, DecodeHeaders(endStream) PROVE RecordInv'
    BY <2>1 DEF DecodeHeaders
  <2>2. ASSUME NEW code \in {400, 404}, RejectRequest(code) PROVE RecordInv'
    BY <2>2 DEF RejectRequest
  <2>3. ASSUME NEW stream \in BOOLEAN, AcceptRequest(stream) PROVE RecordInv'
    BY <2>3 DEF AcceptRequest
  <2>4. ASSUME NEW ok \in BOOLEAN, AddRequest(ok) PROVE RecordInv'
    <3>1. /\ ~isIncreaseRecorded /\ ~isIncreaseRecorded'
          /\ tried["DeleteRequestPrompt"]' = tried["DeleteRequestPrompt"]
          /\ tried["DeleteRequest"]' = tried["DeleteRequest"]
      BY <2>4 DEF AddRequest, Report
    <3>2. accepted["AddRequest"]' = One(ok) /\ (ok <=> pc' = "Recorded")
      <4>1. CASE ok
        BY <2>4, <4>1 DEF AddRequest, Report
      <4>2. CASE ~ok
        BY <2>4, <4>2 DEF AddRequest, Report
      <4> QED
        BY <4>1, <4>2
    <3> QED
      BY <2>4, <3>1, <3>2 DEF AddRequest
  <2>5. CASE StartTimer
    BY <2>5 DEF StartTimer
  <2>6. CASE KeepTimer
    BY <2>6 DEF KeepTimer
  <2> HIDE DEF RecordInv, TimerInv, TypeOK, Ops, Threads, shared, body, reports, Early,
               One
  <2> QED
    BY <1>1, <2>1, <2>2, <2>3, <2>4, <2>5, <2>6 DEF RequestPath
<1>2. CASE ResponsePath
  <2>1. ASSUME NEW code \in UpstreamStatus \cup {400, 404}, EncodeErrorHeaders(code)
        PROVE  RecordInv'
    BY <2>1 DEF EncodeErrorHeaders
  <2>2. ASSUME NEW code \in UpstreamStatus, NEW saved \in BOOLEAN,
               NEW grpcError \in BOOLEAN, NEW endStream \in BOOLEAN,
               EncodeHeaders(code, saved, grpcError, endStream)
        PROVE  RecordInv'
    <3>1. UNCHANGED <<accepted["AddRequest"], tried["DeleteRequestPrompt"],
                      tried["DeleteRequest"]>>
      <4>1. CASE cfg.cacheAware
        <5>1. Report("SaveKVCache", saved)
          BY <2>2, <4>1 DEF EncodeHeaders
        <5> HIDE DEF TypeOK
        <5> QED
          BY <5>1, ReportOthers
      <4>2. CASE ~cfg.cacheAware
        BY <2>2, <4>2 DEF EncodeHeaders
      <4> QED
        BY <4>1, <4>2
    <3>2. UNCHANGED <<cfg, isIncreaseRecorded, del>>
      BY <2>2 DEF EncodeHeaders
    <3>3. /\ pc \notin {"Recorded", "Done"}
          /\ pc' \in {"Ended", "WaitData", "WaitAllData"}
      BY <2>2 DEF EncodeHeaders
    <3> QED
      BY <3>1, <3>2, <3>3, SMTT(30)
  <2>3. CASE EncodeResponse
    BY <2>3 DEF EncodeResponse
  <2>4. ASSUME NEW out \in {<<>>, <<"data">>}, FinishResponse(out) PROVE RecordInv'
    BY <2>4 DEF FinishResponse
  <2>5. CASE EncodeData
    BY <2>5 DEF EncodeData
  <2>6. CASE DoRespData
    <3>1. pc' \in {"WaitData", "Ended"}
      BY <2>6 DEF DoRespData, DropFrame, ConvertFrame
    <3> QED
      BY <2>6, <3>1 DEF DoRespData
  <2> HIDE DEF RecordInv, TimerInv, TypeOK, Ops, Threads, shared, body, reports, Early,
               One
  <2> QED
    BY <1>2, <2>1, <2>2, <2>3, <2>4, <2>5, <2>6 DEF ResponsePath
<1>3. CASE Logging
  <2>1. CASE OnLog
    BY <2>1 DEF OnLog, DecreaseDue
  <2>2. CASE StopInLog
    BY <2>2 DEF StopInLog
  <2>3. ASSUME NEW ok \in BOOLEAN, DeleteRequest(ok) PROVE RecordInv'
    BY <2>3 DEF DeleteRequest, Report
  <2> QED
    BY <1>3, <2>1, <2>2, <2>3 DEF Logging
<1>4. ASSUME NEW th \in Threads, DeletePromptLength(th) PROVE RecordInv'
  <2>1. CASE CheckPrompt(th)
    BY <2>1 DEF CheckPrompt, ReleaseDue
  <2>2. CASE StopInDelete(th)
    BY <2>2 DEF StopInDelete
  <2>3. ASSUME NEW ok \in BOOLEAN, CallDelete(th, ok) PROVE RecordInv'
    BY <2>3 DEF CallDelete, Report
  <2>4. CASE MarkDeleted(th)
    BY <2>4 DEF MarkDeleted
  <2> QED
    BY <1>4, <2>1, <2>2, <2>3, <2>4 DEF DeletePromptLength
<1>5. CASE TimerFires
  BY <1>5 DEF TimerFires
<1>6. CASE UNCHANGED vars
  BY <1>6 DEF vars
<1> QED
  BY <1>1, <1>2, <1>3, <1>4, <1>5, <1>6 DEF Next, Main, Timer, Threads

\* A waiting timer stays reachable until it is stopped.
LEMMA TimerInductive ==
    ASSUME TypeOK, RecordInv, TimerInv, TypeOK', [Next]_vars PROVE TimerInv'
<1> USE DEF TypeOK, Threads, shared, body, RecordInv, TimerInv, Early
<1>1. CASE RequestPath
  <2>1. ASSUME NEW endStream \in BOOLEAN, DecodeHeaders(endStream) PROVE TimerInv'
    BY <2>1 DEF DecodeHeaders
  <2>2. ASSUME NEW code \in {400, 404}, RejectRequest(code) PROVE TimerInv'
    BY <2>2 DEF RejectRequest
  <2>3. ASSUME NEW stream \in BOOLEAN, AcceptRequest(stream) PROVE TimerInv'
    BY <2>3 DEF AcceptRequest
  <2>4. ASSUME NEW ok \in BOOLEAN, AddRequest(ok) PROVE TimerInv'
    BY <2>4 DEF AddRequest, Report
  <2>5. CASE StartTimer
    BY <2>5 DEF StartTimer
  <2>6. CASE KeepTimer
    BY <2>6 DEF KeepTimer
  <2> QED
    BY <1>1, <2>1, <2>2, <2>3, <2>4, <2>5, <2>6 DEF RequestPath
<1>2. CASE ResponsePath
  <2>1. ASSUME NEW code \in UpstreamStatus \cup {400, 404}, EncodeErrorHeaders(code)
        PROVE  TimerInv'
    BY <2>1 DEF EncodeErrorHeaders
  <2>2. ASSUME NEW code \in UpstreamStatus, NEW saved \in BOOLEAN,
               NEW grpcError \in BOOLEAN, NEW endStream \in BOOLEAN,
               EncodeHeaders(code, saved, grpcError, endStream)
        PROVE  TimerInv'
    BY <2>2 DEF EncodeHeaders, Report
  <2>3. CASE EncodeResponse
    BY <2>3 DEF EncodeResponse
  <2>4. ASSUME NEW out \in {<<>>, <<"data">>}, FinishResponse(out) PROVE TimerInv'
    BY <2>4 DEF FinishResponse
  <2>5. CASE EncodeData
    BY <2>5 DEF EncodeData
  <2>6. CASE DoRespData
    BY <2>6 DEF DoRespData, DropFrame, ConvertFrame
  <2> QED
    BY <1>2, <2>1, <2>2, <2>3, <2>4, <2>5, <2>6 DEF ResponsePath
<1>3. CASE Logging
  <2>1. CASE OnLog
    BY <2>1 DEF OnLog, DecreaseDue
  <2>2. CASE StopInLog
    <3>1. timer' # "armed" /\ (timer' # "none" => timer # "none")
          /\ (timer = "fired" => timer' = "fired")
      <4>1. timer = "armed" => promptDecreaseTimer
        BY <2>2 DEF StopInLog
      <4>2. StopPromptDecreaseTimer
        BY <2>2 DEF StopInLog
      <4> HIDE DEF TimerInv, TypeOK, RecordInv
      <4> QED
        BY <4>1, <4>2, StopEffect
    <3> QED
      BY <2>2, <3>1 DEF StopInLog
  <2>3. ASSUME NEW ok \in BOOLEAN, DeleteRequest(ok) PROVE TimerInv'
    BY <2>3 DEF DeleteRequest, Report
  <2> QED
    BY <1>3, <2>1, <2>2, <2>3 DEF Logging
<1>4. ASSUME NEW th \in Threads, DeletePromptLength(th) PROVE TimerInv'
  <2>1. CASE CheckPrompt(th)
    BY <2>1 DEF CheckPrompt, ReleaseDue
  <2>2. CASE StopInDelete(th)
    <3>1. timer' # "armed" /\ (timer' # "none" => timer # "none")
          /\ (timer = "fired" => timer' = "fired")
      <4>1. timer = "armed" => promptDecreaseTimer
        BY <2>2 DEF StopInDelete
      <4>2. StopPromptDecreaseTimer
        BY <2>2 DEF StopInDelete
      <4> HIDE DEF TimerInv, TypeOK, RecordInv
      <4> QED
        BY <4>1, <4>2, StopEffect
    <3> QED
      BY <2>2, <3>1 DEF StopInDelete
  <2>3. ASSUME NEW ok \in BOOLEAN, CallDelete(th, ok) PROVE TimerInv'
    BY <2>3 DEF CallDelete, Report
  <2>4. CASE MarkDeleted(th)
    BY <2>4 DEF MarkDeleted
  <2> QED
    BY <1>4, <2>1, <2>2, <2>3, <2>4 DEF DeletePromptLength
<1>5. CASE TimerFires
  BY <1>5 DEF TimerFires
<1>6. CASE UNCHANGED vars
  BY <1>6 DEF vars
<1> QED
  BY <1>1, <1>2, <1>3, <1>4, <1>5, <1>6 DEF Next, Main, Timer, Threads

\* How the steps of DeletePromptLength are counted.
LEMMA StepKinds ==
    /\ Rel("idle") = 0 /\ Rel("check") = 0 /\ Rel("stop") = 1 /\ Rel("call") = 1
    /\ Rel("mark") = 0 /\ Rel("returned") = 0
    /\ Mrk("idle") = 0 /\ Mrk("check") = 0 /\ Mrk("stop") = 0 /\ Mrk("call") = 0
    /\ Mrk("mark") = 1 /\ Mrk("returned") = 0
    /\ \A step \in DeleteSteps :
          /\ Rel(step) \in {0, 1} /\ Mrk(step) \in {0, 1}
          /\ Rel(step) + Mrk(step) <= 1
          /\ Rel(step) + Mrk(step) = 1 => step \in {"stop", "call", "mark"}
  BY DEF Rel, Mrk, One, DeleteSteps

\* Releasing and Marking from the point of view of either thread.
LEMMA TwoThreads ==
    ASSUME TypeOK, TypeOK', NEW th \in Threads
    PROVE  \E other \in Threads :
              /\ other # th /\ Threads \ {th} = {other}
              /\ Releasing = Rel(del[th]) + Rel(del[other])
              /\ Marking = Mrk(del[th]) + Mrk(del[other])
              /\ Releasing' = Rel(del'[th]) + Rel(del'[other])
              /\ Marking' = Mrk(del'[th]) + Mrk(del'[other])
<1> USE StepKinds DEF Threads, Releasing, Marking
<1>1. CASE th = "main"
  <2> WITNESS "timer" \in Threads
  <2> QED
    BY <1>1
<1>2. CASE th = "timer"
  <2> WITNESS "main" \in Threads
  <2>1. \A t \in Threads : del[t] \in DeleteSteps /\ del'[t] \in DeleteSteps
    BY DEF TypeOK
  <2>2. \A x, y \in DeleteSteps : /\ Rel(x) + Rel(y) = Rel(y) + Rel(x)
                                  /\ Mrk(x) + Mrk(y) = Mrk(y) + Mrk(x)
    OBVIOUS
  <2> QED
    BY <1>2, <2>1, <2>2
<1> QED
  BY <1>1, <1>2

\* Every release is accounted for: by the flag, or by a thread that is about
\* to set it; and a thread that is about to release found the flag clear.
LEMMA PromptInductive ==
    ASSUME TypeOK, TypeOK', TimerInv, PromptInv, [Next]_vars PROVE PromptInv'
<1> DEFINE n == accepted["DeleteRequestPrompt"]
<1>1. n \in Nat /\ \A t \in Threads : del[t] \in DeleteSteps
  BY DEF TypeOK, Ops
<1>2. ASSUME UNCHANGED <<n, isPromptLengthDeleted, del, overlap>> PROVE PromptInv'
  BY <1>2 DEF PromptInv, Releasing, Marking
<1>3. ASSUME NEW step \in {"check", "returned", "idle"},
             UNCHANGED <<n, isPromptLengthDeleted, overlap>>,
             del["main"] \in {"idle", "returned"},
             del' = [del EXCEPT !["main"] = step]
      PROVE  PromptInv'
  <2>1. del'["main"] = step /\ del'["timer"] = del["timer"]
    BY <1>3 DEF TypeOK, Threads
  <2>2. Releasing' = Releasing /\ Marking' = Marking
    BY <1>3, <2>1, StepKinds DEF Releasing, Marking
  <2> QED
    BY <1>3, <2>2 DEF PromptInv
<1>4. ASSUME NEW op \in Ops \ {"DeleteRequestPrompt"}, NEW ok \in BOOLEAN,
             Report(op, ok)
      PROVE  UNCHANGED <<n, overlap>>
  <2>1. CASE ok
    BY <1>4, <2>1 DEF Report, TypeOK, Ops
  <2>2. CASE ~ok
    BY <1>4, <2>2 DEF Report, TypeOK, Ops
  <2> QED
    BY <2>1, <2>2
<1> USE DEF shared, body, reports
<1>5. CASE RequestPath
  <2>1. ASSUME NEW ok \in BOOLEAN, AddRequest(ok) PROVE PromptInv'
    BY <1>2, <1>4, <2>1 DEF AddRequest, Ops
  <2> QED
    BY <1>2, <1>5, <2>1 DEF RequestPath, DecodeHeaders, RejectRequest, AcceptRequest,
                            StartTimer, KeepTimer
<1>6. CASE ResponsePath
  <2>1. ASSUME NEW code, EncodeErrorHeaders(code) PROVE PromptInv'
    BY <1>2, <2>1 DEF EncodeErrorHeaders
  <2>2. ASSUME NEW code, NEW saved \in BOOLEAN, NEW grpcError, NEW endStream,
               EncodeHeaders(code, saved, grpcError, endStream)
        PROVE  PromptInv'
    <3>1. UNCHANGED <<n, overlap>>
      BY <1>4, <2>2 DEF EncodeHeaders, Ops
    <3> QED
      BY <1>2, <2>2, <3>1 DEF EncodeHeaders
  <2>3. CASE EncodeResponse
    <3>1. del["main"] = "idle"
      BY <1>1, <2>3 DEF EncodeResponse, TimerInv, Threads
    <3> QED
      BY <1>3, <2>3, <3>1 DEF EncodeResponse
  <2>4. ASSUME NEW out, FinishResponse(out) PROVE PromptInv'
    BY <1>3, <2>4 DEF FinishResponse
  <2>5. CASE EncodeData
    <3>1. del["main"] = "idle"
      BY <1>1, <2>5 DEF EncodeData, TimerInv, Threads
    <3> QED
      BY <1>3, <2>5, <3>1 DEF EncodeData
  <2>6. CASE DoRespData
    BY <1>3, <2>6 DEF DoRespData
  <2> QED
    BY <1>6, <2>1, <2>2, <2>3, <2>4, <2>5, <2>6 DEF ResponsePath
<1>7. CASE Logging
  <2>1. ASSUME NEW ok \in BOOLEAN, DeleteRequest(ok) PROVE PromptInv'
    BY <1>2, <1>4, <2>1 DEF DeleteRequest, Ops
  <2> QED
    BY <1>2, <1>7, <2>1 DEF Logging, OnLog, StopInLog
<1>8. CASE TimerFires
  <2>1. del["timer"] = "idle"
    BY <1>1, <1>8 DEF TimerFires, TimerInv, Threads
  <2>2. del'["timer"] = "check" /\ del'["main"] = del["main"]
    BY <1>8 DEF TimerFires, TypeOK, Threads
  <2>3. Releasing' = Releasing /\ Marking' = Marking
    BY <2>1, <2>2, StepKinds DEF Releasing, Marking
  <2> QED
    BY <1>8, <2>3 DEF TimerFires, PromptInv
<1>9. ASSUME NEW th \in Threads, DeletePromptLength(th) PROVE PromptInv'
  <2>1. PICK other \in Threads :
           /\ other # th /\ Threads \ {th} = {other}
           /\ Releasing = Rel(del[th]) + Rel(del[other])
           /\ Marking = Mrk(del[th]) + Mrk(del[other])
           /\ Releasing' = Rel(del'[th]) + Rel(del'[other])
           /\ Marking' = Mrk(del'[th]) + Mrk(del'[other])
    BY TwoThreads
  <2>2. /\ Rel(del[other]) \in {0, 1} /\ Mrk(del[other]) \in {0, 1}
        /\ Rel(del[other]) + Mrk(del[other]) <= 1
        /\ Rel(del[other]) + Mrk(del[other]) = 1
              => del[other] \in {"stop", "call", "mark"}
    BY <1>1, StepKinds
  <2>3. \A step : del' = [del EXCEPT ![th] = step]
                    => del'[th] = step /\ del'[other] = del[other]
    BY <2>1 DEF TypeOK
  <2>4. CASE CheckPrompt(th)
    <3>1. /\ UNCHANGED <<n, isPromptLengthDeleted>>
          /\ del[th] = "check"
          /\ overlap' = (overlap \/ del[other] \in {"stop", "call", "mark"})
      BY <2>1, <2>4 DEF CheckPrompt
    <3>2. CASE ReleaseDue
      <4>1. del'[th] = "stop" /\ del'[other] = del[other]
        BY <2>3, <2>4, <3>2 DEF CheckPrompt
      <4>2. ~isPromptLengthDeleted /\ n = Mrk(del[other])
        BY <2>1, <2>2, <3>1, <3>2, StepKinds DEF ReleaseDue, PromptInv
      <4>3. Releasing' = 1 + Rel(del[other]) /\ Marking' = Mrk(del[other])
        BY <2>1, <2>2, <4>1, StepKinds
      <4>4. Rel(del[other]) + Mrk(del[other]) = 1 => overlap'
        BY <2>2, <3>1
      <4> QED
        BY <2>2, <3>1, <4>2, <4>3, <4>4 DEF PromptInv
    <3>3. CASE ~ReleaseDue
      <4>1. del'[th] = "returned" /\ del'[other] = del[other]
        BY <2>3, <2>4, <3>3 DEF CheckPrompt
      <4>2. Releasing' = Releasing /\ Marking' = Marking
        BY <2>1, <2>2, <3>1, <4>1, StepKinds
      <4>3. overlap => overlap'
        BY <3>1
      <4>4. Releasing \in Nat
        BY <2>1, <2>2, <3>1, StepKinds
      <4> QED
        BY <1>1, <3>1, <4>2, <4>3, <4>4 DEF PromptInv
    <3> QED
      BY <3>2, <3>3
  <2>5. CASE StopInDelete(th)
    <3>1. /\ UNCHANGED <<n, isPromptLengthDeleted, overlap>>
          /\ del[th] = "stop" /\ del'[th] = "call" /\ del'[other] = del[other]
      BY <2>3, <2>5 DEF StopInDelete
    <3>2. Releasing' = Releasing /\ Marking' = Marking
      BY <2>1, <2>2, <3>1, StepKinds
    <3> QED
      BY <3>1, <3>2 DEF PromptInv
  <2>6. ASSUME CallDelete(th, TRUE) PROVE PromptInv'
    <3>1. /\ UNCHANGED <<isPromptLengthDeleted, overlap>>
          /\ del[th] = "call" /\ del'[th] = "mark" /\ del'[other] = del[other]
      BY <2>3, <2>6 DEF CallDelete, Report
    <3>2. n' = n + 1
      BY <2>6 DEF CallDelete, Report, TypeOK, Ops
    <3>3. Releasing' = Releasing - 1 /\ Marking' = Marking + 1
      BY <2>1, <2>2, <3>1, StepKinds
    <3>4. Releasing \in Nat /\ Marking \in Nat
      BY <2>1, <2>2, <3>1, StepKinds
    <3> QED
      BY <1>1, <3>1, <3>2, <3>3, <3>4 DEF PromptInv
  <2>7. ASSUME CallDelete(th, FALSE) PROVE PromptInv'
    <3>1. /\ UNCHANGED <<n, isPromptLengthDeleted, overlap>>
          /\ del[th] = "call" /\ del'[th] = "returned" /\ del'[other] = del[other]
      BY <2>3, <2>7 DEF CallDelete, Report
    <3>2. Releasing' = Releasing - 1 /\ Marking' = Marking
      BY <2>1, <2>2, <3>1, StepKinds
    <3>3. Releasing \in Nat
      BY <2>1, <2>2, <3>1, StepKinds
    <3> QED
      BY <1>1, <3>1, <3>2, <3>3 DEF PromptInv
  <2>8. CASE MarkDeleted(th)
    <3>1. /\ UNCHANGED <<n, overlap>> /\ isPromptLengthDeleted'
          /\ del[th] = "mark" /\ del'[th] = "returned" /\ del'[other] = del[other]
      BY <2>3, <2>8 DEF MarkDeleted
    <3>2. Releasing' = Releasing
      BY <2>1, <2>2, <3>1, StepKinds
    <3> QED
      BY <3>1, <3>2 DEF PromptInv
  <2>9. ASSUME NEW ok \in BOOLEAN, CallDelete(th, ok) PROVE PromptInv'
    <3>1. CASE ok = TRUE
      BY <2>6, <2>9, <3>1
    <3>2. CASE ok = FALSE
      BY <2>7, <2>9, <3>2
    <3> QED
      BY <3>1, <3>2
  <2> QED
    BY <1>9, <2>4, <2>5, <2>8, <2>9 DEF DeletePromptLength
<1>10. CASE UNCHANGED vars
  BY <1>2, <1>10 DEF vars
<1> QED
  BY <1>5, <1>6, <1>7, <1>8, <1>9, <1>10 DEF Next, Main, Timer, Threads

\* A converted frame is an error only if nothing was delivered before, and
\* then has the rest dropped.
LEMMA FrameDeliver ==
    ASSUME TypeOK, DeliverInv, pc = "EncodeData",
           NEW kind \in FrameKinds, ConvertFrame(kind)
    PROVE  DeliverInv'
<1>1. ~dropRespData /\ pc' \in {"WaitData", "Ended"}
  BY FrameEffect
<1>2. /\ \A i \in 1 .. Len(delivered) : delivered[i] # "error"
      /\ ~chunkSeen => delivered = <<>>
  BY <1>1 DEF DeliverInv, Streaming
<1>3. delivered \in Seq({"data", "error"})
  BY DEF TypeOK
<1> USE DEF DeliverInv, Streaming, BeforeBody, Early, ErrorStandsAlone
<1>4. CASE kind = "firstError"
  <2>1. dropRespData' /\ chunkSeen' /\ ~chunkSeen
        /\ delivered' = Append(delivered, "error")
    BY <1>4, FrameEffect
  <2> QED
    BY <1>1, <1>2, <2>1
<1>5. CASE kind = "messages"
  <2>1. delivered' = Append(delivered, "data") /\ chunkSeen'
    BY <1>5, FrameEffect
  <2>2. \A i \in 1 .. Len(delivered') : delivered'[i] # "error"
    BY <1>2, <1>3, <2>1
  <2> QED
    BY <1>1, <2>1, <2>2
<1>6. CASE kind \in {"partial", "invalid"}
  <2>1. delivered' = delivered /\ (chunkSeen' <=> chunkSeen)
    BY <1>6, FrameEffect
  <2> QED
    BY <1>1, <1>2, <2>1
<1> QED
  BY <1>4, <1>5, <1>6 DEF FrameKinds

\* An error is the first thing delivered, and nothing follows it.
LEMMA DeliverInductive ==
    ASSUME TypeOK, DeliverInv, TypeOK', [Next]_vars PROVE DeliverInv'
<1> USE DEF TypeOK, shared, body, reports, DeliverInv, ErrorStandsAlone,
            Early, BeforeBody, Streaming
<1>1. CASE RequestPath
  <2>1. ASSUME NEW endStream \in BOOLEAN, DecodeHeaders(endStream) PROVE DeliverInv'
    BY <2>1 DEF DecodeHeaders
  <2>2. ASSUME NEW code \in {400, 404}, RejectRequest(code) PROVE DeliverInv'
    BY <2>2 DEF RejectRequest
  <2>3. ASSUME NEW stream \in BOOLEAN, AcceptRequest(stream) PROVE DeliverInv'
    BY <2>3 DEF AcceptRequest
  <2>4. ASSUME NEW ok \in BOOLEAN, AddRequest(ok) PROVE DeliverInv'
    BY <2>4 DEF AddRequest, Report
  <2>5. CASE StartTimer
    BY <2>5 DEF StartTimer
  <2>6. CASE KeepTimer
    BY <2>6 DEF KeepTimer
  <2> QED
    BY <1>1, <2>1, <2>2, <2>3, <2>4, <2>5, <2>6 DEF RequestPath
<1>2. CASE ResponsePath
  <2>1. ASSUME NEW code \in UpstreamStatus \cup {400, 404}, EncodeErrorHeaders(code)
        PROVE  DeliverInv'
    BY <2>1 DEF EncodeErrorHeaders
  <2>2. ASSUME NEW code \in UpstreamStatus, NEW saved \in BOOLEAN,
               NEW grpcError \in BOOLEAN, NEW endStream \in BOOLEAN,
               EncodeHeaders(code, saved, grpcError, endStream)
        PROVE  DeliverInv'
    BY <2>2 DEF EncodeHeaders, Report
  <2>3. CASE EncodeResponse
    BY <2>3 DEF EncodeResponse
  <2>4. ASSUME NEW out \in {<<>>, <<"data">>}, FinishResponse(out) PROVE DeliverInv'
    BY <2>4 DEF FinishResponse
  <2>5. CASE EncodeData
    BY <2>5 DEF EncodeData
  <2>6. CASE DoRespData
    <3>1. pc = "EncodeData"
      BY <2>6 DEF DoRespData
    <3>2. CASE DropFrame
      BY <3>1, <3>2 DEF DropFrame
    <3>3. ASSUME NEW kind \in FrameKinds, ConvertFrame(kind) PROVE DeliverInv'
      BY <3>1, <3>3, FrameDeliver
    <3> QED
      BY <2>6, <3>2, <3>3 DEF DoRespData
  <2> QED
    BY <1>2, <2>1, <2>2, <2>3, <2>4, <2>5, <2>6 DEF ResponsePath
<1>3. CASE Logging
  <2>1. CASE OnLog
    BY <2>1 DEF OnLog, DecreaseDue
  <2>2. CASE StopInLog
    BY <2>2 DEF StopInLog
  <2>3. ASSUME NEW ok \in BOOLEAN, DeleteRequest(ok) PROVE DeliverInv'
    BY <2>3 DEF DeleteRequest, Report
  <2> QED
    BY <1>3, <2>1, <2>2, <2>3 DEF Logging
<1>4. ASSUME NEW th \in Threads, DeletePromptLength(th) PROVE DeliverInv'
  <2>1. CASE CheckPrompt(th)
    BY <2>1 DEF CheckPrompt, ReleaseDue
  <2>2. CASE StopInDelete(th)
    BY <2>2 DEF StopInDelete
  <2>3. ASSUME NEW ok \in BOOLEAN, CallDelete(th, ok) PROVE DeliverInv'
    BY <2>3 DEF CallDelete, Report
  <2>4. CASE MarkDeleted(th)
    BY <2>4 DEF MarkDeleted
  <2> QED
    BY <1>4, <2>1, <2>2, <2>3, <2>4 DEF DeletePromptLength
<1>5. CASE TimerFires
  BY <1>5 DEF TimerFires
<1>6. CASE UNCHANGED vars
  BY <1>6 DEF vars
<1> QED
  BY <1>1, <1>2, <1>3, <1>4, <1>5, <1>6 DEF Next, Main, Timer, Threads

-----------------------------------------------------------------------------
\* A fresh filter satisfies the invariant.
LEMMA InitInv == Init => IndInv
<1> SUFFICES ASSUME Init PROVE IndInv
  OBVIOUS
<1>1. TypeOK
  <2>1. /\ del \in [Threads -> DeleteSteps]
        /\ tried \in [Ops -> Nat] /\ accepted \in [Ops -> Nat]
    BY DEF Init, DeleteSteps
  <2>2. /\ status \in UpstreamStatus \cup {0, 400, 404} /\ frames \in 0 .. MaxFrames
        /\ delivered \in Seq({"data", "error"}) /\ pc \in Phases
    BY DEF Init, Phases
  <2> QED
    BY <2>1, <2>2, Zenon DEF Init, TypeOK
<1>2. RecordInv
  BY DEF Init, RecordInv, Early, One, Threads, Ops
<1>3. TimerInv
  BY DEF Init, TimerInv, Threads
<1>4. PromptInv
  BY StepKinds DEF Init, PromptInv, Releasing, Marking, Threads, Ops
<1>5. DeliverInv
  BY DEF Init, DeliverInv, ErrorStandsAlone, Streaming, BeforeBody
<1> QED
  BY <1>1, <1>2, <1>3, <1>4, <1>5 DEF IndInv

\* The conjunction of the parts holds in every state of every request: it is
\* what the callbacks of filter.go and the timer preserve together.
THEOREM Inductive == Spec => []IndInv
<1>1. IndInv /\ [Next]_vars => IndInv'
  BY TypeInductive, RecordInductive, TimerInductive, PromptInductive,
     DeliverInductive DEF IndInv
<1> QED
  BY InitInv, <1>1, PTL DEF Spec

\* The state is always well typed.
THEOREM TypeCorrect == Spec => []TypeOK
  BY Inductive, PTL DEF IndInv

\* No release is attempted without an accepted AddRequest
\* (metadata_center.go:53, 98; filter.go:363).
THEOREM OnlyRecordedReleased == Spec => []ReleaseOnlyRecorded
<1>1. IndInv => ReleaseOnlyRecorded
  BY DEF IndInv, TypeOK, Ops, RecordInv, ReleaseOnlyRecorded, One
<1> QED
  BY Inductive, <1>1, PTL

\* The prompt length is released once, or twice when the timer's callback and
\* EncodeResponse overlap (metadata_center.go:93-117).
THEOREM PromptBound == Spec => []PromptReleaseBound
<1>1. IndInv => PromptReleaseBound
  <2>1. ASSUME IndInv
        PROVE  Releasing \in Nat /\ accepted["DeleteRequestPrompt"] \in Nat
    BY <2>1, StepKinds DEF IndInv, TypeOK, Ops, Threads, Releasing
  <2> QED
    BY <2>1 DEF IndInv, PromptInv, PromptReleaseBound
<1> QED
  BY Inductive, <1>1, PTL

\* After OnLog the load is given back exactly once and no timer is waiting
\* (filter.go:363-365; metadata_center.go:66-91).
THEOREM GivenBack == Spec => []LoadGivenBack
<1>1. IndInv => LoadGivenBack
  BY DEF IndInv, TypeOK, RecordInv, TimerInv, LoadGivenBack, One
<1> QED
  BY Inductive, <1>1, PTL

\* An error in the first message of a stream of any length is all the client
\* gets (filter.go:317-336).
THEOREM ErrorAlone == Spec => []ErrorStandsAlone
  BY Inductive, PTL DEF IndInv, DeliverInv
=============================================================================
