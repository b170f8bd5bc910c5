------------------------------ MODULE LLMFilter ------------------------------
(***************************************************************************)
(* One request through plugins/llmproxy: the callbacks of filter.go in the *)
(* order Envoy and HTNN make them, and the load reports of                 *)
(* metadata_center.go they make on the way.                                *)
(*                                                                         *)
(* Two threads touch the filter.  "main" runs the callbacks, one at a time *)
(* (HTNN's FilterManager calls the phases of a request in order).  "timer" *)
(* is the goroutine time.AfterFunc starts for a non-streaming request; no  *)
(* lock orders it against main, so DeletePromptLength, which both run, is  *)
(* split at every access to shared state.                                  *)
(***************************************************************************)
EXTENDS Naturals, Sequences

CONSTANT MaxFrames      \* bound: response data frames per request

ASSUME FrameBound == MaxFrames \in Nat \ {0}

VARIABLES
    cfg,        \* the model's rule: is load / cache awareness enabled
    pc,         \* main: the callback that comes next or is under way
    \* fields of the filter both threads use
    isIncreaseRecorded, isPromptLengthDeleted,
    promptDecreaseTimer,    \* is the field non-nil
    timer,                  \* the runtime timer it stands for
    del,        \* per thread: where its call of DeletePromptLength stands
    \* fields only the callbacks use, and the response they work on
    isStream, dropRespData,
    fistRtTimestamp,        \* is it set
    status,     \* :status of the response, 0 before there is one
    frames,     \* data frames seen
    chunkSeen,  \* is the transcoder's chunkCount > 0
    delivered,  \* what doRespData has passed on to the client
    \* history
    tried,      \* calls made to the metadata center, by operation
    accepted,   \* those Dispatch accepted
    overlap     \* were both threads inside DeletePromptLength at once

shared   == <<isIncreaseRecorded, isPromptLengthDeleted, promptDecreaseTimer, timer>>
body     == <<isStream, dropRespData, fistRtTimestamp, frames, chunkSeen, delivered>>
reports  == <<tried, accepted, overlap>>

vars == <<cfg, pc, shared, del, status, body, reports>>

Threads == {"main", "timer"}

Ops == {"AddRequest", "DeleteRequestPrompt", "DeleteRequest", "SaveKVCache"}

\* Statuses an upstream may answer with; 404 and 400 are the filter's own.
UpstreamStatus == {200, 302, 500}

Phases == {"DecodeHeaders", "DecodeRequest", "AddRequest", "Recorded",
           "KeepTimer", "Upstream", "LocalReply", "WaitAllData",
           "EncodeResponse", "WaitData", "EncodeData", "Ended",
           "StopTimer", "DeleteRequest", "Done"}

DeleteSteps == {"idle", "check", "stop", "call", "mark", "returned"}

TypeOK ==
    /\ cfg \in [loadAware : BOOLEAN, cacheAware : BOOLEAN]
    /\ pc \in Phases
    /\ isIncreaseRecorded \in BOOLEAN /\ isPromptLengthDeleted \in BOOLEAN
    /\ promptDecreaseTimer \in BOOLEAN
    /\ timer \in {"none", "armed", "stopped", "fired"}
    /\ del \in [Threads -> DeleteSteps]
    /\ isStream \in BOOLEAN /\ dropRespData \in BOOLEAN
    /\ fistRtTimestamp \in BOOLEAN
    /\ status \in UpstreamStatus \cup {0, 400, 404}
    /\ frames \in 0 .. MaxFrames
    /\ chunkSeen \in BOOLEAN
    /\ delivered \in Seq({"data", "error"})
    /\ tried \in [Ops -> Nat] /\ accepted \in [Ops -> Nat]
    /\ overlap \in BOOLEAN

\* A fresh filter, under any of the configurations LbMappingConfigs allows.
Init ==
    /\ cfg \in [loadAware : BOOLEAN, cacheAware : BOOLEAN]
    /\ pc = "DecodeHeaders"
    /\ isIncreaseRecorded = FALSE /\ isPromptLengthDeleted = FALSE
    /\ promptDecreaseTimer = FALSE /\ timer = "none"
    /\ del = [th \in Threads |-> "idle"]
    /\ isStream = FALSE /\ dropRespData = FALSE /\ fistRtTimestamp = FALSE
    /\ status = 0 /\ frames = 0 /\ chunkSeen = FALSE /\ delivered = <<>>
    /\ tried = [op \in Ops |-> 0] /\ accepted = [op \in Ops |-> 0]
    /\ overlap = FALSE

\* A call to the metadata center client; ok is what Dispatch answered.
Report(op, ok) ==
    /\ tried' = [tried EXCEPT ![op] = @ + 1]
    /\ accepted' = IF ok THEN [accepted EXCEPT ![op] = @ + 1] ELSE accepted
    /\ UNCHANGED overlap

-----------------------------------------------------------------------------
\* The request path (main).

\* Mutant: another status for a request without a body.
DecodeHeadersStatus(endStream) ==
    /\ pc = "DecodeHeaders"
    /\ pc' = IF endStream THEN "LocalReply" ELSE "DecodeRequest"
    /\ status' = IF endStream THEN 411 ELSE status
    /\ UNCHANGED <<cfg, shared, del, body, reports>>

\* filter.go:116-122.  A request without a body is answered 400.
DecodeHeaders(endStream) ==
    /\ pc = "DecodeHeaders"
    /\ pc' = IF endStream THEN "LocalReply" ELSE "DecodeRequest"
    /\ status' = IF endStream THEN 400 ELSE status
    /\ UNCHANGED <<cfg, shared, del, body, reports>>

\* filter.go:128-141, 173-177, 188-191: no transcoder, request refused,
\* model unknown, no server to choose, request not convertible.
RejectRequest(code) ==
    /\ pc = "DecodeRequest"
    /\ status' = code
    /\ pc' = "LocalReply"
    /\ UNCHANGED <<cfg, shared, del, body, reports>>

\* filter.go:124-196: all of it went well; isStream is set before AddRequest.
AcceptRequest(stream) ==
    /\ pc = "DecodeRequest"
    /\ isStream' = stream
    /\ pc' = IF cfg.loadAware THEN "AddRequest" ELSE "Upstream"
    /\ UNCHANGED <<cfg, shared, del, dropRespData, fistRtTimestamp, status, frames,
                   chunkSeen, delivered, reports>>

\* metadata_center.go:45-50.
AddRequest(ok) ==
    /\ pc = "AddRequest"
    /\ Report("AddRequest", ok)
    /\ pc' = IF ok THEN "Recorded" ELSE "Upstream"
    /\ UNCHANGED <<cfg, shared, del, status, body>>

\* metadata_center.go:53-60: from here the timer may fire ...
StartTimer ==
    /\ pc = "Recorded"
    /\ isIncreaseRecorded' = TRUE
    /\ timer' = IF isStream THEN timer ELSE "armed"
    /\ pc' = IF isStream THEN "Upstream" ELSE "KeepTimer"
    /\ UNCHANGED <<cfg, isPromptLengthDeleted, promptDecreaseTimer, del, status, body,
                   reports>>

\* ... before AfterFunc's result reaches the field (line 60).
KeepTimer ==
    /\ pc = "KeepTimer"
    /\ promptDecreaseTimer' = TRUE
    /\ pc' = "Upstream"
    /\ UNCHANGED <<cfg, isIncreaseRecorded, isPromptLengthDeleted, timer, del, status,
                   body, reports>>

-----------------------------------------------------------------------------
\* DeletePromptLength, metadata_center.go:93-117, in either thread.

\* Mutant: whether the load was recorded is not looked at.
ReleaseDueUnrecorded == cfg.loadAware /\ ~isPromptLengthDeleted

\* Mutant: the flag is not looked at.
ReleaseDueUnflagged == cfg.loadAware /\ isIncreaseRecorded

\* Lines 94-105.
ReleaseDue == /\ cfg.loadAware
              /\ isIncreaseRecorded
              /\ ~isPromptLengthDeleted

CheckPrompt(th) ==
    /\ del[th] = "check"
    /\ del' = [del EXCEPT ![th] = IF ReleaseDue THEN "stop" ELSE "returned"]
    /\ overlap' = (overlap \/ \E other \in Threads \ {th} :
                                 del[other] \in {"stop", "call", "mark"})
    /\ UNCHANGED <<cfg, pc, shared, status, body, tried, accepted>>

\* StopPromptDecreaseTimer, lines 82-91: Stop does not wait for a callback
\* that has started.
StopPromptDecreaseTimer ==
    /\ promptDecreaseTimer' = FALSE
    /\ timer' = IF promptDecreaseTimer /\ timer = "armed" THEN "stopped"
                ELSE timer

StopInDelete(th) ==
    /\ del[th] = "stop"
    /\ StopPromptDecreaseTimer
    /\ del' = [del EXCEPT ![th] = "call"]
    /\ UNCHANGED <<cfg, pc, isIncreaseRecorded, isPromptLengthDeleted, status, body,
                   reports>>

\* Lines 109-114: on an error the flag stays clear.
CallDelete(th, ok) ==
    /\ del[th] = "call"
    /\ Report("DeleteRequestPrompt", ok)
    /\ del' = [del EXCEPT ![th] = IF ok THEN "mark" ELSE "returned"]
    /\ UNCHANGED <<cfg, pc, shared, status, body>>

\* Line 115.
MarkDeleted(th) ==
    /\ del[th] = "mark"
    /\ isPromptLengthDeleted' = TRUE
    /\ del' = [del EXCEPT ![th] = "returned"]
    /\ UNCHANGED <<cfg, pc, isIncreaseRecorded, promptDecreaseTimer, timer, status,
                   body, reports>>

DeletePromptLength(th) ==
    \/ CheckPrompt(th)
    \/ StopInDelete(th)
    \/ \E ok \in BOOLEAN : CallDelete(th, ok)
    \/ MarkDeleted(th)

\* The timer expires and its goroutine calls DeletePromptLength (line 60-62).
TimerFires ==
    /\ timer = "armed"
    /\ timer' = "fired"
    /\ del' = [del EXCEPT !["timer"] = "check"]
    /\ UNCHANGED <<cfg, pc, isIncreaseRecorded, isPromptLengthDeleted,
                   promptDecreaseTimer, status, body, reports>>

-----------------------------------------------------------------------------
\* The response path (main).

\* filter.go:229-232, for the filter's own replies and for the upstream's.
EncodeErrorHeaders(code) ==
    /\ \/ pc = "LocalReply" /\ code = status
       \/ pc = "Upstream" /\ code \in UpstreamStatus
    /\ code >= 400
    /\ status' = code
    /\ pc' = "WaitAllData"
    /\ UNCHANGED <<cfg, shared, del, body, reports>>

\* filter.go:234-258: save the KV cache, then look at grpc-status
\* (DecodeHeaders of the transcoder), then at the body.
EncodeHeaders(code, saved, grpcError, endStream) ==
    /\ pc = "Upstream"
    /\ code < 400
    /\ IF cfg.cacheAware THEN Report("SaveKVCache", saved)
                         ELSE UNCHANGED reports
    /\ status' = code
    /\ pc' = IF grpcError \/ endStream THEN "Ended"
             ELSE IF isStream THEN "WaitData" ELSE "WaitAllData"
    /\ UNCHANGED <<cfg, shared, del, body>>

\* filter.go:273-275.
EncodeResponse ==
    /\ pc = "WaitAllData"
    /\ pc' = "EncodeResponse"
    /\ del' = [del EXCEPT !["main"] = "check"]
    /\ UNCHANGED <<cfg, shared, status, body, reports>>

\* filter.go:277-313 once DeletePromptLength has returned: an error body, or
\* doRespData on the whole response, which may have nothing to pass on.
FinishResponse(out) ==
    /\ pc = "EncodeResponse" /\ del["main"] = "returned"
    /\ del' = [del EXCEPT !["main"] = "idle"]
    /\ delivered' = IF status >= 400 THEN <<"error">> ELSE out
    /\ pc' = "Ended"
    /\ UNCHANGED <<cfg, shared, status, isStream, dropRespData, fistRtTimestamp,
                   frames, chunkSeen, reports>>

\* filter.go:352-353 with setTokenTimestamp, lines 398-405: the first frame
\* of a stream releases the prompt length.
EncodeData ==
    /\ pc = "WaitData" /\ frames < MaxFrames
    /\ frames' = frames + 1
    /\ pc' = "EncodeData"
    /\ fistRtTimestamp' = TRUE
    /\ del' = [del EXCEPT !["main"] =
                  IF fistRtTimestamp THEN "returned" ELSE "check"]
    /\ UNCHANGED <<cfg, shared, status, isStream, dropRespData, chunkSeen, delivered,
                   reports>>

\* What GetResponseData makes of a frame of a stream
\* (openai.go:304-367): no complete SSE message yet; messages to pass on; an
\* error object as the first message; an invalid SSE message.
FrameKinds ==
    {"partial", "messages", "invalid"}
        \cup (IF chunkSeen THEN {} ELSE {"firstError"})

\* Mutant: the remaining response data is not dropped.
FirstErrorNoDrop ==
    status' = 400 /\ isStream' = FALSE /\ UNCHANGED dropRespData

\* filter.go:331-336: an error in the first message turns the status to 400
\* and has the remaining response data dropped.
FirstError ==
    status' = 400 /\ isStream' = FALSE /\ dropRespData' = TRUE

\* doRespData, filter.go:316-350: the frame is dropped ...
DropFrame ==
    /\ dropRespData
    /\ pc' = "WaitData"
    /\ UNCHANGED <<status, isStream, dropRespData, chunkSeen, delivered>>

\* ... or converted, and what comes out of it passed on.
ConvertFrame(kind) ==
    /\ ~dropRespData
    /\ pc' = IF kind = "invalid" THEN "Ended" ELSE "WaitData"
    /\ IF kind = "firstError" THEN FirstError
                              ELSE UNCHANGED <<status, isStream, dropRespData>>
    /\ chunkSeen' = (chunkSeen \/ kind \in {"messages", "firstError"})
    /\ delivered' = CASE kind = "firstError" -> Append(delivered, "error")
                      [] kind = "messages" -> Append(delivered, "data")
                      [] OTHER -> delivered

DoRespData ==
    /\ pc = "EncodeData" /\ del["main"] = "returned"
    /\ del' = [del EXCEPT !["main"] = "idle"]
    /\ \/ DropFrame
       \/ \E kind \in FrameKinds : ConvertFrame(kind)
    /\ UNCHANGED <<cfg, shared, fistRtTimestamp, frames, reports>>

-----------------------------------------------------------------------------
\* The end of the request (main).

\* Mutant: only answered requests give their load back.
DecreaseDueAnswered == isIncreaseRecorded /\ cfg.loadAware /\ status # 0

\* filter.go:363 and metadata_center.go:67.
DecreaseDue == isIncreaseRecorded /\ cfg.loadAware

\* Mutant: the timer is not stopped.
OnLogNoStop ==
    /\ pc \in {"DecodeHeaders", "DecodeRequest", "LocalReply", "Upstream",
               "WaitAllData", "WaitData", "Ended"}
    /\ pc' = IF DecreaseDue THEN "DeleteRequest" ELSE "Done"
    /\ UNCHANGED <<cfg, shared, del, status, body, reports>>

\* filter.go:357-365.  Envoy logs a request once, when it is complete or
\* when the client has gone, and then no other callback is under way.
OnLog ==
    /\ pc \in {"DecodeHeaders", "DecodeRequest", "LocalReply", "Upstream",
               "WaitAllData", "WaitData", "Ended"}
    /\ pc' = IF DecreaseDue THEN "StopTimer" ELSE "Done"
    /\ UNCHANGED <<cfg, shared, del, status, body, reports>>

\* DecreaseMetaDataCenter, metadata_center.go:72.
StopInLog ==
    /\ pc = "StopTimer"
    /\ StopPromptDecreaseTimer
    /\ pc' = "DeleteRequest"
    /\ UNCHANGED <<cfg, isIncreaseRecorded, isPromptLengthDeleted, del, status, body,
                   reports>>

\* DecreaseMetaDataCenter, metadata_center.go:74-79: an error is only logged.
DeleteRequest(ok) ==
    /\ pc = "DeleteRequest"
    /\ Report("DeleteRequest", ok)
    /\ pc' = "Done"
    /\ UNCHANGED <<cfg, shared, del, status, body>>

-----------------------------------------------------------------------------
RequestPath ==
    \/ \E endStream \in BOOLEAN : DecodeHeaders(endStream)
    \/ \E code \in {400, 404} : RejectRequest(code)
    \/ \E stream \in BOOLEAN : AcceptRequest(stream)
    \/ \E ok \in BOOLEAN : AddRequest(ok)
    \/ StartTimer
    \/ KeepTimer

ResponsePath ==
    \/ \E code \in UpstreamStatus \cup {400, 404} : EncodeErrorHeaders(code)
    \/ \E code \in UpstreamStatus : \E saved, grpcError, endStream \in BOOLEAN :
          EncodeHeaders(code, saved, grpcError, endStream)
    \/ EncodeResponse
    \/ \E out \in {<<>>, <<"data">>} : FinishResponse(out)
    \/ EncodeData
    \/ DoRespData

Logging ==
    \/ OnLog
    \/ StopInLog
    \/ \E ok \in BOOLEAN : DeleteRequest(ok)

Main == RequestPath \/ ResponsePath \/ Logging \/ DeletePromptLength("main")

Timer == TimerFires \/ DeletePromptLength("timer")

Next == Main \/ Timer

Spec == Init /\ [][Next]_vars

\* Envoy makes the next callback of a request or, at the latest when the
\* stream is torn down, logs it; a timer expires and its goroutine runs.
Fairness == WF_vars(Main) /\ WF_vars(Timer)

FairSpec == Spec /\ Fairness

-----------------------------------------------------------------------------

\* Nothing is subtracted that was not added: neither release is even
\* attempted unless the request's AddRequest was accepted before
\* (metadata_center.go:53, 98; filter.go:363).
ReleaseOnlyRecorded ==
    tried["DeleteRequestPrompt"] + tried["DeleteRequest"] > 0
        => accepted["AddRequest"] = 1

\* What the flag does guarantee: the prompt length of a request is released
\* once, except that a timer callback and EncodeResponse that are inside
\* DeletePromptLength at the same time may release it twice
\* (metadata_center.go:93-117).
PromptReleaseBound ==
    accepted["DeleteRequestPrompt"] <= IF overlap THEN 2 ELSE 1

\* By the time a request has been logged its load is given back exactly
\* once if it was taken, and the timer is no longer waiting: at most a
\* callback that had already started is still to come
\* (filter.go:363-365; metadata_center.go:66-91).
LoadGivenBack ==
    pc = "Done" =>
        /\ tried["DeleteRequest"] = accepted["AddRequest"]
        /\ timer # "armed"

\* An error found in the first SSE message is all the client gets: nothing
\* has been passed on before it and nothing follows
\* (filter.go:317-336; openai.go:354-357).
ErrorStandsAlone ==
    \A i \in 1 .. Len(delivered) : delivered[i] = "error" => Len(delivered) = 1

\* Load that was reported is eventually given back, whichever way the
\* request ends.
LoadReleased == accepted["AddRequest"] = 1 ~> tried["DeleteRequest"] = 1

\* What learning/index.md:281 and :507 say, "DeletePromptLength 只会执行一次
\* (通过 isPromptLengthDeleted 标志位保证)": the prompt length of a request is
\* released at most once.
PromptReleasedOnce == accepted["DeleteRequestPrompt"] <= 1
=============================================================================
