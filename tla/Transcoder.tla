----------------------------- MODULE Transcoder -----------------------------
(***************************************************************************)
(* The OpenAI transcoder's response path for HTTP backends: server-sent    *)
(* events cut into frames wherever the network likes, or one whole body;   *)
(* the optional split of reasoning from content; and the log items kept on *)
(* the way.                                                                *)
(*                                                                         *)
(* Bytes are tokens: "data" (4 bytes), ":" and the line ends "CR" and "LF" *)
(* (1 byte each), and names of messages, each longer than 5 bytes, whose   *)
(* parsed contents Body gives.  A text is a sequence of words, "<think>"   *)
(* and "</think>" among them; an absent text and an empty one are the same *)
(* here, as they are to everything downstream.                             *)
(***************************************************************************)
EXTENDS Integers, Sequences, SequencesExt

CONSTANTS
    Responses,      \* responses an upstream may send: sequences of messages
    LineEnds,       \* line ends an upstream may use
    Body            \* message -> what its JSON says

VARIABLES
    isStream, splitReasoning,   \* fixed: the request and the environment
    msgs, eol,                  \* fixed: what the upstream sends
    pos,                        \* tokens of it received
    remainBuf,                  \* received and not yet a whole event
    t,                          \* the rest of the transcoder's state
    parted                      \* history: a cut parted a CR from its LF

vars == <<isStream, splitReasoning, msgs, eol, pos, remainBuf, t, parted>>

\* What remains of a message whose first five bytes were not "data:".
Damaged == "damaged"

\* No error and no early end.
None == "none"

Tokens == DOMAIN Body \cup {"data", ":", "CR", "LF"}
Words == Seq(STRING)
Choice == [content : Words, reasoning : Words]
ChoiceLists == Seq(Choice)

ASSUME BodyAssumption ==
    /\ DOMAIN Body \cap {"data", ":", "CR", "LF", Damaged} = {}
    /\ \A m \in DOMAIN Body :
          /\ Body[m].kind \in {"chunk", "error", "other", "done"}
          /\ Body[m].kind = "chunk" =>
                /\ Body[m].choices \in ChoiceLists
                /\ Body[m].total \in Nat /\ Body[m].cached \in Nat
ASSUME ResponsesAssumption == Responses \subseteq Seq(DOMAIN Body)
ASSUME LineEndsAssumption == LineEnds \subseteq {<<"LF">>, <<"CR">>, <<"CR", "LF">>}

-----------------------------------------------------------------------------
\* Reasoning.

EndTag(text) == SelectInSeq(text, LAMBDA w : w = "</think>")
After(text, i) == SubSeq(text, i + 1, Len(text))

\* extractReasoningContent of a whole text.
extractReasoningContent(text) ==
    IF text = <<>> \/ text[1] # "<think>" THEN [content |-> text, reasoning |-> <<>>]
    ELSE LET end == EndTag(text)
         IN  IF end = 0 THEN [content |-> <<>>, reasoning |-> Tail(text)]
             ELSE [content |-> After(text, end), reasoning |-> SubSeq(text, 2, end - 1)]

\* Mutant: an empty chunk counts as the first one.
MetAnyChunk(s, chunk) == TRUE

MetFirstChunk(s, chunk) == s.metFirstChunk \/ chunk # <<>>

\* extractReasoningContentFromChunk: s is what it remembers between chunks.
extractReasoningContentFromChunk(s, chunk) ==
    LET starts   == ~s.metFirstChunk /\ chunk # <<>> /\ chunk[1] = "<think>"
        thinking == starts \/ s.isThinking
        text     == IF starts THEN Tail(chunk) ELSE chunk
        end      == EndTag(text)
    IN  [ metFirstChunk |-> MetFirstChunk(s, chunk),
          isThinking    |-> thinking /\ end = 0,
          content       |-> IF ~thinking THEN text
                            ELSE IF end = 0 THEN <<>> ELSE After(text, end),
          reasoning     |-> IF ~thinking THEN <<>>
                            ELSE IF end = 0 THEN text ELSE SubSeq(text, 1, end - 1) ]

\* convertOpenAIChatCompletion, for every choice of a whole response ...
convertOpenAIChatCompletion(choices) ==
    [ i \in DOMAIN choices |->
        IF choices[i].reasoning = <<>> THEN extractReasoningContent(choices[i].content)
        ELSE choices[i] ]

\* ... and convertOpenAIChatCompletionChunk: the choices of a chunk share s.
ConvertChoice(s, choice) ==
    IF choice.reasoning # <<>> THEN [s EXCEPT !.choices = Append(@, choice)]
    ELSE LET e == extractReasoningContentFromChunk(s, choice.content)
         IN  [ metFirstChunk |-> e.metFirstChunk, isThinking |-> e.isThinking,
               choices |-> Append(s.choices, [content |-> e.content, reasoning |-> e.reasoning]) ]

convertOpenAIChatCompletionChunk(s, choices) ==
    FoldLeft(ConvertChoice,
             [metFirstChunk |-> s.metFirstChunk, isThinking |-> s.isThinking, choices |-> <<>>],
             choices)

-----------------------------------------------------------------------------
\* Log items.

NoLog == [content |-> <<>>, thinking |-> <<>>, total |-> 0, cached |-> 0, err |-> None]

Contents(choices) == FlattenSeq([i \in DOMAIN choices |-> choices[i].content])
Reasonings(choices) == FlattenSeq([i \in DOMAIN choices |-> choices[i].reasoning])

\* Mutant: the last usage is kept, not the largest.
AppendLastUsage(log, body) == [log EXCEPT !.total = body.total, !.cached = body.cached]

appendUsage(log, body) ==
    IF body.total > log.total
    THEN [log EXCEPT !.total = body.total,
                     !.cached = IF body.cached # 0 THEN body.cached ELSE @]
    ELSE log

\* AppendManualOpenAIChunkResponse and AppendManualOpenAIResponse.
AppendResponse(log, choices, body) ==
    appendUsage([log EXCEPT !.content = @ \o Contents(choices),
                            !.thinking = @ \o Reasonings(choices)], body)

-----------------------------------------------------------------------------
\* The stream.

\* CR LF becomes LF, then every other CR does: an LF after a CR is dropped.
UnifyToken(u, token) ==
    [ text |-> IF token = "LF" /\ u.cr THEN u.text
               ELSE Append(u.text, IF token = "CR" THEN "LF" ELSE token),
      cr   |-> token = "CR" ]
unifySSEChunk(data) == FoldLeft(UnifyToken, [text |-> <<>>, cr |-> FALSE], data).text

\* Mutant: an event ends with its line.
SplitLine(s, token) ==
    IF token = "LF" THEN [pieces |-> Append(s.pieces, s.last), last |-> <<>>]
    ELSE [s EXCEPT !.last = Append(@, token)]

\* bytes.Split at LF LF: the pieces but the last, and the last.
SplitToken(s, token) ==
    IF token = "LF" /\ s.last # <<>> /\ Last(s.last) = "LF"
    THEN [pieces |-> Append(s.pieces, Front(s.last)), last |-> <<>>]
    ELSE [pieces |-> s.pieces, last |-> Append(s.last, token)]
Split(data) == FoldLeft(SplitToken, [pieces |-> <<>>, last |-> <<>>], data)

\* A piece shorter than "data:" is no message.
TooShort(piece) == piece \in {<<>>, <<"LF">>, <<":">>, <<"data">>}

\* Five bytes dropped, blanks trimmed.
Message(piece) ==
    IF Len(piece) >= 3 /\ piece[1] = "data" /\ piece[2] = ":"
    THEN piece[Min({i \in 3 .. Len(piece) : piece[i] # "LF"})]
    ELSE Damaged

\* Mutant: what follows the last separator is dropped.
ForgetTail(s) == <<>>

\* A partial event waits for the next frame.
PartialEvent(s) == s.last

responseMessages(buf) ==
    LET s == Split(unifySSEChunk(buf))
    IN  [ err |-> \E i \in DOMAIN s.pieces : TooShort(s.pieces[i]),
          messages |-> [i \in DOMAIN s.pieces |-> Message(s.pieces[i])],
          remainBuf |-> PartialEvent(s) ]

\* The transcoder before the first frame.  out is what it has passed on and
\* end how the filter ended the response early: "400", "503" or None.
Fresh == [ chunkCount |-> 0, metFirstChunk |-> FALSE, isThinking |-> FALSE,
           out |-> <<>>, log |-> NoLog, end |-> None ]

Deliver(s, msg, choices) == [s EXCEPT !.out = Append(@, [msg |-> msg, choices |-> choices])]

ConvertChunk(s, msg) ==
    LET body == Body[msg]
        c == convertOpenAIChatCompletionChunk(s, body.choices)
    IN  IF splitReasoning
        THEN [ Deliver(s, msg, c.choices) EXCEPT
                 !.metFirstChunk = c.metFirstChunk, !.isThinking = c.isThinking,
                 !.log = AppendResponse(@, c.choices, body) ]
        ELSE [ Deliver(s, msg, body.choices) EXCEPT
                 !.log = AppendResponse(@, body.choices, body) ]

\* An error object ends the response only if no message came before it.
ConvertError(s, msg) ==
    [ Deliver(s, msg, <<>>) EXCEPT !.log.err = msg,
                                   !.end = IF s.chunkCount = 1 THEN "400" ELSE None ]

\* One message of convertOpenAiResp's loop.
HandleMessage(s, msg) ==
    LET counted == [s EXCEPT !.chunkCount = @ + 1]
    IN  IF s.end # None THEN s
        ELSE IF msg = Damaged \/ Body[msg].kind \in {"done", "other"}
        THEN Deliver(counted, msg, <<>>)
        ELSE IF Body[msg].kind = "chunk" THEN ConvertChunk(counted, msg)
        ELSE ConvertError(counted, msg)

Event(msg) == <<"data", ":", msg>> \o eol \o eol
Wire == FlattenSeq([i \in DOMAIN msgs |-> Event(msgs[i])])

-----------------------------------------------------------------------------
\* The request has been encoded; the upstream has a response in mind.  A
\* whole response is one message.
Init ==
    /\ isStream \in BOOLEAN /\ splitReasoning \in BOOLEAN
    /\ msgs \in { r \in Responses : isStream \/ Len(r) = 1 }
    /\ eol \in LineEnds
    /\ pos = 0 /\ remainBuf = <<>> /\ t = Fresh /\ parted = FALSE

\* GetResponseData for a frame that ends with token number p.
ReceiveFrame(p) ==
    LET r == responseMessages(remainBuf \o SubSeq(Wire, pos + 1, p))
    IN  /\ isStream /\ t.end = None /\ p \in pos + 1 .. Len(Wire)
        /\ pos' = p
        /\ remainBuf' = r.remainBuf
        /\ t' = IF r.err THEN [t EXCEPT !.end = "503"]
                ELSE FoldLeft(HandleMessage, t, r.messages)
        /\ parted' = (parted \/ (p < Len(Wire) /\ Wire[p] = "CR" /\ Wire[p + 1] = "LF"))
        /\ UNCHANGED <<isStream, splitReasoning, msgs, eol>>

\* The rest of a response that was ended early goes nowhere.
DropFrames ==
    /\ isStream /\ t.end # None /\ pos < Len(Wire)
    /\ pos' = Len(Wire)
    /\ UNCHANGED <<isStream, splitReasoning, msgs, eol, remainBuf, t, parted>>

\* GetResponseData for a whole response.
ReceiveWhole ==
    LET msg == msgs[1]
        body == Body[msg]
        choices == IF splitReasoning THEN convertOpenAIChatCompletion(body.choices)
                   ELSE body.choices
    IN  /\ ~isStream /\ pos = 0
        /\ pos' = Len(Wire)
        /\ t' = IF body.kind = "chunk"
                THEN [ Deliver(t, msg, choices) EXCEPT
                         !.log = AppendResponse(@, choices, body) ]
                ELSE [ Deliver(t, msg, <<>>) EXCEPT
                         !.log.err = IF body.kind = "error" THEN msg ELSE @ ]
        /\ UNCHANGED <<isStream, splitReasoning, msgs, eol, remainBuf, parted>>

Next ==
    \/ \E p \in 1 .. Len(Wire) : ReceiveFrame(p)
    \/ DropFrames
    \/ ReceiveWhole

Spec == Init /\ [][Next]_vars

-----------------------------------------------------------------------------
\* How many events have been received to their last byte.
Received == pos \div (3 + 2 * Len(eol))

\* The client gets every event received so far, in order and converted as if
\* each had come in a frame of its own, and so does the log, however the
\* stream was cut, as long as no cut parted a CR from its LF
\* (common.go:110-142, openai.go:304-366).
CutIndependent ==
    isStream /\ ~parted /\ t.end # "503" =>
        t = FoldLeft(HandleMessage, Fresh, SubSeq(msgs, 1, Received))

\* A cut between CR and LF damages messages but invents, drops and reorders
\* none: the i-th message passed on is the i-th event or what is left of it,
\* and the first is never damaged; without such a cut the response does not
\* fail (common.go:119-138).
DamageConfined ==
    isStream =>
        /\ \A i \in DOMAIN t.out : t.out[i].msg \in {msgs[i], Damaged}
        /\ t.out # <<>> => t.out[1].msg # Damaged
        /\ t.end = "503" => parted
        /\ t.end = None => Len(t.out) >= Received

ChoicesOf(m) == IF Body[m].kind = "chunk" THEN Body[m].choices ELSE <<>>
Single(m) == Body[m].kind # "chunk" \/
    (Len(ChoicesOf(m)) <= 1 /\ Reasonings(ChoicesOf(m)) = <<>>)
OutContent == FlattenSeq([i \in DOMAIN t.out |-> Contents(t.out[i].choices)])
OutReasoning == FlattenSeq([i \in DOMAIN t.out |-> Reasonings(t.out[i].choices)])

\* Splitting a stream chunk by chunk gives the reasoning and the content that
\* splitting its whole text gives, for responses with one choice
\* (openai.go:189-247).
ReasoningSplitAgrees ==
    LET text == FlattenSeq([i \in DOMAIN t.out |-> Contents(ChoicesOf(msgs[i]))])
    IN  splitReasoning /\ ~parted /\ (\A i \in DOMAIN msgs : Single(msgs[i]))
        => [content |-> OutContent, reasoning |-> OutReasoning] = extractReasoningContent(text)

\* The log holds the text that went to the client, no matter in how many
\* pieces, and the largest usage the upstream reported
\* (log_content.go:106-177).
LogAgrees ==
    LET totals == { Body[t.out[i].msg].total :
                      i \in { j \in DOMAIN t.out : t.out[j].msg # Damaged
                                /\ Body[t.out[j].msg].kind = "chunk" } }
    IN  /\ t.log.content = OutContent
        /\ t.log.thinking = OutReasoning
        /\ t.log.total = IF totals = {} THEN 0
                         ELSE CHOOSE n \in totals : \A m \in totals : m <= n
=============================================================================
