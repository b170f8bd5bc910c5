---------------------------- MODULE MCTranscoder ----------------------------
(* An instance of Transcoder for TLC. *)
EXTENDS Transcoder

Text(c, r) == [content |-> c, reasoning |-> r]
Chunk(choices, total, cached) ==
    [kind |-> "chunk", choices |-> choices, total |-> total, cached |-> cached]
One(words) == Chunk(<<Text(words, <<>>)>>, 0, 0)

\* Chunks as inference engines send them: a role without content, thinking
\* that starts, goes on and ends at or inside a chunk, plain text, a text
\* that came already split, two choices, and usage with and without choices.
MCBody ==
    [ role   |-> One(<<>>),
      start  |-> One(<<"<think>", "a">>),
      more   |-> One(<<"b">>),
      stop   |-> One(<<"c", "</think>">>),
      tag    |-> One(<<"</think>", "d">>),
      all    |-> Chunk(<<Text(<<"<think>", "a", "</think>", "e">>, <<>>)>>, 4, 0),
      split  |-> Chunk(<<Text(<<>>, <<"r">>)>>, 3, 1),
      two    |-> Chunk(<<Text(<<"<think>">>, <<>>), Text(<<"f">>, <<>>)>>, 2, 0),
      usage  |-> Chunk(<<>>, 9, 2),
      error  |-> [kind |-> "error"],
      odd    |-> [kind |-> "other"],
      done   |-> [kind |-> "done"] ]

MCResponses ==
    { <<"role", "start", "more", "stop", "more", "usage", "done">>,
      <<"start", "tag", "tag", "done">>,
      <<"role", "more", "tag", "start", "done">>,
      <<"all", "usage", "split", "error">>,
      <<"split", "start", "done">>,
      <<"role", "two", "stop", "two">>,
      <<"usage", "all", "odd", "more">>,
      <<"error", "more", "done">>,
      <<"more", "error", "more">> }
    \cup { <<m>> : m \in DOMAIN MCBody }

MCLineEnds == { <<"LF">>, <<"CR">>, <<"CR", "LF">> }
=============================================================================
