---------------------------- MODULE ProviderStreams ----------------------------
(***************************************************************************)
(* One model request and the stream that answers it (providers/index.ts).  *)
(* Three protocols deliver text, usage and tool calls in pieces, and end   *)
(* in three different ways.  The server may send any frame at any time,    *)
(* stop in the middle or be cut off; the calls must come out only of a     *)
(* stream that ended the way its protocol ends.                            *)
(***************************************************************************)
EXTENDS Integers, Sequences, FiniteSets

CONSTANTS Protocols,     \* the protocols looked at
          Indexes,       \* the positions of the calls of one answer, which name them
          MaxFrames      \* MAX_SSE_EVENTS

ASSUME StreamsAssumption == /\ Protocols \subseteq {"responses", "chat", "anthropic"}
                            /\ MaxFrames \in Nat

VARIABLES protocol,
          wire,      \* the frames the server sent, for the property
          parse,     \* what the reader has collected
          answer     \* "open", "failed" or "done", with the calls it yielded

psVars == <<protocol, wire, parse, answer>>

\* A piece of a call's arguments: the first half, with the id and the name, or
\* the second; "tool" and "text" open a block of Anthropic's.
Pieces == {"head", "tail"}
Frames ==
  CASE protocol = "responses" ->
         [type: {"text", "failed", "refusal"}] \cup [type: {"item"}, index: Indexes]
           \cup [type: {"completed"}, output: SUBSET Indexes] \cup [type: {"completed"}]
    [] protocol = "chat" ->
         [type: {"text", "stop", "tool_calls", "length", "usage", "error", "DONE"}]
           \cup [type: {"part"}, index: Indexes, piece: Pieces]
    [] protocol = "anthropic" ->
         [type: {"end_turn", "tool_use", "max_tokens", "ping", "error", "message_stop"}]
           \cup [type: {"start"}, index: Indexes, piece: {"tool", "text"}]
           \cup [type: {"delta"}, index: Indexes, piece: Pieces] \cup [type: {"stop"}, index: Indexes]

Unread == [calls |-> [i \in Indexes |-> "none"], stopped |-> {}, text |-> FALSE,
           ended |-> FALSE, reason |-> "none", broken |-> FALSE]
Open == [state |-> "open", calls |-> {}]
Failed == [state |-> "failed", calls |-> {}]

StreamsTypeOK ==
  /\ protocol \in Protocols /\ Len(wire) <= MaxFrames
  /\ parse \in [calls: [Indexes -> {"none", "opened", "head", "whole", "garbled", "text"}], stopped: SUBSET Indexes,
                text: BOOLEAN, ended: BOOLEAN, reason: {"none", "text", "calls"}, broken: BOOLEAN]
  /\ answer \in [state: {"open", "failed", "done"}, calls: SUBSET Indexes]

\* nativeRequest and the POST: a refusal of the server never opens a stream.
StreamsInit ==
  /\ protocol \in Protocols
  /\ wire = << >> /\ parse = Unread /\ answer = Open

-----------------------------------------------------------------------------
\* addChatPart and applyAnthropicDelta append the pieces of the arguments; only
\* the two in order are JSON.  An Anthropic tool block opens with an empty input.
Joined(call, piece) ==
  CASE call \in {"none", "opened"} /\ piece = "head" -> "head"
    [] call = "head" /\ piece = "tail" -> "whole"
    [] call = "text" -> "text"
    [] OTHER -> "garbled"

Whole == {"opened", "whole"}
Collected(states) == {i \in Indexes : parse.calls[i] \in states}

\* What a frame does to the reader; no result: it throws.
Responses(f) ==
  IF parse.ended THEN {} ELSE
  CASE f.type = "text" -> {[parse EXCEPT !.text = TRUE]}
    [] f.type = "item" -> {[parse EXCEPT !.calls[f.index] = "whole"]}
    \* validateResponseCompletion: the streamed items are among the completed
    \* ones; without an output the streamed items count, unless there was text.
    [] f.type = "completed" /\ "output" \in DOMAIN f ->
         IF Collected(Whole) \subseteq f.output
         THEN {[parse EXCEPT !.ended = TRUE, !.calls = [i \in Indexes |-> IF i \in f.output THEN "whole" ELSE "none"]]}
         ELSE {}
    [] f.type = "completed" /\ "output" \notin DOMAIN f -> IF parse.text THEN {} ELSE {[parse EXCEPT !.ended = TRUE]}
    [] OTHER -> {}

Chat(f) ==
  IF \/ parse.ended
     \/ f.type = "error"
     \/ parse.reason # "none" /\ f.type \notin {"DONE", "usage"}  \* content or a second reason after the terminal one
  THEN {} ELSE
  CASE f.type = "DONE" -> {[parse EXCEPT !.ended = TRUE]}
    [] f.type = "usage" -> {parse}
    [] f.type = "text" -> {[parse EXCEPT !.text = TRUE]}
    [] f.type = "part" -> {[parse EXCEPT !.calls[f.index] = Joined(@, f.piece)]}
    [] f.type = "stop" -> {[parse EXCEPT !.reason = "text"]}
    [] f.type = "tool_calls" -> {[parse EXCEPT !.reason = "calls"]}
    [] f.type = "length" -> {[parse EXCEPT !.broken = TRUE]}

Anthropic(f) ==
  IF f.type = "error" \/ (parse.ended /\ f.type # "ping") THEN {} ELSE
  CASE f.type = "ping" -> {parse}
    [] f.type = "message_stop" -> {[parse EXCEPT !.ended = TRUE]}
    [] f.type = "start" ->
         IF parse.calls[f.index] # "none" THEN {}
         ELSE {[parse EXCEPT !.calls[f.index] = IF f.piece = "tool" THEN "opened" ELSE "text"]}
    [] f.type = "delta" ->
         IF parse.calls[f.index] = "none" THEN {}
         ELSE {[parse EXCEPT !.calls[f.index] = Joined(@, f.piece)]}
    [] f.type = "stop" ->
         IF parse.calls[f.index] = "none" \/ f.index \in parse.stopped THEN {}
         ELSE {[parse EXCEPT !.stopped = @ \cup {f.index}]}
    [] f.type = "end_turn" -> {[parse EXCEPT !.reason = "text"]}
    [] f.type = "tool_use" -> {[parse EXCEPT !.reason = "calls"]}
    [] f.type = "max_tokens" -> {[parse EXCEPT !.broken = TRUE]}

Read(f) == CASE protocol = "responses" -> Responses(f)
             [] protocol = "chat" -> Chat(f)
             [] protocol = "anthropic" -> Anthropic(f)

\* Whatever was collected is dropped with the error.
FailStream == answer' = Failed /\ wire' = << >> /\ parse' = Unread

\* readSse yields the next frame; beyond its limit the stream fails.
Receive ==
  /\ answer.state = "open"
  /\ IF Len(wire) = MaxFrames THEN FailStream
     ELSE \E f \in Frames :
       IF Read(f) = {} THEN FailStream
       ELSE wire' = Append(wire, f) /\ parse' \in Read(f) /\ UNCHANGED answer
  /\ UNCHANGED protocol

\* Mutant: the blocks of an Anthropic message need not have stopped.
FinishedUnstopped ==
  /\ parse.ended /\ ~parse.broken
  /\ protocol # "responses" => parse.reason # "none" /\ (parse.reason = "calls" <=> Collected(Whole) # {})
  /\ Collected({"head", "garbled"}) = {}

\* The tests at the end of the body: the protocol's completion, a terminal reason
\* that agrees with the calls, every block stopped, all arguments complete JSON.
FinishedWell ==
  /\ parse.ended /\ ~parse.broken
  /\ protocol # "responses" => parse.reason # "none" /\ (parse.reason = "calls" <=> Collected(Whole) # {})
  /\ protocol = "anthropic" => parse.stopped = {i \in Indexes : parse.calls[i] # "none"}
  /\ Collected({"head", "garbled"}) = {}

\* The body ends, complete or not.
EndOfBody ==
  /\ answer.state = "open"
  /\ IF FinishedWell THEN answer' = [state |-> "done", calls |-> Collected(Whole)] /\ UNCHANGED <<wire, parse>> ELSE FailStream
  /\ UNCHANGED protocol

AbortStream == answer.state = "open" /\ FailStream /\ UNCHANGED protocol

\* The next request answers exactly the calls of the last one (requiredResults),
\* in the same protocol; anything else throws before the POST.
Continuation ==
  /\ answer.state = "done" /\ wire # << >>
  /\ \E results \in SUBSET Indexes :
       IF results = answer.calls
       THEN wire' = << >> /\ parse' = Unread /\ answer' = Open
       ELSE FailStream
  /\ UNCHANGED protocol

StreamsNext == Receive \/ EndOfBody \/ AbortStream \/ Continuation

-----------------------------------------------------------------------------
Sent(types) == {n \in DOMAIN wire : wire[n].type \in types}
PiecesOf(i) == {n \in Sent({"part", "delta"}) : wire[n].index = i}

\* An answer yields tool calls, or is complete at all, only when the server ended
\* the stream with its protocol's own signal, once and last; no failure reason
\* was among the frames, every call arrived in whole and before the reason, and
\* the reason says there are calls exactly when there are
\* (providers/index.ts:220-452).
CallsOnlyFromCompletedStreams ==
  answer.state = "done" =>
    /\ Cardinality(Sent({"completed", "DONE", "message_stop"})) = 1
    /\ \A n \in Sent({"completed", "DONE", "message_stop"}), m \in DOMAIN wire : m > n => wire[m].type = "ping"
    /\ Sent({"failed", "refusal", "error", "length", "max_tokens"}) = {}
    /\ \A i \in answer.calls : PiecesOf(i) # {} =>
         \E h \in PiecesOf(i), t \in PiecesOf(i) :
           h < t /\ PiecesOf(i) = {h, t} /\ wire[h].piece = "head" /\ wire[t].piece = "tail"
    /\ protocol = "chat" =>
         /\ Cardinality(Sent({"stop", "tool_calls"})) = 1
         /\ \A n \in Sent({"stop", "tool_calls"}), m \in Sent({"part", "text"}) : m < n
         /\ Sent({"tool_calls"}) # {} <=> Sent({"part"}) # {}
    /\ protocol = "anthropic" =>
         \A n \in Sent({"start"}) : \E m \in Sent({"stop"}) : m > n /\ wire[m].index = wire[n].index
    /\ protocol = "responses" => {wire[n].index : n \in Sent({"item"})} \subseteq answer.calls

=============================================================================
