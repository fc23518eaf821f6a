---------------------------- MODULE StreamAdapter ---------------------------
(***************************************************************************)
(* POST /v1/messages: the chunks of an OpenAI stream become the events of  *)
(* an Anthropic message (createStreamAdapter), which AnthropicController   *)
(* writes to the client.  Beside it, the two conversions a conversation    *)
(* goes through: a completion that was not streamed (translateResponse),   *)
(* and the client's next request, which carries the message back           *)
(* (translateMessages).                                                     *)
(*                                                                         *)
(* A chunk carries at most a piece of reasoning, a piece of text and a     *)
(* fragment of a tool call; pieces are told apart by where they belong.    *)
(* The upstream sends them in any order, and after a finish reason nothing *)
(* but usage.  The generator yields one event at a time; a chunk is read   *)
(* when the events of the one before are written.                          *)
(***************************************************************************)
EXTENDS Integers, Sequences, FiniteSets, SequencesExt

CONSTANTS
    CallIndex,   \* indices of tool calls
    MaxChunks    \* bound on the chunks of a stream

ASSUME StreamAssumption == CallIndex \subseteq Nat /\ MaxChunks \in Nat

VARIABLES
    adapter,  \* the variables of createStreamAdapter
    queue,    \* events yielded and not written yet
    message,  \* what the client has put together from the events written
    request,  \* what the client's next request becomes: [reply, turns]
    upstream, \* what the upstream has said, and whether it still speaks
    said      \* history: the completion its chunks add up to

vars == <<adapter, queue, message, request, upstream, said>>

\* Headings of blocks; a call is known by its index, and by its id, which is
\* generated when the fragment that opens the block brings none.
Thinking == [kind |-> "thinking", call |-> 0, named |-> TRUE]
Text     == [kind |-> "text", call |-> 0, named |-> TRUE]
Call(i, named) == [kind |-> "tool_use", call |-> i, named |-> named]
Heading  == {Thinking, Text} \cup {Call(i, named) : i \in CallIndex, named \in BOOLEAN}
Piece    == [kind : {"thinking", "text", "tool_use"}, call : CallIndex \cup {0}]

NoCall   == -1
Fragment == [call : CallIndex, args : BOOLEAN]
NoFragment == [call |-> NoCall, args |-> FALSE]
Chunk ==
    [reasoning : BOOLEAN, text : BOOLEAN, fragment : Fragment \cup {NoFragment},
     finish : BOOLEAN, usage : BOOLEAN]

Copies(piece, n) == [k \in 1..n |-> piece]

TypeOK ==
    /\ adapter.state \in {"WAITING", "IN_THINKING", "IN_TEXT", "IN_TOOL_USE", "CLOSED"}
    /\ adapter.index \in Nat /\ adapter.tool \in CallIndex \cup {NoCall}
    /\ adapter.calls \subseteq CallIndex /\ adapter.counted \in BOOLEAN
    /\ message.phase \in {"before", "between", "inside", "stopping", "done", "failed"}
    /\ \A b \in DOMAIN message.blocks :
          /\ message.blocks[b].heading \in Heading
          /\ \A p \in DOMAIN message.blocks[b].pieces : message.blocks[b].pieces[p] \in Piece
    /\ DOMAIN request = {"reply", "turns"}
    /\ upstream.chunks \in 0..MaxChunks
    /\ upstream.phase \in {"asked", "speaking", "finished", "ended"}
    /\ said.reasoning \in Nat /\ said.text \in Nat
    /\ \A k \in DOMAIN said.calls : said.calls[k] \in [call : CallIndex, args : Nat]

-----------------------------------------------------------------------------
(* Events, and the message a client makes of them.                          *)

MessageStart         == [type |-> "message_start"]
BlockStart(i, block) == [type |-> "content_block_start", index |-> i, heading |-> block]
Delta(i, piece)      == [type |-> "content_block_delta", index |-> i, piece |-> piece]
BlockStop(i)         == [type |-> "content_block_stop", index |-> i]
MessageDelta(counted) == [type |-> "message_delta", counted |-> counted]
MessageStop          == [type |-> "message_stop"]
Error                == [type |-> "error"]

Current(m)   == Len(m.blocks) - 1
To(m, phase) == [m EXCEPT !.phase = phase]

\* The client's reading of one event; one it cannot place breaks the message.
Read(m, e) ==
    CASE e.type = "message_start" /\ m.phase = "before" -> To(m, "between")
      [] e.type = "content_block_start" /\ m.phase = "between" /\ e.index = Len(m.blocks) ->
            [m EXCEPT !.phase = "inside",
                      !.blocks = Append(@, [heading |-> e.heading, pieces |-> <<>>])]
      [] e.type = "content_block_delta" /\ m.phase = "inside" /\ e.index = Current(m) ->
            [m EXCEPT !.blocks[Len(m.blocks)].pieces = Append(@, e.piece)]
      [] e.type = "content_block_stop" /\ m.phase = "inside" /\ e.index = Current(m) ->
            To(m, "between")
      [] e.type = "message_delta" /\ m.phase = "between" ->
            [m EXCEPT !.phase = "stopping", !.counted = e.counted]
      [] e.type = "message_stop" /\ m.phase = "stopping" -> To(m, "done")
      [] e.type = "error" -> To(m, "failed")
      [] OTHER -> To(m, "broken")

-----------------------------------------------------------------------------
(* createStreamAdapter.  An adapter a collects its events in a.out.         *)

Yield(a, events) == [a EXCEPT !.out = @ \o events]

\* Mutant: a later block keeps the index of the one before.
OpenBlock_SameIndex(a, state, heading) ==
    [Yield(a, (IF a.state = "WAITING" THEN <<MessageStart>> ELSE <<BlockStop(a.index)>>)
              \o <<BlockStart(a.index, heading)>>) EXCEPT !.state = state]

\* The first block starts the message; a later one closes the one before.
OpenBlock(a, state, heading) ==
    IF a.state = "WAITING"
    THEN [Yield(a, <<MessageStart, BlockStart(a.index, heading)>>) EXCEPT !.state = state]
    ELSE [Yield(a, <<BlockStop(a.index), BlockStart(a.index + 1, heading)>>)
             EXCEPT !.state = state, !.index = @ + 1]

Reasoning(a) ==
    LET b == IF a.state \in {"WAITING", "IN_TEXT", "IN_TOOL_USE"}
             THEN OpenBlock(a, "IN_THINKING", Thinking) ELSE a
    IN  IF b.state = "IN_THINKING"
        THEN Yield(b, <<Delta(b.index, [kind |-> "thinking", call |-> 0])>>) ELSE b

\* Mutant: text behind reasoning is dropped.
TextPiece_FirstOnly(a) ==
    LET b == IF a.state = "WAITING" THEN OpenBlock(a, "IN_TEXT", Text) ELSE a
    IN  IF b.state = "IN_TEXT"
        THEN Yield(b, <<Delta(b.index, [kind |-> "text", call |-> 0])>>) ELSE b

\* Text that comes while a call is open is dropped.
TextPiece(a) ==
    LET b == IF a.state \in {"WAITING", "IN_THINKING"}
             THEN OpenBlock(a, "IN_TEXT", Text) ELSE a
    IN  IF b.state = "IN_TEXT"
        THEN Yield(b, <<Delta(b.index, [kind |-> "text", call |-> 0])>>) ELSE b

\* Mutant: a second call does not open a block of its own.
OpensCall_FirstOnly(a, f) == a.state \in {"WAITING", "IN_TEXT", "IN_THINKING"}

OpensCall(a, f) ==
    \/ a.state \in {"WAITING", "IN_TEXT", "IN_THINKING"}
    \/ a.state = "IN_TOOL_USE" /\ f.call # a.tool

\* The id comes with the first fragment of a call.  Arguments are passed on
\* in whatever block is open, once the call is known.
ToolCall(a, f, first) ==
    LET b == IF OpensCall(a, f)
             THEN [OpenBlock(a, "IN_TOOL_USE", Call(f.call, first))
                      EXCEPT !.tool = f.call, !.calls = @ \cup {f.call}]
             ELSE a
    IN  IF f.args /\ f.call \in b.calls
        THEN Yield(b, <<Delta(b.index, [kind |-> "tool_use", call |-> f.call])>>) ELSE b

\* Mutant: the open block is not closed.
Finish_BlockOpen(a) ==
    IF a.state = "CLOSED" THEN a
    ELSE [Yield(a, (IF a.state = "WAITING" THEN <<MessageStart>> ELSE <<>>)
                   \o <<MessageDelta(a.counted), MessageStop>>) EXCEPT !.state = "CLOSED"]

\* A finish reason, and the end of a source that gave none.
Finish(a) ==
    IF a.state = "CLOSED" THEN a
    ELSE [Yield(a, (IF a.state = "WAITING" THEN <<MessageStart>> ELSE <<BlockStop(a.index)>>)
                   \o <<MessageDelta(a.counted), MessageStop>>) EXCEPT !.state = "CLOSED"]

\* Mutant: usage is looked at last.
Process_UsageLast(a, c, first) ==
    LET thought == IF c.reasoning THEN Reasoning(a) ELSE a
        spoken  == IF c.text THEN TextPiece(thought) ELSE thought
        called  == IF c.fragment # NoFragment THEN ToolCall(spoken, c.fragment, first) ELSE spoken
        closed  == IF c.finish THEN Finish(called) ELSE called
    IN  [closed EXCEPT !.counted = @ \/ c.usage]

\* processChunk: usage, reasoning, text, calls, finish.
Process(a, c, first) ==
    LET usage == [a EXCEPT !.counted = @ \/ c.usage]
        thought == IF c.reasoning THEN Reasoning(usage) ELSE usage
        spoken  == IF c.text THEN TextPiece(thought) ELSE thought
        called  == IF c.fragment # NoFragment THEN ToolCall(spoken, c.fragment, first) ELSE spoken
    IN  IF c.finish THEN Finish(called) ELSE called

-----------------------------------------------------------------------------
(* The upstream.                                                            *)

Begun == {said.calls[k].call : k \in DOMAIN said.calls}

\* The completion that the chunks so far add up to.
Heard(c) ==
    [reasoning |-> said.reasoning + (IF c.reasoning THEN 1 ELSE 0),
     text      |-> said.text + (IF c.text THEN 1 ELSE 0),
     calls     |->
        LET calls == IF c.fragment = NoFragment \/ c.fragment.call \in Begun THEN said.calls
                     ELSE Append(said.calls, [call |-> c.fragment.call, args |-> 0])
        IN  [k \in DOMAIN calls |->
                IF calls[k].call = c.fragment.call /\ c.fragment.args
                THEN [calls[k] EXCEPT !.args = @ + 1] ELSE calls[k]]]

\* What a chunk speaks of, in the order the adapter looks at it.
Topics(c) ==
    (IF c.reasoning THEN <<0>> ELSE <<>>) \o (IF c.text THEN <<1>> ELSE <<>>)
    \o (IF c.fragment = NoFragment THEN <<>> ELSE <<2 + c.fragment.call>>)

\* An upstream that reasons, then talks, then makes one call after the other.
StaysInOrder(c) ==
    LET topics == <<upstream.topic>> \o Topics(c)
    IN  \A j \in 1..(Len(topics) - 1) : topics[j] <= topics[j + 1]

Done(events) == queue = <<>> /\ queue' = events

Speak(c) ==
    /\ \/ upstream.phase \in {"asked", "speaking"}
       \/ upstream.phase = "finished" /\ Topics(c) = <<>> /\ ~c.finish
    /\ upstream.chunks < MaxChunks
    /\ LET a == Process(adapter, c, c.fragment.call \notin Begun)
       IN  /\ adapter' = [a EXCEPT !.out = <<>>]
           /\ Done(a.out)
    /\ said' = Heard(c)
    /\ upstream' = [phase |-> IF c.finish \/ upstream.phase = "finished"
                              THEN "finished" ELSE "speaking",
                    chunks |-> upstream.chunks + 1,
                    topic |-> IF Topics(c) = <<>> THEN upstream.topic ELSE Last(Topics(c)),
                    ordered |-> upstream.ordered /\ StaysInOrder(c),
                    inTime |-> upstream.inTime \/ (c.usage /\ upstream.phase # "finished")]
    /\ UNCHANGED <<message, request>>

\* Mutant: the end of the source is not the end of the message.
SourceEnds_Silent ==
    /\ upstream.phase # "ended"
    /\ Done(<<>>)
    /\ upstream' = [upstream EXCEPT !.phase = "ended"]
    /\ UNCHANGED <<adapter, message, request, said>>

\* The source ends: the message is completed if it was not.
SourceEnds ==
    /\ upstream.phase # "ended"
    /\ Done(Finish(adapter).out)
    /\ upstream' = [upstream EXCEPT !.phase = "ended"]
    /\ UNCHANGED <<adapter, message, request, said>>

\* The request is refused, the route fails, or the source breaks: an error frame.
SourceBreaks ==
    /\ upstream.phase # "ended"
    /\ Done(<<Error>>)
    /\ upstream' = [upstream EXCEPT !.phase = "ended"]
    /\ UNCHANGED <<adapter, message, request, said>>

\* for await (const event of generator): the controller writes it.
Write ==
    /\ queue # <<>>
    /\ message' = Read(message, Head(queue))
    /\ queue' = Tail(queue)
    /\ UNCHANGED <<adapter, request, upstream, said>>

\* translateResponse: the blocks of a completion that comes whole.
translateResponse(completion) ==
    LET block(heading, n) == [heading |-> heading,
                pieces |-> Copies([kind |-> heading.kind, call |-> heading.call], n)]
    IN  (IF completion.reasoning = 0 THEN <<>> ELSE <<block(Thinking, completion.reasoning)>>)
        \o (IF completion.text = 0 THEN <<>> ELSE <<block(Text, completion.text)>>)
        \o [k \in DOMAIN completion.calls |->
                block(Call(completion.calls[k].call, TRUE), completion.calls[k].args)]

-----------------------------------------------------------------------------
(* The way back: the message as part of the client's next request.           *)

\* The elements of s at some positions, in their order.
Nth(positions, n)    == CHOOSE k \in positions : Cardinality({j \in positions : j <= k}) = n
Filter(s, positions) == [n \in 1..Cardinality(positions) |-> s[Nth(positions, n)]]

BlocksOf(blocks, kind) == {b \in DOMAIN blocks : blocks[b].heading.kind = kind}
Pieces(blocks, kind) ==
    Cardinality(UNION {{b} \X DOMAIN blocks[b].pieces : b \in BlocksOf(blocks, kind)})

\* translateMessages, the assistant's message: its blocks gathered by kind.
AssistantTurn(blocks) ==
    LET calls == Filter(blocks, BlocksOf(blocks, "tool_use"))
    IN  [reasoning |-> Pieces(blocks, "thinking"),
         text      |-> Pieces(blocks, "text"),
         calls     |-> [k \in DOMAIN calls |->
                           [call |-> calls[k].heading.call, args |-> Len(calls[k].pieces)]]]

Result(call) == [kind |-> "tool_result", call |-> call]
Words        == [kind |-> "text", call |-> NoCall]
Image        == [kind |-> "image", call |-> NoCall]

\* Mutant: results stay where the client put them.
UserTurn_InPlace(content) ==
    [k \in DOMAIN content |->
        IF content[k].kind = "tool_result" THEN [role |-> "tool", parts |-> <<content[k]>>]
        ELSE [role |-> "user", parts |-> <<content[k]>>]]

Said(content, kind) == {k \in DOMAIN content : content[k].kind = kind}

\* translateMessages, a user's message: one message for each tool result, then
\* one for the rest, with its images behind its texts.
UserTurn(content) ==
    LET results == Filter(content, Said(content, "tool_result"))
        rest    == Filter(content, Said(content, "text")) \o Filter(content, Said(content, "image"))
    IN  [k \in DOMAIN results |-> [role |-> "tool", parts |-> <<results[k]>>]]
        \o (IF rest = <<>> THEN <<>> ELSE <<[role |-> "user", parts |-> rest]>>)

\* What a client may reply to a message: a result for each call, words and an
\* image, in any order.
Replies(blocks) ==
    LET results == {Result(blocks[b].heading.call) :
                       b \in {c \in DOMAIN blocks : blocks[c].heading.kind = "tool_use"}}
    IN  UNION {SetToSeqs(results \cup more) : more \in {{Words}, {Words, Image}}}

\* The client's next request: the message it was given, and its reply.
Reply ==
    /\ message.phase = "done" /\ upstream.phase = "ended" /\ request.turns = <<>>
    /\ \E reply \in Replies(message.blocks) :
          request' = [reply |-> reply,
                      turns |-> <<AssistantTurn(message.blocks)>> \o UserTurn(reply)]
    /\ UNCHANGED <<adapter, queue, message, upstream, said>>

-----------------------------------------------------------------------------
Init ==
    /\ adapter = [state |-> "WAITING", index |-> 0, tool |-> NoCall, calls |-> {},
                  counted |-> FALSE, out |-> <<>>]
    /\ queue = <<>>
    /\ request = [reply |-> <<>>, turns |-> <<>>]
    /\ message = [phase |-> "before", blocks |-> <<>>, counted |-> FALSE]
    /\ upstream = [phase |-> "asked", chunks |-> 0, topic |-> 0, ordered |-> TRUE,
                   inTime |-> FALSE]
    /\ said = [reasoning |-> 0, text |-> 0, calls |-> <<>>]

Next == (\E c \in Chunk : Speak(c)) \/ SourceEnds \/ SourceBreaks \/ Write \/ Reply

Spec == Init /\ [][Next]_vars

\* The event loop goes on; every upstream is aborted at its timeout.
FairSpec == Spec /\ WF_vars(Write) /\ WF_vars(SourceEnds \/ SourceBreaks)

(***************************************************************************)
(* Properties                                                              *)
(***************************************************************************)

\* Whatever order chunks come in, the events are one well-formed message.
Client == INSTANCE AnthropicMessage WITH
    phase <- message.phase, blocks <- message.blocks
ImplementsMessage == Client!Spec

\* Reasoning, text and the arguments of a call never run into another block.
EachPieceAtHome ==
    \A b \in DOMAIN message.blocks : \A p \in DOMAIN message.blocks[b].pieces :
        LET heading == message.blocks[b].heading  piece == message.blocks[b].pieces[p]
        IN  piece.kind = heading.kind /\ piece.call = heading.call

\* A client sees the same message whether it asks for a stream or not, as long
\* as the upstream reasons, talks and calls in that order.  The message carries
\* the tokens that were counted, unless the count comes behind the finish
\* reason, as it does for include_usage: the message is closed then and says 0.
SameAsWhole ==
    message.phase = "done" =>
        /\ upstream.ordered => message.blocks = translateResponse(said)
        /\ message.counted = upstream.inTime

\* Chat completions refuse a call that is not answered by the messages right
\* behind it: however a reply mixes results and words, the results come first,
\* and nothing of the reply is lost or said twice.
CallsAnsweredFirst(turns, reply) ==
    LET parts == UNION {{k} \X DOMAIN turns[k].parts : k \in DOMAIN turns}
    IN  /\ \A k \in DOMAIN turns :
              turns[k].role = "tool" <=> k <= Cardinality(Said(reply, "tool_result"))
        /\ Cardinality(parts) = Len(reply)
        /\ {turns[p[1]].parts[p[2]] : p \in parts} = ToSet(reply)

\* The client's next turn gives the upstream back what it has said, and its
\* calls their results.
NextTurnIsFaithful ==
    request.turns # <<>> =>
        /\ upstream.ordered => Head(request.turns) = said
        /\ CallsAnsweredFirst(Tail(request.turns), request.reply)

\* Every stream ends with a complete message or an error.
MessageEnds == <>[](message.phase \in {"done", "failed"})
=============================================================================
