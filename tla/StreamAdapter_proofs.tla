------------------------- MODULE StreamAdapter_proofs -------------------------
(***************************************************************************)
(* What holds of the stream adapter for streams of any length and any      *)
(* number of tool calls, in whatever order the upstream sends them.        *)
(*                                                                         *)
(* The client is behind the adapter by the events in the queue.  Leads     *)
(* relates the two without reading the queue to its end: there is a run    *)
(* of the client over these events, from the message it has to the one the *)
(* adapter has in mind.                                                    *)
(***************************************************************************)
EXTENDS StreamAdapter, FiniteSetTheorems, TLAPS

-----------------------------------------------------------------------------
(* Messages and events                                                      *)

Block == [heading : Heading, pieces : Seq(Piece)]

\* The pieces of a block are of its kind and of its call.
AtHome(b) ==
    \A p \in DOMAIN b.pieces : b.pieces[p].kind = b.heading.kind /\ b.pieces[p].call = b.heading.call

Good == {b \in Block : AtHome(b)}

Phases == {"before", "between", "inside", "stopping", "done", "failed"}

Message == [phase : Phases, blocks : Seq(Good), counted : BOOLEAN]

Event ==
    [type : {"message_start", "message_stop", "error"}]
    \cup [type : {"content_block_start"}, index : Nat, heading : Heading]
    \cup [type : {"content_block_delta"}, index : Nat, piece : Piece]
    \cup [type : {"content_block_stop"}, index : Nat]
    \cup [type : {"message_delta"}, counted : BOOLEAN]

\* A run of the client over these events, through messages of S, from m to n.
Leads(S, m, events, n) ==
    \E run \in [0..Len(events) -> S] :
        /\ run[0] = m /\ run[Len(events)] = n
        /\ \A i \in 1..Len(events) : run[i] = Read(run[i - 1], events[i])

LEMMA LeadsNowhere ==
    ASSUME NEW S, NEW m \in S, NEW events, events = <<>>
    PROVE  Leads(S, m, events, m)
<1>1. PICK run : run = [i \in 0..0 |-> m]
  OBVIOUS
<1>2. Len(events) = 0 /\ run \in [0..0 -> S] /\ run[0] = m
  BY <1>1
<1> QED
  BY <1>2 DEF Leads

\* Nothing to read: the client has the message.
LEMMA LeadsHere ==
    ASSUME NEW S, NEW m, NEW events, events = <<>>, NEW n, Leads(S, m, events, n)
    PROVE  n = m /\ n \in S
<1>1. Len(events) = 0
  OBVIOUS
<1>2. PICK run \in [0..Len(events) -> S] : run[0] = m /\ run[Len(events)] = n
  BY DEF Leads
<1> QED
  BY <1>1, <1>2

\* One more event behind the others.
LEMMA LeadsFurther ==
    ASSUME NEW S, NEW m, NEW events \in Seq(Event), NEW n, Leads(S, m, events, n),
           NEW e \in Event, NEW to \in S, to = Read(n, e)
    PROVE  Leads(S, m, Append(events, e), to)
<1>1. PICK more, k : more = Append(events, e) /\ k = Len(events)
  OBVIOUS
<1>2. /\ k \in Nat /\ Len(more) = k + 1 /\ more[k + 1] = e
      /\ \A i \in 1..k : more[i] = events[i]
  BY <1>1
<1>3. PICK run \in [0..k -> S] :
         /\ run[0] = m /\ run[k] = n
         /\ \A i \in 1..k : run[i] = Read(run[i - 1], events[i])
  BY <1>1 DEF Leads
<1>4. PICK longer : longer = [i \in 0..(k + 1) |-> IF i = k + 1 THEN to ELSE run[i]]
  OBVIOUS
<1>5. /\ longer \in [0..(k + 1) -> S]
      /\ longer[k + 1] = to /\ \A i \in 0..k : longer[i] = run[i]
  BY <1>2, <1>4
<1>6. longer[0] = m
  BY <1>2, <1>3, <1>5
<1>7. ASSUME NEW i \in 1..(k + 1)
      PROVE  longer[i] = Read(longer[i - 1], more[i])
  <2>1. CASE i = k + 1
    <3>1. longer[i - 1] = n
      BY <1>2, <1>3, <1>5, <2>1
    <3> QED
      BY <1>2, <1>5, <2>1, <3>1
  <2>2. CASE i # k + 1
    <3>1. i \in 1..k /\ i - 1 \in 0..k /\ i \in 0..k
      BY <1>2, <2>2
    <3> QED
      BY <1>2, <1>3, <1>5, <3>1
  <2> QED
    BY <2>1, <2>2
<1>8. /\ longer \in [0..Len(more) -> S] /\ longer[0] = m /\ longer[Len(more)] = to
      /\ \A i \in 1..Len(more) : longer[i] = Read(longer[i - 1], more[i])
  BY <1>2, <1>5, <1>6, <1>7
<1> QED
  BY <1>1, <1>8 DEF Leads

\* The client reads the first event.
LEMMA LeadsOn ==
    ASSUME NEW S, NEW m, NEW events \in Seq(Event), events # <<>>, NEW n, Leads(S, m, events, n)
    PROVE  /\ Read(m, Head(events)) \in S
           /\ Leads(S, Read(m, Head(events)), Tail(events), n)
<1>1. PICK rest, k : rest = Tail(events) /\ k = Len(events)
  OBVIOUS
<1>2. /\ k \in Nat /\ k >= 1 /\ Len(rest) = k - 1 /\ Head(events) = events[1]
      /\ \A i \in 1..k - 1 : rest[i] = events[i + 1]
  BY <1>1
<1>3. PICK run \in [0..k -> S] :
         /\ run[0] = m /\ run[k] = n
         /\ \A i \in 1..k : run[i] = Read(run[i - 1], events[i])
  BY <1>1 DEF Leads
<1>4. run[1] = Read(m, Head(events)) /\ run[1] \in S
  BY <1>2, <1>3
<1>5. PICK shorter : shorter = [i \in 0..(k - 1) |-> run[i + 1]]
  OBVIOUS
<1>6. /\ shorter \in [0..(k - 1) -> S] /\ shorter[0] = run[1] /\ shorter[k - 1] = n
  BY <1>2, <1>3, <1>5
<1>7. ASSUME NEW i \in 1..(k - 1)
      PROVE  shorter[i] = Read(shorter[i - 1], rest[i])
  <2>1. i \in 0..(k - 1) /\ i - 1 \in 0..(k - 1) /\ i + 1 \in 1..k /\ (i - 1) + 1 = i /\ (i + 1) - 1 = i
    BY <1>2
  <2>2. shorter[i] = run[i + 1] /\ shorter[i - 1] = run[i] /\ rest[i] = events[i + 1]
    BY <1>2, <1>5, <2>1
  <2> QED
    BY <1>3, <2>1, <2>2
<1>8. /\ shorter \in [0..Len(rest) -> S] /\ shorter[0] = run[1] /\ shorter[Len(rest)] = n
      /\ \A i \in 1..Len(rest) : shorter[i] = Read(shorter[i - 1], rest[i])
  BY <1>2, <1>6, <1>7
<1> QED
  BY <1>1, <1>4, <1>8 DEF Leads

-----------------------------------------------------------------------------
(* The client's reading of one event                                        *)

\* A new block behind the others, and a piece at the end of the last one.
Opened(blocks, heading) == Append(blocks, [heading |-> heading, pieces |-> <<>>])
Added(blocks, piece)    == [blocks EXCEPT ![Len(blocks)].pieces = Append(@, piece)]

LEMMA ReadStart ==
    ASSUME NEW m \in Message, m.phase = "before"
    PROVE  Read(m, MessageStart) = [m EXCEPT !.phase = "between"]
BY DEF Read, MessageStart, To

LEMMA ReadOpen ==
    ASSUME NEW m \in Message, m.phase = "between", NEW h \in Heading
    PROVE  Read(m, BlockStart(Len(m.blocks), h))
             = [m EXCEPT !.phase = "inside", !.blocks = Opened(m.blocks, h)]
BY DEF Read, BlockStart, Opened, Message

LEMMA ReadDelta ==
    ASSUME NEW m \in Message, m.phase = "inside", NEW p \in Piece, NEW i, i = Len(m.blocks) - 1
    PROVE  Read(m, Delta(i, p)) = [m EXCEPT !.blocks = Added(m.blocks, p)]
BY DEF Read, Delta, Added, Message, Current

LEMMA ReadStop ==
    ASSUME NEW m \in Message, m.phase = "inside", NEW i, i = Len(m.blocks) - 1
    PROVE  Read(m, BlockStop(i)) = [m EXCEPT !.phase = "between"]
BY DEF Read, BlockStop, Message, Current, To

LEMMA ReadMessageDelta ==
    ASSUME NEW m \in Message, m.phase = "between", NEW counted \in BOOLEAN
    PROVE  Read(m, MessageDelta(counted)) = [m EXCEPT !.phase = "stopping", !.counted = counted]
BY DEF Read, MessageDelta, Message

LEMMA ReadMessageStop ==
    ASSUME NEW m \in Message, m.phase = "stopping"
    PROVE  Read(m, MessageStop) = [m EXCEPT !.phase = "done"]
BY DEF Read, MessageStop, Message, To

LEMMA ReadError ==
    ASSUME NEW m \in Message
    PROVE  Read(m, Error) = [m EXCEPT !.phase = "failed"]
BY DEF Read, Error, Message, To

-----------------------------------------------------------------------------
(* The adapter and the message it has in mind                               *)

Speaking == {"IN_THINKING", "IN_TEXT", "IN_TOOL_USE"}

Adapter ==
    [state : {"WAITING", "CLOSED"} \cup Speaking, index : Nat, tool : CallIndex \cup {NoCall},
     calls : SUBSET CallIndex, counted : BOOLEAN, out : Seq(Event)]

\* The heading of the open block tells the state of the adapter.
Under(a, h) ==
    /\ a.state = "IN_THINKING" => h = Thinking
    /\ a.state = "IN_TEXT" => h = Text
    /\ a.state = "IN_TOOL_USE" => h.kind = "tool_use" /\ h.call = a.tool /\ a.tool \in a.calls

\* The block the client has open is the adapter's, and its heading.
InStep(a, m)   == m.phase = "inside" /\ Len(m.blocks) = a.index + 1
OpenHeading(m) == m.blocks[Len(m.blocks)].heading

Synced(a, m) ==
    /\ a.state = "WAITING" => m.phase = "before" /\ m.blocks = <<>> /\ a.index = 0
    /\ a.state \in Speaking => InStep(a, m) /\ Under(a, OpenHeading(m))
    /\ a.state = "CLOSED" => m.phase = "done"

\* A run may go through every message that is not done.
Roomy(S) == S \subseteq Message /\ \A x \in Message : x.phase # "done" => x \in S

\* The client's message with a block more, and with a piece more.
WithBlock(m, h) == [m EXCEPT !.phase = "inside", !.blocks = Opened(m.blocks, h)]
WithPiece(m, p) == [m EXCEPT !.blocks = Added(m.blocks, p)]
Say(a, p)       == Yield(a, <<Delta(a.index, p)>>)

LEMMA OpenedTyped ==
    ASSUME NEW blocks \in Seq(Good), NEW h \in Heading, NEW new, new = Opened(blocks, h)
    PROVE  /\ new \in Seq(Good) /\ Len(new) = Len(blocks) + 1
           /\ new[Len(new)].heading = h
<1>1. PICK b : b = [heading |-> h, pieces |-> <<>>]
  OBVIOUS
<1>2. b \in Good /\ b.heading = h
  BY <1>1 DEF Good, Block, AtHome
<1>3. new = Append(blocks, b)
  BY <1>1 DEF Opened
<1> QED
  BY <1>2, <1>3

LEMMA AddedTyped ==
    ASSUME NEW blocks \in Seq(Good), blocks # <<>>, NEW p \in Piece,
           p.kind = blocks[Len(blocks)].heading.kind, p.call = blocks[Len(blocks)].heading.call,
           NEW new, new = Added(blocks, p)
    PROVE  /\ new \in Seq(Good) /\ Len(new) = Len(blocks)
           /\ new[Len(new)].heading = blocks[Len(blocks)].heading
<1>1. PICK k, old, b : /\ k = Len(blocks) /\ old = blocks[k]
                       /\ b = [old EXCEPT !.pieces = Append(@, p)]
  OBVIOUS
<1>2. k \in Nat /\ k >= 1 /\ old \in Good
  BY <1>1
<1>3. /\ old.heading \in Heading /\ old.pieces \in Seq(Piece) /\ AtHome(old)
      /\ old = [heading |-> old.heading, pieces |-> old.pieces]
  BY <1>2 DEF Good, Block
<1>4. b = [heading |-> old.heading, pieces |-> Append(old.pieces, p)]
  BY <1>1, <1>3
<1>5. \A i \in DOMAIN b.pieces : b.pieces[i].kind = b.heading.kind /\ b.pieces[i].call = b.heading.call
  BY <1>1, <1>3, <1>4 DEF AtHome
<1>6. b \in Block
  BY <1>3, <1>4 DEF Block
<1>7. b \in Good
  BY <1>5, <1>6, Zenon DEF Good, AtHome
<1>8. new = [blocks EXCEPT ![k] = b]
  BY <1>1 DEF Added
<1>9. /\ new \in Seq(Good) /\ Len(new) = k /\ new[k] = b
  <2>1. k \in 1..Len(blocks) /\ Len(blocks) = k
    BY <1>1, <1>2
  <2> QED
    BY <1>7, <1>8, <2>1
<1>10. b.heading = old.heading
  BY <1>4
<1> QED
  BY <1>1, <1>9, <1>10

\* A message in another phase.
LEMMA MessageAt ==
    ASSUME NEW m \in Message, NEW phase \in Phases, NEW n, n = [m EXCEPT !.phase = phase]
    PROVE  /\ n \in Message /\ n.phase = phase /\ n.blocks = m.blocks /\ n.counted = m.counted
BY DEF Message

LEMMA EventsTyped ==
    /\ MessageStart \in Event /\ MessageStop \in Event /\ Error \in Event
    /\ \A i \in Nat, h \in Heading : BlockStart(i, h) \in Event
    /\ \A i \in Nat, p \in Piece : Delta(i, p) \in Event
    /\ \A i \in Nat : BlockStop(i) \in Event
    /\ \A counted \in BOOLEAN : MessageDelta(counted) \in Event
<1>1. MessageStart \in Event /\ MessageStop \in Event /\ Error \in Event
  BY DEF Event, MessageStart, MessageStop, Error
<1>2. ASSUME NEW i \in Nat, NEW h \in Heading PROVE BlockStart(i, h) \in Event
  BY DEF Event, BlockStart
<1>3. ASSUME NEW i \in Nat, NEW p \in Piece PROVE Delta(i, p) \in Event
  BY DEF Event, Delta
<1>4. ASSUME NEW i \in Nat PROVE BlockStop(i) \in Event
  BY DEF Event, BlockStop
<1>5. ASSUME NEW counted \in BOOLEAN PROVE MessageDelta(counted) \in Event
  BY DEF Event, MessageDelta
<1> QED
  BY <1>1, <1>2, <1>3, <1>4, <1>5

\* Two events are read one after the other.
LEMMA LeadsTwice ==
    ASSUME NEW S, NEW m0, NEW events \in Seq(Event), NEW m, Leads(S, m0, events, m),
           NEW e \in Event, NEW f \in Event, NEW n \in S, NEW to \in S,
           n = Read(m, e), to = Read(n, f),
           NEW more, more = events \o <<e, f>>
    PROVE  Leads(S, m0, more, to) /\ more \in Seq(Event)
<1>1. Append(events, e) \in Seq(Event)
  OBVIOUS
<1>2. Leads(S, m0, Append(events, e), n)
  BY LeadsFurther
<1>3. Leads(S, m0, Append(Append(events, e), f), to)
  BY <1>1, <1>2, LeadsFurther
<1>4. more = Append(Append(events, e), f)
  OBVIOUS
<1>5. more \in Seq(Event)
  BY <1>1, <1>4
<1> QED
  BY <1>3, <1>4, <1>5

\* OpenBlock: the client has a new open block behind the others.
LEMMA BlockOpened ==
    ASSUME NEW S, Roomy(S), NEW m0, NEW a \in Adapter, NEW m \in Message,
           Leads(S, m0, a.out, m), Synced(a, m), a.state # "CLOSED",
           NEW state \in Speaking, NEW h \in Heading, NEW b, b = OpenBlock(a, state, h),
           NEW n, n = WithBlock(m, h)
    PROVE  /\ b \in Adapter /\ Leads(S, m0, b.out, n)
           /\ n \in Message /\ n.blocks = Opened(m.blocks, h)
           /\ InStep(b, n) /\ OpenHeading(n) = h
           /\ b.state = state /\ b.tool = a.tool /\ b.calls = a.calls /\ b.counted = a.counted
<1>1. PICK blocks : blocks = Opened(m.blocks, h)
  OBVIOUS
<1>2. m.blocks \in Seq(Good) /\ a.index \in Nat /\ a.out \in Seq(Event)
  BY DEF Message, Adapter
<1>3. /\ blocks \in Seq(Good) /\ Len(blocks) = Len(m.blocks) + 1
      /\ blocks[Len(blocks)].heading = h
  BY <1>1, <1>2, OpenedTyped
<1>4. /\ n \in Message /\ n.phase = "inside" /\ n.blocks = blocks /\ n.counted = m.counted
  <2>1. n = [m EXCEPT !.phase = "inside", !.blocks = blocks]
    BY <1>1 DEF WithBlock
  <2> QED
    BY <1>3, <2>1 DEF Message, Phases
<1>5. n \in S
  BY <1>4 DEF Roomy
<1>6. PICK t : t = [m EXCEPT !.phase = "between"]
  OBVIOUS
<1>7. t \in Message /\ t.phase = "between" /\ t.blocks = m.blocks
  BY <1>6, MessageAt DEF Phases
<1>8. t \in S
  BY <1>7 DEF Roomy
<1>9. n = Read(t, BlockStart(Len(m.blocks), h))
  <2>1. Read(t, BlockStart(Len(t.blocks), h)) = [t EXCEPT !.phase = "inside", !.blocks = Opened(t.blocks, h)]
    BY <1>7, ReadOpen
  <2>2. [t EXCEPT !.phase = "inside", !.blocks = blocks] = n
    BY <1>1, <1>6 DEF WithBlock, Message
  <2> QED
    BY <1>1, <1>7, <2>1, <2>2
<1>10. CASE a.state = "WAITING"
  <2>1. m.phase = "before" /\ Len(m.blocks) = 0 /\ a.index = 0
    BY <1>10 DEF Synced
  <2>2. t = Read(m, MessageStart)
    BY <1>6, <2>1, ReadStart
  <2>3. PICK e, f : e = MessageStart /\ f = BlockStart(a.index, h)
    OBVIOUS
  <2>4. e \in Event /\ f \in Event
    BY <1>2, <2>3, EventsTyped
  <2>5. /\ b.out = a.out \o <<e, f>> /\ b.index = a.index /\ b.state = state
        /\ b.tool = a.tool /\ b.calls = a.calls /\ b.counted = a.counted
        /\ b = [a EXCEPT !.out = b.out, !.state = state]
    BY <1>10, <2>3 DEF OpenBlock, Yield, Adapter
  <2>6. Leads(S, m0, b.out, n) /\ b.out \in Seq(Event)
    <3>1. t = Read(m, e) /\ n = Read(t, f)
      BY <1>9, <2>1, <2>2, <2>3
    <3>2. PICK out, more : out = a.out /\ more = b.out
      OBVIOUS
    <3>3. out \in Seq(Event) /\ more = out \o <<e, f>> /\ Leads(S, m0, out, m)
      BY <1>2, <2>5, <3>2
    <3>4. Leads(S, m0, more, n) /\ more \in Seq(Event)
      BY <1>5, <1>8, <2>4, <3>1, <3>3, LeadsTwice
    <3> QED
      BY <3>2, <3>4
  <2>7. b \in Adapter
    BY <2>5, <2>6 DEF Adapter
  <2> QED
    BY <1>1, <1>3, <1>4, <2>1, <2>5, <2>6, <2>7 DEF InStep, OpenHeading
<1>11. CASE a.state # "WAITING"
  <2>1. m.phase = "inside" /\ Len(m.blocks) = a.index + 1
    BY <1>11 DEF Synced, Adapter, InStep
  <2>2. t = Read(m, BlockStop(a.index))
    BY <1>2, <1>6, <2>1, ReadStop
  <2>3. PICK e, f : e = BlockStop(a.index) /\ f = BlockStart(a.index + 1, h)
    OBVIOUS
  <2>4. e \in Event /\ f \in Event
    <3>1. PICK k \in Nat : k = a.index + 1
      BY <1>2
    <3> QED
      BY <1>2, <2>3, <3>1, EventsTyped
  <2>5. /\ b.out = a.out \o <<e, f>> /\ b.index = a.index + 1 /\ b.state = state
        /\ b.tool = a.tool /\ b.calls = a.calls /\ b.counted = a.counted
        /\ b = [a EXCEPT !.out = b.out, !.state = state, !.index = a.index + 1]
    BY <1>11, <2>3 DEF OpenBlock, Yield, Adapter
  <2>6. Leads(S, m0, b.out, n) /\ b.out \in Seq(Event)
    <3>1. t = Read(m, e) /\ n = Read(t, f)
      BY <1>9, <2>1, <2>2, <2>3
    <3>2. PICK out, more : out = a.out /\ more = b.out
      OBVIOUS
    <3>3. out \in Seq(Event) /\ more = out \o <<e, f>> /\ Leads(S, m0, out, m)
      BY <1>2, <2>5, <3>2
    <3>4. Leads(S, m0, more, n) /\ more \in Seq(Event)
      BY <1>5, <1>8, <2>4, <3>1, <3>3, LeadsTwice
    <3> QED
      BY <3>2, <3>4
  <2>7. b \in Adapter
    <3>1. PICK out, k : out = b.out /\ k = a.index + 1
      OBVIOUS
    <3>2. out \in Seq(Event) /\ k \in Nat
      BY <1>2, <2>6, <3>1
    <3>3. b = [a EXCEPT !.out = out, !.state = state, !.index = k]
      BY <2>5, <3>1
    <3> QED
      BY <3>2, <3>3 DEF Adapter
  <2> QED
    BY <1>1, <1>2, <1>3, <1>4, <2>1, <2>5, <2>6, <2>7 DEF InStep, OpenHeading
<1> QED
  BY <1>10, <1>11

\* A piece goes into the open block.
LEMMA PieceAdded ==
    ASSUME NEW S, Roomy(S), NEW m0, NEW a \in Adapter, NEW m \in Message,
           Leads(S, m0, a.out, m), InStep(a, m),
           NEW p \in Piece, p.kind = OpenHeading(m).kind, p.call = OpenHeading(m).call,
           NEW b, b = Say(a, p), NEW n, n = WithPiece(m, p)
    PROVE  /\ b \in Adapter /\ Leads(S, m0, b.out, n)
           /\ n \in Message /\ n.blocks = Added(m.blocks, p)
           /\ InStep(b, n) /\ OpenHeading(n) = OpenHeading(m)
           /\ b.state = a.state /\ b.tool = a.tool /\ b.calls = a.calls /\ b.counted = a.counted
<1>1. PICK blocks, old, i : blocks = Added(m.blocks, p) /\ old = m.blocks /\ i = a.index
  OBVIOUS
<1>2. old \in Seq(Good) /\ i \in Nat /\ a.out \in Seq(Event) /\ old # <<>>
  BY <1>1 DEF Message, Adapter, InStep
<1>3. /\ blocks \in Seq(Good) /\ Len(blocks) = Len(old)
      /\ blocks[Len(blocks)].heading = old[Len(old)].heading
  BY <1>1, <1>2, AddedTyped DEF OpenHeading
<1>4. n \in Message /\ n.phase = "inside" /\ n.blocks = blocks
  <2>1. n = [m EXCEPT !.blocks = blocks]
    BY <1>1 DEF WithPiece
  <2> QED
    BY <1>3, <2>1 DEF Message, InStep
<1>5. n \in S
  BY <1>4 DEF Roomy
<1>6. PICK e : e = Delta(i, p)
  OBVIOUS
<1>7. e \in Event
  BY <1>2, <1>6, EventsTyped
<1>8. n = Read(m, e)
  <2>1. i = Len(m.blocks) - 1
    BY <1>1, <1>2 DEF InStep
  <2> QED
    BY <1>6, <2>1, ReadDelta DEF WithPiece, InStep
<1>9. PICK out, more : out = a.out /\ more = Append(out, e)
  OBVIOUS
<1>10. Leads(S, m0, more, n) /\ more \in Seq(Event)
  <2>1. out \in Seq(Event) /\ Leads(S, m0, out, m)
    BY <1>2, <1>9
  <2> QED
    BY <1>5, <1>7, <1>8, <1>9, <2>1, LeadsFurther
<1>11. b = [a EXCEPT !.out = more]
  <2>1. b = [a EXCEPT !.out = out \o <<e>>]
    BY <1>1, <1>6, <1>9 DEF Say, Yield, Adapter
  <2>2. out \o <<e>> = Append(out, e)
    BY <1>2, <1>7, <1>9
  <2> QED
    BY <1>9, <2>1, <2>2
<1>12. /\ b \in Adapter /\ b.out = more /\ b.index = i /\ b.state = a.state
       /\ b.tool = a.tool /\ b.calls = a.calls /\ b.counted = a.counted
  BY <1>1, <1>10, <1>11 DEF Adapter
<1> QED
  BY <1>1, <1>3, <1>4, <1>10, <1>12 DEF InStep, OpenHeading

\* The client's message with its end, and with the tokens counted.
Complete(m, counted) == [m EXCEPT !.phase = "done", !.counted = counted]

\* Finish: the open block is closed, if there is one, and the message is done.
LEMMA MessageFinished ==
    ASSUME NEW S, Roomy(S), NEW m0, NEW a \in Adapter, NEW m \in Message,
           Leads(S, m0, a.out, m), Synced(a, m), a.state # "CLOSED",
           NEW b, b = Finish(a),
           NEW n \in S, n = Complete(m, a.counted)
    PROVE  /\ b \in Adapter /\ Leads(S, m0, b.out, n)
           /\ n \in Message /\ n.phase = "done" /\ b.state = "CLOSED"
<1> n = [m EXCEPT !.phase = "done", !.counted = a.counted]
  BY DEF Complete
<1>1. PICK out, i, counted : out = a.out /\ i = a.index /\ counted = a.counted
  OBVIOUS
<1>2. out \in Seq(Event) /\ i \in Nat /\ counted \in BOOLEAN /\ Leads(S, m0, out, m)
  BY <1>1 DEF Adapter
<1>3. PICK t, u : t = [m EXCEPT !.phase = "between"] /\ u = [t EXCEPT !.phase = "stopping", !.counted = counted]
  OBVIOUS
<1>4. /\ t \in Message /\ t.phase = "between" /\ t.blocks = m.blocks
      /\ u \in Message /\ u.phase = "stopping"
      /\ n \in Message /\ n.phase = "done" /\ n = [u EXCEPT !.phase = "done"]
  BY <1>1, <1>2, <1>3 DEF Message, Phases
<1>5. t \in S /\ u \in S
  BY <1>4 DEF Roomy
<1>6. PICK e, f, g : /\ e = IF a.state = "WAITING" THEN MessageStart ELSE BlockStop(i)
                     /\ f = MessageDelta(counted) /\ g = MessageStop
  OBVIOUS
<1>7. e \in Event /\ f \in Event /\ g \in Event
  <2>1. BlockStop(i) \in Event /\ MessageStart \in Event /\ MessageStop \in Event /\ MessageDelta(counted) \in Event
    BY <1>2, EventsTyped
  <2> QED
    BY <1>6, <2>1
<1>8. t = Read(m, e)
  <2>1. CASE a.state = "WAITING"
    <3>1. m.phase = "before"
      BY <2>1 DEF Synced
    <3> QED
      BY <1>3, <1>6, <2>1, <3>1, ReadStart
  <2>2. CASE a.state # "WAITING"
    <3>1. m.phase = "inside" /\ i = Len(m.blocks) - 1
      BY <1>1, <1>2, <2>2 DEF Synced, Adapter, InStep
    <3> QED
      BY <1>3, <1>6, <2>2, <3>1, ReadStop
  <2> QED
    BY <2>1, <2>2
<1>9. u = Read(t, f)
  BY <1>2, <1>3, <1>4, <1>6, ReadMessageDelta
<1>10. n = Read(u, g)
  BY <1>4, <1>6, ReadMessageStop
<1>11. PICK more, all : more = out \o <<e, f>> /\ all = Append(more, g)
  OBVIOUS
<1>12. Leads(S, m0, more, u) /\ more \in Seq(Event)
  BY <1>2, <1>5, <1>7, <1>8, <1>9, <1>11, LeadsTwice
<1>13. Leads(S, m0, all, n) /\ all \in Seq(Event)
  <2>1. Leads(S, m0, Append(more, g), n)
    BY <1>7, <1>10, <1>12, LeadsFurther
  <2>2. Append(more, g) \in Seq(Event)
    BY <1>7, <1>12
  <2> QED
    BY <1>11, <2>1, <2>2
<1>14. b = [a EXCEPT !.out = all, !.state = "CLOSED"]
  <2>1. b = [a EXCEPT !.out = out \o (<<e>> \o <<f, g>>), !.state = "CLOSED"]
    BY <1>1, <1>6 DEF Finish, Yield, Adapter
  <2>2. out \o (<<e>> \o <<f, g>>) = all
    BY <1>2, <1>7, <1>11
  <2> QED
    BY <2>1, <2>2
<1>15. b \in Adapter /\ b.out = all /\ b.state = "CLOSED"
  BY <1>13, <1>14 DEF Adapter
<1> QED
  BY <1>4, <1>13, <1>15

-----------------------------------------------------------------------------
(* The message of a completion that comes whole                             *)

CallSaid   == [call : CallIndex, args : Nat]
Completion == [reasoning : Nat, text : Nat, calls : Seq(CallSaid)]

PieceOf(h)    == [kind |-> h.kind, call |-> h.call]
BlockOf(h, k) == [heading |-> h, pieces |-> Copies(PieceOf(h), k)]

\* Blocks of which the last one has k pieces.
Ending(front, h, k) == Append(front, BlockOf(h, k))

Thoughts(r)      == IF r = 0 THEN <<>> ELSE <<BlockOf(Thinking, r)>>
Speech(t)        == IF t = 0 THEN <<>> ELSE <<BlockOf(Text, t)>>
Named(i)         == Call(i, TRUE)
CallBlocks(calls) == [k \in DOMAIN calls |-> BlockOf(Named(calls[k].call), calls[k].args)]

\* The blocks before the last call.
Before(w, before) == Thoughts(w.reasoning) \o Speech(w.text) \o CallBlocks(before)

LEMMA WholeIs ==
    ASSUME NEW w
    PROVE  translateResponse(w) = Thoughts(w.reasoning) \o Speech(w.text) \o CallBlocks(w.calls)
BY DEF translateResponse, Thoughts, Speech, CallBlocks, Named, BlockOf, PieceOf

LEMMA HeadingsTyped ==
    /\ Thinking \in Heading /\ Text \in Heading
    /\ \A i \in CallIndex, named \in BOOLEAN : Call(i, named) \in Heading
    /\ \A h \in Heading : PieceOf(h) \in Piece /\ h.call \in Nat
<1>1. Thinking \in Heading /\ Text \in Heading
  BY DEF Heading
<1>2. ASSUME NEW i \in CallIndex, NEW named \in BOOLEAN PROVE Call(i, named) \in Heading
  BY DEF Heading
<1>3. ASSUME NEW h \in Heading PROVE PieceOf(h) \in Piece /\ h.call \in Nat
  BY StreamAssumption DEF Heading, Piece, PieceOf, Thinking, Text, Call
<1> QED
  BY <1>1, <1>2, <1>3

LEMMA BlockGood ==
    ASSUME NEW h \in Heading, NEW k \in Nat
    PROVE  BlockOf(h, k) \in Good
<1>1. PICK p, c, b : p = PieceOf(h) /\ c = Copies(p, k) /\ b = BlockOf(h, k)
  OBVIOUS
<1>2. p \in Piece /\ p.kind = h.kind /\ p.call = h.call
  BY <1>1, HeadingsTyped DEF PieceOf
<1>3. c \in Seq(Piece) /\ \A i \in DOMAIN c : c[i] = p
  BY <1>1, <1>2 DEF Copies
<1>4. b = [heading |-> h, pieces |-> c]
  BY <1>1 DEF BlockOf
<1>5. b \in Block
  BY <1>3, <1>4 DEF Block
<1>6. AtHome(b)
  BY <1>2, <1>3, <1>4 DEF AtHome
<1> QED
  BY <1>1, <1>5, <1>6, Zenon DEF Good

LEMMA LastReplaced ==
    ASSUME NEW front \in Seq(Good), NEW old \in Good, NEW new \in Good
    PROVE  [Append(front, old) EXCEPT ![Len(front) + 1] = new] = Append(front, new)
<1>1. PICK k \in Nat : k = Len(front)
  OBVIOUS
<1>2. PICK x, y, z : /\ x = Append(front, old) /\ y = [x EXCEPT ![k + 1] = new]
                     /\ z = Append(front, new)
  OBVIOUS
<1>3. x \in [1..(k + 1) -> Good] /\ z \in [1..(k + 1) -> Good] /\ z[k + 1] = new
  <2>1. /\ x \in Seq(Good) /\ Len(x) = k + 1
        /\ z \in Seq(Good) /\ Len(z) = k + 1 /\ z[k + 1] = new
    BY <1>1, <1>2
  <2>2. PICK j : j = k + 1
    OBVIOUS
  <2>3. x \in [1..j -> Good] /\ z \in [1..j -> Good]
    BY <2>1, <2>2
  <2> QED
    BY <2>1, <2>2, <2>3
<1>4. \A i \in 1..k : x[i] = front[i] /\ z[i] = front[i]
  BY <1>1, <1>2
<1>5. y \in [1..(k + 1) -> Good]
  BY <1>2, <1>3
<1>6. ASSUME NEW i \in 1..(k + 1) PROVE y[i] = z[i]
  <2>1. CASE i = k + 1
    BY <1>2, <1>3, <2>1
  <2>2. CASE i # k + 1
    <3>1. i \in 1..k
      BY <2>2
    <3> QED
      BY <1>2, <1>3, <1>4, <2>2, <3>1
  <2> QED
    BY <2>1, <2>2
<1> QED
  BY <1>1, <1>2, <1>3, <1>5, <1>6

\* A piece more at the end of the last block, and a block more.
LEMMA PieceMore ==
    ASSUME NEW front \in Seq(Good), NEW h \in Heading, NEW k \in Nat,
           NEW blocks, blocks = Ending(front, h, k),
           NEW p, p = PieceOf(h), NEW j, j = k + 1
    PROVE  Added(blocks, p) = Ending(front, h, j)
<1>1. PICK old, new, c, d : /\ old = BlockOf(h, k) /\ new = BlockOf(h, j)
                            /\ c = Copies(p, k) /\ d = Copies(p, j)
  OBVIOUS
<1>2. old = [heading |-> h, pieces |-> c] /\ new = [heading |-> h, pieces |-> d]
  BY <1>1 DEF BlockOf
<1>3. d = Append(c, p)
  BY <1>1 DEF Copies
<1>4. [old EXCEPT !.pieces = Append(@, p)] = new
  <2>1. old.pieces = c /\ [old EXCEPT !.pieces = d] = new
    BY <1>2
  <2> QED
    BY <1>3, <2>1
<1>5. blocks = Append(front, old)
  BY <1>1 DEF Ending
<1>6. Len(blocks) = Len(front) + 1 /\ blocks[Len(blocks)] = old
  BY <1>5
<1>7. Added(blocks, p) = [blocks EXCEPT ![Len(front) + 1] = new]
  BY <1>4, <1>6 DEF Added
<1>8. old \in Good /\ new \in Good
  BY <1>1, BlockGood
<1>9. [blocks EXCEPT ![Len(front) + 1] = new] = Append(front, new)
  BY <1>5, <1>8, LastReplaced
<1> QED
  BY <1>1, <1>7, <1>9 DEF Ending

LEMMA BlockEmpty ==
    ASSUME NEW front, NEW h, NEW k, k = 0
    PROVE  Opened(front, h) = Ending(front, h, k)
<1>1. Copies(PieceOf(h), k) = <<>>
  BY DEF Copies
<1> QED
  BY <1>1 DEF Opened, BlockOf, Ending

\* The thoughts, and the thoughts and words, are good blocks.
LEMMA PartsTyped ==
    ASSUME NEW r \in Nat, NEW t \in Nat
    PROVE  Thoughts(r) \in Seq(Good) /\ Speech(t) \in Seq(Good)
<1>1. PICK x, y : x = BlockOf(Thinking, r) /\ y = BlockOf(Text, t)
  OBVIOUS
<1>2. x \in Good /\ y \in Good
  <2>1. PICK h \in Heading, g \in Heading : h = Thinking /\ g = Text
    BY HeadingsTyped
  <2>2. BlockOf(h, r) \in Good /\ BlockOf(g, t) \in Good
    BY BlockGood
  <2> QED
    BY <1>1, <2>1, <2>2
<1>3. <<>> \in Seq(Good) /\ <<x>> \in Seq(Good) /\ <<y>> \in Seq(Good)
  BY <1>2
<1> QED
  BY <1>1, <1>3 DEF Thoughts, Speech

LEMMA CallsTyped ==
    ASSUME NEW calls \in Seq(CallSaid)
    PROVE  CallBlocks(calls) \in Seq(Good)
<1>1. ASSUME NEW k \in 1..Len(calls)
      PROVE  BlockOf(Named(calls[k].call), calls[k].args) \in Good
  <2>1. calls[k].call \in CallIndex /\ calls[k].args \in Nat
    <3>1. calls[k] \in CallSaid
      OBVIOUS
    <3> QED
      BY <3>1 DEF CallSaid
  <2>2. PICK h \in Heading : h = Named(calls[k].call)
    BY <2>1, HeadingsTyped DEF Named
  <2>3. PICK j \in Nat : j = calls[k].args
    BY <2>1
  <2>4. BlockOf(h, j) \in Good
    BY BlockGood
  <2> QED
    BY <2>2, <2>3, <2>4
<1>2. PICK n, blocks : n \in Nat /\ n = Len(calls) /\ blocks = CallBlocks(calls)
  OBVIOUS
<1>3. DOMAIN calls = 1..n
  BY <1>2
<1>4. n \in Nat /\ blocks \in [1..n -> Good]
  BY <1>1, <1>2, <1>3 DEF CallBlocks
<1>5. blocks \in Seq(Good)
  BY <1>4
<1> QED
  BY <1>2, <1>5

LEMMA WholeThoughts ==
    ASSUME NEW w \in Completion, w.text = 0, w.calls = <<>>
    PROVE  translateResponse(w) = Thoughts(w.reasoning)
<1>1. PICK x, y, z : x = Thoughts(w.reasoning) /\ y = Speech(w.text) /\ z = CallBlocks(w.calls)
  OBVIOUS
<1>2. y = <<>> /\ z = <<>>
  BY <1>1 DEF Speech, CallBlocks
<1>3. x \in Seq(Good)
  BY <1>1, PartsTyped DEF Completion
<1>4. translateResponse(w) = x \o y \o z
  BY <1>1, WholeIs
<1> QED
  BY <1>1, <1>2, <1>3, <1>4

LEMMA WholeWords ==
    ASSUME NEW w \in Completion, w.text # 0, w.calls = <<>>
    PROVE  translateResponse(w) = Append(Thoughts(w.reasoning), BlockOf(Text, w.text))
<1>1. PICK x, y, z, e : /\ x = Thoughts(w.reasoning) /\ y = Speech(w.text) /\ z = CallBlocks(w.calls)
                        /\ e = BlockOf(Text, w.text)
  OBVIOUS
<1>2. y = <<e>> /\ z = <<>>
  BY <1>1 DEF Speech, CallBlocks
<1>3. x \in Seq(Good) /\ y \in Seq(Good)
  BY <1>1, PartsTyped DEF Completion
<1>4. translateResponse(w) = x \o y \o z
  BY <1>1, WholeIs
<1> QED
  BY <1>1, <1>2, <1>3, <1>4

\* What comes before the last call, and the last call.
LEMMA WholeCalls ==
    ASSUME NEW w \in Completion, NEW before \in Seq(CallSaid), NEW x \in CallSaid,
           w.calls = Append(before, x)
    PROVE  translateResponse(w)
             = Append(Before(w, before), BlockOf(Named(x.call), x.args))
<1>1. PICK front, some, all, e :
         /\ front = Thoughts(w.reasoning) \o Speech(w.text) /\ some = CallBlocks(before)
         /\ all = CallBlocks(w.calls) /\ e = BlockOf(Named(x.call), x.args)
  OBVIOUS
<1>2. front \in Seq(Good)
  BY <1>1, PartsTyped DEF Completion
<1>3. some \in Seq(Good)
  BY <1>1, CallsTyped
<1>4. all = Append(some, e)
  <2>1. PICK calls : calls = w.calls
    OBVIOUS
  <2>2. DOMAIN calls = 1..(Len(before) + 1)
    BY <2>1
  <2>3. DOMAIN some = DOMAIN before /\ DOMAIN before = 1..Len(before) /\ Len(some) = Len(before)
    BY <1>1, <1>3 DEF CallBlocks
  <2>4. DOMAIN Append(some, e) = 1..(Len(before) + 1)
    BY <1>3, <2>3
  <2>5. DOMAIN all = 1..(Len(before) + 1)
    BY <1>1, <2>1, <2>2 DEF CallBlocks
  <2>6. ASSUME NEW i \in 1..(Len(before) + 1) PROVE all[i] = Append(some, e)[i]
    <3>1. all[i] = BlockOf(Named(calls[i].call), calls[i].args)
      BY <1>1, <2>1, <2>2 DEF CallBlocks
    <3>2. CASE i = Len(before) + 1
      <4>1. calls[i] = x /\ Append(some, e)[i] = e
        BY <1>3, <2>1, <2>3, <3>2
      <4> QED
        BY <1>1, <3>1, <4>1
    <3>3. CASE i # Len(before) + 1
      <4>1. i \in 1..Len(before)
        BY <3>3
      <4>2. calls[i] = before[i] /\ Append(some, e)[i] = some[i]
        BY <1>3, <2>1, <2>3, <4>1
      <4>3. some[i] = BlockOf(Named(before[i].call), before[i].args)
        BY <1>1, <2>3, <4>1 DEF CallBlocks
      <4> QED
        BY <3>1, <4>2, <4>3
    <3> QED
      BY <3>2, <3>3
  <2>7. all = [i \in 1..(Len(before) + 1) |-> all[i]]
    BY <1>1, <2>5, Zenon DEF CallBlocks
  <2>8. PICK more, j : more = Append(some, e) /\ j = Len(before) + 1
    OBVIOUS
  <2>9. e \in Good
    <3>1. all \in Seq(Good)
      BY <1>1, CallsTyped DEF Completion
    <3>2. all[j] = e
      BY <1>3, <2>3, <2>6, <2>8
    <3>3. j \in DOMAIN all
      BY <2>5, <2>8
    <3> QED
      BY <3>1, <3>2, <3>3
  <2>10. more \in Seq(Good)
    BY <1>3, <2>8, <2>9
  <2>11. more \in [1..j -> Good] /\ \A i \in 1..j : all[i] = more[i]
    <3>1. Len(more) = j /\ j \in Nat
      BY <1>3, <2>3, <2>8, <2>9
    <3>2. more \in [1..j -> Good]
      BY <2>10, <3>1
    <3> QED
      BY <2>6, <2>8, <3>2
  <2> QED
    BY <2>7, <2>8, <2>11
<1>5. translateResponse(w) = front \o all
  BY <1>1, WholeIs
<1>6. front \o Append(some, e) = Append(front \o some, e)
  BY <1>2, <1>3
<1> QED
  BY <1>1, <1>4, <1>5, <1>6 DEF Before

-----------------------------------------------------------------------------
(* One piece after the other                                                *)

\* As long as the upstream reasons, talks and calls in that order, the adapter
\* has in mind the message of the completion w; topic is the last one spoken of.
Told(a, m, w, topic) ==
    /\ m.blocks = translateResponse(w)
    /\ topic = 0 =>
          /\ w.text = 0 /\ w.calls = <<>>
          /\ w.reasoning = 0 => a.state = "WAITING"
          /\ w.reasoning # 0 => a.state = "IN_THINKING"
    /\ topic = 1 => w.text # 0 /\ w.calls = <<>> /\ a.state = "IN_TEXT"
    /\ topic >= 2 =>
          /\ a.state = "IN_TOOL_USE" /\ a.tool = topic - 2
          /\ \E before \in Seq(CallSaid), x \in CallSaid :
                /\ w.calls = Append(before, x) /\ x.call = a.tool
                /\ \A j \in DOMAIN before : before[j].call < a.tool

\* The client, once it has read the events of the adapter, has the message the
\* adapter has in mind; o: the upstream kept to the order so far.
Follows(S, m0, o, w, topic, a) ==
    \E m \in Message :
        /\ Leads(S, m0, a.out, m) /\ Synced(a, m)
        /\ o = TRUE => Told(a, m, w, topic)

\* The adapter may go on, and this is the message it has in mind.
Ready(S, m0, a, m) ==
    /\ Roomy(S) /\ a \in Adapter /\ a.state # "CLOSED" /\ m \in Message
    /\ Leads(S, m0, a.out, m) /\ Synced(a, m)

\* The client is in step with these blocks and has the last of them open.
Grown(S, m0, b, blocks, h) ==
    \E n \in Message :
        /\ Leads(S, m0, b.out, n) /\ n.blocks = blocks
        /\ InStep(b, n) /\ OpenHeading(n) = h

\* A new block with its first piece.
LEMMA BlockBegun ==
    ASSUME NEW S, NEW m0, NEW a, NEW m, Ready(S, m0, a, m),
           NEW state \in Speaking, NEW h \in Heading, NEW p, p = PieceOf(h),
           NEW c, c = OpenBlock(a, state, h), NEW b, b = Say(c, p)
    PROVE  /\ b \in Adapter /\ Grown(S, m0, b, Added(Opened(m.blocks, h), p), h)
           /\ b.state = state /\ b.counted = a.counted
<1>0. /\ Roomy(S) /\ a \in Adapter /\ a.state # "CLOSED" /\ m \in Message
      /\ Leads(S, m0, a.out, m) /\ Synced(a, m)
  BY DEF Ready
<1>1. PICK t : t = WithBlock(m, h)
  OBVIOUS
<1>2. /\ c \in Adapter /\ Leads(S, m0, c.out, t)
      /\ t \in Message /\ t.blocks = Opened(m.blocks, h)
      /\ InStep(c, t) /\ OpenHeading(t) = h
      /\ c.state = state /\ c.counted = a.counted
  BY <1>0, <1>1, BlockOpened, Z3
<1>3. PICK n : n = WithPiece(t, p)
  OBVIOUS
<1>4. p \in Piece /\ p.kind = h.kind /\ p.call = h.call
  BY HeadingsTyped DEF PieceOf
<1>5. p.kind = OpenHeading(t).kind /\ p.call = OpenHeading(t).call
  BY <1>2, <1>4
<1>6. /\ b \in Adapter /\ Leads(S, m0, b.out, n)
      /\ n \in Message /\ n.blocks = Added(t.blocks, p)
      /\ InStep(b, n) /\ OpenHeading(n) = OpenHeading(t)
      /\ b.state = c.state /\ b.counted = c.counted
  BY <1>0, <1>2, <1>3, <1>4, <1>5, PieceAdded, Z3
<1> QED
  BY <1>2, <1>6 DEF Grown

\* A piece more in the open block.
LEMMA BlockGoesOn ==
    ASSUME NEW S, NEW m0, NEW a, NEW m, Ready(S, m0, a, m), a.state \in Speaking,
           NEW h \in Heading, OpenHeading(m).kind = h.kind, OpenHeading(m).call = h.call,
           NEW p, p = PieceOf(h), NEW b, b = Say(a, p)
    PROVE  /\ b \in Adapter /\ Grown(S, m0, b, Added(m.blocks, p), OpenHeading(m))
           /\ b.state = a.state /\ b.counted = a.counted
           /\ b.tool = a.tool /\ b.calls = a.calls
<1>0. /\ Roomy(S) /\ a \in Adapter /\ m \in Message
      /\ Leads(S, m0, a.out, m) /\ Synced(a, m)
  BY DEF Ready
<1>1. PICK n : n = WithPiece(m, p)
  OBVIOUS
<1>2. p \in Piece /\ p.kind = h.kind /\ p.call = h.call
  BY HeadingsTyped DEF PieceOf
<1>3. InStep(a, m)
  BY <1>0 DEF Synced
<1>4. p.kind = OpenHeading(m).kind /\ p.call = OpenHeading(m).call
  BY <1>2
<1>5. /\ b \in Adapter /\ Leads(S, m0, b.out, n)
      /\ n \in Message /\ n.blocks = Added(m.blocks, p)
      /\ InStep(b, n) /\ OpenHeading(n) = OpenHeading(m)
      /\ b.state = a.state /\ b.tool = a.tool /\ b.calls = a.calls /\ b.counted = a.counted
  BY <1>0, <1>1, <1>2, <1>3, <1>4, PieceAdded, Z3
<1> QED
  BY <1>5 DEF Grown

\* An open adapter that has counted so far, and has the message of w in mind.
Stands(S, m0, o, w, topic, a, counted) ==
    /\ a \in Adapter /\ a.state # "CLOSED" /\ a.counted = counted
    /\ w \in Completion /\ topic \in Nat
    /\ Follows(S, m0, o, w, topic, a)

\* A completion with a piece more.
MoreThoughts(w) == [w EXCEPT !.reasoning = @ + 1]
MoreWords(w)    == [w EXCEPT !.text = @ + 1]

\* A piece of reasoning.
LEMMA ReasoningFollows ==
    ASSUME NEW S, Roomy(S), NEW m0, NEW o, NEW w, NEW topic, NEW a, NEW counted,
           Stands(S, m0, o, w, topic, a, counted), o = TRUE => topic = 0,
           NEW b, b = Reasoning(a), NEW v, v = MoreThoughts(w), NEW last, last = 0
    PROVE  Stands(S, m0, o, v, last, b, counted)
<1> /\ a \in Adapter /\ a.state # "CLOSED" /\ a.counted = counted
    /\ w \in Completion /\ topic \in Nat /\ Follows(S, m0, o, w, topic, a)
  BY DEF Stands
<1> SUFFICES /\ b \in Adapter /\ b.state # "CLOSED" /\ b.counted = a.counted
             /\ v \in Completion /\ Follows(S, m0, o, v, last, b)
  BY DEF Stands
<1> v = [w EXCEPT !.reasoning = @ + 1]
  BY DEF MoreThoughts
<1>1. PICK m \in Message : Leads(S, m0, a.out, m) /\ Synced(a, m) /\ (o = TRUE => Told(a, m, w, topic))
  BY DEF Follows
<1>2. Ready(S, m0, a, m)
  BY <1>1 DEF Ready
<1>3. PICK h \in Heading : h = Thinking
  BY HeadingsTyped
<1>4. PICK p : p = PieceOf(h)
  OBVIOUS
<1>5. p = [kind |-> "thinking", call |-> 0]
  BY <1>3, <1>4 DEF PieceOf, Thinking
<1>6. /\ v \in Completion /\ v.reasoning = w.reasoning + 1 /\ v.text = w.text /\ v.calls = w.calls
      /\ v.reasoning # 0 /\ w.reasoning \in Nat
  BY DEF Completion
<1>7. PICK r \in Nat : r = w.reasoning
  BY <1>6
<1>8. PICK j : j = r + 1
  OBVIOUS
<1>9. PICK front \in Seq(Good) : front = <<>>
  BY <<>> \in Seq(Good)
<1>10. o = TRUE => w.text = 0 /\ w.calls = <<>> /\ m.blocks = translateResponse(w)
  BY <1>1 DEF Told
<1>11. o = TRUE => translateResponse(v) = Ending(front, h, j)
  <2>1. ASSUME o = TRUE PROVE translateResponse(v) = Thoughts(v.reasoning)
    BY <1>6, <1>10, <2>1, WholeThoughts
  <2>2. Thoughts(v.reasoning) = <<BlockOf(h, j)>>
    BY <1>3, <1>6, <1>7, <1>8 DEF Thoughts
  <2> QED
    BY <1>9, <2>1, <2>2 DEF Ending
<1>12. ASSUME NEW n \in Message, b \in Adapter, Leads(S, m0, b.out, n), InStep(b, n),
             OpenHeading(n) = h, b.state = "IN_THINKING", b.counted = a.counted,
             o = TRUE => n.blocks = translateResponse(v)
      PROVE  /\ b \in Adapter /\ b.state # "CLOSED" /\ b.counted = a.counted
             /\ Follows(S, m0, o, v, last, b)
  <2>1. Synced(b, n)
    BY <1>3, <1>12 DEF Synced, Under, Speaking
  <2>2. o = TRUE => Told(b, n, v, last)
    BY <1>6, <1>10, <1>12 DEF Told
  <2>3. b.state # "CLOSED"
    BY <1>12
  <2> QED
    BY <1>12, <2>1, <2>2, <2>3, Zenon DEF Follows
<1>13. CASE a.state \in {"WAITING", "IN_TEXT", "IN_TOOL_USE"}
  <2>1. PICK state \in Speaking : state = "IN_THINKING"
    BY DEF Speaking
  <2>2. PICK c : c = OpenBlock(a, state, h)
    OBVIOUS
  <2>3. PICK d : d = Say(c, p)
    OBVIOUS
  <2>4. c.state = state
    BY <2>2 DEF OpenBlock, Yield, Adapter
  <2>5. b = d
    BY <1>3, <1>5, <1>13, <2>1, <2>2, <2>3, <2>4, Zenon DEF Reasoning, Say
  <2>6. /\ d \in Adapter /\ Grown(S, m0, d, Added(Opened(m.blocks, h), p), h)
        /\ d.state = state /\ d.counted = a.counted
    BY <1>2, <1>4, <2>2, <2>3, BlockBegun
  <2>7. PICK n \in Message :
              /\ Leads(S, m0, b.out, n) /\ n.blocks = Added(Opened(m.blocks, h), p)
              /\ InStep(b, n) /\ OpenHeading(n) = h
    BY <2>5, <2>6 DEF Grown
  <2>8. ASSUME o = TRUE PROVE n.blocks = translateResponse(v)
    <3>1. w.reasoning = 0
      BY <1>1, <1>13, <2>8 DEF Told
    <3>2. r = 0 /\ r \in Nat /\ m.blocks = front
      BY <1>7, <1>9, <1>10, <2>8, <3>1, WholeThoughts DEF Thoughts
    <3>3. PICK blocks : blocks = Opened(front, h)
      OBVIOUS
    <3>4. blocks = Ending(front, h, r)
      BY <3>2, <3>3, BlockEmpty
    <3>5. Added(blocks, p) = Ending(front, h, j)
      BY <1>4, <1>8, <3>4, PieceMore
    <3> QED
      BY <1>11, <2>7, <2>8, <3>2, <3>3, <3>5
  <2> QED
    BY <1>6, <1>12, <2>1, <2>5, <2>6, <2>7, <2>8
<1>14. CASE a.state = "IN_THINKING"
  <2>1. PICK d : d = Say(a, p)
    OBVIOUS
  <2>2. b = d
    BY <1>5, <1>14, <2>1, Zenon DEF Reasoning, Say
  <2>3. a.state \in Speaking /\ OpenHeading(m) = h
    BY <1>1, <1>3, <1>14 DEF Synced, Under, Speaking
  <2>4. /\ d \in Adapter /\ Grown(S, m0, d, Added(m.blocks, p), OpenHeading(m))
        /\ d.state = a.state /\ d.counted = a.counted
    BY <1>2, <1>4, <2>1, <2>3, BlockGoesOn
  <2>5. PICK n \in Message :
              /\ Leads(S, m0, b.out, n) /\ n.blocks = Added(m.blocks, p)
              /\ InStep(b, n) /\ OpenHeading(n) = OpenHeading(m)
    BY <2>2, <2>4 DEF Grown
  <2>6. ASSUME o = TRUE PROVE n.blocks = translateResponse(v)
    <3>1. w.reasoning # 0
      BY <1>1, <1>14, <2>6 DEF Told
    <3>2. m.blocks = Ending(front, h, r)
      <4>1. m.blocks = <<BlockOf(Thinking, w.reasoning)>>
        BY <1>10, <2>6, <3>1, WholeThoughts DEF Thoughts
      <4> QED
        BY <1>3, <1>6, <1>7, <1>9, <3>1, <4>1 DEF Ending
    <3>3. PICK blocks : blocks = m.blocks
      OBVIOUS
    <3>4. Added(blocks, p) = Ending(front, h, j)
      BY <1>4, <1>8, <3>2, <3>3, PieceMore
    <3> QED
      BY <1>11, <2>5, <2>6, <3>3, <3>4
  <2> QED
    BY <1>6, <1>12, <1>14, <2>2, <2>3, <2>4, <2>5, <2>6
<1> QED
  BY <1>13, <1>14 DEF Adapter, Speaking

\* A piece of text.
LEMMA TextFollows ==
    ASSUME NEW S, Roomy(S), NEW m0, NEW o, NEW w, NEW topic, NEW a, NEW counted,
           Stands(S, m0, o, w, topic, a, counted), o = TRUE => topic <= 1,
           NEW b, b = TextPiece(a), NEW v, v = MoreWords(w), NEW last, last = 1
    PROVE  Stands(S, m0, o, v, last, b, counted)
<1> /\ a \in Adapter /\ a.state # "CLOSED" /\ a.counted = counted
    /\ w \in Completion /\ topic \in Nat /\ Follows(S, m0, o, w, topic, a)
  BY DEF Stands
<1> SUFFICES /\ b \in Adapter /\ b.state # "CLOSED" /\ b.counted = a.counted
             /\ v \in Completion /\ Follows(S, m0, o, v, last, b)
  BY DEF Stands
<1> v = [w EXCEPT !.text = @ + 1]
  BY DEF MoreWords
<1>1. PICK m \in Message : Leads(S, m0, a.out, m) /\ Synced(a, m) /\ (o = TRUE => Told(a, m, w, topic))
  BY DEF Follows
<1>2. Ready(S, m0, a, m)
  BY <1>1 DEF Ready
<1>3. PICK h \in Heading : h = Text
  BY HeadingsTyped
<1>4. PICK p : p = PieceOf(h)
  OBVIOUS
<1>5. p = [kind |-> "text", call |-> 0]
  BY <1>3, <1>4 DEF PieceOf, Text
<1>6. /\ v \in Completion /\ v.reasoning = w.reasoning /\ v.text = w.text + 1 /\ v.calls = w.calls
      /\ v.text # 0 /\ w.text \in Nat
  BY DEF Completion
<1>7. PICK k \in Nat : k = w.text
  BY <1>6
<1>8. PICK j : j = k + 1
  OBVIOUS
<1>9. PICK front \in Seq(Good) : front = Thoughts(w.reasoning)
  BY PartsTyped DEF Completion
<1>10. o = TRUE => (topic = 0 \/ topic = 1) /\ w.calls = <<>> /\ m.blocks = translateResponse(w)
  <2>1. o = TRUE => topic = 0 \/ topic = 1
    OBVIOUS
  <2> QED
    BY <1>1, <2>1 DEF Told
<1>11. o = TRUE => translateResponse(v) = Ending(front, h, j)
  <2>1. ASSUME o = TRUE PROVE translateResponse(v) = Append(Thoughts(v.reasoning), BlockOf(Text, v.text))
    BY <1>6, <1>10, <2>1, WholeWords
  <2> QED
    BY <1>3, <1>6, <1>7, <1>8, <1>9, <2>1 DEF Ending
<1>12. ASSUME NEW n \in Message, b \in Adapter, Leads(S, m0, b.out, n), InStep(b, n),
             OpenHeading(n) = h, b.state = "IN_TEXT", b.counted = a.counted,
             o = TRUE => n.blocks = translateResponse(v)
      PROVE  /\ b \in Adapter /\ b.state # "CLOSED" /\ b.counted = a.counted
             /\ Follows(S, m0, o, v, last, b)
  <2>1. Synced(b, n)
    BY <1>3, <1>12 DEF Synced, Under, Speaking
  <2>2. o = TRUE => Told(b, n, v, last)
    BY <1>6, <1>10, <1>12 DEF Told
  <2>3. b.state # "CLOSED"
    BY <1>12
  <2> QED
    BY <1>12, <2>1, <2>2, <2>3, Zenon DEF Follows
<1>13. CASE a.state \in {"WAITING", "IN_THINKING"}
  <2>1. PICK state \in Speaking : state = "IN_TEXT"
    BY DEF Speaking
  <2>2. PICK c : c = OpenBlock(a, state, h)
    OBVIOUS
  <2>3. PICK d : d = Say(c, p)
    OBVIOUS
  <2>4. c.state = state
    BY <2>2 DEF OpenBlock, Yield, Adapter
  <2>5. b = d
    BY <1>3, <1>5, <1>13, <2>1, <2>2, <2>3, <2>4, Zenon DEF TextPiece, Say
  <2>6. /\ d \in Adapter /\ Grown(S, m0, d, Added(Opened(m.blocks, h), p), h)
        /\ d.state = state /\ d.counted = a.counted
    BY <1>2, <1>4, <2>2, <2>3, BlockBegun
  <2>7. PICK n \in Message :
              /\ Leads(S, m0, b.out, n) /\ n.blocks = Added(Opened(m.blocks, h), p)
              /\ InStep(b, n) /\ OpenHeading(n) = h
    BY <2>5, <2>6 DEF Grown
  <2>8. ASSUME o = TRUE PROVE n.blocks = translateResponse(v)
    <3>1. w.text = 0
      BY <1>1, <1>10, <1>13, <2>8 DEF Told
    <3>2. k = 0 /\ m.blocks = front
      BY <1>7, <1>9, <1>10, <2>8, <3>1, WholeThoughts
    <3>3. PICK blocks : blocks = Opened(front, h)
      OBVIOUS
    <3>4. blocks = Ending(front, h, k)
      BY <3>2, <3>3, BlockEmpty
    <3>5. Added(blocks, p) = Ending(front, h, j)
      BY <1>4, <1>8, <3>4, PieceMore
    <3> QED
      BY <1>11, <2>7, <2>8, <3>2, <3>3, <3>5
  <2> QED
    BY <1>6, <1>12, <2>1, <2>5, <2>6, <2>7, <2>8
<1>14. CASE a.state = "IN_TEXT"
  <2>1. PICK d : d = Say(a, p)
    OBVIOUS
  <2>2. b = d
    BY <1>5, <1>14, <2>1, Zenon DEF TextPiece, Say
  <2>3. a.state \in Speaking /\ OpenHeading(m) = h
    BY <1>1, <1>3, <1>14 DEF Synced, Under, Speaking
  <2>4. /\ d \in Adapter /\ Grown(S, m0, d, Added(m.blocks, p), OpenHeading(m))
        /\ d.state = a.state /\ d.counted = a.counted
    BY <1>2, <1>4, <2>1, <2>3, BlockGoesOn
  <2>5. PICK n \in Message :
              /\ Leads(S, m0, b.out, n) /\ n.blocks = Added(m.blocks, p)
              /\ InStep(b, n) /\ OpenHeading(n) = OpenHeading(m)
    BY <2>2, <2>4 DEF Grown
  <2>6. ASSUME o = TRUE PROVE n.blocks = translateResponse(v)
    <3>1. w.text # 0
      BY <1>1, <1>10, <1>14, <2>6 DEF Told
    <3>2. m.blocks = Ending(front, h, k)
      <4>1. m.blocks = Append(Thoughts(w.reasoning), BlockOf(Text, w.text))
        BY <1>10, <2>6, <3>1, WholeWords
      <4> QED
        BY <1>3, <1>7, <1>9, <4>1 DEF Ending
    <3>3. PICK blocks : blocks = m.blocks
      OBVIOUS
    <3>4. Added(blocks, p) = Ending(front, h, j)
      BY <1>4, <1>8, <3>2, <3>3, PieceMore
    <3> QED
      BY <1>11, <2>5, <2>6, <3>3, <3>4
  <2> QED
    BY <1>6, <1>12, <1>14, <2>2, <2>3, <2>4, <2>5, <2>6
<1>15. CASE a.state = "IN_TOOL_USE"
  <2>1. b = a
    BY <1>15 DEF TextPiece
  <2>2. o # TRUE
    BY <1>1, <1>10, <1>15 DEF Told
  <2>3. Follows(S, m0, o, v, last, b)
    BY <1>1, <2>1, <2>2, Zenon DEF Follows
  <2> QED
    BY <1>6, <2>1, <2>3
<1> QED
  BY <1>13, <1>14, <1>15 DEF Adapter, Speaking

\* The calls of a completion with a fragment more.
Longer(x, f) == IF f.args THEN [x EXCEPT !.args = @ + 1] ELSE x
Heeded(calls, f) ==
    [k \in DOMAIN calls |->
        IF calls[k].call = f.call /\ f.args THEN [calls[k] EXCEPT !.args = @ + 1] ELSE calls[k]]
Fragmented(calls, f) ==
    Heeded(IF f.call \in {calls[k].call : k \in DOMAIN calls} THEN calls
           ELSE Append(calls, [call |-> f.call, args |-> 0]), f)

\* The calls so far have lower indices.
Highest(f, before) == \A k \in DOMAIN before : before[k].call < f.call

\* A fragment of the last call, which has the highest index, goes there.
LEMMA LastCallGrows ==
    ASSUME NEW f \in Fragment, NEW before \in Seq(CallSaid), NEW x \in CallSaid, x.call = f.call,
           Highest(f, before), NEW y, y = Longer(x, f)
    PROVE  y \in CallSaid /\ y.call = f.call /\ Heeded(Append(before, x), f) = Append(before, y)
<1>1. PICK all : all = Append(before, x)
  OBVIOUS
<1>2. y \in CallSaid /\ y.call = f.call
  BY DEF CallSaid, Longer
<1>3. PICK n \in Nat : n = Len(before)
  OBVIOUS
<1>4. PICK new : new = Heeded(all, f)
  OBVIOUS
<1>5. new = [k \in DOMAIN all |->
                  IF all[k].call = f.call /\ f.args THEN [all[k] EXCEPT !.args = @ + 1] ELSE all[k]]
  BY <1>4 DEF Heeded
<1>6. PICK more : more = Append(before, y)
  OBVIOUS
<1>7. DOMAIN all = 1..(n + 1) /\ DOMAIN before = 1..n /\ all[n + 1] = x
  BY <1>1, <1>3
<1>8. /\ more \in Seq(CallSaid) /\ Len(more) = n + 1 /\ more[n + 1] = y
      /\ \A k \in 1..n : more[k] = before[k] /\ all[k] = before[k]
  BY <1>1, <1>2, <1>3, <1>6
<1>9. DOMAIN new = 1..(n + 1) /\ new = [k \in 1..(n + 1) |-> new[k]]
  BY <1>5, <1>7
<1>10. ASSUME NEW k \in 1..(n + 1) PROVE new[k] = more[k]
  <2>1. CASE k = n + 1
    BY <1>5, <1>7, <1>8, <2>1 DEF Longer
  <2>2. CASE k # n + 1
    <3>1. k \in 1..n
      BY <2>2
    <3>2. before[k] \in CallSaid /\ before[k].call < f.call
      BY <1>7, <3>1 DEF Highest
    <3>3. before[k].call \in Nat /\ f.call \in Nat
      BY <3>2, StreamAssumption DEF CallSaid, Fragment
    <3>4. before[k].call # f.call
      BY <3>2, <3>3
    <3> QED
      BY <1>5, <1>7, <1>8, <3>1, <3>4
  <2> QED
    BY <2>1, <2>2
<1>11. PICK j \in Nat : j = n + 1
  OBVIOUS
<1>12. more \in [1..j -> CallSaid]
  BY <1>8, <1>11
<1>13. more = [k \in 1..j |-> more[k]]
  BY <1>12
<1> QED
  BY <1>1, <1>4, <1>2, <1>6, <1>9, <1>10, <1>11, <1>13

LEMMA FragmentedTyped ==
    ASSUME NEW calls \in Seq(CallSaid), NEW f \in Fragment
    PROVE  Fragmented(calls, f) \in Seq(CallSaid)
<1>1. PICK x : x = [call |-> f.call, args |-> 0]
  OBVIOUS
<1>2. x \in CallSaid
  BY <1>1 DEF CallSaid, Fragment
<1>3. PICK all : all = IF f.call \in {calls[k].call : k \in DOMAIN calls} THEN calls ELSE Append(calls, x)
  OBVIOUS
<1>4. all \in Seq(CallSaid)
  BY <1>2, <1>3
<1>5. PICK n \in Nat : n = Len(all) /\ DOMAIN all = 1..n
  BY <1>4
<1>6. \A k \in 1..n : all[k] \in CallSaid
  BY <1>4, <1>5
<1>7. ASSUME NEW y \in CallSaid PROVE [y EXCEPT !.args = @ + 1] \in CallSaid
  BY DEF CallSaid
<1>8. PICK new : new = [k \in 1..n |->
            IF all[k].call = f.call /\ f.args THEN [all[k] EXCEPT !.args = @ + 1] ELSE all[k]]
  OBVIOUS
<1>9. new \in [1..n -> CallSaid]
  BY <1>6, <1>7, <1>8
<1>10. new \in Seq(CallSaid)
  BY <1>9
<1>11. Fragmented(calls, f) = new
  BY <1>1, <1>3, <1>5, <1>8 DEF Fragmented, Heeded
<1> QED
  BY <1>10, <1>11

\* A fragment that opens a block: the block, its heading and its first piece.
LEMMA CallOpened ==
    ASSUME NEW S, NEW m0, NEW a, NEW m, Ready(S, m0, a, m), NEW f \in Fragment, NEW first \in BOOLEAN,
           OpensCall(a, f), NEW h, h = Call(f.call, first), NEW p, p = PieceOf(h),
           NEW b, b = ToolCall(a, f, first)
    PROVE  /\ b \in Adapter /\ b.state = "IN_TOOL_USE" /\ b.counted = a.counted
           /\ b.tool = f.call /\ f.call \in b.calls
           /\ f.args => Grown(S, m0, b, Added(Opened(m.blocks, h), p), h)
           /\ ~f.args => Grown(S, m0, b, Opened(m.blocks, h), h)
<1>0. /\ Roomy(S) /\ a \in Adapter /\ a.state # "CLOSED" /\ m \in Message
      /\ Leads(S, m0, a.out, m) /\ Synced(a, m)
  BY DEF Ready
<1>1. PICK state \in Speaking : state = "IN_TOOL_USE"
  BY DEF Speaking
<1>2. h \in Heading /\ f.call \in CallIndex
  BY HeadingsTyped DEF Fragment
<1>3. PICK c : c = OpenBlock(a, state, h)
  OBVIOUS
<1>4. PICK t : t = WithBlock(m, h)
  OBVIOUS
<1>5. /\ c \in Adapter /\ Leads(S, m0, c.out, t)
      /\ t \in Message /\ t.blocks = Opened(m.blocks, h)
      /\ InStep(c, t) /\ OpenHeading(t) = h
      /\ c.state = state /\ c.counted = a.counted
  BY <1>0, <1>2, <1>3, <1>4, BlockOpened, Z3
<1>6. PICK d : d = [c EXCEPT !.tool = f.call, !.calls = @ \cup {f.call}]
  OBVIOUS
<1>7. /\ d \in Adapter /\ d.out = c.out /\ d.index = c.index /\ d.state = state
      /\ d.tool = f.call /\ f.call \in d.calls /\ d.counted = a.counted
  BY <1>2, <1>5, <1>6 DEF Adapter
<1>8. InStep(d, t)
  BY <1>5, <1>7 DEF InStep
<1>9. Synced(d, t)
  <2>1. Under(d, h)
    BY <1>1, <1>7 DEF Under, Call
  <2> QED
    BY <1>1, <1>5, <1>7, <1>8, <2>1 DEF Synced
<1>10. Ready(S, m0, d, t)
  BY <1>0, <1>1, <1>5, <1>7, <1>9 DEF Ready
<1>11. p = [kind |-> "tool_use", call |-> f.call]
  BY DEF PieceOf, Call
<1>12. PICK e : e = Say(d, p)
  OBVIOUS
<1>13. b = IF f.args /\ f.call \in d.calls THEN e ELSE d
  <2>1. d = [OpenBlock(a, "IN_TOOL_USE", Call(f.call, first))
                EXCEPT !.tool = f.call, !.calls = @ \cup {f.call}]
    BY <1>1, <1>3, <1>6, Zenon
  <2>2. e = Yield(d, <<Delta(d.index, [kind |-> "tool_use", call |-> f.call])>>)
    BY <1>11, <1>12 DEF Say
  <2> QED
    BY <2>1, <2>2 DEF ToolCall
<1>14. CASE f.args
  <2>1. b = e
    BY <1>7, <1>13, <1>14
  <2>2. PICK g \in Heading : g = h
    BY <1>2
  <2>3. OpenHeading(t).kind = g.kind /\ OpenHeading(t).call = g.call /\ p = PieceOf(g)
    BY <1>5, <2>2
  <2>4. d.state \in Speaking
    BY <1>7
  <2>5. /\ e \in Adapter /\ Grown(S, m0, e, Added(t.blocks, p), OpenHeading(t))
        /\ e.state = d.state /\ e.counted = d.counted
        /\ e.tool = d.tool /\ e.calls = d.calls
    BY <1>10, <1>12, <2>3, <2>4, BlockGoesOn
  <2> QED
    BY <1>1, <1>5, <1>7, <1>14, <2>1, <2>5
<1>15. CASE ~f.args
  <2>1. b = d
    BY <1>13, <1>15
  <2>2. Grown(S, m0, d, Opened(m.blocks, h), h)
    BY <1>5, <1>7, <1>8, Zenon DEF Grown
  <2> QED
    BY <1>1, <1>7, <1>15, <2>1, <2>2
<1> QED
  BY <1>14, <1>15 DEF Fragment

WithCalls(w, calls) == [w EXCEPT !.calls = calls]

\* The message of a completion with a call more, or with a longer last call.
LEMMA WholeWithCall ==
    ASSUME NEW w \in Completion, NEW before \in Seq(CallSaid), NEW y \in CallSaid,
           NEW v, v = WithCalls(w, Append(before, y)),
           NEW h, h = Named(y.call), NEW k, k = y.args
    PROVE  v.calls = Append(before, y) /\ translateResponse(v) = Ending(Before(w, before), h, k)
<1>1. PICK calls : calls = Append(before, y)
  OBVIOUS
<1>2. calls \in Seq(CallSaid)
  BY <1>1
<1>3. v \in Completion /\ v.reasoning = w.reasoning /\ v.text = w.text /\ v.calls = calls
  BY <1>1, <1>2 DEF Completion, WithCalls
<1>4. v.calls = Append(before, y)
  BY <1>1, <1>3
<1> QED
  BY <1>3, <1>4, WholeCalls DEF Ending, Before

LEMMA BeforeTyped ==
    ASSUME NEW w \in Completion, NEW before \in Seq(CallSaid)
    PROVE  Before(w, before) \in Seq(Good)
<1>1. Thoughts(w.reasoning) \in Seq(Good) /\ Speech(w.text) \in Seq(Good)
  BY PartsTyped DEF Completion
<1>2. CallBlocks(before) \in Seq(Good)
  BY CallsTyped
<1> QED
  BY <1>1, <1>2 DEF Before

\* A new call, which has the highest index.
LEMMA ToldOfNewCall ==
    ASSUME NEW w \in Completion, NEW f \in Fragment, NEW before \in Seq(CallSaid),
           before = w.calls, Highest(f, before),
           NEW h \in Heading, h = Named(f.call), NEW p, p = PieceOf(h),
           NEW front, front = translateResponse(w),
           NEW v, v = WithCalls(w, Fragmented(before, f))
    PROVE  /\ f.args => translateResponse(v) = Added(Opened(front, h), p)
           /\ ~f.args => translateResponse(v) = Opened(front, h)
           /\ \E x \in CallSaid : v.calls = Append(before, x) /\ x.call = f.call
<1>1. PICK x \in CallSaid : x = [call |-> f.call, args |-> 0]
  BY DEF CallSaid, Fragment
<1>2. x.call = f.call /\ x.args = 0
  BY <1>1
<1>3. f.call \notin {before[k].call : k \in DOMAIN before}
  BY StreamAssumption DEF Fragment, Highest
<1>4. PICK y : y = Longer(x, f)
  OBVIOUS
<1>5. y \in CallSaid /\ y.call = f.call /\ Heeded(Append(before, x), f) = Append(before, y)
  BY <1>2, <1>4, LastCallGrows
<1>6. Fragmented(before, f) = Append(before, y)
  BY <1>1, <1>3, <1>5 DEF Fragmented
<1>7. PICK j : j = y.args
  OBVIOUS
<1>8. v.calls = Append(before, y) /\ translateResponse(v) = Ending(Before(w, before), h, j)
  <2>1. v = WithCalls(w, Append(before, y)) /\ h = Named(y.call)
    BY <1>5, <1>6
  <2> QED
    BY <1>5, <1>7, <2>1, WholeWithCall
<1>9. PICK rest \in Seq(Good) : rest = Before(w, before)
  BY BeforeTyped
<1>10. front = rest
  BY <1>9, WholeIs DEF Before
<1>11. PICK k \in Nat : k = 0
  OBVIOUS
<1>12. PICK one : one = k + 1
  OBVIOUS
<1>13. PICK blocks : blocks = Opened(rest, h)
  OBVIOUS
<1>14. blocks = Ending(rest, h, k)
  BY <1>11, <1>13, BlockEmpty
<1>15. PICK q : q = PieceOf(h)
  OBVIOUS
<1>16. Added(blocks, q) = Ending(rest, h, one)
  BY <1>12, <1>14, <1>15, PieceMore
<1>17. /\ f.args => j = one
       /\ ~f.args => j = k
  BY <1>1, <1>2, <1>4, <1>7, <1>11, <1>12 DEF Longer
<1> QED
  BY <1>5, <1>8, <1>9, <1>10, <1>13, <1>14, <1>15, <1>16, <1>17

IsLast(f, calls, before, x) == calls = Append(before, x) /\ x.call = f.call /\ Highest(f, before)

\* A fragment of the last call.
LEMMA ToldOfLastCall ==
    ASSUME NEW w \in Completion, NEW f \in Fragment, NEW before \in Seq(CallSaid), NEW x \in CallSaid,
           NEW calls, calls = w.calls, IsLast(f, calls, before, x),
           NEW h \in Heading, h = Named(f.call), NEW p, p = PieceOf(h),
           NEW front, front = translateResponse(w),
           NEW v, v = WithCalls(w, Fragmented(calls, f))
    PROVE  /\ f.args => translateResponse(v) = Added(front, p)
           /\ ~f.args => translateResponse(v) = front
           /\ \E y \in CallSaid : v.calls = Append(before, y) /\ y.call = f.call
<1>0. calls = Append(before, x) /\ x.call = f.call /\ Highest(f, before)
  BY DEF IsLast
<1>1. f.call \in {calls[k].call : k \in DOMAIN calls}
  <2>1. Len(before) + 1 \in DOMAIN calls /\ calls[Len(before) + 1] = x
    BY <1>0
  <2> QED
    BY <1>0, <2>1
<1>2. PICK y : y = Longer(x, f)
  OBVIOUS
<1>3. y \in CallSaid /\ y.call = f.call /\ Heeded(Append(before, x), f) = Append(before, y)
  BY <1>0, <1>2, LastCallGrows
<1>4. Fragmented(calls, f) = Append(before, y)
  BY <1>0, <1>1, <1>3 DEF Fragmented
<1>5. PICK j : j = y.args
  OBVIOUS
<1>6. v.calls = Append(before, y) /\ translateResponse(v) = Ending(Before(w, before), h, j)
  <2>1. v = WithCalls(w, Append(before, y)) /\ h = Named(y.call)
    BY <1>3, <1>4
  <2> QED
    BY <1>3, <1>5, <2>1, WholeWithCall
<1>7. PICK rest \in Seq(Good) : rest = Before(w, before)
  BY BeforeTyped
<1>8. PICK k \in Nat : k = x.args
  BY DEF CallSaid
<1>9. PICK more : more = k + 1
  OBVIOUS
<1>10. PICK blocks : blocks = Ending(rest, h, k)
  OBVIOUS
<1>11. front = blocks
  BY <1>0, <1>7, <1>8, <1>10, WholeCalls DEF Ending
<1>12. PICK q : q = PieceOf(h)
  OBVIOUS
<1>13. Added(blocks, q) = Ending(rest, h, more)
  BY <1>9, <1>10, <1>12, PieceMore
<1>14. /\ f.args => j = more
       /\ ~f.args => j = k
  BY <1>2, <1>5, <1>8, <1>9 DEF CallSaid, Longer
<1> QED
  BY <1>3, <1>6, <1>7, <1>10, <1>11, <1>12, <1>13, <1>14

\* A fragment of the call that is open: its arguments go into its block.
LEMMA CallGoesOn ==
    ASSUME NEW S, NEW m0, NEW a, NEW m, Ready(S, m0, a, m), NEW f \in Fragment, NEW first,
           ~OpensCall(a, f), NEW h \in Heading, h = Named(f.call), NEW p, p = PieceOf(h),
           NEW b, b = ToolCall(a, f, first)
    PROVE  /\ a.state = "IN_TOOL_USE" /\ a.tool = f.call
           /\ b \in Adapter /\ b.state = "IN_TOOL_USE" /\ b.counted = a.counted
           /\ b.tool = f.call /\ f.call \in b.calls
           /\ f.args => Grown(S, m0, b, Added(m.blocks, p), OpenHeading(m))
           /\ ~f.args => Grown(S, m0, b, m.blocks, OpenHeading(m))
           /\ OpenHeading(m).kind = "tool_use" /\ OpenHeading(m).call = f.call
<1>0. /\ a \in Adapter /\ a.state # "CLOSED" /\ m \in Message
      /\ Leads(S, m0, a.out, m) /\ Synced(a, m)
  BY DEF Ready
<1>1. a.state = "IN_TOOL_USE" /\ a.tool = f.call
  BY <1>0 DEF OpensCall, Adapter, Speaking
<1>2. /\ InStep(a, m) /\ a.state \in Speaking
      /\ OpenHeading(m).kind = "tool_use" /\ OpenHeading(m).call = f.call /\ f.call \in a.calls
  BY <1>0, <1>1 DEF Synced, Under, Speaking
<1>3. p = [kind |-> "tool_use", call |-> f.call] /\ h.kind = "tool_use" /\ h.call = f.call
  BY DEF PieceOf, Named, Call
<1>4. PICK e : e = Say(a, p)
  OBVIOUS
<1>5. b = IF f.args /\ f.call \in a.calls THEN e ELSE a
  <2>1. e = Yield(a, <<Delta(a.index, [kind |-> "tool_use", call |-> f.call])>>)
    BY <1>3, <1>4 DEF Say
  <2> QED
    BY <2>1 DEF ToolCall
<1>6. CASE f.args
  <2>1. b = e
    BY <1>2, <1>5, <1>6
  <2>2. OpenHeading(m).kind = h.kind /\ OpenHeading(m).call = h.call
    BY <1>2, <1>3
  <2>3. /\ e \in Adapter /\ Grown(S, m0, e, Added(m.blocks, p), OpenHeading(m))
        /\ e.state = a.state /\ e.counted = a.counted
        /\ e.tool = a.tool /\ e.calls = a.calls
    BY <1>2, <1>4, <2>2, BlockGoesOn
  <2> QED
    BY <1>1, <1>2, <1>6, <2>1, <2>3
<1>7. CASE ~f.args
  <2>1. b = a
    BY <1>5, <1>7
  <2>2. Grown(S, m0, a, m.blocks, OpenHeading(m))
    BY <1>0, <1>2, Zenon DEF Grown
  <2> QED
    BY <1>0, <1>1, <1>2, <1>7, <2>1, <2>2
<1> QED
  BY <1>6, <1>7 DEF Fragment

\* The fragment is not behind the topic, and is the first of its call or not.
Suits(f, first, o, w, topic) ==
    /\ o = TRUE => topic <= 2 + f.call
    /\ o = TRUE => (first <=> f.call \notin {w.calls[k].call : k \in DOMAIN w.calls})

\* A fragment of a call.
LEMMA ToolCallFollows ==
    ASSUME NEW S, Roomy(S), NEW m0, NEW o, NEW w, NEW topic, NEW a, NEW counted,
           Stands(S, m0, o, w, topic, a, counted),
           NEW f \in Fragment, NEW first \in BOOLEAN, Suits(f, first, o, w, topic),
           NEW b, b = ToolCall(a, f, first),
           NEW v, v = WithCalls(w, Fragmented(w.calls, f)), NEW last, last = 2 + f.call
    PROVE  Stands(S, m0, o, v, last, b, counted)
<1> /\ a \in Adapter /\ a.state # "CLOSED" /\ a.counted = counted
    /\ w \in Completion /\ topic \in Nat /\ Follows(S, m0, o, w, topic, a)
  BY DEF Stands
<1> f.call \in Nat
  BY StreamAssumption DEF Fragment
<1> last \in Nat
  OBVIOUS
<1> SUFFICES /\ b \in Adapter /\ b.state # "CLOSED" /\ b.counted = a.counted
             /\ v \in Completion /\ Follows(S, m0, o, v, last, b)
  BY DEF Stands
<1> /\ o = TRUE => topic <= 2 + f.call
    /\ o = TRUE => (first <=> f.call \notin {w.calls[k].call : k \in DOMAIN w.calls})
  BY DEF Suits
<1>1. PICK m \in Message : Leads(S, m0, a.out, m) /\ Synced(a, m) /\ (o = TRUE => Told(a, m, w, topic))
  BY DEF Follows
<1>2. Ready(S, m0, a, m)
  BY <1>1 DEF Ready
<1>3. f.call \in CallIndex /\ f.call \in Nat
  BY StreamAssumption DEF Fragment
<1>4. v \in Completion
  <2>1. PICK all : all = Fragmented(w.calls, f)
    OBVIOUS
  <2>2. all \in Seq(CallSaid)
    BY <2>1, FragmentedTyped DEF Completion
  <2> QED
    BY <2>1, <2>2 DEF WithCalls, Completion
<1>5. o = TRUE =>
         /\ m.blocks = translateResponse(w)
         /\ topic < 2 => w.calls = <<>> /\ a.state # "IN_TOOL_USE"
         /\ topic >= 2 =>
              /\ a.state = "IN_TOOL_USE" /\ a.tool = topic - 2
              /\ \E before \in Seq(CallSaid), x \in CallSaid :
                    /\ w.calls = Append(before, x) /\ x.call = a.tool
                    /\ \A j \in DOMAIN before : before[j].call < a.tool
  <2>1. topic < 2 <=> topic = 0 \/ topic = 1
    OBVIOUS
  <2>2. ASSUME o = TRUE, topic = 0 \/ topic = 1 PROVE w.calls = <<>> /\ a.state # "IN_TOOL_USE"
    BY <1>1, <2>2 DEF Told, Completion
  <2> QED
    BY <1>1, <2>1, <2>2 DEF Told
<1>6. ASSUME b \in Adapter, b.state = "IN_TOOL_USE", b.counted = a.counted,
             b.tool = f.call, f.call \in b.calls,
             NEW blocks, NEW h, Grown(S, m0, b, blocks, h), h.kind = "tool_use", h.call = f.call,
             o = TRUE => blocks = translateResponse(v),
             o = TRUE => \E before \in Seq(CallSaid), x \in CallSaid :
                            v.calls = Append(before, x) /\ x.call = f.call /\ Highest(f, before)
      PROVE  /\ b \in Adapter /\ b.state # "CLOSED" /\ b.counted = a.counted
             /\ Follows(S, m0, o, v, last, b)
  <2>1. PICK n \in Message : Leads(S, m0, b.out, n) /\ n.blocks = blocks /\ InStep(b, n) /\ OpenHeading(n) = h
    BY <1>6 DEF Grown
  <2>2. Synced(b, n)
    BY <1>6, <2>1 DEF Synced, Under, Speaking
  <2>3. last # 0 /\ last # 1 /\ last - 2 = f.call
    BY <1>3
  <2>4. o = TRUE => Told(b, n, v, last)
    BY <1>6, <2>1, <2>3 DEF Told, Highest
  <2>5. b.state # "CLOSED"
    BY <1>6
  <2> QED
    BY <1>6, <2>1, <2>2, <2>4, <2>5, Zenon DEF Follows
<1>7. PICK calls : calls = w.calls
  OBVIOUS
<1>8. calls \in Seq(CallSaid)
  BY <1>7 DEF Completion
<1>9. PICK g \in Heading : g = Named(f.call)
  BY <1>3, HeadingsTyped DEF Named
<1>10. PICK front : front = translateResponse(w)
  OBVIOUS
<1>11. v = WithCalls(w, Fragmented(calls, f))
  BY <1>7
<1>12. CASE OpensCall(a, f)
  <2>1. PICK h, p : h = Call(f.call, first) /\ p = PieceOf(h)
    OBVIOUS
  <2>2. /\ b \in Adapter /\ b.state = "IN_TOOL_USE" /\ b.counted = a.counted
        /\ b.tool = f.call /\ f.call \in b.calls
        /\ f.args => Grown(S, m0, b, Added(Opened(m.blocks, h), p), h)
        /\ ~f.args => Grown(S, m0, b, Opened(m.blocks, h), h)
    BY <1>2, <1>12, <2>1, CallOpened
  <2>3. h.kind = "tool_use" /\ h.call = f.call
    BY <2>1 DEF Call
  <2>4. ASSUME o = TRUE PROVE Highest(f, calls)
    <3>1. CASE topic < 2
      BY <1>5, <1>7, <2>4, <3>1 DEF Highest
    <3>2. CASE topic >= 2
      <4>1. PICK before \in Seq(CallSaid), x \in CallSaid :
                    /\ calls = Append(before, x) /\ x.call = a.tool
                    /\ \A j \in DOMAIN before : before[j].call < a.tool
        BY <1>5, <1>7, <2>4, <3>2
      <4>2. a.tool < f.call /\ a.tool \in Nat
        <5>1. a.state = "IN_TOOL_USE" /\ a.tool = topic - 2
          BY <1>5, <2>4, <3>2
        <5>2. a.tool # f.call
          BY <1>12, <5>1 DEF OpensCall
        <5> QED
          BY <1>3, <2>4, <3>2, <5>1, <5>2
      <4>3. ASSUME NEW k \in DOMAIN calls PROVE calls[k].call < f.call
        <5>1. CASE k = Len(before) + 1
          BY <4>1, <4>2, <5>1
        <5>2. CASE k # Len(before) + 1
          <6>1. k \in 1..Len(before) /\ calls[k] = before[k]
            BY <4>1, <5>2
          <6>2. before[k].call \in Nat
            <7>1. before[k] \in CallSaid
              BY <6>1
            <7> QED
              BY <7>1, StreamAssumption DEF CallSaid
          <6> QED
            BY <1>3, <4>1, <4>2, <6>1, <6>2
        <5> QED
          BY <5>1, <5>2
      <4> QED
        BY <4>3 DEF Highest
    <3> QED
      BY <3>1, <3>2
  <2>5. ASSUME o = TRUE PROVE h = g
    <3>1. f.call \notin {calls[k].call : k \in DOMAIN calls}
      BY <1>3, <2>4, <2>5 DEF Highest
    <3>2. first = TRUE
      BY <1>7, <2>5, <3>1
    <3> QED
      BY <1>9, <2>1, <3>2 DEF Named
  <2>6. ASSUME o = TRUE
        PROVE  /\ f.args => translateResponse(v) = Added(Opened(front, h), p)
               /\ ~f.args => translateResponse(v) = Opened(front, h)
               /\ \E x \in CallSaid : v.calls = Append(calls, x) /\ x.call = f.call
    <3>1. PICK q : q = PieceOf(g)
      OBVIOUS
    <3>2. /\ f.args => translateResponse(v) = Added(Opened(front, g), q)
          /\ ~f.args => translateResponse(v) = Opened(front, g)
          /\ \E x \in CallSaid : v.calls = Append(calls, x) /\ x.call = f.call
      BY <1>7, <1>8, <1>9, <1>10, <1>11, <2>4, <2>6, <3>1, ToldOfNewCall
    <3> QED
      BY <2>1, <2>5, <2>6, <3>1, <3>2
  <2>7. PICK blocks : blocks = IF f.args THEN Added(Opened(m.blocks, h), p) ELSE Opened(m.blocks, h)
    OBVIOUS
  <2>8. Grown(S, m0, b, blocks, h)
    BY <2>2, <2>7
  <2>9. o = TRUE => blocks = translateResponse(v)
    BY <1>5, <1>10, <2>6, <2>7
  <2>10. o = TRUE => \E before \in Seq(CallSaid), x \in CallSaid :
                            v.calls = Append(before, x) /\ x.call = f.call /\ Highest(f, before)
    BY <1>8, <2>4, <2>6
  <2> QED
    BY <1>4, <1>6, <2>2, <2>3, <2>8, <2>9, <2>10
<1>13. CASE ~OpensCall(a, f)
  <2>1. PICK p : p = PieceOf(g)
    OBVIOUS
  <2>2. /\ a.state = "IN_TOOL_USE" /\ a.tool = f.call
        /\ b \in Adapter /\ b.state = "IN_TOOL_USE" /\ b.counted = a.counted
        /\ b.tool = f.call /\ f.call \in b.calls
        /\ f.args => Grown(S, m0, b, Added(m.blocks, p), OpenHeading(m))
        /\ ~f.args => Grown(S, m0, b, m.blocks, OpenHeading(m))
        /\ OpenHeading(m).kind = "tool_use" /\ OpenHeading(m).call = f.call
    BY <1>2, <1>9, <1>13, <2>1, CallGoesOn
  <2>3. PICK blocks, h : /\ blocks = IF f.args THEN Added(m.blocks, p) ELSE m.blocks
                         /\ h = OpenHeading(m)
    OBVIOUS
  <2>4. Grown(S, m0, b, blocks, h) /\ h.kind = "tool_use" /\ h.call = f.call
    BY <2>2, <2>3
  <2>5. ASSUME o = TRUE
        PROVE  \E before \in Seq(CallSaid), x \in CallSaid :
                  calls = Append(before, x) /\ x.call = f.call /\ Highest(f, before)
    <3>1. topic >= 2
      BY <1>5, <2>2, <2>5
    <3> QED
      BY <1>5, <1>7, <2>2, <2>5, <3>1 DEF Highest
  <2>6. ASSUME o = TRUE
        PROVE  /\ blocks = translateResponse(v)
               /\ \E before \in Seq(CallSaid), x \in CallSaid :
                     v.calls = Append(before, x) /\ x.call = f.call /\ Highest(f, before)
    <3>1. PICK before \in Seq(CallSaid), x \in CallSaid :
                  calls = Append(before, x) /\ x.call = f.call /\ Highest(f, before)
      BY <2>5, <2>6
    <3>2. /\ f.args => translateResponse(v) = Added(front, p)
          /\ ~f.args => translateResponse(v) = front
          /\ \E y \in CallSaid : v.calls = Append(before, y) /\ y.call = f.call
      <4>1. IsLast(f, calls, before, x)
        BY <3>1 DEF IsLast
      <4> QED
        BY <1>7, <1>9, <1>10, <1>11, <2>1, <4>1, ToldOfLastCall
    <3>3. blocks = translateResponse(v)
      BY <1>5, <1>10, <2>3, <2>6, <3>2
    <3> QED
      BY <3>1, <3>2, <3>3
  <2> QED
    BY <1>4, <1>6, <2>2, <2>4, <2>6
<1> QED
  BY <1>12, <1>13

-----------------------------------------------------------------------------
(* A chunk                                                                  *)

\* What a chunk adds to a completion, and the last topic it speaks of.
HeardAs(w, c) ==
    [reasoning |-> w.reasoning + (IF c.reasoning THEN 1 ELSE 0),
     text      |-> w.text + (IF c.text THEN 1 ELSE 0),
     calls     |-> IF c.fragment = NoFragment THEN w.calls ELSE Fragmented(w.calls, c.fragment)]

LastTopic(c, topic) ==
    IF c.fragment # NoFragment THEN 2 + c.fragment.call
    ELSE IF c.text THEN 1 ELSE IF c.reasoning THEN 0 ELSE topic

\* A chunk keeps to the order when its pieces do, one after the other.
InOrder(c, topic) ==
    /\ c.reasoning => topic = 0
    /\ c.text => topic <= 1
    /\ c.fragment # NoFragment => topic <= 2 + c.fragment.call

LEMMA ChunkTyped ==
    ASSUME NEW c \in Chunk
    PROVE  /\ c.reasoning \in BOOLEAN /\ c.text \in BOOLEAN /\ c.finish \in BOOLEAN /\ c.usage \in BOOLEAN
           /\ c.fragment # NoFragment => c.fragment \in Fragment /\ c.fragment.call \in Nat
           /\ c.fragment = NoFragment \/ c.fragment # NoFragment
BY StreamAssumption DEF Chunk, Fragment

LEMMA TopicsOrdered ==
    ASSUME NEW c \in Chunk, NEW t \in Nat, t = upstream.topic, NEW s, s = Topics(c)
    PROVE  /\ StaysInOrder(c) => InOrder(c, t)
           /\ (IF s = <<>> THEN t ELSE Last(s)) = LastTopic(c, t)
           /\ s = <<>> => ~c.reasoning /\ ~c.text /\ c.fragment = NoFragment /\ StaysInOrder(c)
<1>3. PICK topics : topics = <<t>> \o s
  OBVIOUS
<1>4. StaysInOrder(c) <=> \A j \in 1..(Len(topics) - 1) : topics[j] <= topics[j + 1]
  BY <1>3 DEF StaysInOrder
<1>5. PICK i : i = 2 + c.fragment.call
  OBVIOUS
<1>6. PICK x, y, z :
         /\ x = IF c.reasoning THEN <<0>> ELSE <<>>
         /\ y = IF c.text THEN <<1>> ELSE <<>>
         /\ z = IF c.fragment = NoFragment THEN <<>> ELSE <<i>>
  OBVIOUS
<1>7. c.fragment # NoFragment => i \in Nat /\ i >= 2
  BY <1>5, ChunkTyped
<1>8. s = x \o y \o z
  BY <1>5, <1>6 DEF Topics
<1>9. x \in Seq(Int) /\ y \in Seq(Int) /\ z \in Seq(Int)
  BY <1>6, <1>7
<1>10. s \in Seq(Int) /\ Len(topics) = Len(s) + 1 /\ topics[1] = t /\ \A k \in 1..Len(s) : topics[k + 1] = s[k]
  BY <1>3, <1>8, <1>9
<1>11. Last(s) = s[Len(s)] /\ (Len(s) > 0 => s # <<>>)
  <2>1. Last(s) = s[Len(s)]
    BY DEF Last
  <2> QED
    BY <1>10, <2>1
<1>12. CASE c.fragment = NoFragment
  <2>1. CASE c.reasoning /\ c.text
    <3>0. x = <<0>> /\ y = <<1>> /\ z = <<>>
      BY <1>6, <1>12, <2>1
    <3>1. Len(s) = 2 /\ s[1] = 0 /\ s[2] = 1
      BY <1>8, <1>9, <3>0
    <3>2. Len(topics) = 3 /\ topics[1] = t /\ topics[2] = 0 /\ topics[3] = 1
      BY <1>10, <3>1
    <3>3. LastTopic(c, t) = 1
      BY <1>12, <2>1 DEF LastTopic
    <3>4. s # <<>> /\ Last(s) = 1
      BY <1>11, <3>1
    <3>5. StaysInOrder(c) => InOrder(c, t)
      BY <1>4, <1>12, <2>1, <3>1, <3>2 DEF InOrder
    <3> QED
      BY <3>3, <3>4, <3>5
  <2>2. CASE c.reasoning /\ ~c.text
    <3>0. x = <<0>> /\ y = <<>> /\ z = <<>>
      BY <1>6, <1>12, <2>2
    <3>1. Len(s) = 1 /\ s[1] = 0
      BY <1>8, <1>9, <3>0
    <3>2. Len(topics) = 2 /\ topics[1] = t /\ topics[2] = 0
      BY <1>10, <3>1
    <3>3. LastTopic(c, t) = 0
      BY <1>12, <2>2 DEF LastTopic
    <3>4. s # <<>> /\ Last(s) = 0
      BY <1>11, <3>1
    <3>5. StaysInOrder(c) => InOrder(c, t)
      BY <1>4, <1>12, <2>2, <3>1, <3>2 DEF InOrder
    <3> QED
      BY <3>3, <3>4, <3>5
  <2>3. CASE ~c.reasoning /\ c.text
    <3>0. x = <<>> /\ y = <<1>> /\ z = <<>>
      BY <1>6, <1>12, <2>3
    <3>1. Len(s) = 1 /\ s[1] = 1
      BY <1>8, <1>9, <3>0
    <3>2. Len(topics) = 2 /\ topics[1] = t /\ topics[2] = 1
      BY <1>10, <3>1
    <3>3. LastTopic(c, t) = 1
      BY <1>12, <2>3 DEF LastTopic
    <3>4. s # <<>> /\ Last(s) = 1
      BY <1>11, <3>1
    <3>5. StaysInOrder(c) => InOrder(c, t)
      BY <1>4, <1>12, <2>3, <3>1, <3>2 DEF InOrder
    <3> QED
      BY <3>3, <3>4, <3>5
  <2>4. CASE ~c.reasoning /\ ~c.text
    <3>0. x = <<>> /\ y = <<>> /\ z = <<>>
      BY <1>6, <1>12, <2>4
    <3>1. Len(s) = 0
      BY <1>8, <1>9, <3>0
    <3>2. Len(topics) = 1 /\ topics[1] = t
      BY <1>10, <3>1
    <3>3. s = <<>> /\ LastTopic(c, t) = t
      BY <1>12, <2>4, <1>9, <3>1 DEF LastTopic
    <3>4. StaysInOrder(c) /\ InOrder(c, t)
      BY <1>4, <1>12, <2>4, <3>1, <3>2 DEF InOrder
    <3> QED
      BY <1>12, <2>4, <3>3, <3>4
  <2> QED
    BY <2>1, <2>2, <2>3, <2>4, ChunkTyped
<1>13. CASE c.fragment # NoFragment
  <2>1. CASE c.reasoning /\ c.text
    <3>0. x = <<0>> /\ y = <<1>> /\ z = <<i>>
      BY <1>6, <1>13, <2>1
    <3>1. Len(s) = 3 /\ s[1] = 0 /\ s[2] = 1 /\ s[3] = i
      BY <1>8, <1>9, <3>0
    <3>2. Len(topics) = 4 /\ topics[1] = t /\ topics[2] = 0 /\ topics[3] = 1 /\ topics[4] = i
      BY <1>10, <3>1
    <3>3. LastTopic(c, t) = i
      BY <1>5, <1>7, <1>13, <2>1 DEF LastTopic
    <3>4. s # <<>> /\ Last(s) = i
      BY <1>11, <3>1
    <3>5. StaysInOrder(c) => InOrder(c, t)
      BY <1>4, <1>5, <1>7, <1>13, <2>1, <3>1, <3>2 DEF InOrder
    <3> QED
      BY <3>3, <3>4, <3>5
  <2>2. CASE c.reasoning /\ ~c.text
    <3>0. x = <<0>> /\ y = <<>> /\ z = <<i>>
      BY <1>6, <1>13, <2>2
    <3>1. Len(s) = 2 /\ s[1] = 0 /\ s[2] = i
      BY <1>8, <1>9, <3>0
    <3>2. Len(topics) = 3 /\ topics[1] = t /\ topics[2] = 0 /\ topics[3] = i
      BY <1>10, <3>1
    <3>3. LastTopic(c, t) = i
      BY <1>5, <1>7, <1>13, <2>2 DEF LastTopic
    <3>4. s # <<>> /\ Last(s) = i
      BY <1>11, <3>1
    <3>5. StaysInOrder(c) => InOrder(c, t)
      BY <1>4, <1>5, <1>7, <1>13, <2>2, <3>1, <3>2 DEF InOrder
    <3> QED
      BY <3>3, <3>4, <3>5
  <2>3. CASE ~c.reasoning /\ c.text
    <3>0. x = <<>> /\ y = <<1>> /\ z = <<i>>
      BY <1>6, <1>13, <2>3
    <3>1. Len(s) = 2 /\ s[1] = 1 /\ s[2] = i
      BY <1>8, <1>9, <3>0
    <3>2. Len(topics) = 3 /\ topics[1] = t /\ topics[2] = 1 /\ topics[3] = i
      BY <1>10, <3>1
    <3>3. LastTopic(c, t) = i
      BY <1>5, <1>7, <1>13, <2>3 DEF LastTopic
    <3>4. s # <<>> /\ Last(s) = i
      BY <1>11, <3>1
    <3>5. StaysInOrder(c) => InOrder(c, t)
      BY <1>4, <1>5, <1>7, <1>13, <2>3, <3>1, <3>2 DEF InOrder
    <3> QED
      BY <3>3, <3>4, <3>5
  <2>4. CASE ~c.reasoning /\ ~c.text
    <3>0. x = <<>> /\ y = <<>> /\ z = <<i>>
      BY <1>6, <1>13, <2>4
    <3>1. Len(s) = 1 /\ s[1] = i
      BY <1>8, <1>9, <3>0
    <3>2. Len(topics) = 2 /\ topics[1] = t /\ topics[2] = i
      BY <1>10, <3>1
    <3>3. LastTopic(c, t) = i
      BY <1>5, <1>7, <1>13, <2>4 DEF LastTopic
    <3>4. s # <<>> /\ Last(s) = i
      BY <1>11, <3>1
    <3>5. StaysInOrder(c) => InOrder(c, t)
      BY <1>4, <1>5, <1>7, <1>13, <2>4, <3>1, <3>2 DEF InOrder
    <3> QED
      BY <3>3, <3>4, <3>5
  <2> QED
    BY <2>1, <2>2, <2>3, <2>4, ChunkTyped
<1> QED
  BY <1>12, <1>13

LEMMA HeardIs ==
    ASSUME NEW c \in Chunk, said \in Completion
    PROVE  /\ Heard(c) = HeardAs(said, c)
           /\ Begun = {said.calls[k].call : k \in DOMAIN said.calls}
<1>1. PICK calls \in Seq(CallSaid) : calls = said.calls
  BY DEF Completion
<1>2. CASE c.fragment = NoFragment
  <2>1. c.fragment.args = FALSE
    BY <1>2 DEF NoFragment
  <2>2. [k \in DOMAIN calls |->
                IF calls[k].call = c.fragment.call /\ c.fragment.args
                THEN [calls[k] EXCEPT !.args = @ + 1] ELSE calls[k]] = calls
    <3>1. calls = [k \in DOMAIN calls |-> calls[k]]
      OBVIOUS
    <3> QED
      BY <2>1, <3>1
  <2> QED
    BY <1>1, <1>2, <2>2 DEF Heard, HeardAs, Begun
<1>3. CASE c.fragment # NoFragment
  BY <1>1, <1>3 DEF Heard, HeardAs, Begun, Fragmented, Heeded
<1> QED
  BY <1>2, <1>3

\* What processChunk does before it looks at the finish reason.
Attend(a, c, first) ==
    LET usage == [a EXCEPT !.counted = @ \/ c.usage]
        thought == IF c.reasoning THEN Reasoning(usage) ELSE usage
        spoken  == IF c.text THEN TextPiece(thought) ELSE thought
    IN  IF c.fragment # NoFragment THEN ToolCall(spoken, c.fragment, first) ELSE spoken

\* Counting tokens changes nothing else.
LEMMA CountStands ==
    ASSUME NEW S, NEW m0, NEW o, NEW w, NEW topic, NEW a, NEW counted \in BOOLEAN,
           Stands(S, m0, o, w, topic, a, counted), NEW now \in BOOLEAN,
           NEW b, b = [a EXCEPT !.counted = now]
    PROVE  Stands(S, m0, o, w, topic, b, now)
<1>1. /\ a \in Adapter /\ a.state # "CLOSED" /\ w \in Completion /\ topic \in Nat
      /\ Follows(S, m0, o, w, topic, a)
  BY DEF Stands
<1>2. /\ b \in Adapter /\ b.counted = now
      /\ b.state = a.state /\ b.index = a.index /\ b.tool = a.tool /\ b.calls = a.calls /\ b.out = a.out
  BY <1>1 DEF Adapter
<1>3. PICK m \in Message : Leads(S, m0, a.out, m) /\ Synced(a, m) /\ (o = TRUE => Told(a, m, w, topic))
  BY <1>1 DEF Follows
<1>4. Synced(b, m)
  BY <1>2, <1>3 DEF Synced, InStep, Under
<1>5. o = TRUE => Told(b, m, w, topic)
  BY <1>2, <1>3 DEF Told
<1>6. Leads(S, m0, b.out, m)
  BY <1>2, <1>3
<1> QED
  BY <1>1, <1>2, <1>3, <1>4, <1>5, <1>6 DEF Stands, Follows

\* What a chunk is next to what was said and counted before it: it keeps to the
\* order or the order is lost, and its fragment is the first of a call or not.
Heeds(o, w, topic, counted, c, first, now) ==
    /\ counted \in BOOLEAN /\ now \in BOOLEAN /\ now = (counted \/ c.usage)
    /\ o = TRUE => InOrder(c, topic)
    /\ first \in BOOLEAN /\ first = (c.fragment.call \notin {w.calls[k].call : k \in DOMAIN w.calls})

\* The adapter hears a chunk, in the order of processChunk.
LEMMA AttendStands ==
    ASSUME NEW S, Roomy(S), NEW m0, NEW o, NEW w, NEW topic, NEW a, NEW counted,
           Stands(S, m0, o, w, topic, a, counted),
           NEW c \in Chunk, NEW first, NEW now, Heeds(o, w, topic, counted, c, first, now),
           NEW b, b = Attend(a, c, first), NEW v, v = HeardAs(w, c),
           NEW last, last = LastTopic(c, topic)
    PROVE  Stands(S, m0, o, v, last, b, now)
<1> /\ counted \in BOOLEAN /\ now \in BOOLEAN /\ now = (counted \/ c.usage) /\ first \in BOOLEAN
    /\ o = TRUE => InOrder(c, topic)
    /\ first = (c.fragment.call \notin {w.calls[k].call : k \in DOMAIN w.calls})
  BY DEF Heeds
<1>0. w \in Completion /\ topic \in Nat /\ a.counted = counted
  BY DEF Stands
<1>1. PICK a1 : a1 = [a EXCEPT !.counted = now]
  OBVIOUS
<1>2. Stands(S, m0, o, w, topic, a1, now)
  BY <1>1, CountStands
<1>3. PICK a2, w2, t2 :
         /\ a2 = IF c.reasoning THEN Reasoning(a1) ELSE a1
         /\ w2 = IF c.reasoning THEN MoreThoughts(w) ELSE w
         /\ t2 = IF c.reasoning THEN 0 ELSE topic
  OBVIOUS
<1>4. Stands(S, m0, o, w2, t2, a2, now)
  <2>1. CASE c.reasoning
    <3>1. a2 = Reasoning(a1) /\ w2 = MoreThoughts(w) /\ t2 = 0
      BY <1>3, <2>1
    <3>2. o = TRUE => topic = 0
      BY <2>1 DEF InOrder
    <3> QED
      BY <1>2, <3>1, <3>2, ReasoningFollows
  <2>2. CASE ~c.reasoning
    <3>1. a2 = a1 /\ w2 = w /\ t2 = topic
      BY <1>3, <2>2
    <3> QED
      BY <1>2, <3>1
  <2> QED
    BY <2>1, <2>2
<1>5. PICK a3, w3, t3 :
         /\ a3 = IF c.text THEN TextPiece(a2) ELSE a2
         /\ w3 = IF c.text THEN MoreWords(w2) ELSE w2
         /\ t3 = IF c.text THEN 1 ELSE t2
  OBVIOUS
<1>6. Stands(S, m0, o, w3, t3, a3, now)
  <2>1. CASE c.text
    <3>1. a3 = TextPiece(a2) /\ w3 = MoreWords(w2) /\ t3 = 1
      BY <1>5, <2>1
    <3>2. o = TRUE => t2 <= 1
      BY <1>0, <1>3, <2>1 DEF InOrder
    <3> QED
      BY <1>4, <3>1, <3>2, TextFollows
  <2>2. CASE ~c.text
    <3>1. a3 = a2 /\ w3 = w2 /\ t3 = t2
      BY <1>5, <2>2
    <3> QED
      BY <1>4, <3>1
  <2> QED
    BY <2>1, <2>2
<1>7. w3 = [reasoning |-> w.reasoning + (IF c.reasoning THEN 1 ELSE 0),
            text      |-> w.text + (IF c.text THEN 1 ELSE 0), calls |-> w.calls]
  <2>1. w2 = [reasoning |-> w.reasoning + (IF c.reasoning THEN 1 ELSE 0), text |-> w.text, calls |-> w.calls]
    <3>1. CASE c.reasoning
      BY <1>0, <1>3, <3>1 DEF MoreThoughts, Completion
    <3>2. CASE ~c.reasoning
      BY <1>0, <1>3, <3>2 DEF Completion
    <3> QED
      BY <3>1, <3>2
  <2>2. CASE c.text
    BY <1>5, <2>1, <2>2 DEF MoreWords
  <2>3. CASE ~c.text
    BY <1>0, <1>5, <2>1, <2>3 DEF Completion
  <2> QED
    BY <2>2, <2>3
<1>8. CASE c.fragment # NoFragment
  <2>1. PICK f \in Fragment : f = c.fragment
    BY <1>8, ChunkTyped
  <2>2. /\ b = ToolCall(a3, f, first) /\ v = WithCalls(w3, Fragmented(w3.calls, f))
        /\ last = 2 + f.call /\ f.call \in Nat
    <3>1. b = ToolCall(a3, f, first)
      <4>1. a1 = [a EXCEPT !.counted = @ \/ c.usage]
        BY <1>0, <1>1
      <4> QED
        BY <1>3, <1>5, <1>8, <2>1, <4>1 DEF Attend
    <3>2. v = WithCalls(w3, Fragmented(w3.calls, f))
      <4>1. PICK calls : calls = Fragmented(w.calls, f)
        OBVIOUS
      <4>2. v = [w3 EXCEPT !.calls = calls]
        BY <1>7, <1>8, <2>1, <4>1 DEF HeardAs
      <4> QED
        BY <1>7, <4>1, <4>2 DEF WithCalls
    <3>3. last = 2 + f.call /\ f.call \in Nat
      BY <1>8, <2>1, ChunkTyped DEF LastTopic
    <3> QED
      BY <3>1, <3>2, <3>3
  <2>3. o = TRUE => t3 <= 2 + f.call
    <3>1. t3 = 0 \/ t3 = 1 \/ t3 = topic
      <4>1. t2 = 0 \/ t2 = topic
        BY <1>3
      <4>2. t3 = 1 \/ t3 = t2
        BY <1>5
      <4> QED
        BY <4>1, <4>2
    <3>2. o = TRUE => topic <= 2 + f.call
      BY <1>8, <2>1 DEF InOrder
    <3>3. f.call \in Nat /\ topic \in Nat
      BY <1>0, <2>2
    <3> QED
      BY <3>1, <3>2, <3>3
  <2>4. o = TRUE => (first <=> f.call \notin {w3.calls[k].call : k \in DOMAIN w3.calls})
    BY <1>7, <2>1
  <2>5. Suits(f, first, o, w3, t3)
    BY <2>3, <2>4 DEF Suits
  <2> QED
    BY <1>6, <2>1, <2>2, <2>5, ToolCallFollows
<1>9. CASE c.fragment = NoFragment
  <2>1. b = a3
    <3>1. a1 = [a EXCEPT !.counted = @ \/ c.usage]
      BY <1>0, <1>1
    <3> QED
      BY <1>3, <1>5, <1>9, <3>1 DEF Attend
  <2>2. v = w3
    BY <1>7, <1>9 DEF HeardAs
  <2>3. last = t3
    BY <1>3, <1>5, <1>9 DEF LastTopic
  <2> QED
    BY <1>6, <2>1, <2>2, <2>3
<1> QED
  BY <1>8, <1>9

-----------------------------------------------------------------------------
(* What the adapter and its client agree on                                 *)

\* The messages SameAsWhole allows when w is said and these tokens are counted.
Agreed(o, w, counted) ==
    {m \in Message : m.phase = "done" =>
        (o = TRUE => m.blocks = translateResponse(w)) /\ m.counted = counted}

\* Once it has read the queue the client has a message they agree on; while the
\* upstream speaks it is the one the adapter has in mind.
InTouch(a, events, m, phase, o, topic, counted, w) ==
    \E n \in Message :
        /\ Leads(Agreed(o, w, counted), m, events, n)
        /\ phase = "ended" => n.phase \in {"done", "failed"}
        /\ phase # "ended" =>
              /\ Synced(a, n)
              /\ a.state # "CLOSED" => a.counted = counted /\ (o = TRUE => Told(a, n, w, topic))

LEMMA AgreedRoomy ==
    ASSUME NEW o, NEW w, NEW counted
    PROVE  Roomy(Agreed(o, w, counted))
BY DEF Roomy, Agreed

\* What happens to the adapter happens to no message.
LEMMA InTouchEmptied ==
    ASSUME NEW a \in Adapter, NEW events, NEW m, NEW phase, NEW o, NEW topic, NEW counted, NEW w,
           InTouch(a, events, m, phase, o, topic, counted, w),
           NEW b, b = [a EXCEPT !.out = <<>>]
    PROVE  /\ b \in Adapter /\ b.out = <<>> /\ b.state = a.state
           /\ InTouch(b, events, m, phase, o, topic, counted, w)
<1>1. /\ b \in Adapter /\ b.out = <<>> /\ b.counted = a.counted
      /\ b.state = a.state /\ b.index = a.index /\ b.tool = a.tool /\ b.calls = a.calls
  <2>1. PICK none \in Seq(Event) : none = <<>>
    BY <<>> \in Seq(Event)
  <2>2. b = [a EXCEPT !.out = none]
    BY <2>1
  <2> QED
    BY <2>1, <2>2 DEF Adapter
<1>2. PICK n \in Message :
         /\ Leads(Agreed(o, w, counted), m, events, n)
         /\ phase = "ended" => n.phase \in {"done", "failed"}
         /\ phase # "ended" =>
               /\ Synced(a, n)
               /\ a.state # "CLOSED" => a.counted = counted /\ (o = TRUE => Told(a, n, w, topic))
  BY DEF InTouch
<1>3. Synced(a, n) => Synced(b, n)
  BY <1>1 DEF Synced, InStep, Under
<1>4. Told(a, n, w, topic) => Told(b, n, w, topic)
  BY <1>1 DEF Told
<1>5. phase # "ended" =>
         /\ Synced(b, n)
         /\ b.state # "CLOSED" => b.counted = counted /\ (o = TRUE => Told(b, n, w, topic))
  BY <1>1, <1>2, <1>3, <1>4
<1> QED
  BY <1>1, <1>2, <1>5 DEF InTouch

\* An open adapter whose message the client has.
Met(o, w, topic, a, counted, m) ==
    /\ a \in Adapter /\ a.out = <<>> /\ a.state # "CLOSED" /\ a.counted = counted
    /\ w \in Completion /\ topic \in Nat /\ m \in Message
    /\ Synced(a, m) /\ (o = TRUE => Told(a, m, w, topic))

LEMMA MetStands ==
    ASSUME NEW S, Roomy(S), NEW o, NEW w, NEW topic, NEW a, NEW counted, NEW m,
           Met(o, w, topic, a, counted, m)
    PROVE  Stands(S, m, o, w, topic, a, counted)
<1>1. /\ a \in Adapter /\ a.out = <<>> /\ a.state # "CLOSED" /\ a.counted = counted
      /\ w \in Completion /\ topic \in Nat /\ m \in Message
      /\ Synced(a, m) /\ (o = TRUE => Told(a, m, w, topic))
  BY DEF Met
<1>2. m.phase # "done"
  BY <1>1 DEF Synced, InStep, Adapter
<1>3. m \in S
  BY <1>1, <1>2 DEF Roomy
<1>4. Leads(S, m, a.out, m)
  BY <1>1, <1>3, LeadsNowhere
<1> QED
  BY <1>1, <1>4 DEF Stands, Follows

\* The client's message is done once it has read these events.
ToTheEnd(S, m0, events) == \E n \in Message : Leads(S, m0, events, n) /\ n.phase = "done"

\* Finish completes the message of the completion.
LEMMA FinishAgrees ==
    ASSUME NEW o, NEW w, NEW topic, NEW a, NEW counted, NEW m0,
           NEW S, S = Agreed(o, w, counted), Stands(S, m0, o, w, topic, a, counted),
           NEW b, b = Finish(a)
    PROVE  b \in Adapter /\ b.state = "CLOSED" /\ ToTheEnd(S, m0, b.out)
<1>1. a \in Adapter /\ a.state # "CLOSED" /\ a.counted = counted /\ Follows(S, m0, o, w, topic, a)
  BY DEF Stands
<1>2. PICK m \in Message : Leads(S, m0, a.out, m) /\ Synced(a, m) /\ (o = TRUE => Told(a, m, w, topic))
  BY <1>1 DEF Follows
<1>3. PICK n : n = Complete(m, a.counted)
  OBVIOUS
<1>4. n \in Message /\ n.phase = "done" /\ n.blocks = m.blocks /\ n.counted = counted
  <2>1. PICK k \in BOOLEAN : k = a.counted
    BY <1>1 DEF Adapter
  <2>2. n = [m EXCEPT !.phase = "done", !.counted = k]
    BY <1>3, <2>1 DEF Complete
  <2>3. n \in Message /\ n.phase = "done" /\ n.blocks = m.blocks /\ n.counted = k
    BY <2>2 DEF Message, Phases
  <2> QED
    BY <1>1, <2>1, <2>3
<1>5. o = TRUE => m.blocks = translateResponse(w)
  BY <1>2 DEF Told
<1>6. n \in S
  BY <1>4, <1>5 DEF Agreed
<1>7. Roomy(S)
  BY AgreedRoomy
<1>8. /\ b \in Adapter /\ Leads(S, m0, b.out, n)
      /\ n \in Message /\ n.phase = "done" /\ b.state = "CLOSED"
  BY <1>1, <1>2, <1>3, <1>6, <1>7, MessageFinished, Z3
<1> QED
  BY <1>8 DEF ToTheEnd

\* An open adapter hears a chunk.
LEMMA ChunkHeard ==
    ASSUME NEW o, NEW w, NEW topic, NEW a, NEW counted, NEW m,
           Met(o, w, topic, a, counted, m),
           NEW c \in Chunk, NEW first, NEW now, Heeds(o, w, topic, counted, c, first, now),
           NEW b, b = Process(a, c, first), NEW v, v = HeardAs(w, c),
           NEW last, last = LastTopic(c, topic), NEW phase, phase # "ended"
    PROVE  /\ b \in Adapter /\ (b.state = "CLOSED" <=> c.finish)
           /\ v \in Completion /\ last \in Nat
           /\ InTouch(b, b.out, m, phase, o, last, now, v)
<1>1. PICK S : S = Agreed(o, v, now)
  OBVIOUS
<1>2. Roomy(S)
  BY <1>1, AgreedRoomy
<1>3. Stands(S, m, o, w, topic, a, counted)
  BY <1>2, MetStands
<1>4. PICK d : d = Attend(a, c, first)
  OBVIOUS
<1>5. Stands(S, m, o, v, last, d, now)
  BY <1>2, <1>3, <1>4, AttendStands
<1>6. b = IF c.finish THEN Finish(d) ELSE d
  BY <1>4 DEF Process, Attend
<1>7. v \in Completion /\ last \in Nat
  BY <1>5 DEF Stands
<1>8. CASE c.finish
  <2>1. b = Finish(d)
    BY <1>6, <1>8
  <2>2. b \in Adapter /\ b.state = "CLOSED" /\ ToTheEnd(S, m, b.out)
    BY <1>1, <1>5, <2>1, FinishAgrees
  <2>3. PICK n \in Message : Leads(S, m, b.out, n) /\ n.phase = "done"
    BY <2>2 DEF ToTheEnd
  <2>4. Synced(b, n)
    BY <2>2, <2>3 DEF Synced, Speaking
  <2> QED
    BY <1>1, <1>7, <1>8, <2>2, <2>3, <2>4 DEF InTouch
<1>9. CASE ~c.finish
  <2>1. b = d
    BY <1>6, <1>9
  <2>2. b \in Adapter /\ b.state # "CLOSED" /\ b.counted = now /\ Follows(S, m, o, v, last, b)
    BY <1>5, <2>1 DEF Stands
  <2>3. PICK n \in Message : Leads(S, m, b.out, n) /\ Synced(b, n) /\ (o = TRUE => Told(b, n, v, last))
    BY <2>2 DEF Follows
  <2> QED
    BY <1>1, <1>7, <1>9, <2>2, <2>3 DEF InTouch
<1> QED
  BY <1>8, <1>9

-----------------------------------------------------------------------------
(* The invariant                                                            *)

UpstreamState ==
    [phase : {"asked", "speaking", "finished", "ended"}, chunks : 0..MaxChunks, topic : Nat,
     ordered : BOOLEAN, inTime : BOOLEAN]

\* Variables in their ranges; the adapter closes with the finish reason.
StreamTyped ==
    /\ adapter \in Adapter /\ adapter.out = <<>>
    /\ queue \in Seq(Event) /\ message \in Message
    /\ DOMAIN request = {"reply", "turns"}
    /\ upstream \in UpstreamState /\ said \in Completion
    /\ upstream.phase = "finished" => adapter.state = "CLOSED"
    /\ upstream.phase \in {"asked", "speaking"} => adapter.state # "CLOSED"

StreamInTouch ==
    InTouch(adapter, queue, message, upstream.phase, upstream.ordered, upstream.topic,
            upstream.inTime, said)

StreamInv == StreamTyped /\ StreamInTouch

\* Nothing is queued: the client has the message the adapter has in mind.
LEMMA ClientHasIt ==
    ASSUME StreamInv, queue = <<>>, upstream.phase # "ended"
    PROVE  /\ message \in Agreed(upstream.ordered, said, upstream.inTime)
           /\ Synced(adapter, message)
           /\ adapter.state # "CLOSED" =>
                 /\ adapter.counted = upstream.inTime
                 /\ upstream.ordered = TRUE => Told(adapter, message, said, upstream.topic)
<1>1. PICK n \in Message :
         /\ Leads(Agreed(upstream.ordered, said, upstream.inTime), message, queue, n)
         /\ upstream.phase # "ended" =>
               /\ Synced(adapter, n)
               /\ adapter.state # "CLOSED" =>
                     /\ adapter.counted = upstream.inTime
                     /\ upstream.ordered = TRUE => Told(adapter, n, said, upstream.topic)
  BY DEF StreamInv, StreamInTouch, InTouch
<1>2. PICK S : S = Agreed(upstream.ordered, said, upstream.inTime)
  OBVIOUS
<1>3. Leads(S, message, queue, n)
  BY <1>1, <1>2
<1>4. n = message /\ n \in S
  BY <1>3, LeadsHere
<1> QED
  BY <1>1, <1>2, <1>4

LEMMA StreamInit ==
    ASSUME Init
    PROVE  StreamInv
<1>1. PICK a \in Adapter :
         a = [state |-> "WAITING", index |-> 0, tool |-> NoCall, calls |-> {},
              counted |-> FALSE, out |-> <<>>]
  <2>1. PICK none \in Seq(Event) : none = <<>>
    BY <<>> \in Seq(Event)
  <2> QED
    BY <2>1 DEF Adapter
<1>2. PICK m \in Message : m = [phase |-> "before", blocks |-> <<>>, counted |-> FALSE]
  <2>1. PICK none \in Seq(Good) : none = <<>>
    BY <<>> \in Seq(Good)
  <2> QED
    BY <2>1 DEF Message, Phases
<1>3. PICK w \in Completion : w = [reasoning |-> 0, text |-> 0, calls |-> <<>>]
  <2>1. PICK none \in Seq(CallSaid) : none = <<>>
    BY <<>> \in Seq(CallSaid)
  <2> QED
    BY <2>1 DEF Completion
<1>4. PICK u \in UpstreamState :
         u = [phase |-> "asked", chunks |-> 0, topic |-> 0, ordered |-> TRUE, inTime |-> FALSE]
  <2>1. PICK none \in 0..MaxChunks : none = 0
    BY StreamAssumption
  <2>2. [phase |-> "asked", chunks |-> none, topic |-> 0, ordered |-> TRUE, inTime |-> FALSE]
           \in UpstreamState
    BY DEF UpstreamState
  <2> QED
    BY <2>1, <2>2
<1>5. adapter = a /\ message = m /\ said = w /\ upstream = u /\ queue = <<>>
  BY <1>1, <1>2, <1>3, <1>4 DEF Init
<1>6. StreamTyped
  <2>1. a.out = <<>> /\ a.state = "WAITING" /\ u.phase = "asked"
    BY <1>1, <1>4
  <2>2. DOMAIN request = {"reply", "turns"}
    BY DEF Init
  <2>3. queue \in Seq(Event)
    BY <1>5
  <2> QED
    BY <1>5, <2>1, <2>2, <2>3 DEF StreamTyped
<1>7. Synced(a, m)
  BY <1>1, <1>2 DEF Synced, Speaking
<1>8. Told(a, m, w, 0)
  <2>1. translateResponse(w) = <<>>
    <3>1. w.reasoning = 0 /\ w.text = 0 /\ w.calls = <<>>
      BY <1>3
    <3>2. Thoughts(w.reasoning) = <<>> /\ Speech(w.text) = <<>> /\ CallBlocks(w.calls) = <<>>
      BY <3>1 DEF Thoughts, Speech, CallBlocks
    <3> QED
      BY <3>2, WholeIs
  <2> QED
    BY <1>1, <1>2, <1>3, <2>1 DEF Told
<1>9. InTouch(a, <<>>, m, "asked", TRUE, 0, FALSE, w)
  <2>1. PICK S : S = Agreed(TRUE, w, FALSE)
    OBVIOUS
  <2>2. m \in S
    BY <1>2, <2>1 DEF Agreed
  <2>3. Leads(S, m, <<>>, m)
    BY <2>2, LeadsNowhere
  <2> QED
    BY <1>1, <1>7, <1>8, <2>1, <2>3 DEF InTouch
<1>10. StreamInTouch
  <2>1. u.phase = "asked" /\ u.ordered = TRUE /\ u.topic = 0 /\ u.inTime = FALSE
    BY <1>4
  <2> QED
    BY <1>5, <1>9, <2>1 DEF StreamInTouch
<1> QED
  BY <1>6, <1>10 DEF StreamInv

\* The upstream speaks before it gives a finish reason.
LEMMA SpeakOpenInv ==
    ASSUME StreamInv, NEW c \in Chunk, Speak(c), upstream.phase \in {"asked", "speaking"}
    PROVE  StreamInv'
<1>1. /\ adapter \in Adapter /\ adapter.out = <<>> /\ message \in Message
      /\ DOMAIN request = {"reply", "turns"}
      /\ upstream \in UpstreamState /\ said \in Completion /\ adapter.state # "CLOSED"
  BY DEF StreamInv, StreamTyped
<1>2. PICK a, m, w, t, k, o :
         /\ a = adapter /\ m = message /\ w = said /\ t = upstream.topic /\ k = upstream.inTime
         /\ o = (upstream.ordered /\ StaysInOrder(c))
  OBVIOUS
<1>3. t \in Nat /\ k \in BOOLEAN
  BY <1>1, <1>2 DEF UpstreamState
<1>4. PICK first \in BOOLEAN : first = (c.fragment.call \notin {w.calls[j].call : j \in DOMAIN w.calls})
  OBVIOUS
<1>5. PICK b : b = Process(a, c, first)
  OBVIOUS
<1>6. PICK v, last, now, s : /\ v = HeardAs(w, c) /\ last = LastTopic(c, t)
                             /\ now = (k \/ c.usage) /\ s = Topics(c)
  OBVIOUS
<1>7. /\ queue = <<>> /\ queue' = b.out /\ adapter' = [b EXCEPT !.out = <<>>]
      /\ said' = v /\ message' = m /\ request' = request
  <2>1. first = (c.fragment.call \notin Begun)
    BY <1>1, <1>2, <1>4, HeardIs
  <2>2. Heard(c) = v
    BY <1>1, <1>2, <1>6, HeardIs
  <2> QED
    BY <1>2, <1>5, <2>1, <2>2 DEF Speak, Done
<1>8. /\ upstream.chunks < MaxChunks
      /\ upstream' = [phase |-> IF c.finish THEN "finished" ELSE "speaking",
                      chunks |-> upstream.chunks + 1,
                      topic |-> IF s = <<>> THEN t ELSE Last(s),
                      ordered |-> o, inTime |-> now]
  BY <1>2, <1>6 DEF Speak
<1>9. /\ StaysInOrder(c) => InOrder(c, t)
      /\ (IF s = <<>> THEN t ELSE Last(s)) = last
  BY <1>2, <1>3, <1>6, TopicsOrdered
<1>10. /\ upstream'.phase = (IF c.finish THEN "finished" ELSE "speaking")
       /\ upstream'.topic = last /\ upstream'.ordered = o /\ upstream'.inTime = now
  BY <1>8, <1>9
<1>11. o \in BOOLEAN /\ now \in BOOLEAN
  BY <1>1, <1>2, <1>3, <1>6
<1>12. Met(o, w, t, a, k, m)
  <2>1. /\ Synced(adapter, message)
        /\ adapter.counted = upstream.inTime
        /\ upstream.ordered = TRUE => Told(adapter, message, said, upstream.topic)
    BY <1>1, <1>7, ClientHasIt
  <2>2. Synced(a, m) /\ a.counted = k /\ (o = TRUE => Told(a, m, w, t))
    BY <1>2, <2>1
  <2> QED
    BY <1>1, <1>2, <1>3, <2>2 DEF Met
<1>13. o = TRUE => InOrder(c, t)
  BY <1>2, <1>9
<1>14. PICK phase : phase = IF c.finish THEN "finished" ELSE "speaking"
  OBVIOUS
<1>15. /\ b \in Adapter /\ (b.state = "CLOSED" <=> c.finish)
       /\ v \in Completion /\ last \in Nat
       /\ InTouch(b, b.out, m, phase, o, last, now, v)
  <2>1. Heeds(o, w, t, k, c, first, now)
    BY <1>3, <1>4, <1>6, <1>11, <1>13 DEF Heeds
  <2>2. phase # "ended"
    BY <1>14
  <2> QED
    BY ONLY <1>5, <1>6, <1>12, <2>1, <2>2, ChunkHeard
<1>16. PICK d : d = [b EXCEPT !.out = <<>>]
  OBVIOUS
<1>17. /\ d \in Adapter /\ d.out = <<>> /\ d.state = b.state
       /\ InTouch(d, b.out, m, phase, o, last, now, v)
  BY <1>15, <1>16, InTouchEmptied
<1>18. StreamTyped'
  <2>1. b.out \in Seq(Event)
    BY <1>15 DEF Adapter
  <2>2. upstream' \in UpstreamState
    <3>1. upstream.chunks + 1 \in 0..MaxChunks
      BY <1>1, <1>8, StreamAssumption DEF UpstreamState
    <3> QED
      BY <1>8, <1>9, <1>11, <1>15, <3>1 DEF UpstreamState
  <2>3. c.finish => d.state = "CLOSED"
    BY <1>15, <1>17
  <2>4. ~c.finish => d.state # "CLOSED"
    BY <1>15, <1>17
  <2> QED
    BY <1>1, <1>2, <1>7, <1>10, <1>15, <1>16, <1>17, <2>1, <2>2, <2>3, <2>4 DEF StreamTyped
<1>19. StreamInTouch'
  BY <1>7, <1>10, <1>14, <1>16, <1>17 DEF StreamInTouch
<1> QED
  BY <1>18, <1>19 DEF StreamInv

\* Usage behind the finish reason.
LEMMA SpeakClosedInv ==
    ASSUME StreamInv, NEW c \in Chunk, Speak(c), upstream.phase = "finished"
    PROVE  StreamInv'
<1>1. /\ adapter \in Adapter /\ adapter.out = <<>> /\ message \in Message
      /\ DOMAIN request = {"reply", "turns"}
      /\ upstream \in UpstreamState /\ said \in Completion /\ adapter.state = "CLOSED"
  BY DEF StreamInv, StreamTyped
<1>2. PICK t \in Nat : t = upstream.topic
  BY <1>1 DEF UpstreamState
<1>3. PICK s : s = Topics(c)
  OBVIOUS
<1>4. s = <<>> /\ ~c.finish
  BY <1>3 DEF Speak
<1>5. ~c.reasoning /\ ~c.text /\ c.fragment = NoFragment /\ StaysInOrder(c)
  BY <1>2, <1>3, <1>4, TopicsOrdered
<1>6. PICK now \in BOOLEAN : now = (adapter.counted \/ c.usage)
  OBVIOUS
<1>7. PICK b : b = [adapter EXCEPT !.counted = now]
  OBVIOUS
<1>8. /\ queue = <<>> /\ queue' = b.out /\ adapter' = [b EXCEPT !.out = <<>>]
      /\ message' = message /\ request' = request
  BY <1>4, <1>5, <1>6, <1>7 DEF Speak, Done, Process
<1>9. said' = said
  <2>1. PICK v : v = HeardAs(said, c)
    OBVIOUS
  <2>2. v = said
    BY <1>1, <1>5, <2>1 DEF HeardAs, Completion
  <2>3. Heard(c) = v
    BY <1>1, <2>1, HeardIs
  <2> QED
    BY <2>2, <2>3 DEF Speak
<1>10. /\ upstream'.phase = "finished" /\ upstream'.topic = upstream.topic
       /\ upstream'.ordered = upstream.ordered /\ upstream'.inTime = upstream.inTime
       /\ upstream' \in UpstreamState
  <2>1. upstream.chunks + 1 \in 0..MaxChunks
    BY <1>1, StreamAssumption DEF UpstreamState, Speak
  <2>2. upstream' = [upstream EXCEPT !.chunks = @ + 1]
    BY <1>1, <1>3, <1>4, <1>5 DEF UpstreamState, Speak
  <2> QED
    BY <1>1, <2>1, <2>2 DEF UpstreamState
<1>11. /\ adapter' \in Adapter /\ adapter'.out = <<>> /\ adapter'.state = "CLOSED"
       /\ queue' = <<>>
  BY <1>1, <1>7, <1>8 DEF Adapter
<1>12. StreamTyped'
  <2>1. queue' \in Seq(Event)
    BY <1>11
  <2> QED
    BY <1>1, <1>8, <1>9, <1>10, <1>11, <2>1 DEF StreamTyped
<1>13. StreamInTouch'
  <2>1. /\ message \in Agreed(upstream.ordered, said, upstream.inTime)
        /\ Synced(adapter, message)
    BY <1>8, ClientHasIt
  <2>2. Synced(adapter, message)'
    BY <1>1, <1>8, <1>11, <2>1 DEF Synced, Speaking
  <2>3. PICK S : S = Agreed(upstream.ordered, said, upstream.inTime)
    OBVIOUS
  <2>4. S = Agreed(upstream.ordered, said, upstream.inTime)'
    BY <1>9, <1>10, <2>3 DEF Agreed
  <2>5. Leads(S, message', queue', message')
    BY <1>8, <1>11, <2>1, <2>3, LeadsNowhere
  <2> QED
    BY <1>1, <1>8, <1>10, <1>11, <2>2, <2>4, <2>5 DEF StreamInTouch, InTouch
<1> QED
  BY <1>12, <1>13 DEF StreamInv

\* The source ends.
LEMMA SourceEndsInv ==
    ASSUME StreamInv, SourceEnds
    PROVE  StreamInv'
<1>1. StreamTyped /\ adapter \in Adapter /\ adapter.out = <<>> /\ message \in Message
      /\ upstream \in UpstreamState /\ said \in Completion
  BY DEF StreamInv, StreamTyped
<1>2. PICK a, m, w, t, k, o :
         /\ a = adapter /\ m = message /\ w = said /\ t = upstream.topic /\ k = upstream.inTime
         /\ o = upstream.ordered
  OBVIOUS
<1>3. PICK S : S = Agreed(o, w, k)
  OBVIOUS
<1>4. PICK b : b = Finish(a)
  OBVIOUS
<1>5. /\ queue = <<>> /\ queue' = b.out /\ adapter' = a /\ message' = m /\ said' = w
      /\ request' = request /\ upstream' = [upstream EXCEPT !.phase = "ended"]
      /\ upstream.phase # "ended"
  BY <1>2, <1>4 DEF SourceEnds, Done
<1>6. upstream' \in UpstreamState /\ upstream'.phase = "ended"
      /\ upstream'.ordered = o /\ upstream'.topic = t /\ upstream'.inTime = k
  BY <1>1, <1>2, <1>5 DEF UpstreamState
<1>7. /\ m \in S /\ Synced(a, m)
      /\ a.state # "CLOSED" => a.counted = k /\ (o = TRUE => Told(a, m, w, t))
  BY <1>2, <1>3, <1>5, ClientHasIt
<1>8. b \in Adapter /\ \E n \in Message : Leads(S, m, b.out, n) /\ n.phase = "done"
  <2>1. CASE a.state = "CLOSED"
    <3>1. b = a
      BY <1>4, <2>1 DEF Finish
    <3>2. Leads(S, m, b.out, m)
      BY <1>1, <1>2, <1>7, <3>1, LeadsNowhere
    <3>3. m.phase = "done"
      BY <1>7, <2>1 DEF Synced
    <3> QED
      BY <1>1, <1>2, <3>1, <3>2, <3>3
  <2>2. CASE a.state # "CLOSED"
    <3>1. t \in Nat
      BY <1>1, <1>2 DEF UpstreamState
    <3>2. Met(o, w, t, a, k, m)
      BY <1>1, <1>2, <1>7, <2>2, <3>1 DEF Met
    <3>3. Roomy(S)
      BY <1>3, AgreedRoomy
    <3>4. Stands(S, m, o, w, t, a, k)
      BY <3>2, <3>3, MetStands
    <3>5. b \in Adapter /\ ToTheEnd(S, m, b.out)
      BY <1>3, <1>4, <3>4, FinishAgrees
    <3> QED
      BY <3>5 DEF ToTheEnd
  <2> QED
    BY <2>1, <2>2
<1>9. StreamTyped'
  <2>1. b.out \in Seq(Event)
    BY <1>8 DEF Adapter
  <2> QED
    BY <1>1, <1>2, <1>5, <1>6, <2>1 DEF StreamTyped
<1>10. InTouch(a, b.out, m, "ended", o, t, k, w)
  BY <1>3, <1>8 DEF InTouch
<1>11. StreamInTouch'
  BY <1>5, <1>6, <1>10 DEF StreamInTouch
<1> QED
  BY <1>9, <1>11 DEF StreamInv

\* The source breaks: the client's message fails.
LEMMA SourceBreaksInv ==
    ASSUME StreamInv, SourceBreaks
    PROVE  StreamInv'
<1>1. StreamTyped /\ message \in Message /\ upstream \in UpstreamState
  BY DEF StreamInv, StreamTyped
<1>2. PICK a, m, w, t, k, o :
         /\ a = adapter /\ m = message /\ w = said /\ t = upstream.topic /\ k = upstream.inTime
         /\ o = upstream.ordered
  OBVIOUS
<1>3. PICK S : S = Agreed(o, w, k)
  OBVIOUS
<1>4. PICK e \in Event : e = Error
  BY EventsTyped
<1>5. /\ queue = <<>> /\ queue' = <<e>> /\ adapter' = a /\ message' = m /\ said' = w
      /\ request' = request /\ upstream' = [upstream EXCEPT !.phase = "ended"]
      /\ upstream.phase # "ended"
  BY <1>2, <1>4 DEF SourceBreaks, Done
<1>6. upstream' \in UpstreamState /\ upstream'.phase = "ended"
      /\ upstream'.ordered = o /\ upstream'.topic = t /\ upstream'.inTime = k
  BY <1>1, <1>2, <1>5 DEF UpstreamState
<1>7. m \in S
  BY <1>2, <1>3, <1>5, ClientHasIt
<1>8. PICK n : n = Read(m, e)
  OBVIOUS
<1>9. n \in Message /\ n.phase = "failed"
  <2>1. m \in Message
    BY <1>1, <1>2
  <2>2. n = [m EXCEPT !.phase = "failed"]
    BY <1>4, <1>8, <2>1, ReadError
  <2> QED
    BY <2>1, <2>2 DEF Message, Phases
<1>10. n \in S
  BY <1>3, <1>9, AgreedRoomy DEF Roomy
<1>11. PICK none \in Seq(Event) : none = <<>>
  BY <<>> \in Seq(Event)
<1>12. Leads(S, m, none, m)
  BY <1>7, <1>11, LeadsNowhere
<1>13. Leads(S, m, Append(none, e), n)
  BY <1>8, <1>10, <1>12, LeadsFurther
<1>14. Append(none, e) = <<e>> /\ <<e>> \in Seq(Event)
  BY <1>11
<1>15. StreamTyped'
  BY <1>1, <1>2, <1>5, <1>6, <1>14 DEF StreamTyped
<1>16. InTouch(a, <<e>>, m, "ended", o, t, k, w)
  BY <1>3, <1>9, <1>13, <1>14 DEF InTouch
<1>17. StreamInTouch'
  BY <1>5, <1>6, <1>16 DEF StreamInTouch
<1> QED
  BY <1>15, <1>17 DEF StreamInv

\* The client reads the next event.
LEMMA WriteInv ==
    ASSUME StreamInv, Write
    PROVE  StreamInv'
<1>1. StreamTyped /\ queue \in Seq(Event) /\ queue # <<>>
  BY DEF StreamInv, StreamTyped, Write
<1>2. PICK S : S = Agreed(upstream.ordered, said, upstream.inTime)
  OBVIOUS
<1>3. PICK n \in Message :
         /\ Leads(S, message, queue, n)
         /\ upstream.phase = "ended" => n.phase \in {"done", "failed"}
         /\ upstream.phase # "ended" =>
               /\ Synced(adapter, n)
               /\ adapter.state # "CLOSED" =>
                     /\ adapter.counted = upstream.inTime
                     /\ upstream.ordered = TRUE => Told(adapter, n, said, upstream.topic)
  BY <1>2 DEF StreamInv, StreamInTouch, InTouch
<1>4. PICK events, m : events \in Seq(Event) /\ events = queue /\ m = message
  BY <1>1
<1>5. PICK rest, to : rest = Tail(events) /\ to = Read(m, Head(events))
  OBVIOUS
<1>6. events \in Seq(Event) /\ Leads(S, m, events, n) /\ events # <<>>
  BY <1>1, <1>3, <1>4
<1>7. to \in S /\ Leads(S, to, rest, n)
  BY <1>5, <1>6, LeadsOn
<1>8. /\ message' = to /\ queue' = rest /\ adapter' = adapter /\ request' = request
      /\ upstream' = upstream /\ said' = said
  BY <1>4, <1>5 DEF Write
<1>9. to \in Message /\ rest \in Seq(Event)
  BY <1>2, <1>5, <1>6, <1>7 DEF Agreed
<1>10. StreamTyped'
  BY <1>1, <1>8, <1>9 DEF StreamTyped
<1>11. PICK a, w, t, k, o, phase :
         /\ a = adapter /\ w = said /\ t = upstream.topic /\ k = upstream.inTime
         /\ o = upstream.ordered /\ phase = upstream.phase
  OBVIOUS
<1>12. InTouch(a, rest, to, phase, o, t, k, w)
  BY <1>2, <1>3, <1>7, <1>11 DEF InTouch
<1>13. StreamInTouch'
  BY <1>8, <1>11, <1>12 DEF StreamInTouch
<1> QED
  BY <1>10, <1>13 DEF StreamInv

LEMMA StreamStep ==
    ASSUME StreamInv, [Next]_vars
    PROVE  StreamInv'
<1>1. ASSUME NEW c \in Chunk, Speak(c)
      PROVE  StreamInv'
  <2>1. upstream.phase \in {"asked", "speaking"} \/ upstream.phase = "finished"
    BY <1>1 DEF Speak
  <2> QED
    BY <1>1, <2>1, SpeakOpenInv, SpeakClosedInv
<1>2. CASE Reply
  <2>1. StreamTyped'
    BY <1>2 DEF Reply, StreamInv, StreamTyped
  <2>2. StreamInTouch'
    BY <1>2 DEF Reply, StreamInv, StreamInTouch
  <2> QED
    BY <2>1, <2>2 DEF StreamInv
<1>3. CASE UNCHANGED vars
  <2>1. StreamTyped'
    BY <1>3 DEF vars, StreamInv, StreamTyped
  <2>2. StreamInTouch'
    BY <1>3 DEF vars, StreamInv, StreamInTouch
  <2> QED
    BY <2>1, <2>2 DEF StreamInv
<1> QED
  BY <1>1, <1>2, <1>3, SourceEndsInv, SourceBreaksInv, WriteInv DEF Next

LEMMA StreamAlways == Spec => []StreamInv
<1>1. Init => StreamInv
  BY StreamInit
<1>2. StreamInv /\ [Next]_vars => StreamInv'
  BY StreamStep
<1> QED
  BY <1>1, <1>2, PTL DEF Spec

-----------------------------------------------------------------------------
(* What follows                                                             *)

\* The variables of the adapter stay in their ranges, for any number of calls
\* and a stream of any length, and no event breaks the client's message.
THEOREM StreamTypeCorrect == Spec => []TypeOK
<1>1. StreamInv => TypeOK
  <2> SUFFICES ASSUME StreamInv PROVE TypeOK
    OBVIOUS
  <2>1. /\ adapter \in Adapter /\ message \in Message /\ DOMAIN request = {"reply", "turns"}
        /\ upstream \in UpstreamState /\ said \in Completion
    BY DEF StreamInv, StreamTyped
  <2>2. ASSUME NEW b \in DOMAIN message.blocks
        PROVE  /\ message.blocks[b].heading \in Heading
               /\ \A p \in DOMAIN message.blocks[b].pieces : message.blocks[b].pieces[p] \in Piece
    <3>1. message.blocks[b] \in Good
      BY <2>1 DEF Message
    <3> QED
      BY <3>1 DEF Good, Block
  <2>3. /\ adapter.state \in {"WAITING", "IN_THINKING", "IN_TEXT", "IN_TOOL_USE", "CLOSED"}
        /\ adapter.index \in Nat /\ adapter.tool \in CallIndex \cup {NoCall}
        /\ adapter.calls \subseteq CallIndex /\ adapter.counted \in BOOLEAN
    BY <2>1 DEF Adapter, Speaking
  <2>4. message.phase \in {"before", "between", "inside", "stopping", "done", "failed"}
    BY <2>1 DEF Message, Phases
  <2>5. /\ upstream.chunks \in 0..MaxChunks
        /\ upstream.phase \in {"asked", "speaking", "finished", "ended"}
    BY <2>1 DEF UpstreamState
  <2>6. /\ said.reasoning \in Nat /\ said.text \in Nat
        /\ \A k \in DOMAIN said.calls : said.calls[k] \in [call : CallIndex, args : Nat]
    <3>1. PICK calls \in Seq(CallSaid) : calls = said.calls
      BY <2>1 DEF Completion
    <3>2. \A k \in DOMAIN calls : calls[k] \in CallSaid
      BY <3>1
    <3>3. said.reasoning \in Nat /\ said.text \in Nat
      BY <2>1 DEF Completion
    <3> QED
      BY <3>1, <3>2, <3>3 DEF CallSaid
  <2> QED
    BY <2>1, <2>2, <2>3, <2>4, <2>5, <2>6 DEF TypeOK
<1> QED
  BY <1>1, StreamAlways, PTL

\* A piece of reasoning, of text or of a call's arguments is in a block of its
\* kind and call, however processChunk's pieces are mixed.
THEOREM PiecesAtHome == Spec => []EachPieceAtHome
<1>1. StreamInv => EachPieceAtHome
  <2> SUFFICES ASSUME StreamInv, NEW b \in DOMAIN message.blocks,
                      NEW p \in DOMAIN message.blocks[b].pieces
               PROVE  /\ message.blocks[b].pieces[p].kind = message.blocks[b].heading.kind
                      /\ message.blocks[b].pieces[p].call = message.blocks[b].heading.call
    BY DEF EachPieceAtHome
  <2>1. message.blocks[b] \in Good
    BY DEF StreamInv, StreamTyped, Message
  <2> QED
    BY <2>1 DEF Good, AtHome
<1> QED
  BY <1>1, StreamAlways, PTL

\* A stream of createStreamAdapter adds up to what translateResponse makes of
\* the completion, when the upstream reasons, talks and calls in that order,
\* and carries the tokens that were counted in time.
THEOREM StreamedAsWhole == Spec => []SameAsWhole
<1>1. StreamInv => SameAsWhole
  <2> SUFFICES ASSUME StreamInv PROVE SameAsWhole
    OBVIOUS
  <2>1. PICK n \in Message : Leads(Agreed(upstream.ordered, said, upstream.inTime), message, queue, n)
    BY DEF StreamInv, StreamInTouch, InTouch
  <2>2. PICK S : S = Agreed(upstream.ordered, said, upstream.inTime)
    OBVIOUS
  <2>3. Leads(S, message, queue, n)
    BY <2>1, <2>2
  <2>4. queue \in Seq(Event)
    BY DEF StreamInv, StreamTyped
  <2>5. message \in S
    <3>1. PICK run \in [0..Len(queue) -> S] : run[0] = message
      BY <2>3 DEF Leads
    <3> QED
      BY <2>4, <3>1
  <2>6. upstream.ordered \in BOOLEAN
    BY DEF StreamInv, StreamTyped, UpstreamState
  <2> QED
    BY <2>2, <2>5, <2>6 DEF Agreed, SameAsWhole
<1> QED
  BY <1>1, StreamAlways, PTL

\* What the client makes of one event is a step of an Anthropic message, or none.
LEMMA ReadIsStep ==
    ASSUME StreamInv, Write
    PROVE  Client!Next \/ UNCHANGED <<message.phase, message.blocks>>
<1>1. PICK m \in Message : m = message
  BY DEF StreamInv, StreamTyped
<1>2. queue \in Seq(Event) /\ queue # <<>>
  BY DEF StreamInv, StreamTyped, Write
<1>3. PICK e \in Event : e = Head(queue)
  BY <1>2
<1>4. PICK to \in Message : to = message'
  BY WriteInv DEF StreamInv, StreamTyped
<1>5. to = Read(m, e)
  BY <1>1, <1>3, <1>4 DEF Write
<1>6. to.phase # "broken"
  BY DEF Message, Phases
<1>7. CASE e.type = "message_start" /\ m.phase = "before"
  <2>1. to.phase = "between" /\ to.blocks = m.blocks
    BY <1>5, <1>7 DEF Read, To, Message
  <2> QED
    BY <1>1, <1>4, <1>7, <2>1 DEF Client!Next, Client!Start
<1>8. CASE e.type = "content_block_start" /\ m.phase = "between" /\ e.index = Len(m.blocks)
  <2>1. PICK h \in Heading : h = e.heading
    BY <1>8 DEF Event
  <2>2. to.phase = "inside" /\ to.blocks = Append(m.blocks, [heading |-> h, pieces |-> <<>>])
    BY <1>5, <1>8, <2>1 DEF Read, Message
  <2> QED
    BY <1>1, <1>4, <1>8, <2>2 DEF Client!Next, Client!Open
<1>9. CASE e.type = "content_block_delta" /\ m.phase = "inside" /\ e.index = Current(m)
  <2>1. PICK p \in Piece : p = e.piece
    BY <1>9 DEF Event
  <2>2. /\ to.phase = "inside"
        /\ to.blocks = [m.blocks EXCEPT ![Len(m.blocks)].pieces = Append(@, p)]
    BY <1>5, <1>9, <2>1 DEF Read, Message
  <2> QED
    BY <1>1, <1>4, <1>9, <2>2 DEF Client!Next, Client!Extend
<1>10. CASE e.type = "content_block_stop" /\ m.phase = "inside" /\ e.index = Current(m)
  <2>1. to.phase = "between" /\ to.blocks = m.blocks
    BY <1>5, <1>10 DEF Read, To, Message
  <2> QED
    BY <1>1, <1>4, <1>10, <2>1 DEF Client!Next, Client!Close
<1>11. CASE e.type = "message_delta" /\ m.phase = "between"
  <2>1. to.phase = "stopping" /\ to.blocks = m.blocks
    BY <1>5, <1>11 DEF Read, To, Message
  <2> QED
    BY <1>1, <1>4, <1>11, <2>1 DEF Client!Next, Client!Stop
<1>12. CASE e.type = "message_stop" /\ m.phase = "stopping"
  <2>1. to.phase = "done" /\ to.blocks = m.blocks
    BY <1>5, <1>12 DEF Read, To, Message
  <2> QED
    BY <1>1, <1>4, <1>12, <2>1 DEF Client!Next, Client!Stop
<1>13. CASE e.type = "error"
  <2>1. to.phase = "failed" /\ to.blocks = m.blocks
    BY <1>5, <1>13 DEF Read, To, Message
  <2> QED
    BY <1>1, <1>4, <2>1 DEF Client!Next, Client!Fail
<1>14. CASE /\ ~(e.type = "message_start" /\ m.phase = "before")
            /\ ~(e.type = "content_block_start" /\ m.phase = "between" /\ e.index = Len(m.blocks))
            /\ ~(e.type = "content_block_delta" /\ m.phase = "inside" /\ e.index = Current(m))
            /\ ~(e.type = "content_block_stop" /\ m.phase = "inside" /\ e.index = Current(m))
            /\ ~(e.type = "message_delta" /\ m.phase = "between")
            /\ ~(e.type = "message_stop" /\ m.phase = "stopping")
            /\ e.type # "error"
  <2>1. to = To(m, "broken")
    BY <1>5, <1>14 DEF Read
  <2>2. to.phase = "broken"
    BY <2>1 DEF To, Message
  <2> QED
    BY <1>6, <2>2
<1> QED
  BY <1>7, <1>8, <1>9, <1>10, <1>11, <1>12, <1>13, <1>14

\* The events AnthropicController writes are one well-formed Anthropic message.
THEOREM MessageImplemented == Spec => ImplementsMessage
<1>1. Init => Client!Init
  BY DEF Init, Client!Init
<1>2. ASSUME StreamInv, [Next]_vars
      PROVE  [Client!Next]_<<message.phase, message.blocks>>
  <2>1. CASE Write
    BY <1>2, <2>1, ReadIsStep
  <2>2. CASE UNCHANGED message
    BY <2>2
  <2> QED
    BY <1>2, <2>1, <2>2 DEF Next, vars, Speak, SourceEnds, SourceBreaks, Reply
<1> QED
  BY <1>1, <1>2, StreamAlways, PTL DEF Spec, ImplementsMessage, Client!Spec

-----------------------------------------------------------------------------
(* Positions of a sequence, and its elements there                          *)

Rank(P, k) == Cardinality({j \in P : j <= k})

\* Between two positions of a set the rank grows.
LEMMA RankGrows ==
    ASSUME NEW n \in Nat, NEW P \in SUBSET (1..n), NEW k \in P, NEW l \in P, k < l
    PROVE  Rank(P, k) \in Nat /\ Rank(P, l) \in Nat /\ Rank(P, k) < Rank(P, l)
<1>1. PICK A, B : A = {j \in P : j <= k} /\ B = {j \in P : j <= l}
  OBVIOUS
<1>2. IsFiniteSet(P)
  <2>1. IsFiniteSet(1..n)
    BY FS_Interval
  <2> QED
    BY <2>1, FS_Subset
<1>3. A \in SUBSET B /\ l \in B /\ l \notin A /\ B \in SUBSET P
  <2>1. k \in Int /\ l \in Int /\ \A j \in P : j \in Int
    OBVIOUS
  <2>2. \A j \in P : j <= k => j <= l
    BY <2>1
  <2>3. A \subseteq B
    BY <1>1, <2>2
  <2>4. l \in B /\ l \notin A
    BY <1>1, <2>1
  <2> QED
    BY <1>1, <2>3, <2>4
<1>4. IsFiniteSet(B)
  BY <1>2, <1>3, FS_Subset
<1>5. IsFiniteSet(A) /\ Cardinality(A) <= Cardinality(B) /\ (Cardinality(B) = Cardinality(A) => B = A)
  BY <1>3, <1>4, FS_Subset
<1>6. Cardinality(A) \in Nat /\ Cardinality(B) \in Nat /\ Cardinality(A) # Cardinality(B)
  BY <1>3, <1>4, <1>5, FS_CardinalityType
<1> QED
  BY <1>1, <1>5, <1>6 DEF Rank

\* The positions of a set are its first, its second, ... in one way.
LEMMA RanksAreOneToOne ==
    ASSUME NEW n \in Nat, NEW P \in SUBSET (1..n)
    PROVE  /\ IsFiniteSet(P) /\ Cardinality(P) \in Nat
           /\ \A k \in P : Rank(P, k) \in 1..Cardinality(P) /\ Nth(P, Rank(P, k)) = k
           /\ \A r \in 1..Cardinality(P) : Nth(P, r) \in P /\ Rank(P, Nth(P, r)) = r
<1>1. IsFiniteSet(P)
  <2>1. IsFiniteSet(1..n)
    BY FS_Interval
  <2> QED
    BY <2>1, FS_Subset
<1>2. PICK c : c = Cardinality(P)
  OBVIOUS
<1>3. c \in Nat
  BY <1>1, <1>2, FS_CardinalityType
<1>4. ASSUME NEW k \in P PROVE Rank(P, k) \in 1..c
  <2>1. PICK A : A = {j \in P : j <= k}
    OBVIOUS
  <2>2. A \in SUBSET P /\ k \in A
    BY <2>1
  <2>3. IsFiniteSet(A) /\ Cardinality(A) <= c
    BY <1>1, <1>2, <2>2, FS_Subset
  <2>4. Cardinality(A) \in Nat /\ Cardinality(A) # 0
    BY <2>2, <2>3, FS_CardinalityType, FS_EmptySet
  <2> QED
    BY <1>3, <2>1, <2>3, <2>4 DEF Rank
<1>5. ASSUME NEW k \in P, NEW l \in P, Rank(P, k) = Rank(P, l) PROVE k = l
  <2>1. ASSUME NEW i \in P, NEW j \in P, i < j PROVE Rank(P, i) # Rank(P, j)
    <3>1. Rank(P, i) \in Nat /\ Rank(P, j) \in Nat /\ Rank(P, i) < Rank(P, j)
      BY <2>1, RankGrows
    <3> QED
      BY <3>1
  <2>2. k \in Int /\ l \in Int
    OBVIOUS
  <2> QED
    BY <1>5, <2>1, <2>2
<1>6. PICK f : f = [k \in P |-> Rank(P, k)]
  OBVIOUS
<1>7. f \in Injection(P, 1..c)
  BY <1>4, <1>5, <1>6 DEF Injection, IsInjective
<1>8. IsFiniteSet(1..c) /\ Cardinality(1..c) = c
  BY <1>3, FS_Interval
<1>9. f \in Surjection(P, 1..c)
  BY <1>2, <1>7, <1>8, FS_Injection
<1>10. ASSUME NEW r \in 1..c PROVE \E k \in P : Rank(P, k) = r
  BY <1>6, <1>9 DEF Surjection
<1>11. ASSUME NEW r PROVE Nth(P, r) = CHOOSE k \in P : Rank(P, k) = r
  BY DEF Nth, Rank
<1>12. ASSUME NEW k \in P PROVE Nth(P, Rank(P, k)) = k
  BY <1>5, <1>11
<1>13. ASSUME NEW r \in 1..c PROVE Nth(P, r) \in P /\ Rank(P, Nth(P, r)) = r
  BY <1>10, <1>11
<1> QED
  BY <1>1, <1>2, <1>3, <1>4, <1>12, <1>13

\* An element of a sequence, at one of these positions.
At(s, positions, x) == \E k \in positions : s[k] = x

LEMMA Concatenated ==
    ASSUME NEW S, NEW a \in Seq(S), NEW b \in Seq(S), NEW both, both = a \o b,
           NEW t, t = Len(a), NEW i, i = Len(b)
    PROVE  /\ t \in Nat /\ i \in Nat /\ both \in Seq(S) /\ Len(both) = t + i
           /\ \A k \in 1..t : both[k] = a[k]
           /\ \A k \in 1..i : both[t + k] = b[k]
<1>1. both \in Seq(S) /\ Len(both) = t + i /\ t \in Nat /\ i \in Nat
  OBVIOUS
<1>2. ASSUME NEW k \in 1..t PROVE both[k] = a[k]
  BY <1>1
<1>3. ASSUME NEW k \in 1..i PROVE both[t + k] = b[k]
  <2>1. PICK l : l = t + k
    OBVIOUS
  <2>2. l \in Nat /\ l > t /\ l <= t + i /\ l - t = k
    BY <1>1, <2>1
  <2>3. both[l] = b[l - t]
    BY <1>1, <2>2
  <2> QED
    BY <2>1, <2>2, <2>3
<1> QED
  BY <1>1, <1>2, <1>3

\* What Filter keeps: as many elements as positions, and those that stand there.
Kept(s, P, kept, c) ==
    /\ Len(kept) = c
    /\ \A r \in 1..c : At(s, P, kept[r])
    /\ \A k \in P : At(kept, 1..c, s[k])

LEMMA FilterKeeps ==
    ASSUME NEW S, NEW s \in Seq(S), NEW P \in SUBSET DOMAIN s
    PROVE  /\ Cardinality(P) \in Nat /\ Filter(s, P) \in Seq(S)
           /\ Kept(s, P, Filter(s, P), Cardinality(P))
<1>1. PICK n \in Nat : n = Len(s)
  OBVIOUS
<1>2. P \in SUBSET (1..n) /\ \A k \in 1..n : s[k] \in S
  BY <1>1
<1>3. PICK c, kept : c = Cardinality(P) /\ kept = Filter(s, P)
  OBVIOUS
<1>4. c \in Nat
  BY <1>2, <1>3, RanksAreOneToOne
<1>5. \A r \in 1..c : Nth(P, r) \in P
  BY <1>2, <1>3, RanksAreOneToOne
<1>6. \A k \in P : Rank(P, k) \in 1..c /\ Nth(P, Rank(P, k)) = k
  BY <1>2, <1>3, RanksAreOneToOne
<1>7. DOMAIN kept = 1..c /\ \A r \in 1..c : kept[r] = s[Nth(P, r)]
  BY <1>3 DEF Filter
<1>8. ASSUME NEW r \in 1..c PROVE kept[r] \in S
  BY <1>2, <1>5, <1>7
<1>9. kept = [r \in 1..c |-> kept[r]]
  BY <1>3 DEF Filter
<1>10. kept \in Seq(S) /\ Len(kept) = c
  BY <1>4, <1>8, <1>9
<1>11. ASSUME NEW r \in 1..c PROVE At(s, P, kept[r])
  BY <1>5, <1>7 DEF At
<1>12. ASSUME NEW k \in P PROVE At(kept, 1..c, s[k])
  BY <1>6, <1>7 DEF At
<1>13. Kept(s, P, kept, c)
  BY <1>10, <1>11, <1>12 DEF Kept
<1> QED
  BY <1>3, <1>4, <1>10, <1>13

\* The elements at positions that follow one another.
LEMMA FilterRun ==
    ASSUME NEW off \in Nat, NEW m \in Nat, NEW P, P = (off + 1)..(off + m), NEW s,
           NEW kept, kept = Filter(s, P)
    PROVE  DOMAIN kept = 1..m /\ kept = [r \in 1..m |-> kept[r]] /\ \A r \in 1..m : kept[r] = s[off + r]
<1>1. PICK n \in Nat : n = off + m
  OBVIOUS
<1>2. P \in SUBSET (1..n)
  BY <1>1
<1>3. Cardinality(P) = m
  <2>1. off + 1 \in Int /\ off + m \in Int
    OBVIOUS
  <2>2. Cardinality(P) = IF off + 1 > off + m THEN 0 ELSE (off + m) - (off + 1) + 1
    BY <2>1, FS_Interval
  <2> QED
    BY <2>2
<1>4. ASSUME NEW r \in 1..m PROVE Nth(P, r) = off + r
  <2>1. off + r \in P
    OBVIOUS
  <2>2. PICK A : A = {j \in P : j <= off + r}
    OBVIOUS
  <2>3. A = (off + 1)..(off + r)
    BY <2>2
  <2>4. off + 1 \in Int /\ off + r \in Int
    OBVIOUS
  <2>5. Cardinality(A) = IF off + 1 > off + r THEN 0 ELSE (off + r) - (off + 1) + 1
    BY <2>3, <2>4, FS_Interval
  <2>6. Rank(P, off + r) = r
    BY <2>2, <2>5 DEF Rank
  <2>7. \A k \in P : Nth(P, Rank(P, k)) = k
    BY <1>1, <1>2, RanksAreOneToOne
  <2>8. Nth(P, Rank(P, off + r)) = off + r
    BY <2>1, <2>7
  <2> QED
    BY <2>6, <2>8
<1>5. Filter(s, P) = [r \in 1..m |-> s[Nth(P, r)]]
  BY <1>3 DEF Filter
<1> QED
  BY <1>4, <1>5

-----------------------------------------------------------------------------
(* The message of a completion, given back                                  *)

\* Blocks before the calls, and before the text.
Ahead(w)  == IF w.reasoning = 0 THEN 0 ELSE 1
Spoken(w) == Ahead(w) + (IF w.text = 0 THEN 0 ELSE 1)

\* Where translateResponse puts what a completion consists of.
LEMMA WholeAt ==
    ASSUME NEW w \in Completion, NEW blocks, blocks = translateResponse(w)
    PROVE  /\ Ahead(w) \in Nat /\ Spoken(w) \in Nat /\ Ahead(w) <= Spoken(w) /\ Len(w.calls) \in Nat
           /\ DOMAIN blocks = 1..(Spoken(w) + Len(w.calls))
           /\ \A b \in 1..Ahead(w) : blocks[b] = BlockOf(Thinking, w.reasoning)
           /\ \A b \in (Ahead(w) + 1)..Spoken(w) : blocks[b] = BlockOf(Text, w.text)
           /\ \A r \in 1..Len(w.calls) :
                 blocks[Spoken(w) + r] = BlockOf(Named(w.calls[r].call), w.calls[r].args)
<1>1. PICK x, y, z : x = Thoughts(w.reasoning) /\ y = Speech(w.text) /\ z = CallBlocks(w.calls)
  OBVIOUS
<1>2. PICK g, t, m : g = BlockOf(Thinking, w.reasoning) /\ t = BlockOf(Text, w.text) /\ m = Len(w.calls)
  OBVIOUS
<1>3. w.reasoning \in Nat /\ w.text \in Nat /\ w.calls \in Seq(CallSaid)
  BY DEF Completion
<1>4. x \in Seq(Good) /\ y \in Seq(Good) /\ z \in Seq(Good)
  BY <1>1, <1>3, PartsTyped, CallsTyped
<1>5. m \in Nat /\ DOMAIN w.calls = 1..m
  BY <1>2, <1>3
<1>6. /\ Len(z) = m
      /\ \A r \in 1..m : z[r] = BlockOf(Named(w.calls[r].call), w.calls[r].args)
  BY <1>1, <1>5 DEF CallBlocks
<1>7. x = IF w.reasoning = 0 THEN <<>> ELSE <<g>>
  BY <1>1, <1>2 DEF Thoughts
<1>8. y = IF w.text = 0 THEN <<>> ELSE <<t>>
  BY <1>1, <1>2 DEF Speech
<1>9. PICK p, q : p = Ahead(w) /\ q = Spoken(w)
  OBVIOUS
<1>10. p \in {0, 1} /\ q \in {p, p + 1} /\ p \in Nat /\ q \in Nat
  BY <1>9 DEF Ahead, Spoken
<1>11. Len(x) = p /\ \A b \in 1..p : x[b] = g
  BY <1>7, <1>9 DEF Ahead
<1>12. Len(y) = q - p /\ \A b \in 1..(q - p) : y[b] = t
  BY <1>8, <1>9, <1>10 DEF Ahead, Spoken
<1>13. blocks = x \o y \o z
  BY <1>1, WholeIs
<1>14. PICK front \in Seq(Good) : front = x \o y
  <2>1. x \o y \in Seq(Good)
    BY <1>4
  <2> QED
    BY <2>1
<1>15. /\ Len(front) = q /\ \A b \in 1..p : front[b] = g
       /\ \A b \in (p + 1)..q : front[b] = t
  <2>1. Len(front) = q
    BY <1>4, <1>10, <1>11, <1>12, <1>14
  <2>2. ASSUME NEW b \in 1..p PROVE front[b] = g
    BY <1>4, <1>10, <1>11, <1>14
  <2>3. ASSUME NEW b \in (p + 1)..q PROVE front[b] = t
    <3>1. b - p \in 1..(q - p) /\ b \in Nat
      BY <1>10
    <3>2. front[b] = y[b - p]
      BY <1>4, <1>10, <1>11, <1>12, <1>14, <3>1
    <3> QED
      BY <1>12, <3>1, <3>2
  <2> QED
    BY <2>1, <2>2, <2>3
<1>16. blocks = front \o z
  BY <1>13, <1>14
<1>17. /\ DOMAIN blocks = 1..(q + m)
       /\ \A b \in 1..q : blocks[b] = front[b]
       /\ \A r \in 1..m : blocks[q + r] = z[r]
  <2>1. front \in Seq(Good) /\ z \in Seq(Good) /\ q = Len(front) /\ m = Len(z)
    BY <1>4, <1>6, <1>15
  <2>2. PICK S, n : S = Good /\ n = q + m
    OBVIOUS
  <2>3. /\ blocks \in Seq(S) /\ Len(blocks) = n
        /\ \A b \in 1..q : blocks[b] = front[b]
        /\ \A r \in 1..m : blocks[q + r] = z[r]
    BY ONLY <1>16, <2>1, <2>2, Concatenated
  <2> QED
    BY <2>2, <2>3
<1>18. ASSUME NEW b \in 1..p PROVE blocks[b] = g
  BY <1>10, <1>15, <1>17
<1>19. ASSUME NEW b \in (p + 1)..q PROVE blocks[b] = t
  BY <1>10, <1>15, <1>17
<1> QED
  BY <1>2, <1>5, <1>6, <1>9, <1>10, <1>17, <1>18, <1>19

\* The blocks of each kind.
LEMMA WholeByKind ==
    ASSUME NEW w \in Completion, NEW blocks, blocks = translateResponse(w)
    PROVE  /\ BlocksOf(blocks, "thinking") = 1..Ahead(w)
           /\ BlocksOf(blocks, "text") = (Ahead(w) + 1)..Spoken(w)
           /\ BlocksOf(blocks, "tool_use") = (Spoken(w) + 1)..(Spoken(w) + Len(w.calls))
<1>1. PICK p, q, m : p = Ahead(w) /\ q = Spoken(w) /\ m = Len(w.calls)
  OBVIOUS
<1>2. p \in Nat /\ q \in Nat /\ p <= q /\ m \in Nat /\ DOMAIN blocks = 1..(q + m)
  BY <1>1, WholeAt
<1>3. ASSUME NEW b \in 1..p PROVE blocks[b].heading.kind = "thinking"
  <2>1. blocks[b] = BlockOf(Thinking, w.reasoning)
    BY <1>1, WholeAt
  <2> QED
    BY <2>1 DEF BlockOf, Thinking
<1>4. ASSUME NEW b \in (p + 1)..q PROVE blocks[b].heading.kind = "text"
  <2>1. blocks[b] = BlockOf(Text, w.text)
    BY <1>1, WholeAt
  <2> QED
    BY <2>1 DEF BlockOf, Text
<1>5. ASSUME NEW b \in (q + 1)..(q + m) PROVE blocks[b].heading.kind = "tool_use"
  <2>1. PICK r \in 1..m : b = q + r
    <3>1. b - q \in 1..m /\ b = q + (b - q)
      BY <1>2
    <3> QED
      BY <3>1
  <2>2. blocks[q + r] = BlockOf(Named(w.calls[r].call), w.calls[r].args)
    BY <1>1, WholeAt
  <2> QED
    BY <2>1, <2>2 DEF BlockOf, Named, Call
<1>6. ASSUME NEW b \in 1..(q + m) PROVE b \in 1..p \/ b \in (p + 1)..q \/ b \in (q + 1)..(q + m)
  BY <1>2
<1>7. 1..p \subseteq 1..(q + m) /\ (p + 1)..q \subseteq 1..(q + m) /\ (q + 1)..(q + m) \subseteq 1..(q + m)
  BY <1>2
<1>8. BlocksOf(blocks, "thinking") = 1..p
  BY <1>2, <1>3, <1>4, <1>5, <1>6, <1>7 DEF BlocksOf
<1>9. BlocksOf(blocks, "text") = (p + 1)..q
  BY <1>2, <1>3, <1>4, <1>5, <1>6, <1>7 DEF BlocksOf
<1>10. BlocksOf(blocks, "tool_use") = (q + 1)..(q + m)
  BY <1>2, <1>3, <1>4, <1>5, <1>6, <1>7 DEF BlocksOf
<1> QED
  BY <1>1, <1>8, <1>9, <1>10

\* The pieces of one block, and of none.
LEMMA PiecesOfOne ==
    ASSUME NEW blocks, NEW kind, NEW h, NEW k \in Nat, NEW i \in Nat,
           NEW j \in Nat, BlocksOf(blocks, kind) = i..j, j <= i, \A b \in i..j : blocks[b] = BlockOf(h, k),
           j < i => k = 0
    PROVE  Pieces(blocks, kind) = k
<1>1. PICK U : U = UNION {{b} \X DOMAIN blocks[b].pieces : b \in i..j}
  OBVIOUS
<1>2. Pieces(blocks, kind) = Cardinality(U)
  BY <1>1 DEF Pieces
<1>3. CASE j < i
  <2>1. i..j = {}
    BY <1>3
  <2>2. U = {}
    BY <1>1, <2>1
  <2> QED
    BY <1>2, <1>3, <2>2, FS_EmptySet
<1>4. CASE i = j
  <2>1. i..j = {i}
    BY <1>4
  <2>2. blocks[i] = BlockOf(h, k)
    BY <1>4
  <2>3. DOMAIN blocks[i].pieces = 1..k
    BY <2>2 DEF BlockOf, Copies
  <2>4. U = {i} \X (1..k)
    BY <1>1, <2>1, <2>3
  <2>5. PICK A, B : A = {i} /\ B = 1..k
    OBVIOUS
  <2>6. IsFiniteSet(A) /\ Cardinality(A) = 1
    BY <2>5, FS_Singleton
  <2>7. IsFiniteSet(B) /\ Cardinality(B) = k
    BY <2>5, FS_Interval
  <2>8. Cardinality(A \X B) = 1 * k
    BY <2>6, <2>7, FS_Product
  <2> QED
    BY <1>2, <2>4, <2>5, <2>8
<1> QED
  BY <1>3, <1>4

\* translateMessages gives a completion back that translateResponse made into blocks.
LEMMA TurnOfWhole ==
    ASSUME NEW w \in Completion
    PROVE  AssistantTurn(translateResponse(w)) = w
<1>1. PICK p, q, m, blocks : /\ p = Ahead(w) /\ q = Spoken(w) /\ m = Len(w.calls)
                             /\ blocks = translateResponse(w)
  OBVIOUS
<1>2. /\ p \in Nat /\ q \in Nat /\ p <= q /\ m \in Nat
      /\ p = (IF w.reasoning = 0 THEN 0 ELSE 1) /\ q = p + (IF w.text = 0 THEN 0 ELSE 1)
  BY <1>1, WholeAt DEF Ahead, Spoken
<1>3. w.reasoning \in Nat /\ w.text \in Nat /\ w.calls \in Seq(CallSaid)
  BY DEF Completion
<1>4. Pieces(blocks, "thinking") = w.reasoning
  <2>1. PICK i \in Nat : i = 1
    OBVIOUS
  <2>2. PICK h, k, kind : h = Thinking /\ k = w.reasoning /\ kind = "thinking"
    OBVIOUS
  <2>3. BlocksOf(blocks, kind) = i..p /\ \A b \in i..p : blocks[b] = BlockOf(h, k)
    BY <1>1, <2>1, <2>2, WholeAt, WholeByKind
  <2>4. k \in Nat /\ p <= i /\ (p < i => k = 0)
    BY <1>2, <1>3, <2>1, <2>2
  <2>5. Pieces(blocks, kind) = k
    BY <1>2, <2>3, <2>4, PiecesOfOne
  <2> QED
    BY <2>2, <2>5
<1>5. Pieces(blocks, "text") = w.text
  <2>1. PICK i \in Nat : i = p + 1
    BY <1>2
  <2>2. PICK h, k, kind : h = Text /\ k = w.text /\ kind = "text"
    OBVIOUS
  <2>3. PICK j \in Nat : j = q
    BY <1>2
  <2>4. BlocksOf(blocks, kind) = i..j /\ \A b \in i..j : blocks[b] = BlockOf(h, k)
    BY <1>1, <2>1, <2>2, <2>3, WholeAt, WholeByKind
  <2>5. k \in Nat /\ j <= i /\ (j < i => k = 0)
    BY <1>2, <1>3, <2>1, <2>2, <2>3
  <2>6. Pieces(blocks, kind) = k
    BY <2>4, <2>5, PiecesOfOne
  <2> QED
    BY <2>2, <2>6
<1>6. PICK calls : calls = Filter(blocks, BlocksOf(blocks, "tool_use"))
  OBVIOUS
<1>7. DOMAIN calls = 1..m /\ \A r \in 1..m : calls[r] = blocks[q + r]
  <2>1. PICK P : P = BlocksOf(blocks, "tool_use")
    OBVIOUS
  <2>2. PICK off \in Nat, n \in Nat : off = q /\ n = m
    BY <1>2
  <2>3. P = (off + 1)..(off + n)
    BY <1>1, <2>1, <2>2, WholeByKind
  <2>4. calls = Filter(blocks, P)
    BY <1>6, <2>1
  <2>5. DOMAIN calls = 1..n /\ \A r \in 1..n : calls[r] = blocks[off + r]
    BY <2>3, <2>4, FilterRun
  <2> QED
    BY <2>2, <2>5
<1>8. ASSUME NEW r \in 1..m
      PROVE  [call |-> calls[r].heading.call, args |-> Len(calls[r].pieces)] = w.calls[r]
  <2>1. calls[r] = BlockOf(Named(w.calls[r].call), w.calls[r].args)
    BY <1>1, <1>7, WholeAt
  <2>2. w.calls[r] \in CallSaid
    BY <1>1, <1>3
  <2>3. PICK i, n : i = w.calls[r].call /\ n = w.calls[r].args
    OBVIOUS
  <2>4. n \in Nat /\ w.calls[r] = [call |-> i, args |-> n]
    BY <2>2, <2>3 DEF CallSaid
  <2>5. calls[r].heading.call = i /\ calls[r].pieces = Copies(PieceOf(Named(i)), n)
    BY <2>1, <2>3 DEF BlockOf, Named, Call
  <2>6. Len(calls[r].pieces) = n
    BY <2>4, <2>5 DEF Copies
  <2> QED
    BY <2>4, <2>5, <2>6
<1>9. PICK back : back = [k \in DOMAIN calls |->
                            [call |-> calls[k].heading.call, args |-> Len(calls[k].pieces)]]
  OBVIOUS
<1>10. back = w.calls
  <2>1. back = [r \in 1..m |-> w.calls[r]]
    BY <1>7, <1>8, <1>9
  <2>2. w.calls = [r \in 1..m |-> w.calls[r]]
    BY <1>1, <1>3
  <2> QED
    BY <2>1, <2>2
<1>11. AssistantTurn(blocks) = [reasoning |-> w.reasoning, text |-> w.text, calls |-> back]
  BY <1>4, <1>5, <1>6, <1>9 DEF AssistantTurn
<1>12. w = [reasoning |-> w.reasoning, text |-> w.text, calls |-> w.calls]
  BY DEF Completion
<1> QED
  BY <1>1, <1>10, <1>11, <1>12

-----------------------------------------------------------------------------
(* A reply, as messages                                                     *)

Part == [kind : {"tool_result", "text", "image"}, call : Int]

\* The parts of a reply, by kind: each is of one kind.
LEMMA SaidByKind ==
    ASSUME NEW reply \in Seq(Part), NEW R, NEW T, NEW I,
           R = Said(reply, "tool_result"), T = Said(reply, "text"), I = Said(reply, "image")
    PROVE  /\ R \in SUBSET (1..Len(reply)) /\ T \in SUBSET (1..Len(reply))
           /\ I \in SUBSET (1..Len(reply)) /\ R \cup T \cup I = 1..Len(reply)
           /\ Cardinality(R) \in Nat /\ Cardinality(T) \in Nat /\ Cardinality(I) \in Nat
           /\ Cardinality(R) + (Cardinality(T) + Cardinality(I)) = Len(reply)
<1>1. PICK n : n = Len(reply)
  OBVIOUS
<1>2. n \in Nat /\ DOMAIN reply = 1..n
  BY <1>1
<1>3. ASSUME NEW k \in 1..n PROVE reply[k].kind \in {"tool_result", "text", "image"}
  <2>1. reply[k] \in Part
    BY <1>1, <1>3
  <2> QED
    BY <2>1 DEF Part
<1>4. R \in SUBSET (1..n) /\ T \in SUBSET (1..n) /\ I \in SUBSET (1..n)
  BY <1>2 DEF Said
<1>5. R \cup T \cup I = 1..n
  BY <1>2, <1>3 DEF Said
<1>6. R \cap (T \cup I) = {} /\ T \cap I = {}
  BY DEF Said
<1>7. IsFiniteSet(1..n) /\ Cardinality(1..n) = n
  BY <1>2, FS_Interval
<1>8. IsFiniteSet(R) /\ IsFiniteSet(T) /\ IsFiniteSet(I)
  BY <1>4, <1>7, FS_Subset
<1>9. Cardinality(R) \in Nat /\ Cardinality(T) \in Nat /\ Cardinality(I) \in Nat
  BY <1>8, FS_CardinalityType
<1>10. PICK both, none : both = T \cup I /\ none = {}
  OBVIOUS
<1>11. Cardinality(none) = 0 /\ T \cap I = none /\ R \cap both = none
  BY <1>6, <1>10, FS_EmptySet
<1>12. IsFiniteSet(both) /\ Cardinality(both) = Cardinality(T) + Cardinality(I) - Cardinality(T \cap I)
  BY <1>8, <1>10, FS_Union
<1>13. Cardinality(R \cup both) = Cardinality(R) + Cardinality(both) - Cardinality(R \cap both)
  BY <1>8, <1>12, FS_Union
<1>14. R \cup both = 1..n
  BY <1>5, <1>10
<1>15. Cardinality(T \cap I) = 0 /\ Cardinality(R \cap both) = 0 /\ Cardinality(R \cup both) = n
  BY ONLY <1>7, <1>11, <1>14
<1>16. Cardinality(R) + (Cardinality(T) + Cardinality(I)) = n
  BY <1>2, <1>9, <1>12, <1>13, <1>15
<1> QED
  BY <1>1, <1>4, <1>5, <1>9, <1>16

\* The results, each in a message of its own, and behind them the rest.
Results(reply) == Filter(reply, Said(reply, "tool_result"))
Rest(reply)    == Filter(reply, Said(reply, "text")) \o Filter(reply, Said(reply, "image"))

\* Nothing of a reply is lost between its results and the rest.
LEMMA ResultsAndRest ==
    ASSUME NEW reply \in Seq(Part), NEW results, results = Results(reply), NEW rest, rest = Rest(reply),
           NEW r, r = Cardinality(Said(reply, "tool_result")), NEW n, n = Len(reply)
    PROVE  /\ results \in Seq(Part) /\ rest \in Seq(Part)
           /\ Len(results) = r /\ Len(rest) = n - r
           /\ \A k \in 1..r : At(reply, 1..n, results[k])
           /\ \A k \in 1..(n - r) : At(reply, 1..n, rest[k])
           /\ \A j \in 1..n : At(results, 1..r, reply[j]) \/ At(rest, 1..(n - r), reply[j])
<1>1. PICK R, T, I, S : /\ R = Said(reply, "tool_result") /\ S = Part
                        /\ T = Said(reply, "text") /\ I = Said(reply, "image")
  OBVIOUS
<1>2. PICK t, i : t = Cardinality(T) /\ i = Cardinality(I)
  OBVIOUS
<1>3. /\ R \in SUBSET (1..n) /\ T \in SUBSET (1..n) /\ I \in SUBSET (1..n)
      /\ R \cup T \cup I = 1..n /\ r \in Nat /\ t \in Nat /\ i \in Nat /\ r + (t + i) = n
  BY <1>1, <1>2, SaidByKind
<1>4. n \in Nat /\ reply \in Seq(S)
  BY <1>1
<1>5. PICK texts, images : texts = Filter(reply, T) /\ images = Filter(reply, I)
  OBVIOUS
<1>6. results = Filter(reply, R) /\ rest = texts \o images
  BY <1>1, <1>5 DEF Results, Rest
<1>7. /\ results \in Seq(S) /\ Len(results) = r
      /\ \A k \in 1..r : At(reply, R, results[k])
      /\ \A j \in R : At(results, 1..r, reply[j])
  <2>1. reply \in Seq(S) /\ R \in SUBSET DOMAIN reply
    BY <1>3, <1>4
  <2>2. Filter(reply, R) \in Seq(S) /\ Kept(reply, R, Filter(reply, R), Cardinality(R))
    BY <2>1, FilterKeeps
  <2>3. r = Cardinality(R) /\ results = Filter(reply, R)
    BY <1>1, <1>6
  <2>4. results \in Seq(S) /\ Kept(reply, R, results, r)
    BY <2>2, <2>3
  <2> QED
    BY ONLY <2>4 DEF Kept
<1>8. /\ texts \in Seq(S) /\ Len(texts) = t
      /\ \A k \in 1..t : At(reply, T, texts[k])
      /\ \A j \in T : At(texts, 1..t, reply[j])
  <2>1. reply \in Seq(S) /\ T \in SUBSET DOMAIN reply
    BY <1>3, <1>4
  <2>2. Filter(reply, T) \in Seq(S) /\ Kept(reply, T, Filter(reply, T), Cardinality(T))
    BY <2>1, FilterKeeps
  <2>3. t = Cardinality(T) /\ texts = Filter(reply, T)
    BY <1>2, <1>5
  <2>4. texts \in Seq(S) /\ Kept(reply, T, texts, t)
    BY <2>2, <2>3
  <2> QED
    BY ONLY <2>4 DEF Kept
<1>9. /\ images \in Seq(S) /\ Len(images) = i
      /\ \A k \in 1..i : At(reply, I, images[k])
      /\ \A j \in I : At(images, 1..i, reply[j])
  <2>1. reply \in Seq(S) /\ I \in SUBSET DOMAIN reply
    BY <1>3, <1>4
  <2>2. Filter(reply, I) \in Seq(S) /\ Kept(reply, I, Filter(reply, I), Cardinality(I))
    BY <2>1, FilterKeeps
  <2>3. i = Cardinality(I) /\ images = Filter(reply, I)
    BY <1>2, <1>5
  <2>4. images \in Seq(S) /\ Kept(reply, I, images, i)
    BY <2>2, <2>3
  <2> QED
    BY ONLY <2>4 DEF Kept
<1>10. PICK m : m = n - r
  OBVIOUS
<1>11. m = t + i /\ m \in Nat
  BY <1>3, <1>4, <1>10
<1>12. /\ rest \in Seq(S) /\ Len(rest) = m
       /\ \A k \in 1..t : rest[k] = texts[k]
       /\ \A k \in 1..i : rest[t + k] = images[k]
  <2>1. /\ texts \in Seq(S) /\ images \in Seq(S) /\ rest = texts \o images
        /\ t = Len(texts) /\ i = Len(images)
    BY <1>6, <1>8, <1>9
  <2>2. /\ rest \in Seq(S) /\ Len(rest) = t + i
        /\ \A k \in 1..t : rest[k] = texts[k]
        /\ \A k \in 1..i : rest[t + k] = images[k]
    BY ONLY <2>1, Concatenated
  <2> QED
    BY <1>11, <2>2
<1>13. \A k \in 1..t : k \in 1..m
  BY <1>3, <1>11
<1>14. \A k \in 1..i : t + k \in 1..m
  BY <1>3, <1>11
<1>15. ASSUME NEW k \in 1..m PROVE At(reply, 1..n, rest[k])
  <2>1. CASE k <= t
    <3>1. k \in 1..t
      BY <1>3, <1>11, <2>1
    <3>2. At(reply, T, rest[k])
      BY <1>8, <1>12, <3>1
    <3> QED
      BY <1>3, <3>2 DEF At
  <2>2. CASE ~(k <= t)
    <3>1. PICK l \in 1..i : t + l = k
      <4>1. k - t \in 1..i /\ t + (k - t) = k
        BY <1>3, <1>11, <2>2
      <4> QED
        BY <4>1
    <3>2. At(reply, I, rest[k])
      BY <1>9, <1>12, <3>1
    <3> QED
      BY <1>3, <3>2 DEF At
  <2> QED
    BY <2>1, <2>2
<1>16. ASSUME NEW j \in 1..n
       PROVE  At(results, 1..r, reply[j]) \/ At(rest, 1..m, reply[j])
  <2>1. CASE j \in R
    BY <1>7, <2>1
  <2>2. CASE j \in T
    <3>1. PICK k \in 1..t : texts[k] = reply[j]
      BY <1>8, <2>2 DEF At
    <3> QED
      BY <1>12, <1>13, <3>1 DEF At
  <2>3. CASE j \in I
    <3>1. PICK k \in 1..i : images[k] = reply[j]
      BY <1>9, <2>3 DEF At
    <3>2. PICK l : l = t + k
      OBVIOUS
    <3>3. l \in 1..m /\ rest[l] = reply[j]
      BY <1>12, <1>14, <3>1, <3>2
    <3> QED
      BY <3>3 DEF At
  <2> QED
    BY <1>3, <2>1, <2>2, <2>3
<1>17. ASSUME NEW k \in 1..r PROVE At(reply, 1..n, results[k])
  <2>1. At(reply, R, results[k])
    BY <1>7
  <2> QED
    BY <1>3, <2>1 DEF At
<1> QED
  BY <1>1, <1>7, <1>10, <1>12, <1>15, <1>16, <1>17

Turn == [role : {"tool", "user"}, parts : Seq(Part)]

\* The messages of a reply: r with one result each, and one with the rest.
LEMMA TurnsOfReply ==
    ASSUME NEW reply \in Seq(Part), NEW results, results = Results(reply), NEW rest, rest = Rest(reply),
           NEW r, r = Cardinality(Said(reply, "tool_result")), NEW m, m = Len(reply) - r,
           NEW turns, turns = UserTurn(reply)
    PROVE  /\ r \in Nat /\ m \in Nat /\ turns \in Seq(Turn)
           /\ DOMAIN turns = IF m = 0 THEN 1..r ELSE 1..(r + 1)
           /\ \A k \in 1..r : turns[k] = [role |-> "tool", parts |-> <<results[k]>>]
           /\ m # 0 => turns[r + 1] = [role |-> "user", parts |-> rest]
<1>1. PICK S : S = Turn
  OBVIOUS
<1>2. results \in Seq(Part) /\ rest \in Seq(Part) /\ Len(results) = r /\ Len(rest) = m
  BY ResultsAndRest
<1>3. r \in Nat /\ m \in Nat /\ DOMAIN results = 1..r
  BY <1>2
<1>4. PICK front : front = [k \in DOMAIN results |-> [role |-> "tool", parts |-> <<results[k]>>]]
  OBVIOUS
<1>5. PICK last : last = IF rest = <<>> THEN <<>> ELSE <<[role |-> "user", parts |-> rest]>>
  OBVIOUS
<1>6. turns = front \o last
  BY <1>4, <1>5 DEF UserTurn, Results, Rest
<1>7. \A k \in 1..r : [role |-> "tool", parts |-> <<results[k]>>] \in S
  BY <1>1, <1>2, <1>3 DEF Turn
<1>8. front \in Seq(S) /\ Len(front) = r /\ \A k \in 1..r : front[k] = [role |-> "tool", parts |-> <<results[k]>>]
  <2>1. DOMAIN front = 1..r /\ \A k \in 1..r : front[k] = [role |-> "tool", parts |-> <<results[k]>>]
    BY <1>3, <1>4
  <2>2. front \in [1..r -> S]
    BY <1>3, <1>4, <1>7
  <2> QED
    BY <1>3, <2>1, <2>2
<1>9. CASE m = 0
  <2>1. last = <<>>
    BY <1>2, <1>5, <1>9
  <2>2. turns = front
    BY <1>6, <1>8, <2>1
  <2> QED
    BY <1>1, <1>3, <1>8, <1>9, <2>2
<1>10. CASE m # 0
  <2>1. rest # <<>>
    BY <1>2, <1>10
  <2>2. PICK u : u = [role |-> "user", parts |-> rest]
    OBVIOUS
  <2>3. last = <<u>> /\ u \in S
    BY <1>1, <1>2, <1>5, <2>1, <2>2 DEF Turn
  <2>4. turns = Append(front, u)
    BY <1>6, <1>8, <2>3
  <2>5. Len(turns) = r + 1 /\ turns[r + 1] = u /\ \A k \in 1..r : turns[k] = front[k]
    BY <1>3, <1>8, <2>3, <2>4
  <2>6. DOMAIN turns = 1..(r + 1) /\ turns \in Seq(S)
    BY <1>3, <1>8, <2>3, <2>4
  <2> QED
    BY <1>1, <1>3, <1>8, <1>10, <2>2, <2>5, <2>6
<1> QED
  BY <1>9, <1>10

\* A message for each of these, and one more with the others: so many parts.
LEMMA PartsCounted ==
    ASSUME NEW r \in Nat, NEW m \in Nat
    PROVE  LET parts == ((1..r) \X {1}) \cup ({r + 1} \X (1..m))
           IN  Cardinality(parts) = r + m
<1>1. PICK A, B, C, D : A = 1..r /\ B = {1} /\ C = {r + 1} /\ D = 1..m
  OBVIOUS
<1>2. IsFiniteSet(A) /\ Cardinality(A) = r
  BY <1>1, FS_Interval
<1>3. IsFiniteSet(D) /\ Cardinality(D) = m
  BY <1>1, FS_Interval
<1>4. IsFiniteSet(B) /\ Cardinality(B) = 1 /\ IsFiniteSet(C) /\ Cardinality(C) = 1
  BY <1>1, FS_Singleton
<1>5. PICK P, Q : P = A \X B /\ Q = C \X D
  OBVIOUS
<1>6. IsFiniteSet(P) /\ Cardinality(P) = r * 1
  BY <1>2, <1>4, <1>5, FS_Product
<1>7. IsFiniteSet(Q) /\ Cardinality(Q) = 1 * m
  BY <1>3, <1>4, <1>5, FS_Product
<1>8. P \cap Q = {}
  <2>1. r + 1 \notin A
    BY <1>1
  <2>2. \A p \in P : p[1] \in A
    BY <1>5
  <2>3. \A p \in Q : p[1] = r + 1
    BY <1>1, <1>5
  <2> QED
    BY <2>1, <2>2, <2>3
<1>9. Cardinality(P \cap Q) = 0
  BY <1>8, FS_EmptySet
<1>10. Cardinality(P \cup Q) = Cardinality(P) + Cardinality(Q) - Cardinality(P \cap Q)
  BY <1>6, <1>7, FS_Union
<1>11. Cardinality(P \cup Q) = r + m
  BY <1>6, <1>7, <1>9, <1>10
<1> QED
  BY <1>1, <1>5, <1>11

\* However a reply mixes results and words, translateMessages puts its results
\* first, each in a message of its own, and loses and repeats nothing.
LEMMA ResultsComeFirst ==
    ASSUME NEW reply \in Seq(Part)
    PROVE  CallsAnsweredFirst(UserTurn(reply), reply)
<1>1. PICK results, rest, r, m, n, turns :
         /\ results = Results(reply) /\ rest = Rest(reply) /\ n = Len(reply)
         /\ r = Cardinality(Said(reply, "tool_result")) /\ m = n - r /\ turns = UserTurn(reply)
  OBVIOUS
<1>2. /\ r \in Nat /\ m \in Nat
      /\ DOMAIN turns = IF m = 0 THEN 1..r ELSE 1..(r + 1)
      /\ \A k \in 1..r : turns[k] = [role |-> "tool", parts |-> <<results[k]>>]
      /\ m # 0 => turns[r + 1] = [role |-> "user", parts |-> rest]
  BY <1>1, TurnsOfReply
<1>3. /\ results \in Seq(Part) /\ rest \in Seq(Part) /\ Len(results) = r /\ Len(rest) = m
      /\ \A k \in 1..r : At(reply, 1..n, results[k])
      /\ \A k \in 1..m : At(reply, 1..n, rest[k])
      /\ \A j \in 1..n : At(results, 1..r, reply[j]) \/ At(rest, 1..m, reply[j])
  BY <1>1, ResultsAndRest
<1>4. n \in Nat /\ DOMAIN reply = 1..n /\ r + m = n /\ DOMAIN rest = 1..m
  BY <1>1, <1>2, <1>3
<1>5. PICK parts : parts = UNION {{k} \X DOMAIN turns[k].parts : k \in DOMAIN turns}
  OBVIOUS
<1>6. \A k \in 1..r : turns[k].role = "tool" /\ turns[k].parts = <<results[k]>>
                      /\ DOMAIN turns[k].parts = {1}
  <2> SUFFICES ASSUME NEW k \in 1..r
               PROVE  turns[k].role = "tool" /\ turns[k].parts = <<results[k]>>
                      /\ DOMAIN turns[k].parts = {1}
    OBVIOUS
  <2>1. PICK x, turn : x = results[k] /\ turn = turns[k]
    OBVIOUS
  <2>2. turn = [role |-> "tool", parts |-> <<x>>]
    BY <1>2, <2>1
  <2>3. turn.role = "tool" /\ turn.parts = <<x>> /\ DOMAIN turn.parts = {1}
    BY <2>2
  <2> QED
    BY <2>1, <2>3
<1>7. m # 0 => turns[r + 1].role = "user" /\ turns[r + 1].parts = rest
  BY <1>2
<1>8. parts = ((1..r) \X {1}) \cup ({r + 1} \X (1..m))
  <2>1. CASE m = 0
    <3>1. 1..m = {} /\ DOMAIN turns = 1..r
      BY <1>2, <2>1
    <3>2. parts = UNION {{k} \X {1} : k \in 1..r}
      BY <1>5, <1>6, <3>1
    <3> QED
      BY <3>1, <3>2
  <2>2. CASE m # 0
    <3>1. DOMAIN turns = 1..r \cup {r + 1} /\ DOMAIN turns[r + 1].parts = 1..m
      BY <1>2, <1>4, <1>7, <2>2
    <3>2. ASSUME NEW k \in 1..r PROVE {k} \X DOMAIN turns[k].parts = {k} \X {1}
      BY <1>6
    <3>3. PICK F, K, l : /\ F = [k \in DOMAIN turns |-> {k} \X DOMAIN turns[k].parts]
                         /\ K = 1..r /\ l = r + 1
      OBVIOUS
    <3>4. DOMAIN F = K \cup {l} /\ F[l] = {l} \X (1..m) /\ \A k \in K : F[k] = {k} \X {1}
      BY <3>1, <3>2, <3>3
    <3>5. parts = UNION {F[k] : k \in DOMAIN F}
      BY <1>5, <3>3
    <3>6. parts = (UNION {F[k] : k \in K}) \cup F[l]
      BY <3>4, <3>5
    <3>7. UNION {F[k] : k \in K} = K \X {1}
      BY <3>4
    <3> QED
      BY <3>3, <3>4, <3>6, <3>7
  <2> QED
    BY <2>1, <2>2
<1>9. Cardinality(parts) = n
  BY <1>2, <1>4, <1>8, PartsCounted
<1>10. ASSUME NEW k \in DOMAIN turns PROVE turns[k].role = "tool" <=> k <= r
  <2>1. CASE k \in 1..r
    BY <1>2, <1>6, <2>1
  <2>2. CASE k = r + 1 /\ m # 0
    BY <1>2, <1>7, <2>2
  <2> QED
    BY <1>2, <2>1, <2>2
<1>11. ASSUME NEW p \in parts PROVE turns[p[1]].parts[p[2]] \in ToSet(reply)
  <2>1. CASE p \in (1..r) \X {1}
    <3>1. p[1] \in 1..r /\ p[2] = 1
      BY <2>1
    <3>2. turns[p[1]].parts = <<results[p[1]]>>
      BY <1>6, <3>1
    <3>3. turns[p[1]].parts[p[2]] = results[p[1]]
      BY <3>1, <3>2
    <3>4. At(reply, 1..n, results[p[1]])
      BY <1>3, <3>1
    <3> QED
      BY <1>4, <3>3, <3>4 DEF At, ToSet
  <2>2. CASE p \in {r + 1} \X (1..m)
    <3>1. p[1] = r + 1 /\ p[2] \in 1..m
      BY <2>2
    <3>2. m # 0
      BY <1>2, <3>1
    <3>3. turns[p[1]].parts[p[2]] = rest[p[2]]
      BY <1>7, <3>1, <3>2
    <3>4. At(reply, 1..n, rest[p[2]])
      BY <1>3, <3>1
    <3> QED
      BY <1>4, <3>3, <3>4 DEF At, ToSet
  <2> QED
    BY <1>8, <2>1, <2>2
<1>12. ASSUME NEW j \in 1..n PROVE \E p \in parts : turns[p[1]].parts[p[2]] = reply[j]
  <2>1. CASE At(results, 1..r, reply[j])
    <3>1. PICK k \in 1..r : results[k] = reply[j]
      BY <2>1 DEF At
    <3>2. <<k, 1>> \in parts
      BY <1>8
    <3>3. turns[k].parts[1] = reply[j]
      BY <1>6, <3>1
    <3>4. PICK p : p = <<k, 1>>
      OBVIOUS
    <3> QED
      BY <3>2, <3>3, <3>4
  <2>2. CASE At(rest, 1..m, reply[j])
    <3>1. PICK k \in 1..m : rest[k] = reply[j]
      BY <2>2 DEF At
    <3>2. m # 0
      BY <1>2
    <3>3. PICK p : p = <<r + 1, k>>
      OBVIOUS
    <3>4. p \in parts /\ p[1] = r + 1 /\ p[2] = k
      BY <1>8, <3>3
    <3>5. turns[p[1]].parts[p[2]] = reply[j]
      BY <1>7, <3>1, <3>2, <3>4
    <3> QED
      BY <3>4, <3>5
  <2> QED
    BY <1>3, <2>1, <2>2
<1>13. {turns[p[1]].parts[p[2]] : p \in parts} = ToSet(reply)
  <2>1. ToSet(reply) = {reply[j] : j \in 1..n}
    BY <1>4 DEF ToSet
  <2> QED
    BY <1>11, <1>12, <2>1
<1> QED
  BY <1>1, <1>5, <1>9, <1>10, <1>13 DEF CallsAnsweredFirst

\* Replies are made of parts.
LEMMA RepliesTyped ==
    ASSUME NEW blocks \in Seq(Good), NEW reply \in Replies(blocks)
    PROVE  reply \in Seq(Part)
<1>1. PICK calls : calls = {c \in DOMAIN blocks : blocks[c].heading.kind = "tool_use"}
  OBVIOUS
<1>2. PICK results : results = {Result(blocks[b].heading.call) : b \in calls}
  OBVIOUS
<1>3. PICK more : more \in {{Words}, {Words, Image}} /\ reply \in SetToSeqs(results \cup more)
  BY <1>1, <1>2 DEF Replies
<1>4. Words \in Part /\ Image \in Part
  BY DEF Words, Image, Part, NoCall
<1>5. ASSUME NEW b \in calls PROVE Result(blocks[b].heading.call) \in Part
  <2>1. blocks[b] \in Good
    BY <1>1
  <2>2. blocks[b].heading \in Heading
    BY <2>1 DEF Good, Block
  <2>3. blocks[b].heading.call \in Int
    BY <2>2, HeadingsTyped
  <2> QED
    BY <2>3 DEF Result, Part
<1>6. PICK S : S = results \cup more
  OBVIOUS
<1>7. S \subseteq Part
  BY <1>2, <1>3, <1>4, <1>5, <1>6
<1>8. IsFiniteSet(S)
  <2>1. IsFiniteSet(calls)
    <3>1. PICK n \in Nat : n = Len(blocks)
      OBVIOUS
    <3>2. IsFiniteSet(1..n) /\ calls \in SUBSET (1..n)
      BY <1>1, <3>1, FS_Interval
    <3> QED
      BY <3>2, FS_Subset
  <2>2. PICK f : f = [b \in calls |-> Result(blocks[b].heading.call)]
    OBVIOUS
  <2>3. f \in Surjection(calls, results)
    BY <1>2, <2>2 DEF Surjection
  <2>4. IsFiniteSet(results)
    BY <2>1, <2>3, FS_Surjection
  <2>5. IsFiniteSet({Words}) /\ IsFiniteSet({Image})
    BY FS_Singleton
  <2>6. IsFiniteSet({Words} \cup {Image})
    BY <2>5, FS_Union
  <2>7. IsFiniteSet(more)
    <3>1. {Words, Image} = {Words} \cup {Image}
      OBVIOUS
    <3> QED
      BY <1>3, <2>5, <2>6, <3>1
  <2> QED
    BY <1>6, <2>4, <2>7, FS_Union
<1>9. PICK n \in Nat : n = Cardinality(S)
  BY <1>8, FS_CardinalityType
<1>10. reply \in [1..n -> S]
  BY <1>3, <1>6, <1>9 DEF SetToSeqs
<1> QED
  BY <1>7, <1>9, <1>10

-----------------------------------------------------------------------------
(* The next turn                                                            *)

\* Once the client has replied, the source has ended and nothing is said any
\* more: the turn stays as faithful as it was made.
TurnMade(turns, reply, phase, ordered, w) ==
    turns # <<>> =>
        /\ phase = "ended"
        /\ ordered => Head(turns) = w
        /\ CallsAnsweredFirst(Tail(turns), reply)

TurnInv == TurnMade(request.turns, request.reply, upstream.phase, upstream.ordered, said)

LEMMA ReplyMakesTurn ==
    ASSUME StreamInv, SameAsWhole, Reply
    PROVE  TurnInv'
<1>1. PICK blocks \in Seq(Good) : blocks = message.blocks
  BY DEF StreamInv, StreamTyped, Message
<1>2. PICK w \in Completion : w = said
  BY DEF StreamInv, StreamTyped
<1>3. message.phase = "done" /\ upstream.phase = "ended" /\ upstream' = upstream /\ said' = said
  BY DEF Reply
<1>4. PICK reply \in Replies(blocks) :
         request' = [reply |-> reply, turns |-> <<AssistantTurn(blocks)>> \o UserTurn(reply)]
  BY <1>1 DEF Reply
<1>5. reply \in Seq(Part)
  BY <1>4, RepliesTyped
<1>6. CallsAnsweredFirst(UserTurn(reply), reply)
  BY <1>5, ResultsComeFirst
<1>7. PICK first, rest, turns : /\ first = AssistantTurn(blocks) /\ rest = UserTurn(reply)
                                /\ turns = <<first>> \o rest
  OBVIOUS
<1>8. PICK S : first \in S /\ rest \in Seq(S)
  <2>1. PICK results, others, r, m :
           /\ results = Results(reply) /\ others = Rest(reply)
           /\ r = Cardinality(Said(reply, "tool_result")) /\ m = Len(reply) - r
    OBVIOUS
  <2>2. rest \in Seq(Turn)
    BY <1>5, <1>7, <2>1, TurnsOfReply
  <2>3. PICK T, S : T = Turn /\ S = T \cup {first}
    OBVIOUS
  <2>4. rest \in Seq(S)
    BY <2>2, <2>3
  <2> QED
    BY <2>3, <2>4
<1>9. Head(turns) = first /\ Tail(turns) = rest
  BY <1>7, <1>8
<1>10. ASSUME upstream.ordered PROVE first = w
  <2>1. blocks = translateResponse(w)
    BY <1>1, <1>2, <1>3, <1>10 DEF SameAsWhole
  <2> QED
    BY <1>7, <2>1, TurnOfWhole
<1>11. request'.turns = turns /\ request'.reply = reply
  BY <1>4, <1>7
<1> QED
  BY <1>2, <1>3, <1>6, <1>7, <1>9, <1>10, <1>11 DEF TurnInv, TurnMade

LEMMA TurnStep ==
    ASSUME StreamInv, SameAsWhole, TurnInv, [Next]_vars
    PROVE  TurnInv'
<1>1. CASE Reply
  BY <1>1, ReplyMakesTurn
<1>2. CASE request' = request /\ upstream' = upstream /\ said' = said
  BY <1>2 DEF TurnInv
<1>3. CASE request' = request /\ request.turns = <<>>
  BY <1>3 DEF TurnInv, TurnMade
<1>4. CASE request' = request /\ upstream.phase = "ended" 
  <2>1. ASSUME NEW c \in Chunk, Speak(c) PROVE FALSE
    BY <1>4, <2>1 DEF Speak
  <2>2. ~SourceEnds /\ ~SourceBreaks
    BY <1>4 DEF SourceEnds, SourceBreaks
  <2>3. CASE Write \/ UNCHANGED vars
    BY <1>2, <2>3 DEF Write, vars
  <2> QED
    BY <1>1, <2>1, <2>2, <2>3 DEF Next
<1>5. Reply \/ request' = request
  BY DEF Next, Speak, SourceEnds, SourceBreaks, Write, vars
<1> QED
  BY <1>1, <1>3, <1>4, <1>5 DEF TurnInv, TurnMade

\* No stream is cut off: a source that has ended, whichever way and wherever, has
\* made the adapter send what completes the message, or an error, and there is
\* nothing else for the client to wait for once the queue is written out.
\* What MessageEnds adds to it is fairness.
THEOREM NothingCutOff ==
    Spec => [](upstream.phase = "ended" /\ queue = <<>> => message.phase \in {"done", "failed"})
<1>1. ASSUME StreamInv, upstream.phase = "ended", queue = <<>>
      PROVE  message.phase \in {"done", "failed"}
  <2>1. PICK S, n : Leads(S, message, queue, n) /\ n.phase \in {"done", "failed"}
    BY <1>1 DEF StreamInv, StreamInTouch, InTouch
  <2>2. n = message
    BY <1>1, <2>1, LeadsHere
  <2> QED
    BY <2>1, <2>2
<1> QED
  BY <1>1, StreamAlways, PTL

\* The client's next turn gives the upstream back what it has said, whatever
\* the message, and each call its result before anything else of the reply,
\* of which translateMessages loses nothing.
THEOREM NextTurnFaithful == Spec => []NextTurnIsFaithful
<1>1. Init => TurnInv
  BY DEF Init, TurnInv, TurnMade
<1>2. StreamInv /\ SameAsWhole /\ TurnInv /\ [Next]_vars => TurnInv'
  BY TurnStep
<1>3. TurnInv => NextTurnIsFaithful
  BY DEF TurnInv, TurnMade, NextTurnIsFaithful
<1> QED
  BY <1>1, <1>2, <1>3, StreamAlways, StreamedAsWhole, PTL DEF Spec
=============================================================================
