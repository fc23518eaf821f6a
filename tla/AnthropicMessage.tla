-------------------------- MODULE AnthropicMessage --------------------------
(***************************************************************************)
(* What a client of POST /v1/messages may expect of a stream: one message  *)
(* that starts once, consists of content blocks one after another, each    *)
(* opened, extended and closed before the next, and ends once, or an error *)
(* at any point.                                                           *)
(***************************************************************************)
EXTENDS Naturals, Sequences

CONSTANTS
    Heading,  \* what a block can be: text, thinking, a call
    Piece     \* what a delta adds to it

VARIABLES phase, blocks

Phase == {"before", "between", "inside", "stopping", "done", "failed"}

Init == phase = "before" /\ blocks = <<>>

Start ==
    /\ phase = "before" /\ phase' = "between"
    /\ UNCHANGED blocks

Open(heading) ==
    /\ phase = "between" /\ phase' = "inside"
    /\ blocks' = Append(blocks, [heading |-> heading, pieces |-> <<>>])

Extend(piece) ==
    /\ phase = "inside"
    /\ blocks' = [blocks EXCEPT ![Len(blocks)].pieces = Append(@, piece)]
    /\ UNCHANGED phase

Close ==
    /\ phase = "inside" /\ phase' = "between"
    /\ UNCHANGED blocks

Stop ==
    /\ \/ phase = "between" /\ phase' = "stopping"
       \/ phase = "stopping" /\ phase' = "done"
    /\ UNCHANGED blocks

Fail ==
    /\ phase # "failed" /\ phase' = "failed"
    /\ UNCHANGED blocks

Next ==
    \/ Start \/ Close \/ Stop \/ Fail
    \/ \E heading \in Heading : Open(heading)
    \/ \E piece \in Piece : Extend(piece)

Spec == Init /\ [][Next]_<<phase, blocks>>
=============================================================================
