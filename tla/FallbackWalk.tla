---------------------------- MODULE FallbackWalk ----------------------------
(***************************************************************************)
(* What a caller of the routing service may rely on, whatever the strategy *)
(* and the state of the circuit breakers: the positions of a chain are     *)
(* consumed one way only, each at most once, one upstream is asked at a    *)
(* time, an answer ends the walk, and only an exhausted chain may fail.    *)
(***************************************************************************)
EXTENDS Integers

CONSTANTS
    Caller,     \* requests
    ChainSize   \* the lengths chains may have, all positive

VARIABLES
    todo,     \* the positions of its chain a caller has not given up yet
    asking,   \* the position whose provider it waits for, 0 for none
    outcome   \* "none" before it asks, "pending", "ok" or "failed"

walkVars == <<todo, asking, outcome>>

Init ==
    /\ todo = [c \in Caller |-> {}]
    /\ asking = [c \in Caller |-> 0]
    /\ outcome = [c \in Caller |-> "none"]

\* From the positions in `left', skip some and ask one, or find none usable.
Proceed(c, left) ==
    \/ \E next \in left, skipped \in SUBSET left :
          /\ next \notin skipped
          /\ todo' = [todo EXCEPT ![c] = left \ skipped]
          /\ asking' = [asking EXCEPT ![c] = next]
          /\ outcome' = [outcome EXCEPT ![c] = "pending"]
    \/ /\ todo' = [todo EXCEPT ![c] = {}]
       /\ asking' = [asking EXCEPT ![c] = 0]
       /\ outcome' = [outcome EXCEPT ![c] = "failed"]

Begin(c) ==
    /\ outcome[c] = "none"
    /\ \E n \in ChainSize : Proceed(c, 1..n)

\* The provider at the asked position failed: that position is spent.
Reject(c) ==
    /\ asking[c] # 0
    /\ todo' = [todo EXCEPT ![c] = @ \ {asking[c]}]
    /\ asking' = [asking EXCEPT ![c] = 0]
    /\ UNCHANGED outcome

Resume(c) ==
    /\ outcome[c] = "pending"
    /\ asking[c] = 0
    /\ Proceed(c, todo[c])

Answer(c) ==
    /\ asking[c] # 0
    /\ todo' = [todo EXCEPT ![c] = {}]
    /\ asking' = [asking EXCEPT ![c] = 0]
    /\ outcome' = [outcome EXCEPT ![c] = "ok"]

Leave(c) ==
    /\ outcome[c] \in {"ok", "failed"}
    /\ outcome' = [outcome EXCEPT ![c] = "none"]
    /\ UNCHANGED <<todo, asking>>

Next == \E c \in Caller : Begin(c) \/ Reject(c) \/ Resume(c) \/ Answer(c) \/ Leave(c)

Spec == Init /\ [][Next]_walkVars
=============================================================================
