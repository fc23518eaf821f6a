---------------------------- MODULE AliasChains ----------------------------
(***************************************************************************)
(* What an operator may rely on: an alias is a list of chain entries, and  *)
(* an entry carries its own priority and weight wherever it moves.  How    *)
(* the gateway keeps this in three tables is AliasTables.                  *)
(***************************************************************************)
EXTENDS Naturals, Sequences

CONSTANTS Alias, Path, Strategy, Default, MaxChain

VARIABLES
    chain,   \* the entries of each alias; empty: there is no such alias
    choice   \* how each alias picks among them

EntryType == [path : Path, priority : Nat, weight : Nat \ {0}]
Plain(e)  == e \in EntryType /\ e.priority = 0 /\ e.weight = 1

\* A chain of plain entries, as a seed file or an operator creates it.
Fresh(c) ==
    /\ c # <<>>
    /\ \A i \in 1..Len(c) : Plain(c[i])

\* Alias a alone has a new chain.
Becomes(a, c) == chain' = [chain EXCEPT ![a] = c]

Init ==
    /\ DOMAIN chain = Alias
    /\ \A a \in Alias : chain[a] = <<>> \/ Fresh(chain[a])
    /\ choice = [a \in Alias |-> Default]

\* A new alias starts from its paths alone, whatever had its name before.
Create(a) ==
    LET new == chain'[a]
    IN  /\ chain[a] = <<>>
        /\ Fresh(new) /\ Len(new) <= MaxChain
        /\ Becomes(a, new)
        /\ \E s \in Strategy : choice' = [choice EXCEPT ![a] = s]

Drop(a) ==
    /\ Becomes(a, <<>>)
    /\ choice' = [choice EXCEPT ![a] = Default]

Extend(a) ==
    LET old == chain[a]
    IN  /\ old # <<>> /\ Len(old) < MaxChain
        /\ \E p \in Path : Becomes(a, Append(old, [path |-> p, priority |-> 0, weight |-> 1]))
        /\ UNCHANGED choice

\* One entry goes; every other stays as it was, and in its order.
Withdraw(a) ==
    LET old == chain[a]
    IN  /\ Len(old) > 1
        /\ \E k \in 1..Len(old) :
              Becomes(a, [i \in 1..(Len(old) - 1) |-> IF i < k THEN old[i] ELSE old[i + 1]])
        /\ UNCHANGED choice

\* Priorities and weights change in place, paths do not.
Retune(a) ==
    LET old == chain[a]
        new == chain'[a]
    IN  /\ Len(new) = Len(old)
        /\ \A i \in 1..Len(old) : new[i] \in EntryType /\ new[i].path = old[i].path
        /\ Becomes(a, new)
        /\ UNCHANGED choice

Switch(a) ==
    /\ chain[a] # <<>>
    /\ \E s \in Strategy : choice' = [choice EXCEPT ![a] = s]
    /\ UNCHANGED chain

Next == \E a \in Alias :
    Create(a) \/ Drop(a) \/ Extend(a) \/ Withdraw(a) \/ Retune(a) \/ Switch(a)

Spec == Init /\ [][Next]_<<chain, choice>>
=============================================================================
