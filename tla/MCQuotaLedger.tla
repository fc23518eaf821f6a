--------------------------- MODULE MCQuotaLedger ---------------------------
(* One client, a gated alias and an open one that requests are diverted to. *)
EXTENDS QuotaLedger, FiniteSetsExt, TLC
CONSTANTS codex, slave, MaxTotal, MaxMissed

Total(f) == MapThenSumSet(LAMBDA e : f[e], Entry)

\* How far the counters are explored: the gated alias to its overshoot and
\* beyond, the traffic of the open one to its first token.
Explored ==
    /\ Total(logTokens) < MaxTotal
    /\ Total(tokens) <= MaxTotal
    /\ Total(missed) <= MaxMissed
    /\ \A k \in Client, a \in Alias \ Gated, m \in Month :
          /\ logTokens[<<k, a, m>>] = 0 /\ tokens[<<k, a, m>>] = 0
          /\ limitOf[<<k, a>>] <= 1

Slots == Permutations(Request)

\* No action reads `appended'; EachMonthPaysItsOwn reads it in the step that writes it.
WithoutAppended == <<store, tokens, logTokens, month, requests, missed>>

MCAllowlists == {{codex}}
AllWrites == BOOLEAN
SafeWrites == {TRUE}
=============================================================================
