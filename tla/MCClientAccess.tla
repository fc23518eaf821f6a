--------------------------- MODULE MCClientAccess ---------------------------
(* Two clients and two keys that share their first characters.              *)
EXTENDS ClientAccess, TLC

CONSTANTS
    k1, k2, shared,   \* keys and their prefix
    admin, tenant,    \* clients
    full, less,       \* terms
    r1                \* the request

MCPrefixOf == (k1 :> shared) @@ (k2 :> shared)
Interchangeable == Permutations({k1, k2})

\* verdict is the last step only.  A fact of the past that no entry, write or
\* answer carries can only be served after the table has stated it again, and
\* then its age starts anew.
Carried == {cache[k].fact : k \in DOMAIN cache} \cup {fills[i].fact : i \in DOMAIN fills}
           \cup UNION {request[r].hit : r \in Request}
AccessView == <<rows, issued, cache, fills, request, touched,
                [f \in DOMAIN past \cap Carried |-> past[f]]>>
=============================================================================
