------------------------- MODULE MCProviderRegistry -------------------------
(* One editable alias, which is also the default one, over two providers    *)
(* that serve the same model key.                                           *)
EXTENDS ProviderRegistry, TLC

CONSTANTS
    code, qwen, other,       \* names
    set, unset, moved,       \* endpoints with and without a key in the environment
    real,                    \* a model upstream
    r1                       \* the request

\* call is the last step only; nothing reads it.
RegistryView == <<tables, endpoint, clients, held>>

MCProvider == {1, 2}
MCSeedModels == <<1, qwen>> :> real
MCSeed == code :> <<<<1, qwen>>>>
MCSeedEndpoint == (1 :> set) @@ (2 :> "absent")
=============================================================================
