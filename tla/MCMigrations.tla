---------------------------- MODULE MCMigrations ----------------------------
EXTENDS Migrations

CONSTANTS gateway, other

Files == {gateway, other}

\* Doppler has the path; the shell or .env has another; Doppler has none; no token.
Supplied == [token |-> TRUE, secret |-> other, local |-> None]
Exported == [token |-> TRUE, secret |-> other, local |-> gateway]
Silent   == [token |-> TRUE, secret |-> None, local |-> other]
Offline  == [token |-> FALSE, secret |-> other, local |-> None]

Found ==
    {e \in [Process -> {Supplied, Exported, Silent, Offline}] :
        e["server"] \in {Supplied, Offline} \/ e["cli"] = e["server"]}
=============================================================================
