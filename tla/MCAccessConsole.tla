--------------------------- MODULE MCAccessConsole ---------------------------
EXTENDS AccessConsole, TLC

CONSTANTS app, batch, fast, first, second

Clients  == {app, batch}
Aliases  == {fast}
Slots    == {first, second}
Symmetry == Permutations(Clients) \cup Permutations(Slots)
=============================================================================
