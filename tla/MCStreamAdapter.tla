-------------------------- MODULE MCStreamAdapter ---------------------------
EXTENDS StreamAdapter
=============================================================================
