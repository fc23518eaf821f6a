--------------------------- MODULE MCRateLimiter ----------------------------
EXTENDS RateLimiter

CONSTANTS r1, r2
=============================================================================
