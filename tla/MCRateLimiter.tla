--------------------------- MODULE MCRateLimiter ---------------------------
\* Model-checking instance of RateLimiter: the messages of a key are alike.
EXTENDS RateLimiter, TLC

Perms == Permutations(Messages) \cup Permutations(Keys)
=============================================================================
