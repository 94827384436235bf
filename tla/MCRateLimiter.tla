---------------------------- MODULE MCRateLimiter ----------------------------
EXTENDS RateLimiter, TLC

Interchangeable == Permutations(Keys)
=============================================================================
