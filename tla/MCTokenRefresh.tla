--------------------------- MODULE MCTokenRefresh ---------------------------
(* Three goroutines that make one call each, in any order, and one crash.    *)
EXTENDS TokenRefresh

CONSTANTS c1, c2, c3
=============================================================================
