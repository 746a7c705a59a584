--------------------------- MODULE MCRateLimiter ---------------------------
(* The rate limiter for TLC: two API processes, two users, two client   *)
(* addresses.                                                             *)
EXTENDS RateLimiter
CONSTANTS i1, i2, u1, u2, h1, h2

(* Both processes read the server's time.                                 *)
MCSyncedClocks == [i \in {i1, i2} |-> 0]

(* i1's clock runs one tick ahead of the server's and of i2's.           *)
MCSkewedClocks == [i \in {i1, i2} |-> IF i = i1 THEN 1 ELSE 0]

(* Two users behind one address (a proxy or NAT).                        *)
MCSharedHost == {<<u1, h1>>, <<u2, h1>>}

(* One user sending from two addresses.                                   *)
MCRoamingUser == {<<u1, h1>>, <<u1, h2>>}
=============================================================================
