---------------------------- MODULE MCLoginGate -----------------------------
(* Instances of LoginGate for TLC. *)
EXTENDS LoginGate, TLC

CONSTANTS c1, c2, nx, px, ax, s1, s2

\* Straight to the hub, through Caddy alone, the production route through
\* nginx's tunnel and Caddy, and through proxies that append.
Ways == {<<>>, <<px>>, <<nx, px>>, <<ax>>, <<px, ax>>}

\* Headers as sent: none, an address of each kind, and something that is no
\* address.
Headers == {<<>>, <<c2>>, <<px>>, <<c2, px>>, <<NoAddr>>}

Swap == Permutations({s1, s2})

=============================================================================
