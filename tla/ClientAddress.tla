--------------------------- MODULE ClientAddress ----------------------------
(***************************************************************************)
(* Whose request it is: TrustedProxyIP of internal/httpapi/trusted_ip.go,  *)
(* and the proxies in front of the hub.  Addresses are opaque; an entry of *)
(* a header that is no address is NoAddr.  The hub listens on TCP, so the  *)
(* peer's address always parses.                                           *)
(***************************************************************************)
EXTENDS Integers, Sequences

CONSTANTS
  Addrs,        \* addresses
  Trusted,      \* the addresses inside CAMHUB_TRUSTED_PROXIES
  Proxies,      \* proxies in front of the hub
  Tunnels,      \* those that forward the connection: nginx's stream block
  Replacing,    \* those that overwrite X-Forwarded-For: the Caddy in front
  Routes,       \* the proxies a request passes, in order
  NoAddr        \* a header entry that does not parse, or no entry at all

ASSUME AddrsAssumption ==
  /\ Trusted \subseteq Addrs
  /\ Proxies \subseteq Trusted
  /\ Tunnels \subseteq Proxies /\ Replacing \subseteq Proxies
  /\ Routes \subseteq {<<>>} \cup {<<p>> : p \in Proxies} \cup (Proxies \X Proxies)
  /\ NoAddr \notin Addrs

\* (mutant) The walk goes from left to right.
WalkXFFForwards(hops) ==
  {hops[i] : i \in {j \in DOMAIN hops :
                      /\ hops[j] \notin Trusted
                      /\ \A k \in 1 .. j - 1 : hops[k] \in Trusted}} \ {NoAddr}

\* The rightmost hop that is not trusted; none if all are trusted or what
\* stands there is no address.
WalkXFF(hops) ==
  {hops[i] : i \in {j \in DOMAIN hops :
                      /\ hops[j] \notin Trusted
                      /\ \A k \in j + 1 .. Len(hops) : hops[k] \in Trusted}} \ {NoAddr}

\* X-Forwarded-For, then X-Real-IP, then the peer; headers count only when
\* the peer is trusted.
ClientIP(peer, xff, realIP) ==
  IF peer \notin Trusted THEN peer
  ELSE IF WalkXFF(xff) # {} THEN CHOOSE a \in WalkXFF(xff) : TRUE
  ELSE IF realIP # NoAddr THEN realIP
  ELSE peer

-----------------------------------------------------------------------------
(* The way a request takes.  A tunnel passes the connection on and can     *)
(* write no header; of the proxies that speak HTTP some put their caller   *)
(* in place of X-Forwarded-For and some add it at the end.  X-Real-IP      *)
(* passes as it was sent.                                                  *)

Passed(hop, caller, xff) ==
  IF hop \in Tunnels THEN xff
  ELSE IF hop \in Replacing THEN <<caller>>
  ELSE Append(xff, caller)

\* The X-Forwarded-For the hub gets of what the client sent.
ForwardedFor(client, route, sent) ==
  LET first == Passed(route[1], client, sent)
  IN IF route = <<>> THEN sent
     ELSE IF Len(route) = 1 THEN first
     ELSE Passed(route[2], route[1], first)

Peer(client, route) == IF route = <<>> THEN client ELSE route[Len(route)]

\* The client's address reaches the hub: as its peer, or in the header.  Not
\* so on the production route, a tunnel and then a replacing proxy.
Named(route) ==
  \/ route = <<>>
  \/ /\ route[1] \notin Tunnels
     /\ Len(route) = 2 => route[2] \notin Replacing

=============================================================================
