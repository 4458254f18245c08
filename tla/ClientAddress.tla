--------------------------- MODULE ClientAddress ---------------------------
(***************************************************************************)
(* Which address a request counts for: proxyHeaders of internal/web,       *)
(* ClientIPFromForwarded of internal/config and ClientIP of internal/geo.  *)
(* X-Forwarded-For is a sequence of addresses; the proxies in front of the *)
(* program, which are not part of it, append the address they got the      *)
(* request from, and those of Cloudflare set CF-Connecting-IP to it.       *)
(***************************************************************************)
EXTENDS Naturals, Sequences, SequencesExt

CONSTANTS
  Visitors,     \* addresses that are no proxy's
  Proxies,      \* reverse proxies of the installation
  Edges,        \* Cloudflare's
  Malformed,    \* what is no address
  Unset,        \* a header the request does not have; "" in the code
  MaxHops,      \* maxForwardedHops
  MaxSent,      \* bound: of the X-Forwarded-For a visitor makes up
  MaxWay        \* bound: the hops of a request

Addresses == Visitors \cup Proxies \cup Edges

ASSUME ClientAddressAssumption ==
  /\ MaxHops \in Nat /\ MaxSent \in Nat /\ MaxWay \in Nat
  /\ Malformed \notin Addresses /\ Unset \notin Addresses /\ Malformed # Unset
  /\ Visitors \cap (Proxies \cup Edges) = {} /\ Proxies \cap Edges = {}

\* TRUSTED_PROXIES and USE_CLOUDFLARE.
Configs == [trusted : SUBSET (Proxies \cup Edges), cloudflare : BOOLEAN]

-----------------------------------------------------------------------------
(* The program.                                                            *)

IsTrusted(config, address) == address \in config.trusted

\* Mutant: the entry nearest to the program is taken.
Rightmost(config, xff) == {i \in DOMAIN xff : i = Len(xff)}

\* The entries the walk from the right does not skip.
Untrusted(config, xff) == {i \in DOMAIN xff : ~IsTrusted(config, xff[i])}

ClientIPFromForwarded(config, xff, cf) ==
  LET hops == Untrusted(config, xff)
      client == xff[CHOOSE i \in hops : \A j \in hops : j <= i]
  IN  IF config.cloudflare /\ cf \in Addresses THEN cf
      ELSE IF Len(xff) > MaxHops \/ hops = {} \/ client = Malformed THEN Unset
      ELSE client

\* proxyHeaders, and ClientIP, which reads what it wrote.
ClientIP(config, peer, xff, cf) ==
  LET client == ClientIPFromForwarded(config, xff, cf)
  IN  IF ~IsTrusted(config, peer) \/ client = Unset THEN peer ELSE client

-----------------------------------------------------------------------------
(* The way of a request from a visitor to the program.                     *)

\* What a visitor may send in the headers, and the proxies it comes by.
Sent == SeqOf(Addresses \cup {Malformed}, MaxSent)
SentCF == Visitors \cup {Malformed, Unset}
\* Of all proxies on a way, Cloudflare's edge is the first.
Ways == {way \in SeqOf(Proxies \cup Edges, MaxWay) : \A i \in DOMAIN way : way[i] \in Edges => i = 1}

\* Who the hops of a way got the request from, and whom the program gets it from.
Chain(visitor, way) == <<visitor>> \o way
Forwarded(visitor, sent, way) == sent \o Front(Chain(visitor, way))
Peer(visitor, way) == Last(Chain(visitor, way))

FromEdge(way) == way # <<>> /\ way[1] \in Edges
ConnectingIP(visitor, cf, way) == IF FromEdge(way) THEN visitor ELSE cf

-----------------------------------------------------------------------------
(* What the rate limits, the analytics and the cookies' limits rest on.    *)

\* Every hop is a configured proxy, or Cloudflare's edge is told by its header; with
\* USE_CLOUDFLARE requests come through Cloudflare.
Configured(config, way) ==
  IF config.cloudflare /\ way # <<>>
  THEN FromEdge(way) /\ IsTrusted(config, Last(way))
  ELSE \A i \in DOMAIN way : IsTrusted(config, way[i])

\* The address of the visitor; the peer's if the header is too long to be read.
Expected(config, visitor, sent, way) ==
  IF config.cloudflare \/ Len(Forwarded(visitor, sent, way)) <= MaxHops
  THEN visitor ELSE Peer(visitor, way)

EveryWayResolves ==
  [visitor \in Visitors |->
     \A config \in Configs, way \in Ways, sent \in Sent, cf \in SentCF :
       Configured(config, way) =>
         ClientIP(config, Peer(visitor, way), Forwarded(visitor, sent, way),
                  ConnectingIP(visitor, cf, way))
           = Expected(config, visitor, sent, way)]

HeadersIgnored ==
  \A config \in Configs, peer \in Addresses, xff \in Sent, cf \in SentCF :
    ~IsTrusted(config, peer) => ClientIP(config, peer, xff, cf) = peer

=============================================================================
