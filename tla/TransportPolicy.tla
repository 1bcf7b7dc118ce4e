--------------------------- MODULE TransportPolicy ---------------------------
(***************************************************************************)
(* internal/transportpolicy/policy.go: which endpoints the agent may be    *)
(* configured with and which redirects its HTTP clients follow.  Pure: the *)
(* functions are operators over parsed URLs.                               *)
(***************************************************************************)
EXTENDS Naturals

CONSTANTS Hosts,          \* host names, in lower case
          LoopbackHosts,  \* those for which Loopback answers true
          NoHost,         \* a URL without a host name
          Ports,          \* port numbers
          MaxHops         \* requests of one exchange, redirects included; 10 in the code

\* The default ports are ports; a client sends at least one request.
TransportAssumption ==
  /\ LoopbackHosts \subseteq Hosts /\ NoHost \notin Hosts
  /\ Ports \subseteq Nat \ {0} /\ {80, 443} \subseteq Ports
  /\ MaxHops \in Nat \ {0}

\* A parsed URL.  Port 0 stands for no port; extra tells whether it has what an
\* endpoint must not have: a query, a fragment or an opaque part.
URL == [scheme : {"http", "https", "ws", "wss", "other"}, host : Hosts \cup {NoHost},
        port : Ports \cup {0}, user : {"no", "yes"}, extra : {"no", "yes"}]

\* What a machine may be configured with.
Config == [mode : {"", "production", "development", "other"},
           api : URL, socket : URL, localHTTP : {"no", "yes"}]

\* The mode in force: production unless a machine is told otherwise; "" is an error.
Mode(value, service) ==
  CASE value = "" -> IF service THEN "production" ELSE "development"
    [] value = "other" -> ""
    [] OTHER -> value

ValidateEndpoint(u, socket, production) ==
  LET plain  == IF socket THEN "ws" ELSE "http"
      secure == IF socket THEN "wss" ELSE "https"
  IN /\ u.host # NoHost /\ u.user = "no" /\ u.extra = "no"
     /\ \/ u.scheme = secure
        \/ ~production /\ u.scheme = plain /\ u.host \in LoopbackHosts

port(u) == CASE u.port # 0 -> u.port
             [] u.scheme = "https" -> 443
             [] OTHER -> 80

\* Mutant: Only the host is compared.
CheckRedirectHost(target, previous, hops) ==
  /\ hops < MaxHops
  /\ target.user = "no" /\ target.host # NoHost /\ target.scheme \in {"http", "https"}
  /\ target.host = previous.host

\* May a client that has sent hops requests, the last one to previous, follow a
\* redirect to target?
CheckRedirect(target, previous, hops) ==
  /\ hops < MaxHops
  /\ target.user = "no" /\ target.host # NoHost /\ target.scheme \in {"http", "https"}
  /\ previous.scheme = "https" => target.scheme = "https"
  /\ target.host = previous.host
  /\ \/ port(target) = port(previous)
     \/ /\ previous.scheme = "http" /\ target.scheme = "https"
        /\ port(previous) = 80 /\ port(target) = 443

\* internal/agent/runtime.go: both endpoints, under the mode in force.
validateEndpoints(cfg, mode) ==
  LET production == mode = "production"
  IN /\ production => cfg.localHTTP = "no"
     /\ ValidateEndpoint(cfg.api, FALSE, production)
     /\ ValidateEndpoint(cfg.socket, TRUE, production)
=============================================================================
