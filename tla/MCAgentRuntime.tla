--------------------------- MODULE MCAgentRuntime ---------------------------
(* A machine with a production and a development configuration that are     *)
(* accepted and three that are not; a server that redirects anywhere.       *)
EXTENDS AgentRuntime

Url(scheme, host, number) ==
  [scheme |-> scheme, host |-> host, port |-> number, user |-> "no", extra |-> "no"]

MCHosts == {"server", "other", "local"}
MCLoopback == {"local"}

Accepted == {
  [mode |-> "", api |-> Url("https", "server", 0), socket |-> Url("wss", "server", 0),
   localHTTP |-> "no"],
  [mode |-> "development", api |-> Url("http", "local", 80),
   socket |-> Url("ws", "local", 80), localHTTP |-> "yes"]}

Refused == {
  [mode |-> "development", api |-> Url("http", "server", 80),
   socket |-> Url("wss", "server", 0), localHTTP |-> "no"],
  [mode |-> "", api |-> Url("http", "local", 80), socket |-> Url("wss", "server", 0),
   localHTTP |-> "no"],
  [mode |-> "production", api |-> Url("https", "server", 0),
   socket |-> Url("wss", "server", 0), localHTTP |-> "yes"]}

MCConfigs == Accepted \cup Refused

MCTargets == {Url("https", "server", 443), Url("http", "server", 80), Url("https", "other", 443),
              Url("https", "local", 0), Url("http", "local", 443)}
=============================================================================
