----------------------------- MODULE Supervisor -----------------------------
(***************************************************************************)
(* The privileged wg-supervisor (wg-supervisor/main.go): the commands it   *)
(* runs one at a time under opMu, and what they do to the container's      *)
(* network: the WireGuard interface, the default route, the /32 routes     *)
(* around the tunnel, the resolver, and the kill switch.                   *)
(*                                                                         *)
(* Every subprocess may fail or be killed by its timeout.  A command whose *)
(* caller gave up runs all the same.                                       *)
(***************************************************************************)
EXTENDS Integers

CONSTANTS Relay,  \* Mullvad relays
          Host,   \* the hosts of -bypass-hosts
          Api,    \* api.mullvad.net, always one of them
          Proc,   \* the callers on the Node side
          None

Op      == {"ADD_ROUTES", "TEARDOWN", "BRINGUP"}
Request == [id : Nat, op : Op, relay : Relay \cup {None}, hosts : SUBSET Host]
Reply   == [id : Nat, ok : BOOLEAN, hosts : SUBSET Host]
Rules   == [relay : Relay, hosts : SUBSET Host]

ASSUME SupervisorAssumption == /\ None \notin Relay \cup Rules \cup Request
                               /\ Api \in Host

VARIABLES
  \* the network namespace
  wg,          \* the peer of wg0, None if there is no such interface
  route,       \* the default route: "gateway", "tunnel" or "unreachable"
  relayRoutes, \* relays with a /32 route via the real gateway
  rules,       \* the chain that OUTPUT jumps to, None before it is installed
  routed,      \* hosts all of whose addresses have a /32 route via the real gateway
  resolv,      \* /etc/resolv.conf: "mullvad", or "other": Docker's, or what a failed write left
  conf,        \* the peer of wg0.conf on disk, or None
  \* the supervisor's memory
  endpoint,    \* relayEndpoint
  pinned,      \* pinnedHosts: resolved for good
  exempted,    \* the hosts whose addresses are in bypassIPs
  tunnelUp,
  step,        \* of the BRINGUP in progress: "idle", "tunnel" or "resolver"
  current,     \* that request
  \* the socket
  calls,       \* requests that wait for opMu
  replies,     \* responses their caller has not read
  awaits,      \* awaits[p]: the id of the request p waits for, 0 if none
  nextId

bypassVars == <<routed, pinned, exempted>>
netVars  == <<wg, route, relayRoutes, rules, resolv, conf>>
memVars  == <<endpoint, tunnelUp, step, current, bypassVars>>
sockVars == <<calls, replies, awaits, nextId>>
supVars  == <<netVars, memVars, sockVars>>

SupInit ==
  /\ wg = None /\ route = "gateway" /\ relayRoutes = {}
  /\ rules = None /\ resolv = "other" /\ conf = None
  /\ routed = {} /\ pinned = {} /\ exempted = {}
  /\ endpoint = None /\ tunnelUp = FALSE
  /\ step = "idle" /\ current = None
  /\ calls = {} /\ replies = {} /\ awaits = [p \in Proc |-> 0] /\ nextId = 1

\* Traffic through wg0 reaches Mullvad.
TunnelWorks ==
  /\ wg # None /\ route = "tunnel" /\ wg \in relayRoutes
  /\ rules # None => rules.relay = wg

----------------------------------------------------------------------------
(* The socket: one request and one response per connection.                *)

Send(p, o, r, hs) ==
  /\ calls' = calls \cup {[id |-> nextId, op |-> o, relay |-> r, hosts |-> hs]}
  /\ awaits' = [awaits EXCEPT ![p] = nextId]
  /\ nextId' = nextId + 1

Respond_Kept(c, ok, hs) ==                                          \* mutant
  /\ replies' = replies \cup {[id |-> c.id, ok |-> ok, hosts |-> hs]}
  /\ UNCHANGED <<awaits, nextId>>

\* writeResponse: lost when the caller has closed its connection.
Respond(c, ok, hs) ==
  /\ replies' = IF \E p \in Proc : awaits[p] = c.id
                THEN replies \cup {[id |-> c.id, ok |-> ok, hosts |-> hs]} ELSE replies
  /\ UNCHANGED <<awaits, nextId>>

\* Taking opMu: any of the waiting requests may be the next.
Take(c) == step = "idle" /\ c \in calls /\ calls' = calls \ {c}

----------------------------------------------------------------------------
(* doBringup *)

\* A field or the relay check refuses the request.
BringupRefused(c) ==
  /\ Take(c) /\ c.op = "BRINGUP"
  /\ Respond(c, FALSE, {})
  /\ UNCHANGED <<netVars, memVars>>

NewRules(r) == [relay |-> r, hosts |-> exempted]

\* Mutant: an error of applyKillSwitch is only logged.
BringupPolicy_Lenient(c) ==
  /\ Take(c) /\ c.op = "BRINGUP" /\ Api \in pinned
  /\ endpoint' = c.relay
  /\ rules' \in {rules, NewRules(c.relay)}
  /\ step' = "tunnel" /\ current' = c
  /\ UNCHANGED <<wg, route, relayRoutes, resolv, conf, bypassVars, tunnelUp, replies, awaits, nextId>>

\* The relay is listed (the list was fetched at the pinned addresses of api.mullvad.net)
\* and the kill switch is in place.
BringupPolicy(c) ==
  /\ Take(c) /\ c.op = "BRINGUP" /\ Api \in pinned
  /\ endpoint' = c.relay
  /\ rules' = NewRules(c.relay)
  /\ step' = "tunnel" /\ current' = c
  /\ UNCHANGED <<wg, route, relayRoutes, resolv, conf, bypassVars, tunnelUp, replies, awaits, nextId>>

\* applyKillSwitch failed, before or after it replaced the chain.
BringupPolicyFailed(c) ==
  /\ Take(c) /\ c.op = "BRINGUP" /\ Api \in pinned
  /\ endpoint' = c.relay
  /\ rules' \in {rules, NewRules(c.relay)}
  /\ Respond(c, FALSE, {})
  /\ UNCHANGED <<wg, route, relayRoutes, resolv, conf, bypassVars, tunnelUp, step, current>>

\* wg-quick up: refuses an existing interface, and its PostUp an existing relay route.
BringupTunnel ==
  LET r == current.relay IN
  /\ step = "tunnel" /\ wg = None /\ r \notin relayRoutes
  /\ conf' = r /\ wg' = r /\ route' = "tunnel"
  /\ relayRoutes' = relayRoutes \cup {r}
  /\ step' = "resolver"
  /\ UNCHANGED <<rules, resolv, endpoint, bypassVars, tunnelUp, current, sockVars>>

BringupDone(ok) ==
  /\ Respond(current, ok, {}) /\ UNCHANGED calls
  /\ step' = "idle" /\ current' = None

\* The config could not be written, or wg-quick up failed: it removes its interface again,
\* except when it is killed; PostUp may have added the relay route.
BringupTunnelFailed ==
  LET r     == current.relay
      fresh == wg = None /\ r \notin relayRoutes
  IN
  /\ step = "tunnel"
  /\ \/ conf' \in {conf, None} /\ UNCHANGED <<wg, route, relayRoutes>>
     \/ conf' = r /\ UNCHANGED <<wg, route, relayRoutes>>
     \/ conf' = r /\ fresh /\ relayRoutes' = relayRoutes \cup {r}
        /\ wg' \in {None, r}
        /\ route' \in IF wg' = r THEN {route, "tunnel"} ELSE {route}
     \/ conf' = r /\ wg = None /\ wg' = r /\ UNCHANGED <<route, relayRoutes>>
  /\ BringupDone(FALSE)
  /\ UNCHANGED <<rules, resolv, endpoint, bypassVars, tunnelUp>>

BringupResolver ==
  /\ step = "resolver"
  /\ resolv' = "mullvad" /\ tunnelUp' = TRUE
  /\ BringupDone(TRUE)
  /\ UNCHANGED <<wg, route, relayRoutes, rules, conf, endpoint, bypassVars>>

\* wg-quick down: does nothing without config and interface; killed, it may have run PreDown.
WgQuickDown ==
  \/ UNCHANGED <<wg, route, relayRoutes>>
  \/ /\ wg # None /\ conf # None
     /\ route' = "unreachable"
     /\ \/ wg' = None /\ relayRoutes' = relayRoutes \ {conf}
        \/ UNCHANGED wg /\ relayRoutes' \in {relayRoutes, relayRoutes \ {conf}}

\* The write failed, before or after it truncated the file; the tunnel is taken down.
BringupResolverFailed ==
  /\ step = "resolver"
  /\ resolv' \in {resolv, "other"}
  /\ WgQuickDown
  /\ BringupDone(FALSE)
  /\ UNCHANGED <<rules, conf, endpoint, bypassVars, tunnelUp>>

\* Mutant: the flag follows only when wg-quick down went through.
Teardown_FlagLater(c) ==
  /\ Take(c) /\ c.op = "TEARDOWN"
  /\ WgQuickDown
  /\ tunnelUp' = (tunnelUp /\ route' # "unreachable")
  /\ resolv' \in {resolv, "other"} /\ conf' \in {None, conf}
  /\ Respond(c, TRUE, {})
  /\ UNCHANGED <<rules, endpoint, bypassVars, step, current>>

(* doTeardown: only the flag is sure to follow.  Errors of wg-quick down and *)
(* of the write that restores the resolver are ignored, and secureUnlink     *)
(* returns early when it cannot open the config file.                        *)
Teardown(c) ==
  /\ Take(c) /\ c.op = "TEARDOWN"
  /\ WgQuickDown
  /\ tunnelUp' = FALSE
  /\ resolv' \in {resolv, "other"} /\ conf' \in {None, conf}
  /\ Respond(c, TRUE, {})
  /\ UNCHANGED <<rules, endpoint, bypassVars, step, current>>

----------------------------------------------------------------------------
(* doAddRoutes *)

\* bypassResolver: a pinned host is not resolved again.
Resolvable(hs) == IF tunnelUp \/ endpoint = None THEN hs ELSE hs \cap pinned

\* The firewall takes up the accumulated bypassIPs, if there is a kill switch yet.
ExemptHosts(c, done) ==
  \/ endpoint = None /\ Respond(c, TRUE, done) /\ UNCHANGED rules
  \/ /\ endpoint # None
     /\ rules' = [relay |-> endpoint, hosts |-> exempted']
     /\ Respond(c, TRUE, done)
  \/ /\ endpoint # None                       \* applyKillSwitch failed
     /\ rules' \in {rules, [relay |-> endpoint, hosts |-> exempted']}
     /\ Respond(c, FALSE, {})

\* Mutant: a host is pinned and exempted before its addresses are routed.
AddRoutes_ExemptFirst(c) ==
  /\ Take(c) /\ c.op = "ADD_ROUTES"
  /\ \E found \in SUBSET Resolvable(c.hosts) : \E done \in SUBSET found :
       /\ routed' = routed \cup done
       /\ pinned' = pinned \cup found /\ exempted' = exempted \cup found
       /\ ExemptHosts(c, done)
  /\ UNCHANGED <<wg, route, relayRoutes, resolv, conf, endpoint, tunnelUp, step, current>>

\* Each host is resolved, routed address by address, and only when all of that worked
\* pinned and exempted; one that fails is skipped, and a route it got leads past no rule.
AddRoutes(c) ==
  /\ Take(c) /\ c.op = "ADD_ROUTES"
  /\ \E done \in SUBSET Resolvable(c.hosts) :
       /\ routed' = routed \cup done
       /\ pinned' = pinned \cup done /\ exempted' = exempted \cup done
       /\ ExemptHosts(c, done)
  /\ UNCHANGED <<wg, route, relayRoutes, resolv, conf, endpoint, tunnelUp, step, current>>

SupNext ==
  \/ \E c \in calls : \/ BringupRefused(c) \/ BringupPolicy(c) \/ BringupPolicyFailed(c)
                      \/ Teardown(c) \/ AddRoutes(c)
  \/ BringupTunnel \/ BringupTunnelFailed
  \/ BringupResolver \/ BringupResolverFailed

----------------------------------------------------------------------------
(* The types; every field of the supervisor and of the network.              *)
SupTypeOK ==
  /\ wg \in Relay \cup {None} /\ conf \in Relay \cup {None} /\ endpoint \in Relay \cup {None}
  /\ route \in {"gateway", "tunnel", "unreachable"}
  /\ relayRoutes \subseteq Relay
  /\ rules \in Rules \cup {None}
  /\ resolv \in {"mullvad", "other"}
  /\ routed \subseteq Host /\ pinned \subseteq Host /\ exempted \subseteq Host /\ tunnelUp \in BOOLEAN
  /\ step \in {"idle", "tunnel", "resolver"}
  /\ current \in Request \cup {None}
  /\ calls \subseteq Request /\ replies \subseteq Reply
  /\ awaits \in [Proc -> Nat] /\ nextId \in Nat \ {0}
=============================================================================
