----------------------------- MODULE VpnControl -----------------------------
(***************************************************************************)
(* The Node side of the VPN, composed with the supervisor: setup, country  *)
(* switch and teardown (mullvad/index.ts, mullvad/wireguard.ts), the RPC   *)
(* client that gives up after 60 s (mullvad/supervisor-rpc.ts), the health *)
(* probes and the gate (mullvad/health.ts), and the shutdown (index.ts).   *)
(*                                                                         *)
(* One run of the container: it ends with phase "down", and a new one      *)
(* starts in a fresh network namespace.                                    *)
(***************************************************************************)
EXTENDS Supervisor

CONSTANT MaxCalls   \* bound: no country switch starts after so many requests

Probe  == {"iface", "routing"}
Health == [iface : BOOLEAN, routing : BOOLEAN, fresh : SUBSET Probe]

ASSUME VpnAssumption == /\ Proc = {"main", "switch"} /\ MaxCalls \in Nat
                        /\ None \notin Health

VARIABLES
  phase,      \* of the process: "starting", "serving", "stopping" or "down"
  main,       \* where main() or the signal handler waits
  switchPc,   \* where switchMullvadCountry waits, "idle" if it does not run
  switching,
  target,     \* the relay of the BRINGUP to come
  bypassIPs,  \* utils/url.ts: hosts the app refuses to fetch from
  health,     \* the health state, None while the check is off
  probing     \* probes under way; "answered": the tunnel let the routing probe's answer through

nodeVars == <<phase, main, switchPc, switching, target, bypassIPs, health, probing>>
vars     == <<supVars, nodeVars>>

Init ==
  /\ SupInit
  /\ phase = "starting" /\ main = "start" /\ switchPc = "idle" /\ switching = FALSE
  /\ target \in Relay
  /\ bypassIPs = {} /\ health = None /\ probing = {}

\* isVpnHealthy.
Gate == health = None \/ (~switching /\ health.iface /\ health.routing /\ health.fresh = Probe)

----------------------------------------------------------------------------
(* The RPC client. *)

\* The response arrived.
Answered(p, ok, hs) ==
  /\ \E a \in replies : a.id = awaits[p] /\ a.ok = ok /\ a.hosts = hs
  /\ replies' = {a \in replies : a.id # awaits[p]}

\* The call failed or timed out: its request may still wait or run.
GaveUp(p) == replies' = {a \in replies : a.id # awaits[p]}

\* The end of a call that only its success or failure matters of.
Ended(p, ok) == Answered(p, ok, {}) \/ (~ok /\ GaveUp(p))

NoCall(p) == awaits' = [awaits EXCEPT ![p] = 0] /\ UNCHANGED <<calls, nextId>>

\* routeBypasses after its call: on an error the set stays as it is.
RoutesEnded(p) ==
  \/ \E hs \in SUBSET Host : Answered(p, TRUE, hs) /\ bypassIPs' = hs
  \/ (Answered(p, FALSE, {}) \/ GaveUp(p)) /\ UNCHANGED bypassIPs

----------------------------------------------------------------------------
(* setupMullvad and startVpnHealthCheck *)

Exit == phase' = "down" /\ main' = "exited"

\* The token, the removal of old devices and the relay list come first.
SetupRoutes ==
  /\ phase = "starting" /\ main = "start"
  /\ Send("main", "ADD_ROUTES", None, Host) /\ main' = "routing"
  /\ UNCHANGED <<netVars, memVars, replies, phase, switchPc, switching, target, bypassIPs,
                 health, probing>>

SetupFails ==          \* one of those, or createDevice, throws
  /\ phase = "starting" /\ main \in {"start", "creating"}
  /\ Exit
  /\ UNCHANGED <<supVars, switchPc, switching, target, bypassIPs, health, probing>>

SetupRouted ==
  /\ main = "routing"
  /\ RoutesEnded("main") /\ NoCall("main") /\ main' = "creating"
  /\ UNCHANGED <<netVars, memVars, phase, switchPc, switching, target, health, probing>>

SetupCreated ==        \* createDevice and the device file (Startup); then stopTunnel
  /\ main = "creating"
  /\ Send("main", "TEARDOWN", None, {}) /\ main' = "clearing"
  /\ UNCHANGED <<netVars, memVars, replies, phase, switchPc, switching, target, bypassIPs,
                 health, probing>>

SetupCleared ==        \* stopTunnel ignores its errors
  /\ main = "clearing"
  /\ \E ok \in BOOLEAN : Ended("main", ok)
  /\ Send("main", "BRINGUP", target, {}) /\ main' = "bringing"
  /\ UNCHANGED <<netVars, memVars, phase, switchPc, switching, target, bypassIPs, health, probing>>

SetupUp ==
  /\ main = "bringing"
  /\ Ended("main", TRUE) /\ NoCall("main") /\ main' = "probing"
  /\ UNCHANGED <<netVars, memVars, phase, switchPc, switching, target, bypassIPs, health, probing>>

SetupNotUp ==          \* deregisterDevice (module Startup), then main's catch exits
  /\ main = "bringing"
  /\ Ended("main", FALSE) /\ NoCall("main")
  /\ Exit
  /\ UNCHANGED <<netVars, memVars, switchPc, switching, target, bypassIPs, health, probing>>

\* The first checks passed, and the server listens.
Serve ==
  /\ main = "probing" /\ wg # None /\ TunnelWorks
  /\ health' = [iface |-> TRUE, routing |-> TRUE, fresh |-> Probe]
  /\ phase' = "serving" /\ main' = "serving"
  /\ UNCHANGED <<supVars, switchPc, switching, target, bypassIPs, probing>>

ServeRefused ==
  /\ main = "probing"
  /\ Exit
  /\ UNCHANGED <<supVars, switchPc, switching, target, bypassIPs, health, probing>>

----------------------------------------------------------------------------
(* switchMullvadCountry *)

SwitchStart ==
  /\ main \in {"serving", "closing"} /\ ~switching /\ nextId <= MaxCalls
  /\ switching' = TRUE /\ switchPc' = "routing"
  /\ Send("switch", "ADD_ROUTES", None, Host)
  /\ UNCHANGED <<netVars, memVars, replies, phase, main, target, bypassIPs, health, probing>>

SwitchRouted ==
  /\ switchPc = "routing"
  /\ RoutesEnded("switch") /\ NoCall("switch") /\ switchPc' = "finding"
  /\ UNCHANGED <<netVars, memVars, phase, main, switching, target, health, probing>>

SwitchEnds_NoReset == switchPc' = "idle" /\ UNCHANGED switching   \* mutant
SwitchEnds == switchPc' = "idle" /\ switching' = FALSE     \* the finally

SwitchNotFound ==      \* the relay list or the location fails, the tunnel stays
  /\ switchPc = "finding"
  /\ SwitchEnds
  /\ UNCHANGED <<supVars, phase, main, target, bypassIPs, health, probing>>

SwitchFound(r) ==
  /\ switchPc = "finding"
  /\ target' = r
  /\ Send("switch", "TEARDOWN", None, {}) /\ switchPc' = "clearing"
  /\ UNCHANGED <<netVars, memVars, replies, phase, main, switching, bypassIPs, health, probing>>

SwitchCleared ==
  /\ switchPc = "clearing"
  /\ \E ok \in BOOLEAN : Ended("switch", ok)
  /\ Send("switch", "BRINGUP", target, {}) /\ switchPc' = "bringing"
  /\ UNCHANGED <<netVars, memVars, phase, main, switching, target, bypassIPs, health, probing>>

SwitchDone ==          \* success or error
  /\ switchPc = "bringing"
  /\ \E ok \in BOOLEAN : Ended("switch", ok)
  /\ NoCall("switch")
  /\ SwitchEnds
  /\ UNCHANGED <<netVars, memVars, phase, main, target, bypassIPs, health, probing>>

----------------------------------------------------------------------------
(* The probes.  An answer that arrives after stopVpnHealthCheck finds no     *)
(* state: the TypeError rejects a promise nobody handles, and Node exits.    *)

ProbeStart(k) ==
  /\ health # None
  /\ k \notin probing /\ (k = "routing" => "answered" \notin probing)
  /\ probing' = probing \cup {k}
  /\ UNCHANGED <<supVars, phase, main, switchPc, switching, target, bypassIPs, health>>

Checked(k, field, ok) ==
  /\ health' = [health EXCEPT ![field] = ok, !.fresh = @ \cup {field}]
  /\ probing' = probing \ {k}
  /\ UNCHANGED <<supVars, phase, main, switchPc, switching, target, bypassIPs>>

InterfaceChecked ==
  /\ "iface" \in probing /\ health # None
  /\ Checked("iface", "iface", wg # None)

\* "connected" is on its way: the tunnel may go down before it is read.
RoutingAnswered ==
  /\ "routing" \in probing /\ TunnelWorks
  /\ probing' = (probing \ {"routing"}) \cup {"answered"}
  /\ UNCHANGED <<supVars, phase, main, switchPc, switching, target, bypassIPs, health>>

RoutingConfirmed ==
  /\ "answered" \in probing /\ health # None
  /\ Checked("answered", "routing", TRUE)

\* Mutant: only an answer counts, a failed request leaves the state.
RoutingFailed_Ignored ==
  /\ "routing" \in probing /\ health # None
  /\ probing' = probing \ {"routing"}
  /\ health' = [health EXCEPT !.fresh = @ \cup {"routing"}]
  /\ UNCHANGED <<supVars, phase, main, switchPc, switching, target, bypassIPs>>

RoutingFailed ==       \* no answer within the limit, or "not connected"
  /\ "routing" \in probing /\ health # None
  /\ Checked("routing", "routing", FALSE)

HealthExpires(k) ==    \* its last answer is older than the limit
  /\ health # None /\ k \in health.fresh
  /\ health' = [health EXCEPT !.fresh = @ \ {k}]
  /\ UNCHANGED <<supVars, phase, main, switchPc, switching, target, bypassIPs, probing>>

ProbeCrash(k) ==
  /\ k \in probing /\ health = None /\ phase = "stopping"
  /\ Exit
  /\ UNCHANGED <<supVars, switchPc, switching, target, bypassIPs, health, probing>>

----------------------------------------------------------------------------
(* The signal handler *)

Signal ==              \* sessions.clear, stopVpnHealthCheck, app.close
  /\ phase = "serving" /\ main = "serving"
  /\ phase' = "stopping" /\ main' = "closing" /\ health' = None
  /\ UNCHANGED <<supVars, switchPc, switching, target, bypassIPs, probing>>

\* The server and the browser are closed; a switch whose client left may still run.
Closed ==
  /\ main = "closing"
  /\ main' = "deregistering"
  /\ UNCHANGED <<supVars, phase, switchPc, switching, target, bypassIPs, health, probing>>

Deregistered ==        \* teardownMullvad: deregisterDevice (Startup) is best effort
  /\ main = "deregistering"
  /\ Send("main", "TEARDOWN", None, {}) /\ main' = "tearing"
  /\ UNCHANGED <<netVars, memVars, replies, phase, switchPc, switching, target, bypassIPs, health, probing>>

Stopped ==
  /\ main = "tearing"
  /\ \E ok \in BOOLEAN : Ended("main", ok)
  /\ NoCall("main") /\ Exit
  /\ UNCHANGED <<netVars, memVars, switchPc, switching, target, bypassIPs, health, probing>>

Setup == SetupRoutes \/ SetupFails \/ SetupRouted \/ SetupCreated \/ SetupCleared
         \/ SetupUp \/ SetupNotUp \/ Serve \/ ServeRefused
Switch == SwitchRouted \/ SwitchNotFound \/ (\E r \in Relay : SwitchFound(r))
          \/ SwitchCleared \/ SwitchDone
Probes == \/ \E k \in Probe : ProbeStart(k) \/ HealthExpires(k)
          \/ \E k \in probing : ProbeCrash(k)
          \/ InterfaceChecked \/ RoutingAnswered \/ RoutingConfirmed \/ RoutingFailed
Shutdown == Closed \/ Deregistered \/ Stopped

Command == SupNext /\ UNCHANGED nodeVars

\* The exit of Node, the first process of the container, ends the supervisor too.
Running == phase # "down"
Next == Running /\ (Setup \/ SwitchStart \/ Switch \/ Probes \/ Signal \/ Shutdown \/ Command)

(* Commands, calls and requests end by their timeouts (subprocessTimeout,    *)
(* RPC_TIMEOUT_MS, the limits of fetch), and the probes run on timers.       *)
Fairness ==
  /\ WF_vars(Running /\ Command) /\ WF_vars(Running /\ Switch)
  /\ WF_vars(Running /\ Shutdown)
  /\ \A k \in Probe : WF_vars(Running /\ ProbeStart(k))
  /\ WF_vars(Running /\ InterfaceChecked)
  /\ WF_vars(Running /\ (RoutingAnswered \/ RoutingFailed))
  /\ WF_vars(Running /\ RoutingConfirmed)

Spec == Init /\ [][Next]_vars /\ Fairness
----------------------------------------------------------------------------
(* Properties *)

(* The types, and the socket: a caller waits for one request at a time, and  *)
(* a response exists only as long as its caller waits for it.                *)
TypeOK ==
  /\ SupTypeOK
  /\ phase \in {"starting", "serving", "stopping", "down"}
  /\ switching \in BOOLEAN /\ target \in Relay /\ bypassIPs \subseteq Host
  /\ health \in Health \cup {None}
  /\ probing \subseteq {"iface", "routing", "answered"}
  /\ main \in {"start", "routing", "creating", "clearing", "bringing", "probing", "serving",
              "closing", "deregistering", "tearing", "exited"}
  /\ switchPc \in {"idle", "routing", "finding", "clearing", "bringing"}
  /\ \A a \in replies : \E p \in Proc : awaits[p] = a.id
  /\ \A p \in Proc : awaits[p] < nextId

(* From the first tunnel on, and whenever requests are served, the kill      *)
(* switch is in place, whatever step of a command fails, times out or comes  *)
(* late (the comment in doBringup: refuse to bring the tunnel up without it).*)
KillSwitchFirst ==
  /\ wg # None \/ route # "gateway" => rules # None
  /\ phase \in {"serving", "stopping"} => rules # None

(* tunnelUp, by which bypassResolver sends its lookups through wg0, is set   *)
(* only while the interface, the default route over it, the relay's own      *)
(* route and Mullvad's resolver are all in place, although a BRINGUP may     *)
(* meet what an earlier command left and any step of any command may fail.   *)
FlagFollowsTunnel ==
  tunnelUp => /\ wg # None /\ route = "tunnel" /\ wg \in relayRoutes
              /\ resolv = "mullvad"

(* The stores of one bypass agree, whatever step of an ADD_ROUTES fails: the *)
(* firewall exempts only addresses in bypassIPs, those belong to pinned      *)
(* hosts, every one of which has all its routes around the tunnel, and Node  *)
(* is never told of a host for which that is not so.                         *)
BypassesAgree ==
  /\ rules # None => rules.hosts \subseteq exempted /\ endpoint # None
  /\ exempted = pinned
  /\ pinned \subseteq routed
  /\ bypassIPs \cup UNION {a.hosts : a \in replies} \subseteq pinned

(* A persistent failure of the tunnel shuts the gate for good (SECURITY.md,  *)
(* Application kill-switch).                                                 *)
GateShutsWithoutTunnel ==
  <>[](phase = "serving" /\ ~TunnelWorks) => <>[]~Gate

(* Once the tunnel works and the probes get their answers in time, the gate  *)
(* opens again, whatever became of a switch before.                          *)
GateReopens ==
  <>[](phase = "serving" /\ TunnelWorks) /\ <>[][~RoutingFailed /\ \A k \in Probe : ~HealthExpires(k)]_vars
    => <>[]Gate

(* A country switch ends, and lets another one start.                        *)
SwitchTerminates == switching ~> ~switching \/ phase = "down"

(* Violated.  The supervisor's comment on relayAPIDialAddrs: every bypass is *)
(* known to Node, which keeps extraction away from it.  The reply to a later *)
(* ADD_ROUTES may lack a host whose exception stays.                         *)
BypassesKnown ==
  phase = "serving" /\ ~switching /\ step = "idle" /\ calls = {} =>
    rules.hosts \subseteq bypassIPs

(* Violated.  README: the device is deregistered on clean shutdown.  A probe *)
(* in flight when the health check stops ends the process first.             *)
ShutdownDeregisters ==
  [][phase = "stopping" /\ phase' = "down" => main = "tearing"]_vars
=============================================================================
