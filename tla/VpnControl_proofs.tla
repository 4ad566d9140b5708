-------------------------- MODULE VpnControl_proofs --------------------------
(***************************************************************************)
(* Proofs about the supervisor and the VPN control, for every set of       *)
(* relays and of bypass hosts and any number of country switches.          *)
(*                                                                         *)
(* The invariant has one part for the socket, which the commands rely on   *)
(* (the request in progress and those that wait are well formed), and one  *)
(* for each promise about the network.  A step of Node leaves the network  *)
(* and the supervisor's memory alone; a step of the supervisor leaves Node *)
(* alone.  So each part is shown once for each side.                       *)
(***************************************************************************)
EXTENDS VpnControl, TLAPS

\* A request has a positive id, and a BRINGUP names a relay.
WellFormed(c) == c \in Request /\ c.id > 0 /\ (c.op = "BRINGUP" => c.relay \in Relay)

(* What the socket holds, and who waits for it: a caller that is not inside  *)
(* a call waits for nothing.                                                 *)
SocketInv ==
  /\ nextId \in Nat \ {0} /\ target \in Relay
  /\ awaits \in [Proc -> Nat]
  /\ calls \subseteq Request /\ \A c \in calls : WellFormed(c)
  /\ step \in {"idle", "tunnel", "resolver"}
  /\ current \in Request \cup {None}
  /\ step # "idle" => WellFormed(current) /\ current.op = "BRINGUP"
  /\ replies \subseteq Reply /\ \A a \in replies : a.id > 0

\* Each response has a caller that waits for it.
Matched ==
  /\ \A a \in replies : \E p \in Proc : awaits[p] = a.id
  /\ \A p \in Proc : awaits[p] < nextId

WaitInv ==
  /\ Matched
  /\ main \in {"start", "creating", "probing", "serving", "closing", "deregistering"}
       => awaits["main"] = 0
  /\ switchPc \in {"idle", "finding"} => awaits["switch"] = 0
  /\ ~switching => switchPc = "idle"

MemoryInv ==
  /\ rules \in Rules \cup {None} /\ endpoint \in Relay \cup {None}
  /\ routed \subseteq Host /\ pinned \subseteq routed /\ exempted = pinned
  /\ rules # None => rules.hosts \subseteq exempted /\ endpoint # None

\* What Node knows of the exceptions, or is about to be told.
ToldInv == bypassIPs \subseteq pinned /\ \A a \in replies : a.hosts \subseteq pinned

KillInv == KillSwitchFirst /\ (step # "idle" => rules # None)

FlagInv ==
  /\ tunnelUp \in BOOLEAN
  /\ FlagFollowsTunnel
  /\ step = "resolver" => ~tunnelUp /\ wg # None /\ route = "tunnel" /\ wg \in relayRoutes

NetType ==
  /\ wg \in Relay \cup {None} /\ conf \in Relay \cup {None}
  /\ route \in {"gateway", "tunnel", "unreachable"}
  /\ relayRoutes \subseteq Relay /\ resolv \in {"mullvad", "other"}

NodeType ==
  /\ phase \in {"starting", "serving", "stopping", "down"}
  /\ main \in {"start", "routing", "creating", "clearing", "bringing", "probing", "serving",
              "closing", "deregistering", "tearing", "exited"}
  /\ switchPc \in {"idle", "routing", "finding", "clearing", "bringing"}
  /\ switching \in BOOLEAN /\ bypassIPs \subseteq Host
  /\ health \in Health \cup {None}
  /\ probing \subseteq {"iface", "routing", "answered"}

Inv == /\ SocketInv /\ WaitInv /\ MemoryInv /\ ToldInv /\ KillInv /\ FlagInv
       /\ NetType /\ NodeType

----------------------------------------------------------------------------
(* The steps of Node. *)

NodeNext == Setup \/ SwitchStart \/ Switch \/ Probes \/ Signal \/ Shutdown

\* No step of Node touches the network or the supervisor's memory.
LEMMA NodeLeavesNetwork ==
  ASSUME NodeNext
  PROVE  UNCHANGED <<netVars, memVars>>
<1>1. CASE Setup
  BY <1>1 DEF Setup, SetupRoutes, SetupFails, SetupRouted, SetupCreated, SetupCleared,
              SetupUp, SetupNotUp, Serve, ServeRefused, supVars
<1>2. CASE SwitchStart \/ Switch
  BY <1>2 DEF SwitchStart, Switch, SwitchRouted, SwitchNotFound, SwitchFound,
              SwitchCleared, SwitchDone, supVars
<1>3. CASE Probes \/ Signal \/ Shutdown
  BY <1>3 DEF Probes, ProbeStart, HealthExpires, ProbeCrash, InterfaceChecked, Checked,
              RoutingAnswered, RoutingConfirmed, RoutingFailed, Signal,
              Shutdown, Closed, Deregistered, Stopped, supVars
<1>4. QED
  BY <1>1, <1>2, <1>3 DEF NodeNext

\* The phase becomes "serving" only over an interface, "stopping" only from "serving".
LEMMA NodePhase ==
  ASSUME NodeNext, phase' \in {"serving", "stopping"}
  PROVE  phase \in {"serving", "stopping"} \/ wg # None
<1>1. CASE Setup
  BY <1>1 DEF Setup, SetupRoutes, SetupFails, SetupRouted, SetupCreated, SetupCleared,
              SetupUp, SetupNotUp, Serve, ServeRefused, Exit
<1>2. CASE SwitchStart \/ Switch
  BY <1>2 DEF SwitchStart, Switch, SwitchRouted, SwitchNotFound, SwitchFound,
              SwitchCleared, SwitchDone
<1>3. CASE Probes \/ Signal \/ Shutdown
  BY <1>3 DEF Probes, ProbeStart, HealthExpires, ProbeCrash, InterfaceChecked, Checked,
              RoutingAnswered, RoutingConfirmed, RoutingFailed, Signal,
              Shutdown, Closed, Deregistered, Stopped, Exit
<1>4. QED
  BY <1>1, <1>2, <1>3 DEF NodeNext

----------------------------------------------------------------------------
(* The steps of the supervisor. *)

\* What a BRINGUP makes of the rules is never "no rules".
LEMMA RulesAreRules ==
  ASSUME MemoryInv
  PROVE  /\ \A r \in Relay : NewRules(r) \in Rules /\ NewRules(r) # None
         /\ endpoint # None => \A hs \in SUBSET Host :
              [relay |-> endpoint, hosts |-> hs] \in Rules /\ [relay |-> endpoint, hosts |-> hs] # None
BY SupervisorAssumption DEF MemoryInv, NewRules, Rules

\* ADD_ROUTES in short: more hosts are routed, pinned and exempted, the rules may now
\* exempt all of them, and the response names some of them.
LEMMA AddRoutesEffect ==
  ASSUME MemoryInv, SocketInv, NEW c \in calls, AddRoutes(c)
  PROVE  /\ routed' \subseteq Host /\ pinned' \subseteq routed' /\ exempted' = pinned'
         /\ pinned \subseteq pinned'
         /\ rules' = rules \/ (endpoint # None /\ rules' = [relay |-> endpoint, hosts |-> exempted'])
         /\ \E ok \in BOOLEAN, hs \in SUBSET pinned' : Respond(c, ok, hs)
         /\ UNCHANGED <<wg, route, relayRoutes, resolv, conf, endpoint, tunnelUp, step, current>>
<1>1. c.hosts \subseteq Host
  BY DEF SocketInv, Request
<1>2. PICK done \in SUBSET Resolvable(c.hosts) :
        /\ routed' = routed \cup done
        /\ pinned' = pinned \cup done /\ exempted' = exempted \cup done
        /\ ExemptHosts(c, done)
  BY DEF AddRoutes
<1>3. done \subseteq c.hosts
  BY <1>2 DEF Resolvable
<1>4. /\ rules' = rules \/ (endpoint # None /\ rules' = [relay |-> endpoint, hosts |-> exempted'])
      /\ \E ok \in BOOLEAN, hs \in {{}, done} : Respond(c, ok, hs)
  BY <1>2 DEF ExemptHosts
<1>5. QED
  BY <1>1, <1>2, <1>3, <1>4 DEF AddRoutes, MemoryInv

\* Every command keeps the kill switch once it is installed, and installs it first.
LEMMA SupKeepsKillSwitch ==
  ASSUME KillInv, SocketInv, MemoryInv, SupNext, UNCHANGED nodeVars
  PROVE  KillInv'
<1>0. UNCHANGED phase
  BY DEF nodeVars
<1>1. ASSUME NEW c \in calls, BringupRefused(c) \/ Teardown(c)
      PROVE  KillInv'
  BY <1>1, <1>0 DEF KillInv, KillSwitchFirst, BringupRefused, Teardown, WgQuickDown,
                    netVars, memVars
<1>2. ASSUME NEW c \in calls, BringupPolicy(c) \/ BringupPolicyFailed(c)
      PROVE  KillInv'
  <2>1. NewRules(c.relay) # None
    BY <1>2, RulesAreRules DEF SocketInv, WellFormed, BringupPolicy, BringupPolicyFailed
  <2>2. QED
    BY <2>1, <1>2, <1>0 DEF KillInv, KillSwitchFirst, BringupPolicy, BringupPolicyFailed
<1>3. ASSUME NEW c \in calls, AddRoutes(c)
      PROVE  KillInv'
  <2>1. rules # None => rules' # None
    BY <1>3, AddRoutesEffect, RulesAreRules
  <2>2. UNCHANGED <<wg, route, step>>
    BY <1>3, AddRoutesEffect
  <2>3. QED
    BY <2>1, <2>2, <1>0 DEF KillInv, KillSwitchFirst
<1>4. CASE BringupTunnel \/ BringupTunnelFailed \/ BringupResolver \/ BringupResolverFailed
  BY <1>4, <1>0 DEF KillInv, KillSwitchFirst, BringupTunnel, BringupTunnelFailed,
       BringupResolver, BringupResolverFailed, BringupDone, WgQuickDown
<1>5. QED
  BY <1>1, <1>2, <1>3, <1>4 DEF SupNext

\* The flag, the resolver and the interface agree after every command.
LEMMA SupKeepsFlag ==
  ASSUME FlagInv, SocketInv, MemoryInv, SupNext
  PROVE  FlagInv'
<1>1. ASSUME NEW c \in calls, BringupRefused(c) \/ BringupPolicy(c) \/ BringupPolicyFailed(c)
      PROVE  FlagInv'
  <2>1. UNCHANGED <<wg, route, relayRoutes, resolv, tunnelUp>> /\ step' \in {step, "tunnel"}
    BY <1>1 DEF BringupRefused, BringupPolicy, BringupPolicyFailed, netVars, memVars
  <2>2. QED
    BY <2>1 DEF FlagInv, FlagFollowsTunnel
<1>2. ASSUME NEW c \in calls, Teardown(c)
      PROVE  FlagInv'
  BY <1>2 DEF FlagInv, FlagFollowsTunnel, Teardown, Take
<1>3. ASSUME NEW c \in calls, AddRoutes(c)
      PROVE  FlagInv'
  BY <1>3, AddRoutesEffect DEF FlagInv, FlagFollowsTunnel
<1>4. CASE BringupTunnel
  <2>1. current.relay # None
    BY <1>4, SupervisorAssumption DEF SocketInv, WellFormed, BringupTunnel
  <2>2. QED
    BY <1>4, <2>1 DEF FlagInv, FlagFollowsTunnel, BringupTunnel
<1>5. CASE BringupTunnelFailed
  BY <1>5 DEF FlagInv, FlagFollowsTunnel, BringupTunnelFailed, BringupDone
<1>6. CASE BringupResolver
  BY <1>6 DEF FlagInv, FlagFollowsTunnel, BringupResolver, BringupDone
<1>7. CASE BringupResolverFailed
  BY <1>7 DEF FlagInv, FlagFollowsTunnel, BringupResolverFailed, BringupDone
<1>8. QED
  BY <1>1, <1>2, <1>3, <1>4, <1>5, <1>6, <1>7 DEF SupNext

\* The stores of the exceptions stay in step.
LEMMA SupKeepsMemory ==
  ASSUME MemoryInv, SocketInv, SupNext
  PROVE  MemoryInv'
<1>0. None \notin Relay
  BY SupervisorAssumption
<1>1. ASSUME NEW c \in calls, BringupRefused(c) \/ Teardown(c)
      PROVE  MemoryInv'
  BY <1>1 DEF MemoryInv, BringupRefused, Teardown, netVars, memVars, bypassVars
<1>2. ASSUME NEW c \in calls, BringupPolicy(c) \/ BringupPolicyFailed(c)
      PROVE  MemoryInv'
  <2>1. c.relay \in Relay
    BY <1>2 DEF SocketInv, WellFormed, BringupPolicy, BringupPolicyFailed
  <2>2. NewRules(c.relay) \in Rules /\ NewRules(c.relay).hosts = exempted
    BY <2>1, RulesAreRules DEF NewRules
  <2>3. rules' \in {rules, NewRules(c.relay)} /\ endpoint' = c.relay /\ UNCHANGED bypassVars
    BY <1>2 DEF BringupPolicy, BringupPolicyFailed
  <2>4. QED
    BY <2>1, <2>2, <2>3, <1>0 DEF MemoryInv, bypassVars
<1>3. ASSUME NEW c \in calls, AddRoutes(c)
      PROVE  MemoryInv'
  <2>1. /\ routed' \subseteq Host /\ pinned' \subseteq routed' /\ exempted' = pinned'
        /\ pinned \subseteq pinned' /\ endpoint' = endpoint
        /\ rules' = rules \/ (endpoint # None /\ rules' = [relay |-> endpoint, hosts |-> exempted'])
    BY <1>3, AddRoutesEffect
  <2>2. CASE rules' = rules
    BY <2>1, <2>2 DEF MemoryInv
  <2>3. CASE endpoint # None /\ rules' = [relay |-> endpoint, hosts |-> exempted']
    <3>1. rules' \in Rules /\ rules'.hosts = exempted'
      BY <2>1, <2>3, RulesAreRules
    <3>2. QED
      BY <3>1, <2>1, <2>3 DEF MemoryInv
  <2>4. QED
    BY <2>1, <2>2, <2>3
<1>4. CASE BringupTunnel \/ BringupTunnelFailed \/ BringupResolver \/ BringupResolverFailed
  BY <1>4 DEF MemoryInv, BringupTunnel, BringupTunnelFailed,
       BringupResolver, BringupResolverFailed, BringupDone, bypassVars
<1>5. QED
  BY <1>1, <1>2, <1>3, <1>4 DEF SupNext

\* A response names only hosts pinned by then, and Node learns of no others.
LEMMA SupTells ==
  ASSUME ToldInv, MemoryInv, SocketInv, SupNext, UNCHANGED nodeVars
  PROVE  ToldInv'
<1>0. UNCHANGED bypassIPs
  BY DEF nodeVars
<1>1. ASSUME pinned \subseteq pinned',
             replies' = replies \/ \E c, ok, hs : hs \subseteq pinned' /\ Respond(c, ok, hs)
      PROVE  ToldInv'
  BY <1>0, <1>1 DEF ToldInv, Respond
<1>2. ASSUME NEW c \in calls, AddRoutes(c)
      PROVE  ToldInv'
  BY <1>1, <1>2, AddRoutesEffect
<1>3. ASSUME NEW c \in calls,
             BringupRefused(c) \/ BringupPolicy(c) \/ BringupPolicyFailed(c) \/ Teardown(c)
      PROVE  ToldInv'
  BY <1>1, <1>3 DEF BringupRefused, BringupPolicy, BringupPolicyFailed, Teardown,
                    memVars, bypassVars
<1>4. CASE BringupTunnel
  BY <1>1, <1>4 DEF BringupTunnel, bypassVars, sockVars
<1>5. CASE BringupTunnelFailed \/ BringupResolver \/ BringupResolverFailed
  BY <1>1, <1>5 DEF BringupTunnelFailed, BringupResolver, BringupResolverFailed,
                    BringupDone, bypassVars
<1>6. QED
  BY <1>2, <1>3, <1>4, <1>5 DEF SupNext

\* Node takes its set of bypasses from a response.
LEMMA NodeIsTold ==
  ASSUME ToldInv, NodeNext
  PROVE  ToldInv'
<1>1. UNCHANGED pinned
  BY NodeLeavesNetwork DEF memVars, bypassVars
<1>2. /\ replies' \subseteq replies
      /\ bypassIPs' = bypassIPs \/ \E a \in replies : bypassIPs' = a.hosts
  <2>1. CASE SetupRouted \/ SwitchRouted
    BY <2>1 DEF SetupRouted, SwitchRouted, RoutesEnded, Answered, GaveUp
  <2>2. CASE Setup /\ ~SetupRouted
    BY <2>2 DEF Setup, SetupRoutes, SetupFails, SetupCreated, SetupCleared, SetupUp, SetupNotUp,
         Serve, ServeRefused, Ended, Answered, GaveUp, supVars, sockVars
  <2>3. CASE SwitchStart \/ (Switch /\ ~SwitchRouted)
    BY <2>3 DEF SwitchStart, Switch, SwitchNotFound, SwitchFound, SwitchCleared, SwitchDone,
         Ended, Answered, GaveUp, supVars, sockVars
  <2>4. CASE Probes \/ Signal \/ Shutdown
    BY <2>4 DEF Probes, ProbeStart, HealthExpires, ProbeCrash, InterfaceChecked, Checked,
         RoutingAnswered, RoutingConfirmed, RoutingFailed, Signal, Shutdown, Closed,
         Deregistered, Stopped, Ended, Answered, GaveUp, supVars, sockVars
  <2>5. QED
    BY <2>1, <2>2, <2>3, <2>4 DEF NodeNext
<1>3. QED
  BY <1>1, <1>2 DEF ToldInv

----------------------------------------------------------------------------
(* The socket. *)

\* A response is for the request taken, and only if its caller still waits.
LEMMA RespondKeepsSocket ==
  ASSUME WaitInv, NEW c \in Request, c.id > 0, NEW ok \in BOOLEAN, NEW hs \in SUBSET Host,
         replies \subseteq Reply, \A a \in replies : a.id > 0,
         Respond(c, ok, hs), UNCHANGED nodeVars
  PROVE  /\ WaitInv'
         /\ replies' \subseteq Reply /\ \A a \in replies' : a.id > 0
         /\ UNCHANGED <<awaits, nextId>>
<1> DEFINE new == [id |-> c.id, ok |-> ok, hosts |-> hs]
<1>1. new \in Reply /\ new.id = c.id
  BY DEF Request, Reply
<1>2. UNCHANGED <<awaits, nextId>>
  BY DEF Respond
<1>3. replies' = replies \/ (replies' = replies \cup {new} /\ \E p \in Proc : awaits[p] = c.id)
  BY DEF Respond
<1>4. QED
  BY <1>1, <1>2, <1>3 DEF WaitInv, Matched, nodeVars

\* The socket's facts survive every command.
LEMMA SupKeepsSocket ==
  ASSUME SocketInv, WaitInv, MemoryInv, SupNext, UNCHANGED nodeVars
  PROVE  SocketInv' /\ WaitInv'
<1>0. UNCHANGED <<target, main, switchPc, switching>>
  BY DEF nodeVars
<1>1. ASSUME NEW c \in calls, BringupRefused(c) \/ Teardown(c) \/ BringupPolicyFailed(c)
      PROVE  SocketInv' /\ WaitInv'
  <2>1. /\ calls' \subseteq calls /\ UNCHANGED <<step, current>>
        /\ \E ok \in BOOLEAN : Respond(c, ok, {})
    BY <1>1 DEF BringupRefused, Teardown, BringupPolicyFailed, Take, memVars
  <2>2. c \in Request /\ c.id > 0
    BY DEF SocketInv, WellFormed
  <2>3. /\ WaitInv' /\ replies' \subseteq Reply /\ \A a \in replies' : a.id > 0
        /\ UNCHANGED <<awaits, nextId>>
    BY <2>1, <2>2, RespondKeepsSocket DEF SocketInv
  <2>4. QED
    BY <2>1, <2>3, <1>0 DEF SocketInv, WellFormed
<1>2. ASSUME NEW c \in calls, BringupPolicy(c)
      PROVE  SocketInv' /\ WaitInv'
  BY <1>2, <1>0 DEF SocketInv, WellFormed, WaitInv, Matched, BringupPolicy, Take
<1>3. ASSUME NEW c \in calls, AddRoutes(c)
      PROVE  SocketInv' /\ WaitInv'
  <2>1. c \in Request /\ c.id > 0
    BY DEF SocketInv, WellFormed
  <2>2. /\ calls' \subseteq calls /\ UNCHANGED <<step, current>>
        /\ \E ok \in BOOLEAN, hs \in SUBSET Host : Respond(c, ok, hs)
    BY <1>3, AddRoutesEffect DEF AddRoutes, Take
  <2>3. /\ WaitInv' /\ replies' \subseteq Reply /\ \A a \in replies' : a.id > 0
        /\ UNCHANGED <<awaits, nextId>>
    BY <2>1, <2>2, RespondKeepsSocket DEF SocketInv
  <2>4. QED
    BY <2>2, <2>3, <1>0 DEF SocketInv, WellFormed
<1>4. CASE BringupTunnel
  BY <1>4, <1>0 DEF SocketInv, WellFormed, WaitInv, Matched, BringupTunnel, sockVars
<1>5. CASE BringupTunnelFailed \/ BringupResolver \/ BringupResolverFailed
  <2>1. /\ step # "idle" /\ step' = "idle" /\ current' = None /\ calls' = calls
        /\ \E ok \in BOOLEAN : Respond(current, ok, {})
    BY <1>5 DEF BringupTunnelFailed, BringupResolver, BringupResolverFailed, BringupDone
  <2>2. current \in Request /\ current.id > 0
    BY <2>1 DEF SocketInv, WellFormed
  <2>3. /\ WaitInv' /\ replies' \subseteq Reply /\ \A a \in replies' : a.id > 0
        /\ UNCHANGED <<awaits, nextId>>
    BY <2>1, <2>2, RespondKeepsSocket DEF SocketInv
  <2>4. QED
    BY <2>1, <2>3, <1>0 DEF SocketInv, WellFormed
<1>6. QED
  BY <1>1, <1>2, <1>3, <1>4, <1>5 DEF SupNext

\* A call by a caller whose last one is over: the request is well formed, and no response
\* of an earlier one is left.
LEMMA SendKeepsSocket ==
  ASSUME SocketInv, Matched, NEW p \in Proc, NEW o \in Op, NEW r \in Relay \cup {None},
         NEW hs \in SUBSET Host, o = "BRINGUP" => r \in Relay,
         replies' \subseteq replies, \A a \in replies' : a.id # awaits[p],
         Send(p, o, r, hs), target' \in Relay, UNCHANGED memVars
  PROVE  SocketInv' /\ Matched' /\ \A q \in Proc : q # p => awaits'[q] = awaits[q]
<1> DEFINE c == [id |-> nextId, op |-> o, relay |-> r, hosts |-> hs]
<1>1. WellFormed(c) /\ c \in Request
  BY DEF WellFormed, Request, SocketInv
<1>2. calls' = calls \cup {c} /\ nextId' = nextId + 1
      /\ awaits' = [awaits EXCEPT ![p] = nextId]
  BY DEF Send
<1>3. calls' \subseteq Request /\ \A x \in calls' : WellFormed(x)
  BY <1>1, <1>2 DEF SocketInv
<1>4. awaits' \in [Proc -> Nat] /\ nextId' \in Nat \ {0}
  BY <1>2 DEF SocketInv
<1>5. UNCHANGED <<step, current>>
  BY DEF memVars
<1>6. SocketInv'
  BY <1>3, <1>4, <1>5 DEF SocketInv, WellFormed
<1>7. awaits'[p] = nextId /\ \A q \in Proc : q # p => awaits'[q] = awaits[q]
  BY <1>2 DEF SocketInv
<1>8. Matched'
  BY <1>2, <1>4, <1>7 DEF Matched, SocketInv
<1>9. QED
  BY <1>6, <1>7, <1>8

\* A call that is over, with no other one following.
LEMMA NoCallKeepsSocket ==
  ASSUME SocketInv, Matched, NEW p \in Proc,
         replies' \subseteq replies, \A a \in replies' : a.id # awaits[p],
         NoCall(p), target' = target, UNCHANGED memVars
  PROVE  /\ SocketInv' /\ Matched' /\ awaits'[p] = 0
         /\ \A q \in Proc : q # p => awaits'[q] = awaits[q]
<1>1. /\ awaits' \in [Proc -> Nat] /\ awaits'[p] = 0
      /\ \A q \in Proc : q # p => awaits'[q] = awaits[q]
      /\ UNCHANGED <<calls, nextId>>
  BY DEF SocketInv, NoCall
<1>2. SocketInv'
  BY <1>1 DEF SocketInv, WellFormed, memVars
<1>3. Matched'
  BY <1>1 DEF Matched, SocketInv
<1>4. QED
  BY <1>1, <1>2, <1>3

\* However a call ends, its response is gone.
LEMMA EndedTakesReply ==
  ASSUME NEW p \in Proc
  PROVE  /\ \A ok \in BOOLEAN : Ended(p, ok) =>
              replies' \subseteq replies /\ \A a \in replies' : a.id # awaits[p]
         /\ RoutesEnded(p) => replies' \subseteq replies /\ \A a \in replies' : a.id # awaits[p]
BY DEF Ended, RoutesEnded, Answered, GaveUp

\* A caller that waits for nothing has no response.
LEMMA IdleHasNoReply ==
  ASSUME SocketInv, NEW p \in Proc, awaits[p] = 0
  PROVE  \A a \in replies : a.id # awaits[p]
BY DEF SocketInv, Reply

\* The socket's facts survive every step of Node.
LEMMA NodeKeepsSocket ==
  ASSUME SocketInv, WaitInv, NodeNext
  PROVE  SocketInv' /\ WaitInv'
<1>0. /\ "main" \in Proc /\ "switch" \in Proc /\ Matched
      /\ Op = {"ADD_ROUTES", "TEARDOWN", "BRINGUP"} /\ target \in Relay
      /\ UNCHANGED memVars
  BY VpnAssumption, NodeLeavesNetwork DEF WaitInv, Op, SocketInv
<1>1. ASSUME UNCHANGED <<sockVars, target, switchPc, switching>>,
             main' # main => awaits["main"] = 0 \/ main' = "exited"
      PROVE  SocketInv' /\ WaitInv'
  BY <1>1, <1>0 DEF SocketInv, WellFormed, WaitInv, Matched, sockVars, memVars
<1>2. CASE SetupRoutes \/ SetupCreated \/ Deregistered
  <2>1. /\ awaits["main"] = 0 /\ UNCHANGED <<replies, target, switchPc, switching>>
        /\ \E o \in {"ADD_ROUTES", "TEARDOWN"}, hs \in SUBSET Host : Send("main", o, None, hs)
        /\ main' \in {"routing", "clearing", "tearing"}
    BY <1>2, <1>0 DEF SetupRoutes, SetupCreated, Deregistered, WaitInv
  <2>2. \A a \in replies : a.id # awaits["main"]
    BY <2>1, <1>0, IdleHasNoReply
  <2>3. SocketInv' /\ Matched' /\ awaits'["switch"] = awaits["switch"]
    BY <2>1, <2>2, <1>0, SendKeepsSocket
  <2>4. QED
    BY <2>1, <2>3 DEF WaitInv
<1>3. CASE SetupCleared
  <2>1. /\ \E ok \in BOOLEAN : Ended("main", ok)
        /\ Send("main", "BRINGUP", target, {}) /\ main' = "bringing"
        /\ UNCHANGED <<target, switchPc, switching>>
    BY <1>3 DEF SetupCleared
  <2>2. replies' \subseteq replies /\ \A a \in replies' : a.id # awaits["main"]
    BY <2>1, <1>0, EndedTakesReply
  <2>3. SocketInv' /\ Matched' /\ awaits'["switch"] = awaits["switch"]
    BY <2>1, <2>2, <1>0, SendKeepsSocket
  <2>4. QED
    BY <2>1, <2>3 DEF WaitInv
<1>4. CASE SetupRouted \/ SetupUp \/ SetupNotUp \/ Stopped
  <2>1. /\ RoutesEnded("main") \/ \E ok \in BOOLEAN : Ended("main", ok)
        /\ NoCall("main") /\ UNCHANGED <<target, switchPc, switching>>
    BY <1>4 DEF SetupRouted, SetupUp, SetupNotUp, Stopped
  <2>2. replies' \subseteq replies /\ \A a \in replies' : a.id # awaits["main"]
    BY <2>1, <1>0, EndedTakesReply
  <2>3. SocketInv' /\ Matched' /\ awaits'["main"] = 0 /\ awaits'["switch"] = awaits["switch"]
    BY <2>1, <2>2, <1>0, NoCallKeepsSocket
  <2>4. QED
    BY <2>1, <2>3 DEF WaitInv
<1>5. CASE SwitchStart \/ \E r \in Relay : SwitchFound(r)
  <2>1. /\ UNCHANGED <<replies, main>> /\ target' \in Relay
        /\ \E o \in {"ADD_ROUTES", "TEARDOWN"}, hs \in SUBSET Host : Send("switch", o, None, hs)
        /\ switchPc' \in {"routing", "clearing"} /\ switchPc \in {"idle", "finding"}
        /\ switching' = TRUE \/ (switchPc # "idle" /\ switching' = switching)
    BY <1>5, <1>0 DEF SwitchStart, SwitchFound, WaitInv
  <2>2. awaits["switch"] = 0
    BY <2>1 DEF WaitInv
  <2>3. \A a \in replies : a.id # awaits["switch"]
    BY <2>2, <1>0, IdleHasNoReply
  <2>4. SocketInv' /\ Matched' /\ awaits'["main"] = awaits["main"]
    BY <2>1, <2>3, <1>0, SendKeepsSocket
  <2>5. QED
    BY <2>1, <2>4 DEF WaitInv
<1>6. CASE SwitchCleared
  <2>1. /\ \E ok \in BOOLEAN : Ended("switch", ok)
        /\ Send("switch", "BRINGUP", target, {}) /\ switchPc' = "bringing"
        /\ UNCHANGED <<target, main, switching>> /\ switchPc = "clearing"
    BY <1>6 DEF SwitchCleared
  <2>2. replies' \subseteq replies /\ \A a \in replies' : a.id # awaits["switch"]
    BY <2>1, <1>0, EndedTakesReply
  <2>3. SocketInv' /\ Matched' /\ awaits'["main"] = awaits["main"]
    BY <2>1, <2>2, <1>0, SendKeepsSocket
  <2>4. QED
    BY <2>1, <2>3 DEF WaitInv
<1>7. CASE SwitchRouted \/ SwitchDone
  <2>1. /\ RoutesEnded("switch") \/ \E ok \in BOOLEAN : Ended("switch", ok)
        /\ NoCall("switch") /\ UNCHANGED <<target, main>>
        /\ UNCHANGED switching \/ switchPc' = "idle"
        /\ switchPc \in {"routing", "bringing"}
    BY <1>7 DEF SwitchRouted, SwitchDone, SwitchEnds
  <2>2. replies' \subseteq replies /\ \A a \in replies' : a.id # awaits["switch"]
    BY <2>1, <1>0, EndedTakesReply
  <2>3. SocketInv' /\ Matched' /\ awaits'["switch"] = 0 /\ awaits'["main"] = awaits["main"]
    BY <2>1, <2>2, <1>0, NoCallKeepsSocket
  <2>4. QED
    BY <2>1, <2>3 DEF WaitInv
<1>8. CASE SetupFails \/ Serve \/ ServeRefused \/ Closed
  BY <1>8, <1>1 DEF SetupFails, Serve, ServeRefused, Closed, Exit, supVars, WaitInv
<1>9. CASE Probes \/ Signal
  <2>1. /\ UNCHANGED <<sockVars, target, switchPc, switching>>
        /\ main' = main \/ main' = "exited" \/ Signal
    BY <1>9 DEF Probes, ProbeStart, HealthExpires, ProbeCrash, InterfaceChecked, Checked,
         RoutingAnswered, RoutingConfirmed, RoutingFailed, Signal, Exit, supVars
  <2>2. Signal => awaits["main"] = 0
    BY DEF Signal, WaitInv
  <2>3. QED
    BY <1>1, <2>1, <2>2
<1>10. CASE SwitchNotFound
  BY <1>10, <1>0 DEF SwitchNotFound, SwitchEnds, SocketInv, WellFormed, WaitInv, Matched,
       supVars, sockVars, memVars
<1>11. QED
  BY <1>2, <1>3, <1>4, <1>5, <1>6, <1>7, <1>8, <1>9, <1>10
  DEF NodeNext, Setup, Switch, Shutdown

----------------------------------------------------------------------------
(* Types *)

\* The commands keep the types of the network.
LEMMA SupKeepsTypes ==
  ASSUME NetType, SocketInv, SupNext
  PROVE  NetType'
<1>1. ASSUME NEW c \in calls,
             BringupRefused(c) \/ BringupPolicy(c) \/ BringupPolicyFailed(c) \/ AddRoutes(c)
      PROVE  NetType'
  <2>1. UNCHANGED <<wg, conf, route, relayRoutes, resolv>>
    BY <1>1 DEF BringupRefused, BringupPolicy, BringupPolicyFailed, AddRoutes, netVars
  <2>2. QED
    BY <2>1 DEF NetType
<1>2. WgQuickDown => /\ wg' \in {wg, None} /\ route' \in {route, "unreachable"}
                     /\ relayRoutes' \subseteq relayRoutes
  BY DEF WgQuickDown
<1>3. ASSUME NEW c \in calls, Teardown(c)
      PROVE  NetType'
  BY <1>2, <1>3 DEF NetType, Teardown
<1>4. CASE BringupTunnel
  BY <1>4 DEF NetType, SocketInv, WellFormed, BringupTunnel
<1>5. CASE BringupTunnelFailed
  <2>1. current.relay \in Relay
    BY <1>5 DEF SocketInv, WellFormed, BringupTunnelFailed
  <2>2. /\ wg' \in {wg, None, current.relay} /\ route' \in {route, "tunnel"}
        /\ conf' \in {conf, None, current.relay} /\ resolv' = resolv
        /\ relayRoutes' \subseteq relayRoutes \cup {current.relay}
    BY <1>5 DEF BringupTunnelFailed
  <2>3. QED
    BY <2>1, <2>2 DEF NetType
<1>6. CASE BringupResolver
  BY <1>6 DEF NetType, BringupResolver
<1>7. CASE BringupResolverFailed
  BY <1>2, <1>7 DEF NetType, BringupResolverFailed
<1>8. QED
  BY <1>1, <1>3, <1>4, <1>5, <1>6, <1>7 DEF SupNext

\* A probe's outcome is a health state again.
LEMMA CheckedType ==
  ASSUME health \in Health, NEW k, NEW ok \in BOOLEAN,
         Checked(k, "iface", ok) \/ Checked(k, "routing", ok)
  PROVE  health' \in Health
BY DEF Checked, Health, Probe

\* The steps of Node keep its types.
LEMMA NodeKeepsTypes ==
  ASSUME NodeType, NodeNext
  PROVE  NodeType'
<1>1. CASE SetupRoutes \/ SetupFails \/ SetupCreated \/ SetupCleared
           \/ SetupUp \/ SetupNotUp \/ ServeRefused
  BY <1>1 DEF NodeType, SetupRoutes, SetupFails, SetupCreated, SetupCleared,
              SetupUp, SetupNotUp, ServeRefused, Exit
<1>2. CASE SetupRouted \/ SwitchRouted
  <2>1. bypassIPs' \in SUBSET Host
    BY <1>2 DEF NodeType, SetupRouted, SwitchRouted, RoutesEnded
  <2>2. QED
    BY <2>1, <1>2 DEF NodeType, SetupRouted, SwitchRouted
<1>3. CASE Serve
  BY <1>3 DEF NodeType, Serve, Health
<1>4. CASE SwitchStart \/ SwitchNotFound \/ (\E r \in Relay : SwitchFound(r))
           \/ SwitchCleared \/ SwitchDone
  BY <1>4 DEF NodeType, SwitchStart, SwitchNotFound, SwitchFound, SwitchCleared, SwitchDone,
              SwitchEnds
<1>5. CASE InterfaceChecked \/ RoutingConfirmed \/ RoutingFailed
  <2>1. health \in Health
    BY <1>5 DEF NodeType, InterfaceChecked, RoutingConfirmed, RoutingFailed
  <2>2. \E k \in {"iface", "routing", "answered"}, ok \in BOOLEAN :
          Checked(k, "iface", ok) \/ Checked(k, "routing", ok)
    BY <1>5 DEF InterfaceChecked, RoutingConfirmed, RoutingFailed
  <2>3. health' \in Health
    BY <2>1, <2>2, CheckedType
  <2>4. QED
    BY <2>2, <2>3 DEF NodeType, Checked
<1>6. ASSUME NEW k \in Probe, HealthExpires(k)
      PROVE  NodeType'
  <2>1. health' \in Health
    BY <1>6 DEF NodeType, HealthExpires, Health
  <2>2. QED
    BY <1>6, <2>1 DEF NodeType, HealthExpires
<1>7. CASE (\E k \in Probe : ProbeStart(k)) \/ (\E k \in probing : ProbeCrash(k)) \/ RoutingAnswered
  <2>1. ASSUME NEW k \in Probe, ProbeStart(k)
        PROVE  NodeType'
    BY <2>1 DEF NodeType, ProbeStart, Probe
  <2>2. ASSUME NEW k \in probing, ProbeCrash(k)
        PROVE  NodeType'
    BY <2>2 DEF NodeType, ProbeCrash, Exit
  <2>3. CASE RoutingAnswered
    BY <2>3 DEF NodeType, RoutingAnswered
  <2>4. QED
    BY <1>7, <2>1, <2>2, <2>3
<1>8. CASE Signal \/ Shutdown
  BY <1>8 DEF NodeType, Signal, Shutdown, Closed, Deregistered, Stopped, Exit
<1>9. QED
  BY <1>1, <1>2, <1>3, <1>4, <1>5, <1>6, <1>7, <1>8 DEF NodeNext, Setup, Switch, Probes

----------------------------------------------------------------------------
(* The invariant *)

\* It holds at the start, before any command.
LEMMA InvInit == Init => Inv
<1> SUFFICES ASSUME Init PROVE Inv
  OBVIOUS
<1> USE DEF Init, SupInit
<1>1. SocketInv
  BY VpnAssumption DEF SocketInv
<1>2. WaitInv
  BY VpnAssumption DEF WaitInv, Matched
<1>3. MemoryInv /\ ToldInv /\ KillInv /\ FlagInv
  BY SupervisorAssumption DEF MemoryInv, ToldInv, KillInv, KillSwitchFirst, FlagInv, FlagFollowsTunnel
<1>4. NetType /\ NodeType
  BY DEF NetType, NodeType
<1>5. QED
  BY <1>1, <1>2, <1>3, <1>4 DEF Inv

\* Every step keeps it.
LEMMA InvNext == Inv /\ [Next]_vars => Inv'
<1> SUFFICES ASSUME Inv, [Next]_vars PROVE Inv'
  OBVIOUS
<1>1. CASE NodeNext
  <2>1. UNCHANGED <<netVars, memVars>>
    BY <1>1, NodeLeavesNetwork
  <2>2. SocketInv' /\ WaitInv' /\ NodeType'
    BY <1>1, NodeKeepsSocket, NodeKeepsTypes DEF Inv
  <2>3. MemoryInv' /\ FlagInv' /\ NetType'
    BY <2>1 DEF Inv, MemoryInv, FlagInv, FlagFollowsTunnel, NetType,
                netVars, memVars, bypassVars
  <2>4. KillInv'
    BY <1>1, <2>1, NodePhase DEF Inv, KillInv, KillSwitchFirst, netVars, memVars
  <2>5. ToldInv'
    BY <1>1, NodeIsTold DEF Inv
  <2>6. QED
    BY <2>2, <2>3, <2>4, <2>5 DEF Inv
<1>2. CASE Command
  <2>1. NodeType'
    BY <1>2 DEF Inv, NodeType, Command, nodeVars
  <2>2. QED
    BY <1>2, <2>1, SupKeepsKillSwitch, SupKeepsFlag, SupKeepsMemory, SupTells, SupKeepsSocket,
       SupKeepsTypes DEF Inv, Command
<1>3. CASE UNCHANGED vars
  BY <1>3 DEF Inv, SocketInv, WellFormed, WaitInv, Matched, MemoryInv, ToldInv,
     KillInv, KillSwitchFirst, FlagInv, FlagFollowsTunnel, NetType, NodeType,
     vars, supVars, netVars, memVars, bypassVars, sockVars, nodeVars
<1>4. QED
  BY <1>1, <1>2, <1>3 DEF Next, NodeNext

\* So it holds in every state.
LEMMA InvHolds == Spec => []Inv
BY InvInit, InvNext, PTL DEF Spec

(* Types, and the pairing of requests and responses: no response is left for *)
(* a call that is over, whatever times out (supervisor-rpc.ts, call).        *)
THEOREM TypeCorrect == Spec => []TypeOK
<1>1. Inv => TypeOK
  BY DEF Inv, TypeOK, SupTypeOK, SocketInv, WaitInv, Matched, MemoryInv, FlagInv, NetType, NodeType
<1>2. QED
  BY <1>1, InvHolds, PTL

(* No tunnel, no default route but the first one and no request served       *)
(* without the kill switch (main.go, doBringup).                             *)
THEOREM KillSwitchPrecedesTunnel == Spec => []KillSwitchFirst
<1>1. Inv => KillSwitchFirst
  BY DEF Inv, KillInv
<1>2. QED
  BY <1>1, InvHolds, PTL

(* While tunnelUp is set, the lookups that bypassResolver then sends through *)
(* wg0 find the interface, its routes and Mullvad's resolver in place        *)
(* (main.go, doBringup and doTeardown).                                      *)
THEOREM FlagIsTrue == Spec => []FlagFollowsTunnel
<1>1. Inv => FlagFollowsTunnel
  BY DEF Inv, FlagInv
<1>2. QED
  BY <1>1, InvHolds, PTL

(* The firewall's exceptions, bypassIPs, the pinned hosts, their routes and  *)
(* what Node is told of them agree, for any hosts, failures and late         *)
(* commands (main.go, doAddRoutes).                                          *)
THEOREM BypassStoresAgree == Spec => []BypassesAgree
<1>1. Inv => BypassesAgree
  BY DEF Inv, MemoryInv, ToldInv, BypassesAgree
<1>2. QED
  BY <1>1, InvHolds, PTL
=============================================================================
