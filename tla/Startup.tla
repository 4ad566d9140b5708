------------------------------- MODULE Startup -------------------------------
(***************************************************************************)
(* One instance from start to exit and again: main() of index.ts with the  *)
(* bootstrap of the administrator and the signal handlers, and the Mullvad *)
(* device it registers (setupMullvad and teardownMullvad), records in      *)
(* mullvad-devices.json and removes, in this run or in a later one.        *)
(*                                                                         *)
(* A reply of the Mullvad API may be lost after the call took effect, the  *)
(* file may be unreadable for once, and the process may die at any step.   *)
(***************************************************************************)
EXTENDS Integers, FiniteSets

CONSTANTS
  Device,     \* identifiers of Mullvad devices, with their keys
  Foreign,    \* the operator's other devices on the account
  MaxDevices, \* the account's limit
  Signal,     \* the signals handled: SIGTERM, SIGINT
  NoDevice    \* activeDevice is null

Main  == "main"
Actor == {Main} \cup Signal

ASSUME StartupAssumption ==
  /\ Foreign \subseteq Device /\ IsFiniteSet(Device)
  /\ NoDevice \notin Device /\ Main \notin Signal /\ MaxDevices \in Nat

MainAt  == {"down", "bootstrapping", "codeless", "token", "listing", "purging", "relays",
            "creating", "created", "recording", "tunnel", "undoing", "health", "serving"}
ActorAt == {"idle", "closing", "removing", "forgetting", "saving", "stopping"}

VARIABLES
  phase,      \* where main() is; "down": no process
  admin,      \* the user table is not empty
  codeFile,   \* admin-recovery-code.txt was written
  registered, \* the devices of the account, at Mullvad
  file,       \* the devices in mullvad-devices.json
  active,     \* activeDevice
  own,        \* removeStaleOwnDevices: loaded or still to remove; then: loaded to record
  remaining,  \* removeStaleOwnDevices: could not be removed
  pc,         \* each caller of deregisterDevice
  copy,       \* forgetOwnDevice: the list each of them will save
  leaked      \* history: registered, and lost by a reply, a crash, or the file

account == <<admin, codeFile>>
memory  == <<active, own, remaining, pc, copy>>
vars    == <<phase, account, registered, file, memory, leaked>>

Init ==
  /\ phase = "down" /\ admin = FALSE /\ codeFile = FALSE
  /\ registered = Foreign /\ file = {} /\ leaked = {}
  /\ active = NoDevice /\ own = {} /\ remaining = {}
  /\ pc = [a \in Actor |-> "idle"] /\ copy = [a \in Actor |-> {}]

\* loadOwnDevices; any error is an empty list.
Load(ok) == IF ok THEN file ELSE {}

\* What an empty list in place of the file's makes the next save drop.
Unread(ok) == IF ok THEN {} ELSE file \cap registered

\* A device that was created and is in no file yet.
Held == IF phase \in {"created", "recording"} THEN {active} ELSE {}

\* The process is gone, with what it had in memory.
Gone ==
  /\ phase' = "down"
  /\ active' = NoDevice /\ own' = {} /\ remaining' = {}
  /\ pc' = [a \in Actor |-> "idle"] /\ copy' = [a \in Actor |-> {}]

Exits == Gone /\ UNCHANGED <<account, registered, file, leaked>>

Crash ==
  /\ phase # "down"
  /\ Gone
  /\ leaked' = leaked \cup Held
  /\ UNCHANGED <<account, registered, file>>

----------------------------------------------------------------------------
(* main(), up to the tunnel. *)

Boot ==
  /\ phase = "down"
  /\ phase' = IF admin THEN "token" ELSE "bootstrapping"
  /\ UNCHANGED <<account, registered, file, memory, leaked>>

BadPassword == phase = "bootstrapping" /\ Exits

\* bootstrapAdmin commits the user before the code is written.
AdminCreated ==
  /\ phase = "bootstrapping" /\ phase' = "codeless"
  /\ admin' = TRUE
  /\ UNCHANGED <<codeFile, registered, file, memory, leaked>>

CodeWritten ==
  /\ phase = "codeless" /\ phase' = "token"
  /\ codeFile' = TRUE
  /\ UNCHANGED <<admin, registered, file, memory, leaked>>

CodeLost == phase = "codeless" /\ Exits

\* getAccessToken, and the devices an earlier run left.
Token(ok) ==
  /\ phase = "token"
  /\ own' = Load(ok)
  /\ phase' = IF Load(ok) = {} THEN "relays" ELSE "listing"
  /\ UNCHANGED <<account, registered, file, active, remaining, pc, copy, leaked>>

\* Mutant: every device the account lists is taken for a leftover.
Leftovers_All == registered

\* The account still lists it, with the key we registered.
Leftovers == own \cap registered

Listed ==
  /\ phase = "listing" /\ phase' = "purging"
  /\ own' = Leftovers
  /\ UNCHANGED <<account, registered, file, active, remaining, pc, copy, leaked>>

\* Mullvad does not answer, or not as it should.
ApiFails == phase \in {"token", "listing", "relays"} /\ Exits

\* removeDevice.
Removal(d) == registered' = registered \ {d} /\ leaked' = leaked \ {d}

Purge(d) ==
  /\ phase = "purging" /\ d \in own
  /\ Removal(d)
  /\ own' = own \ {d}
  /\ UNCHANGED <<phase, account, file, active, remaining, pc, copy>>

\* Refused, or done and the reply lost.
PurgeFails(d, done) ==
  /\ phase = "purging" /\ d \in own
  /\ IF done THEN Removal(d) ELSE UNCHANGED <<registered, leaked>>
  /\ own' = own \ {d} /\ remaining' = remaining \cup {d}
  /\ UNCHANGED <<phase, account, file, active, pc, copy>>

\* Mutant: the file is emptied, the failures are only logged.
Rest_None == {}

\* What is written back.
Rest == remaining

\* saveOwnDevices(remaining).
Purged ==
  /\ phase = "purging" /\ own = {} /\ phase' = "relays"
  /\ file' = Rest
  /\ UNCHANGED <<account, registered, memory, leaked>>

PurgeUnsaved == phase = "purging" /\ own = {} /\ Exits

\* The relay list, the gateway and the bypass routes.
Relays ==
  /\ phase = "relays" /\ phase' = "creating"
  /\ UNCHANGED <<account, registered, file, memory, leaked>>

----------------------------------------------------------------------------
(* The device of this run. *)

\* An identifier nobody knows, if the account has room.
Free == IF Cardinality(registered) < MaxDevices
        THEN Device \ (registered \cup file \cup Foreign) ELSE {}

Create(d) ==
  /\ phase = "creating" /\ d \in Free /\ phase' = "created"
  /\ registered' = registered \cup {d} /\ active' = d
  /\ UNCHANGED <<account, file, own, remaining, pc, copy, leaked>>

\* createDevice throws, after Mullvad made the device.
CreateReplyLost(d) ==
  /\ phase = "creating" /\ d \in Free
  /\ Gone
  /\ registered' = registered \cup {d} /\ leaked' = leaked \cup {d}
  /\ UNCHANGED <<account, file>>

CreateRefused == phase = "creating" /\ Exits

RecordLoads(ok) ==
  /\ phase = "created" /\ phase' = "recording"
  /\ own' = Load(ok) /\ leaked' = leaked \cup Unread(ok)
  /\ UNCHANGED <<account, registered, file, active, remaining, pc, copy>>

Recorded ==
  /\ phase = "recording" /\ phase' = "tunnel"
  /\ file' = own \cup {active}
  /\ UNCHANGED <<account, registered, memory, leaked>>

\* "It will not be cleaned up automatically".
NotRecorded ==
  /\ phase \in {"created", "recording"} /\ phase' = "tunnel"
  /\ leaked' = leaked \cup {active}
  /\ UNCHANGED <<account, registered, file, memory>>

\* startTunnel.
TunnelUp ==
  /\ phase = "tunnel" /\ phase' = "health"
  /\ UNCHANGED <<account, registered, file, memory, leaked>>

TunnelFails ==
  /\ phase = "tunnel" /\ phase' = "undoing"
  /\ pc' = [pc EXCEPT ![Main] = "removing"]
  /\ UNCHANGED <<account, registered, file, active, own, remaining, copy, leaked>>

\* startVpnHealthCheck and listen.
Healthy ==
  /\ phase = "health" /\ phase' = "serving"
  /\ UNCHANGED <<account, registered, file, memory, leaked>>

Unhealthy == phase = "health" /\ Exits

----------------------------------------------------------------------------
(* The signal handlers, and deregisterDevice.  A second signal starts a     *)
(* second handler beside the first.                                         *)

Signalled(s) ==
  /\ phase = "serving" /\ pc[s] = "idle"
  /\ pc' = [pc EXCEPT ![s] = "closing"]
  /\ UNCHANGED <<phase, account, registered, file, active, own, remaining, copy, leaked>>

\* sessions, health check, app, browser and database; then teardownMullvad.
Closed(s) ==
  /\ pc[s] = "closing"
  /\ pc' = [pc EXCEPT ![s] = "removing"]
  /\ UNCHANGED <<phase, account, registered, file, active, own, remaining, copy, leaked>>

\* Mutant: activeDevice is cleared with the device, under the other handler.
Removed_Clears(a) ==
  /\ pc[a] = "removing"
  /\ Removal(active)
  /\ active' = NoDevice
  /\ pc' = [pc EXCEPT ![a] = "forgetting"]
  /\ UNCHANGED <<phase, account, file, own, remaining, copy>>

\* getAccessToken and removeDevice.
Removed(a) ==
  /\ pc[a] = "removing"
  /\ Removal(active)
  /\ pc' = [pc EXCEPT ![a] = "forgetting"]
  /\ UNCHANGED <<phase, account, file, active, own, remaining, copy>>

\* Mutant: whatever the reply, the device is forgotten.
RemoveFails_Forgets(a, done) ==
  /\ pc[a] = "removing"
  /\ IF done THEN Removal(active) ELSE UNCHANGED <<registered, leaked>>
  /\ pc' = [pc EXCEPT ![a] = "forgetting"]
  /\ UNCHANGED <<phase, account, file, active, own, remaining, copy>>

RemoveFails(a, done) ==
  /\ pc[a] = "removing"
  /\ IF done THEN Removal(active) ELSE UNCHANGED <<registered, leaked>>
  /\ pc' = [pc EXCEPT ![a] = "stopping"]
  /\ UNCHANGED <<phase, account, file, active, own, remaining, copy>>

ForgetLoads(a, ok) ==
  /\ pc[a] = "forgetting"
  /\ copy' = [copy EXCEPT ![a] = Load(ok) \ {active}]
  /\ leaked' = leaked \cup (Unread(ok) \ {active})
  /\ pc' = [pc EXCEPT ![a] = "saving"]
  /\ UNCHANGED <<phase, account, registered, file, active, own, remaining>>

Forgotten(a) ==
  /\ pc[a] = "saving"
  /\ file' = copy[a]
  /\ pc' = [pc EXCEPT ![a] = "stopping"]
  /\ UNCHANGED <<phase, account, registered, active, own, remaining, copy, leaked>>

\* The other handler renamed the temporary file, or the disk is full.
NotForgotten(a) ==
  /\ pc[a] \in {"forgetting", "saving"}
  /\ pc' = [pc EXCEPT ![a] = "stopping"]
  /\ UNCHANGED <<phase, account, registered, file, active, own, remaining, copy, leaked>>

\* stopTunnel and exit; or setupMullvad's error ends main.
Stopped(a) == pc[a] = "stopping" /\ Exits

----------------------------------------------------------------------------
MainStep ==
  \/ Boot \/ BadPassword \/ AdminCreated \/ CodeWritten \/ CodeLost
  \/ \E ok \in BOOLEAN : Token(ok) \/ RecordLoads(ok)
  \/ Listed \/ ApiFails \/ Purged \/ PurgeUnsaved \/ Relays
  \/ \E d \in Device : \/ Purge(d) \/ Create(d) \/ CreateReplyLost(d)
                       \/ \E done \in BOOLEAN : PurgeFails(d, done)
  \/ CreateRefused \/ Recorded \/ NotRecorded
  \/ TunnelUp \/ TunnelFails \/ Healthy \/ Unhealthy

ActorStep(a) ==
  \/ Closed(a) \/ Removed(a) \/ Forgotten(a) \/ NotForgotten(a) \/ Stopped(a)
  \/ \E b \in BOOLEAN : RemoveFails(a, b) \/ ForgetLoads(a, b)

Next == \/ MainStep \/ Crash
        \/ \E s \in Signal : Signalled(s)
        \/ \E a \in Actor : ActorStep(a)

\* The process is started again whenever it ended; a call to Mullvad that is
\* made again and again is answered at last, and the file is readable at last.
Fairness ==
  /\ WF_vars(MainStep) /\ \A a \in Actor : WF_vars(ActorStep(a))
  /\ SF_vars(Token(TRUE)) /\ SF_vars(Listed)
  /\ \A d \in Device : SF_vars(Purge(d))

Spec == Init /\ [][Next]_vars /\ Fairness

----------------------------------------------------------------------------
(* Properties. *)

\* Types; a device in use exists from its creation to the end of the process.
TypeOK ==
  /\ phase \in MainAt
  /\ admin \in BOOLEAN /\ codeFile \in BOOLEAN
  /\ registered \subseteq Device /\ file \subseteq Device /\ leaked \subseteq Device
  /\ active \in Device \cup {NoDevice}
  /\ own \subseteq Device /\ remaining \subseteq Device
  /\ pc \in [Actor -> ActorAt]
  /\ copy \in [Actor -> SUBSET Device]
  /\ active # NoDevice <=>
       phase \in {"created", "recording", "tunnel", "undoing", "health", "serving"}

\* "Nothing else is ever removed" (mullvad/index.ts:36): over every start, failed
\* start and shutdown the operator's other devices stay on the account.
ForeignStay == Foreign \subseteq registered

\* A device this instance registered is in the file until Mullvad has removed it,
\* across failed removals, lost replies, crashes and two handlers at once; but for
\* the one just created, those whose creation or record was cut off, and those an
\* unreadable file lost.
LeaksExplained == registered \ (Foreign \cup file) \subseteq leaked \cup Held

\* An instance that keeps being started removes what an earlier run left: a
\* recorded device that is not in use is gone at last.
LeftoversGo ==
  []<>(phase = "down") =>
    \A d \in Device : (d \in file /\ d # active) ~> (d \notin registered \/ d \in leaked)
=============================================================================
