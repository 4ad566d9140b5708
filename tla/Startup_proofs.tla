--------------------------- MODULE Startup_proofs ---------------------------
(***************************************************************************)
(* Proofs about the devices of an instance, for every set of devices, of   *)
(* signals and every limit of the account.                                 *)
(*                                                                         *)
(* LeaksExplained is not inductive: a step that writes the file writes     *)
(* what an earlier step loaded.  Loaded says that each list that will be   *)
(* written still holds every device the account has; OwnOnly that none of  *)
(* them holds one of the operator's.                                       *)
(***************************************************************************)
EXTENDS Startup, TLAPS

(* No list of this instance names a device of the operator.                 *)
OwnOnly ==
  /\ file \cap Foreign = {} /\ own \cap Foreign = {} /\ remaining \cap Foreign = {}
  /\ \A a \in Actor : copy[a] \cap Foreign = {}
  /\ active \notin Foreign

(* What is in no list that is about to be written is known to be leaked.    *)
Loaded ==
  /\ phase = "listing"   => registered \ (Foreign \cup own) \subseteq leaked
  /\ phase = "purging"   => registered \ (Foreign \cup own \cup remaining) \subseteq leaked
  /\ phase = "recording" => registered \ (Foreign \cup own \cup {active}) \subseteq leaked
  /\ \A a \in Actor : /\ pc[a] = "saving" => registered \ (Foreign \cup copy[a]) \subseteq leaked
                      /\ pc[a] # "idle" => phase \in {"serving", "undoing"}
                      /\ pc[a] \in {"forgetting", "saving"} => active \notin registered

DeviceInv == TypeOK /\ ForeignStay /\ LeaksExplained /\ OwnOnly /\ Loaded

----------------------------------------------------------------------------
(* The process ends: memory is empty, and so is what the file should hold    *)
(* but for what was created and not recorded.                                *)
LEMMA GoneInv ==
  ASSUME DeviceInv, Gone, file' = file, UNCHANGED account,
         ForeignStay', registered' \subseteq Device, leaked' \subseteq Device,
         registered' \ (Foreign \cup file) \subseteq leaked'
  PROVE  DeviceInv'
<1>1. TypeOK'
  BY DEF DeviceInv, TypeOK, Gone, account, MainAt, ActorAt
<1>2. OwnOnly'
  BY StartupAssumption DEF DeviceInv, OwnOnly, Gone
<1>3. LeaksExplained'
  BY DEF LeaksExplained, Held, Gone
<1>4. Loaded'
  BY DEF Loaded, Gone
<1>5. QED
  BY <1>1, <1>2, <1>3, <1>4 DEF DeviceInv

LEMMA InitInv == Init => DeviceInv
<1>1. ASSUME Init PROVE DeviceInv
  BY <1>1, StartupAssumption
  DEF Init, DeviceInv, TypeOK, ForeignStay, LeaksExplained, OwnOnly, Loaded, Held, MainAt, ActorAt
<1>2. QED
  BY <1>1

----------------------------------------------------------------------------
(* main() up to the device.                                                  *)

LEMMA BootInv ==
  ASSUME DeviceInv, Boot \/ AdminCreated \/ CodeWritten \/ Relays \/ TunnelUp \/ Healthy
  PROVE  DeviceInv'
<1>1. /\ UNCHANGED <<registered, file, active, own, remaining, pc, copy, leaked>>
      /\ admin' \in BOOLEAN /\ codeFile' \in BOOLEAN
      /\ phase' \in {"token", "bootstrapping", "codeless", "creating", "health", "serving"}
      /\ phase \in {"down", "bootstrapping", "codeless", "relays", "tunnel", "health"}
      /\ phase \in {"tunnel", "health"} <=> phase' \in {"health", "serving"}
  BY DEF DeviceInv, TypeOK, Boot, AdminCreated, CodeWritten, Relays, TunnelUp, Healthy, memory, account
<1>2. TypeOK'
  BY <1>1 DEF DeviceInv, TypeOK, MainAt
<1>3. ForeignStay' /\ OwnOnly'
  BY <1>1 DEF DeviceInv, ForeignStay, OwnOnly
<1>4. LeaksExplained'
  BY <1>1 DEF DeviceInv, LeaksExplained, Held
<1>5. Loaded'
  BY <1>1 DEF DeviceInv, Loaded
<1>6. QED
  BY <1>2, <1>3, <1>4, <1>5 DEF DeviceInv

LEMMA TokenInv ==
  ASSUME DeviceInv, NEW ok \in BOOLEAN, Token(ok)
  PROVE  DeviceInv'
<1>1. own' \subseteq file /\ (phase' = "listing" => own' = file)
  BY DEF Token, Load
<1>2. TypeOK'
  BY <1>1 DEF DeviceInv, TypeOK, Token, MainAt, account
<1>3. ForeignStay' /\ OwnOnly'
  BY <1>1 DEF DeviceInv, ForeignStay, OwnOnly, Token
<1>4. LeaksExplained' /\ Loaded'
  BY <1>1 DEF DeviceInv, LeaksExplained, Loaded, Held, Token
<1>5. QED
  BY <1>2, <1>3, <1>4 DEF DeviceInv

LEMMA ListedInv ==
  ASSUME DeviceInv, Listed
  PROVE  DeviceInv'
<1>1. TypeOK'
  BY DEF DeviceInv, TypeOK, Listed, Leftovers, MainAt, account
<1>2. ForeignStay' /\ OwnOnly'
  BY DEF DeviceInv, ForeignStay, OwnOnly, Listed, Leftovers
<1>3. LeaksExplained' /\ Loaded'
  BY DEF DeviceInv, LeaksExplained, Loaded, Held, Listed, Leftovers
<1>4. QED
  BY <1>1, <1>2, <1>3 DEF DeviceInv

(* A leftover is removed, or not: what stays is in own or remaining.         *)
LEMMA PurgeInv ==
  ASSUME DeviceInv, NEW d \in Device,
         Purge(d) \/ \E done \in BOOLEAN : PurgeFails(d, done)
  PROVE  DeviceInv'
<1>1. /\ phase = "purging" /\ phase' = phase /\ d \in own /\ own' = own \ {d}
      /\ UNCHANGED <<account, file, active, pc, copy>>
      /\ \/ Removal(d) /\ remaining' \in {remaining, remaining \cup {d}}
         \/ UNCHANGED <<registered, leaked>> /\ remaining' = remaining \cup {d}
  BY DEF Purge, PurgeFails
<1>2. d \notin Foreign
  BY <1>1 DEF DeviceInv, OwnOnly
<1>3. TypeOK'
  BY <1>1 DEF DeviceInv, TypeOK, Removal, account
<1>4. ForeignStay' /\ OwnOnly'
  BY <1>1, <1>2 DEF DeviceInv, ForeignStay, OwnOnly, Removal
<1>5. LeaksExplained'
  BY <1>1 DEF DeviceInv, LeaksExplained, Held, Removal
<1>6. Loaded'
  BY <1>1 DEF DeviceInv, Loaded, Removal
<1>7. QED
  BY <1>3, <1>4, <1>5, <1>6 DEF DeviceInv

LEMMA PurgedInv ==
  ASSUME DeviceInv, Purged
  PROVE  DeviceInv'
<1>1. TypeOK'
  BY DEF DeviceInv, TypeOK, Purged, Rest, MainAt, account, memory
<1>2. ForeignStay' /\ OwnOnly'
  BY DEF DeviceInv, ForeignStay, OwnOnly, Purged, Rest, memory
<1>3. LeaksExplained' /\ Loaded'
  BY DEF DeviceInv, LeaksExplained, Loaded, Held, Purged, Rest, memory
<1>4. QED
  BY <1>1, <1>2, <1>3 DEF DeviceInv

----------------------------------------------------------------------------
(* The device of the run.                                                    *)

LEMMA CreateInv ==
  ASSUME DeviceInv, NEW d \in Device, Create(d)
  PROVE  DeviceInv'
<1>1. d \notin Foreign /\ d # NoDevice
  BY StartupAssumption DEF Create, Free
<1>2. TypeOK'
  BY <1>1 DEF DeviceInv, TypeOK, Create, MainAt, account
<1>3. ForeignStay' /\ OwnOnly'
  BY <1>1 DEF DeviceInv, ForeignStay, OwnOnly, Create
<1>4. LeaksExplained' /\ Loaded'
  BY DEF DeviceInv, LeaksExplained, Loaded, Held, Create
<1>5. QED
  BY <1>2, <1>3, <1>4 DEF DeviceInv

LEMMA CreateReplyLostInv ==
  ASSUME DeviceInv, NEW d \in Device, CreateReplyLost(d)
  PROVE  DeviceInv'
<1>1. ForeignStay' /\ registered' \subseteq Device /\ leaked' \subseteq Device
  BY DEF DeviceInv, TypeOK, ForeignStay, CreateReplyLost
<1>2. registered' \ (Foreign \cup file) \subseteq leaked'
  BY DEF DeviceInv, LeaksExplained, Held, CreateReplyLost
<1>3. QED
  BY <1>1, <1>2, GoneInv DEF CreateReplyLost

LEMMA RecordInv ==
  ASSUME DeviceInv, (\E ok \in BOOLEAN : RecordLoads(ok)) \/ Recorded \/ NotRecorded
  PROVE  DeviceInv'
<1>1. CASE \E ok \in BOOLEAN : RecordLoads(ok)
  <2>1. PICK ok \in BOOLEAN : RecordLoads(ok)
    BY <1>1
  <2>2. TypeOK'
    BY <2>1 DEF DeviceInv, TypeOK, RecordLoads, Load, Unread, MainAt, account
  <2>3. ForeignStay' /\ OwnOnly'
    BY <2>1 DEF DeviceInv, ForeignStay, OwnOnly, RecordLoads, Load
  <2>4. LeaksExplained' /\ Loaded'
    BY <2>1 DEF DeviceInv, LeaksExplained, Loaded, Held, RecordLoads, Load, Unread
  <2>5. QED
    BY <2>2, <2>3, <2>4 DEF DeviceInv
<1>2. CASE Recorded
  <2>1. active \in Device /\ active \notin Foreign
    BY <1>2 DEF DeviceInv, TypeOK, OwnOnly, Recorded
  <2>2. TypeOK'
    BY <1>2, <2>1 DEF DeviceInv, TypeOK, Recorded, MainAt, account, memory
  <2>3. ForeignStay' /\ OwnOnly'
    BY <1>2, <2>1 DEF DeviceInv, ForeignStay, OwnOnly, Recorded, memory
  <2>4. LeaksExplained' /\ Loaded'
    BY <1>2 DEF DeviceInv, LeaksExplained, Loaded, Held, Recorded, memory
  <2>5. QED
    BY <2>2, <2>3, <2>4 DEF DeviceInv
<1>3. CASE NotRecorded
  <2>1. active \in Device
    BY <1>3 DEF DeviceInv, TypeOK, NotRecorded
  <2>2. TypeOK'
    BY <1>3, <2>1 DEF DeviceInv, TypeOK, NotRecorded, MainAt, account, memory
  <2>3. ForeignStay' /\ OwnOnly'
    BY <1>3 DEF DeviceInv, ForeignStay, OwnOnly, NotRecorded, memory
  <2>4. LeaksExplained' /\ Loaded'
    BY <1>3 DEF DeviceInv, LeaksExplained, Loaded, Held, NotRecorded, memory
  <2>5. QED
    BY <2>2, <2>3, <2>4 DEF DeviceInv
<1>4. QED
  BY <1>1, <1>2, <1>3

----------------------------------------------------------------------------
(* deregisterDevice, by main or by a handler.                                *)

(* A caller moves on, and nothing but its own state and the account change.  *)
LEMMA ActorInv ==
  ASSUME DeviceInv, NEW a \in Actor, NEW at \in ActorAt,
         phase' \in {"serving", "undoing"}, phase \in {"tunnel", "serving", "undoing"},
         pc' = [pc EXCEPT ![a] = at], at # "saving",
         at = "forgetting" => active \notin registered',
         UNCHANGED <<account, file, active, own, remaining, copy>>,
         Removal(active) \/ UNCHANGED <<registered, leaked>>
  PROVE  DeviceInv'
<1>1. active \in Device /\ active \notin Foreign
  BY DEF DeviceInv, TypeOK, OwnOnly
<1>2. TypeOK'
  BY <1>1 DEF DeviceInv, TypeOK, Removal, MainAt, account
<1>3. ForeignStay' /\ OwnOnly'
  BY <1>1 DEF DeviceInv, ForeignStay, OwnOnly, Removal
<1>4. LeaksExplained'
  BY DEF DeviceInv, LeaksExplained, Held, Removal
<1>5. Loaded'
  BY DEF DeviceInv, TypeOK, Loaded, Removal
<1>6. QED
  BY <1>2, <1>3, <1>4, <1>5 DEF DeviceInv

LEMMA ForgetInv ==
  ASSUME DeviceInv, NEW a \in Actor,
         (\E ok \in BOOLEAN : ForgetLoads(a, ok)) \/ Forgotten(a)
  PROVE  DeviceInv'
<1>0. phase \in {"serving", "undoing"} /\ active \notin registered
  BY DEF DeviceInv, Loaded, ForgetLoads, Forgotten
<1>1. CASE \E ok \in BOOLEAN : ForgetLoads(a, ok)
  <2>1. PICK ok \in BOOLEAN : ForgetLoads(a, ok)
    BY <1>1
  <2>2. TypeOK'
    BY <2>1 DEF DeviceInv, TypeOK, ForgetLoads, Load, Unread, ActorAt, account
  <2>3. ForeignStay' /\ OwnOnly'
    BY <2>1 DEF DeviceInv, TypeOK, ForeignStay, OwnOnly, ForgetLoads, Load
  <2>4. LeaksExplained'
    BY <1>0, <2>1 DEF DeviceInv, LeaksExplained, Held, ForgetLoads
  <2>5. registered \ (Foreign \cup copy'[a]) \subseteq leaked'
    BY <1>0, <2>1 DEF DeviceInv, TypeOK, LeaksExplained, Held, ForgetLoads, Load, Unread
  <2>6. Loaded'
    BY <1>0, <2>1, <2>5 DEF DeviceInv, TypeOK, Loaded, ForgetLoads
  <2>7. QED
    BY <2>2, <2>3, <2>4, <2>6 DEF DeviceInv
<1>2. CASE Forgotten(a)
  <2>1. TypeOK'
    BY <1>2 DEF DeviceInv, TypeOK, Forgotten, ActorAt, account
  <2>2. ForeignStay' /\ OwnOnly'
    BY <1>2 DEF DeviceInv, ForeignStay, OwnOnly, Forgotten
  <2>3. LeaksExplained'
    BY <1>2 DEF DeviceInv, LeaksExplained, Loaded, Held, Forgotten
  <2>4. Loaded'
    BY <1>2 DEF DeviceInv, TypeOK, Loaded, Forgotten
  <2>5. QED
    BY <2>1, <2>2, <2>3, <2>4 DEF DeviceInv
<1>3. QED
  BY <1>1, <1>2

(* An exit outside the gap between createDevice and the record.              *)
LEMMA ExitsInv ==
  ASSUME DeviceInv, Exits, phase \notin {"created", "recording"}
  PROVE  DeviceInv'
<1>1. ForeignStay' /\ registered' \subseteq Device /\ leaked' \subseteq Device
  BY DEF DeviceInv, TypeOK, ForeignStay, Exits
<1>2. registered' \ (Foreign \cup file) \subseteq leaked'
  BY DEF DeviceInv, LeaksExplained, Held, Exits
<1>3. QED
  BY <1>1, <1>2, GoneInv DEF Exits

LEMMA CrashInv ==
  ASSUME DeviceInv, Crash
  PROVE  DeviceInv'
<1>1. Held \subseteq Device
  BY DEF DeviceInv, TypeOK, Held
<1>2. ForeignStay' /\ registered' \subseteq Device /\ leaked' \subseteq Device
  BY <1>1 DEF DeviceInv, TypeOK, ForeignStay, Crash
<1>3. registered' \ (Foreign \cup file) \subseteq leaked'
  BY DEF DeviceInv, LeaksExplained, Crash
<1>4. QED
  BY <1>2, <1>3, GoneInv DEF Crash

LEMMA ActorStepInv ==
  ASSUME DeviceInv, NEW a \in Actor, ActorStep(a)
  PROVE  DeviceInv'
<1>0. pc[a] # "idle" => phase \in {"serving", "undoing"}
  BY DEF DeviceInv, Loaded
<1>1. CASE Closed(a) \/ NotForgotten(a)
  BY <1>0, <1>1, ActorInv DEF Closed, NotForgotten, ActorAt
<1>2. CASE Removed(a)
  BY <1>0, <1>2, ActorInv DEF Removed, Removal, ActorAt
<1>3. CASE \E b \in BOOLEAN : RemoveFails(a, b)
  BY <1>0, <1>3, ActorInv DEF RemoveFails, ActorAt
<1>4. CASE (\E b \in BOOLEAN : ForgetLoads(a, b)) \/ Forgotten(a)
  BY <1>4, ForgetInv
<1>5. CASE Stopped(a)
  BY <1>0, <1>5, ExitsInv DEF Stopped
<1>6. QED
  BY <1>1, <1>2, <1>3, <1>4, <1>5 DEF ActorStep

LEMMA SignalledInv ==
  ASSUME DeviceInv, NEW s \in Signal, Signalled(s)
  PROVE  DeviceInv'
<1>1. s \in Actor
  BY DEF Actor
<1>2. QED
  BY <1>1, ActorInv DEF Signalled, ActorAt

LEMMA TunnelFailsInv ==
  ASSUME DeviceInv, TunnelFails
  PROVE  DeviceInv'
<1>1. Main \in Actor
  BY DEF Actor
<1>2. QED
  BY <1>1, ActorInv DEF TunnelFails, ActorAt

LEMMA MainStepInv ==
  ASSUME DeviceInv, MainStep
  PROVE  DeviceInv'
<1>1. CASE Boot \/ AdminCreated \/ CodeWritten \/ Relays \/ TunnelUp \/ Healthy
  BY <1>1, BootInv
<1>2. CASE BadPassword \/ CodeLost \/ ApiFails \/ PurgeUnsaved \/ CreateRefused \/ Unhealthy
  BY <1>2, ExitsInv DEF BadPassword, CodeLost, ApiFails, PurgeUnsaved, CreateRefused, Unhealthy
<1>3. CASE (\E ok \in BOOLEAN : RecordLoads(ok)) \/ Recorded \/ NotRecorded
  BY <1>3, RecordInv
<1>4. CASE \E ok \in BOOLEAN : Token(ok)
  BY <1>4, TokenInv
<1>5. CASE Listed
  BY <1>5, ListedInv
<1>6. CASE Purged
  BY <1>6, PurgedInv
<1>7. CASE \E d \in Device : Create(d) \/ CreateReplyLost(d)
  BY <1>7, CreateInv, CreateReplyLostInv
<1>8. CASE \E d \in Device : Purge(d) \/ \E done \in BOOLEAN : PurgeFails(d, done)
  BY <1>8, PurgeInv
<1>9. CASE TunnelFails
  BY <1>9, TunnelFailsInv
<1>10. QED
  BY <1>1, <1>2, <1>3, <1>4, <1>5, <1>6, <1>7, <1>8, <1>9 DEF MainStep

LEMMA StutterInv ==
  ASSUME DeviceInv, UNCHANGED vars
  PROVE  DeviceInv'
BY DEF DeviceInv, TypeOK, ForeignStay, LeaksExplained, OwnOnly, Loaded, Held, vars, account, memory

(* DeviceInv holds in every state.                                           *)
THEOREM DevicesAreKnown == Spec => []DeviceInv
<1>1. Init => DeviceInv
  BY InitInv
<1>2. DeviceInv /\ [Next]_vars => DeviceInv'
  <2>1. SUFFICES ASSUME DeviceInv, [Next]_vars
                 PROVE  DeviceInv'
    OBVIOUS
  <2>2. CASE MainStep
    BY <2>1, <2>2, MainStepInv
  <2>3. CASE Crash
    BY <2>1, <2>3, CrashInv
  <2>4. CASE \E s \in Signal : Signalled(s)
    BY <2>1, <2>4, SignalledInv
  <2>5. CASE \E a \in Actor : ActorStep(a)
    BY <2>1, <2>5, ActorStepInv
  <2>6. CASE UNCHANGED vars
    BY <2>1, <2>6, StutterInv
  <2>7. QED
    BY <2>1, <2>2, <2>3, <2>4, <2>5, <2>6 DEF Next
<1>3. QED
  BY <1>1, <1>2, PTL DEF Spec

(* Type correctness.                                                         *)
THEOREM TypeCorrect == Spec => []TypeOK
<1>1. DeviceInv => TypeOK
  BY DEF DeviceInv
<1>2. QED
  BY <1>1, DevicesAreKnown, PTL

(* The operator's devices stay on the account, whatever fails.               *)
THEOREM ForeignDevicesStay == Spec => []ForeignStay
<1>1. DeviceInv => ForeignStay
  BY DEF DeviceInv
<1>2. QED
  BY <1>1, DevicesAreKnown, PTL

(* A registered device is in the file, but for the gaps LeaksExplained names. *)
THEOREM RegisteredAreRecorded == Spec => []LeaksExplained
<1>1. DeviceInv => LeaksExplained
  BY DEF DeviceInv
<1>2. QED
  BY <1>1, DevicesAreKnown, PTL
=============================================================================
