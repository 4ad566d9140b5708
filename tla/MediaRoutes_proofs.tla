------------------------- MODULE MediaRoutes_proofs -------------------------
(***************************************************************************)
(* Proofs about the media routes, for every number of users, requests,     *)
(* slots, places and caps.                                                 *)
(*                                                                         *)
(* The invariant has four parts that an action touches independently: the  *)
(* semaphores, the users' limits, the staged files and the browser.  What  *)
(* a request counts for in each part is a function of its record, so one   *)
(* lemma says that a part is kept when no record changes what it counts    *)
(* for, and a few say what a taken, passed on or returned slot or place    *)
(* does.  Each action is then one lemma of each part.                      *)
(***************************************************************************)
EXTENDS MediaRoutes, FiniteSetTheorems, SequenceTheorems, TLAPS

(* The semaphore a record holds a slot of, or waits for.                     *)
HoldsOf(x) == IF x = None THEN "no" ELSE IF x.at \in Held THEN SemOf(x.kind) ELSE "no"
WaitsOf(x) == IF x = None THEN "no" ELSE IF x.at = "queued" THEN SemOf(x.kind) ELSE "no"

(* The limit and the user a record counts for.                               *)
CountsOf(x) == x.at # "vetting" /\ x.kind # "job" /\ (x.kind = "sse" => ~x.gone)
PlaceOf(x, l, u) == x # None /\ CountsOf(x) /\ LimitOf(x.kind) = l /\ x.user = u

(* The record's request has a staged file.                                   *)
StagedAt  == {"spawning", "running", "sending", "erasing"}
DirOf(x)  == x # None /\ x.kind = "video" /\ x.at \in StagedAt

(* The record is at a (an await the browser's invariant speaks of).          *)
PoolOf(x, a) == x # None /\ x.at = a

PageAt == {"closing", "stopping", "launching", "browsing", "broken", "leaving"}

(* A record is where the handler of its kind can be; /extract/stream read a  *)
(* count below the cap.                                                      *)
Sound(x) == x # None =>
  /\ x \in Request /\ x.seen < SseCap
  /\ (x.kind = "job") <=> (x.user = None)
  /\ x.retry => x.kind = "video"
  /\ x.at \in {"staging", "sending", "erasing"} => x.kind = "video"
  /\ x.at \in {"spawning", "running"} => x.kind \in Media
  /\ x.at \in PageAt => x.kind \in Pages
  /\ x.at \in {"resolving", "fetching"} => x.kind \in Images
  /\ x.at = "probing" => x.kind = "sse"
  /\ x.at = "vetting" => x.kind # "job"
  /\ x.at \in {"granted", "queued"} => x.kind \notin Images

Shape == requests \in [Req -> Request \cup {None}] /\ \A r \in Req : Sound(requests[r])

SemType   == running \in [Sem -> Nat] /\ queue \in [Sem -> Seq(Req)]
SemInv    == SemType /\ SlotsExact /\ QueueSound
PlaceInv  == count \in [Limit -> [User -> Nat]] /\ UserLimitsExact /\ NobodyLockedOut
DirInv    == dirs \subseteq Req /\ StagedErased
PoolInv   == {browser, launch} \subseteq Route \cup {None} /\ chromiums \in Nat /\ OneBrowser

MediaInv == Shape /\ SemInv /\ PlaceInv /\ DirInv /\ PoolInv

----------------------------------------------------------------------------
(* Semaphores.                                                               *)

LEMMA HoldersAre ==
  ASSUME NEW s \in Sem
  PROVE  /\ Holders(s) = {q \in Req : HoldsOf(requests[q]) = s}
         /\ \A q \in Req : (At(q, {"queued"}) /\ MySem(q) = s) <=> WaitsOf(requests[q]) = s
<1>1. s # "no"
  BY DEF Sem
<1>2. QED
  BY <1>1 DEF Holders, HoldsOf, WaitsOf, At, MySem

LEMMA HoldersArePrime ==
  ASSUME NEW s \in Sem
  PROVE  /\ Holders(s)' = {q \in Req : HoldsOf(requests'[q]) = s}
         /\ \A q \in Req : (At(q, {"queued"}) /\ MySem(q) = s)' <=> WaitsOf(requests'[q]) = s
<1>1. s # "no"
  BY DEF Sem
<1>2. QED
  BY <1>1 DEF Holders, HoldsOf, WaitsOf, At, MySem

LEMMA HoldersFinite ==
  ASSUME NEW s \in Sem
  PROVE  IsFiniteSet(Holders(s)) /\ Cardinality(Holders(s)) \in Nat
<1>1. IsFiniteSet(Req) /\ Holders(s) \subseteq Req
  BY MediaAssumption DEF Holders
<1>2. QED
  BY <1>1, FS_Subset, FS_CardinalityType

(* What SlotsExact and QueueSound say of one semaphore, in terms of records. *)
SlotsOf(s)  == running[s] = Cardinality(Holders(s)) /\ running[s] <= Slots(s)
QueueOf(s)  == /\ \A i, j \in 1..Len(queue[s]) : queue[s][i] = queue[s][j] => i = j
               /\ \A q \in Req : WaitsOf(requests[q]) = s <=> \E i \in 1..Len(queue[s]) : queue[s][i] = q
               /\ Len(queue[s]) <= MaxQueue(s)
               /\ queue[s] # <<>> => running[s] = Slots(s)

LEMMA SemOfSlots ==
  ASSUME SemInv, NEW s \in Sem
  PROVE  SlotsOf(s) /\ QueueOf(s)
BY HoldersAre DEF SemInv, SlotsExact, QueueSound, SlotsOf, QueueOf

LEMMA SemOfSlotsPrime ==
  ASSUME SemType', \A s \in Sem : SlotsOf(s)' /\ QueueOf(s)'
  PROVE  SemInv'
<1>1. SlotsExact'
  BY DEF SlotsExact, SlotsOf
<1>2. QueueSound'
  BY HoldersArePrime DEF QueueSound, QueueOf
<1>3. QED
  BY <1>1, <1>2 DEF SemInv

(* A semaphore whose variables and whose holders and waiters do not change.  *)
LEMMA SemKept ==
  ASSUME SemInv, NEW s \in Sem, running'[s] = running[s], queue'[s] = queue[s],
         \A q \in Req : /\ HoldsOf(requests'[q]) = s <=> HoldsOf(requests[q]) = s
                        /\ WaitsOf(requests'[q]) = s <=> WaitsOf(requests[q]) = s
  PROVE  SlotsOf(s)' /\ QueueOf(s)'
<1>1. SlotsOf(s) /\ QueueOf(s)
  BY SemOfSlots
<1>2. Holders(s)' = Holders(s)
  BY HoldersAre, HoldersArePrime
<1>3. QED
  BY <1>1, <1>2 DEF SlotsOf, QueueOf

LEMMA SemSame ==
  ASSUME SemInv, UNCHANGED semVars,
         \A q \in Req : /\ HoldsOf(requests'[q]) = HoldsOf(requests[q])
                        /\ WaitsOf(requests'[q]) = WaitsOf(requests[q])
  PROVE  SemInv'
<1>1. SemType'
  BY DEF SemInv, SemType, semVars
<1>2. \A s \in Sem : SlotsOf(s)' /\ QueueOf(s)'
  BY SemKept DEF semVars
<1>3. QED
  BY <1>1, <1>2, SemOfSlotsPrime

LEMMA SlotTypes ==
  ASSUME NEW s \in Sem
  PROVE  Slots(s) \in Nat \ {0} /\ MaxQueue(s) \in Nat
BY MediaAssumption DEF Slots, MaxQueue

(* acquire with a free slot.                                                 *)
LEMMA SemAcquired ==
  ASSUME SemInv, NEW r \in Req, NEW s \in Sem,
         running[s] < Slots(s), running' = [running EXCEPT ![s] = @ + 1], queue' = queue,
         HoldsOf(requests[r]) = "no", HoldsOf(requests'[r]) = s,
         WaitsOf(requests[r]) = "no", WaitsOf(requests'[r]) = "no",
         \A q \in Req \ {r} : requests'[q] = requests[q]
  PROVE  SemInv'
<1>0. "no" \notin Sem /\ running \in [Sem -> Nat] /\ queue \in [Sem -> Seq(Req)]
  BY DEF Sem, SemInv, SemType
<1>1. SemType'
  BY <1>0 DEF SemType
<1>2. \A t \in Sem \ {s} : SlotsOf(t)' /\ QueueOf(t)'
  BY <1>0, SemKept
<1>3. SlotsOf(s) /\ QueueOf(s)
  BY SemOfSlots
<1>4. Holders(s)' = Holders(s) \cup {r} /\ r \notin Holders(s)
  BY <1>0, HoldersAre, HoldersArePrime
<1>5. Cardinality(Holders(s)') = Cardinality(Holders(s)) + 1
  BY <1>4, HoldersFinite, FS_AddElement
<1>6. running'[s] = running[s] + 1 /\ running[s] \in Nat /\ Slots(s) \in Nat
  BY <1>0, SlotTypes
<1>7. SlotsOf(s)'
  BY <1>3, <1>5, <1>6 DEF SlotsOf, Slots
<1>8. queue[s] = <<>>
  BY <1>3, <1>6 DEF QueueOf
<1>9. QueueOf(s)'
  BY <1>0, <1>3, <1>8 DEF QueueOf, MaxQueue, Slots
<1>10. QED
  BY <1>1, <1>2, <1>7, <1>9, SemOfSlotsPrime

(* acquire behind others.                                                    *)
LEMMA SemQueued ==
  ASSUME SemInv, NEW r \in Req, NEW s \in Sem,
         running[s] >= Slots(s), Len(queue[s]) < MaxQueue(s),
         running' = running, queue' = [queue EXCEPT ![s] = Append(@, r)],
         HoldsOf(requests[r]) = "no", HoldsOf(requests'[r]) = "no",
         WaitsOf(requests[r]) = "no", WaitsOf(requests'[r]) = s,
         \A q \in Req \ {r} : requests'[q] = requests[q]
  PROVE  SemInv'
<1>0. "no" \notin Sem /\ running \in [Sem -> Nat] /\ queue \in [Sem -> Seq(Req)]
  BY DEF Sem, SemInv, SemType
<1>1. SemType'
  BY <1>0 DEF SemType
<1>a. \A q \in Req : HoldsOf(requests'[q]) = HoldsOf(requests[q])
  OBVIOUS
<1>2. \A t \in Sem \ {s} : SlotsOf(t)' /\ QueueOf(t)'
  <2>1. SUFFICES ASSUME NEW t \in Sem \ {s} PROVE SlotsOf(t)' /\ QueueOf(t)'
    OBVIOUS
  <2>2. \A q \in Req : WaitsOf(requests'[q]) = t <=> WaitsOf(requests[q]) = t
    BY <1>0
  <2>3. running'[t] = running[t] /\ queue'[t] = queue[t] /\ t \in Sem
    BY <1>0
  <2>4. QED
    BY <1>a, <2>2, <2>3, SemKept
<1>3. SlotsOf(s) /\ QueueOf(s)
  BY SemOfSlots
<1>4. Holders(s)' = Holders(s)
  <2>1. Holders(s) = {q \in Req : HoldsOf(requests[q]) = s}
    BY HoldersAre
  <2>2. Holders(s)' = {q \in Req : HoldsOf(requests'[q]) = s}
    BY HoldersArePrime
  <2>3. QED
    BY <1>a, <2>1, <2>2
<1>5. SlotsOf(s)' /\ running[s] = Slots(s)
  <2>1. running[s] \in Nat /\ Slots(s) \in Nat
    BY <1>0, SlotTypes
  <2>2. QED
    BY <1>3, <1>4, <2>1 DEF SlotsOf, Slots
<1>6. queue'[s] = Append(queue[s], r) /\ queue[s] \in Seq(Req) /\ Len(queue[s]) \in Nat
  BY <1>0, LenProperties
<1>7. /\ Len(queue'[s]) = Len(queue[s]) + 1
      /\ queue'[s][Len(queue[s]) + 1] = r
      /\ \A i \in 1..Len(queue[s]) : queue'[s][i] = queue[s][i]
  BY <1>6, AppendProperties
<1>8. \A i \in 1..Len(queue[s]) : queue[s][i] # r
  BY <1>0, <1>3 DEF QueueOf
<1>9. \A i, j \in 1..Len(queue'[s]) : queue'[s][i] = queue'[s][j] => i = j
  BY <1>3, <1>6, <1>7, <1>8 DEF QueueOf
<1>10. \A q \in Req : WaitsOf(requests'[q]) = s <=> \E i \in 1..Len(queue'[s]) : queue'[s][i] = q
  <2>1. SUFFICES ASSUME NEW q \in Req
                 PROVE  WaitsOf(requests'[q]) = s <=> \E i \in 1..Len(queue'[s]) : queue'[s][i] = q
    OBVIOUS
  <2>2. CASE q = r
    BY <1>6, <1>7, <2>2
  <2>3. CASE q # r
    BY <1>3, <1>6, <1>7, <2>3 DEF QueueOf
  <2>4. QED
    BY <2>2, <2>3
<1>11. QueueOf(s)'
  <2>1. Len(queue'[s]) <= MaxQueue(s)
    BY <1>6, <1>7, SlotTypes
  <2>2. QED
    BY <1>5, <1>9, <1>10, <2>1 DEF QueueOf, MaxQueue, Slots
<1>12. QED
  BY <1>1, <1>2, <1>5, <1>11, SemOfSlotsPrime

(* release(): what becomes of the records.                                   *)
Granted(q) == /\ requests[q] # None /\ requests[q].at = "queued"
              /\ requests'[q] = [requests[q] EXCEPT !.at = "granted"]

LEMMA QueueHead ==
  ASSUME Shape, SemInv, NEW s \in Sem, queue[s] # <<>>
  PROVE  /\ Head(queue[s]) \in Req /\ Head(queue[s]) = queue[s][1] /\ 1 \in 1..Len(queue[s])
         /\ requests[Head(queue[s])] \in Request
         /\ requests[Head(queue[s])].at = "queued"
         /\ WaitsOf(requests[Head(queue[s])]) = s
<1>1. queue[s] \in Seq(Req)
  BY DEF SemInv, SemType
<1>2. Head(queue[s]) \in Req /\ Head(queue[s]) = queue[s][1] /\ 1 \in 1..Len(queue[s])
  BY <1>1
<1>3. WaitsOf(requests[Head(queue[s])]) = s
  BY <1>2, SemOfSlots DEF QueueOf
<1>4. requests[Head(queue[s])] # None /\ requests[Head(queue[s])].at = "queued"
  BY <1>3 DEF WaitsOf, Sem
<1>5. QED
  BY <1>2, <1>3, <1>4 DEF Shape

LEMMA FreedRecords ==
  ASSUME Shape, SemInv, NEW r \in Req, NEW new, requests[r] # None,
         requests[r].at \in Held, Freed(r, new)
  PROVE  /\ requests' \in [Req -> {new} \cup Request \cup {None}]
         /\ requests'[r] = new
         /\ \A q \in Req \ {r} : requests'[q] = requests[q] \/ Granted(q)
<1>1. requests \in [Req -> Request \cup {None}]
  BY DEF Shape
<1>2. MySem(r) \in Sem
  BY DEF MySem, SemOf, Sem
<1>3. CASE queue[MySem(r)] = <<>>
  BY <1>1, <1>3 DEF Freed
<1>4. CASE queue[MySem(r)] # <<>>
  <2> DEFINE h == Head(queue[MySem(r)])
  <2>1. h \in Req /\ requests[h] \in Request /\ requests[h].at = "queued" /\ requests[h] # None
    BY <1>2, <1>4, QueueHead, NoneAssumption
  <2>2. h # r
    BY <2>1 DEF Held
  <2>3. requests' = [requests EXCEPT ![r] = new, ![h].at = "granted"]
    BY <1>4 DEF Freed
  <2>4. [requests[h] EXCEPT !.at = "granted"] \in Request
    BY <2>1 DEF Request, Await, Held
  <2>5. requests'[h] = [requests[h] EXCEPT !.at = "granted"]
    BY <1>1, <2>1, <2>2, <2>3
  <2>6. requests'[r] = new /\ \A q \in Req \ {r, h} : requests'[q] = requests[q]
    BY <1>1, <2>1, <2>2, <2>3
  <2>7. DOMAIN requests' = Req /\ requests' = [q \in Req |-> requests'[q]]
    BY <1>1, <2>3
  <2>8. \A q \in Req : requests'[q] \in {new} \cup Request \cup {None}
    BY <1>1, <2>1, <2>4, <2>5, <2>6
  <2>9. requests' \in [Req -> {new} \cup Request \cup {None}]
    BY <2>7, <2>8
  <2>10. QED
    BY <2>1, <2>5, <2>6, <2>9 DEF Granted
<1>5. QED
  BY <1>3, <1>4

LEMMA SemFreed ==
  ASSUME Shape, SemInv, NEW r \in Req, NEW new, requests[r] # None,
         requests[r].at \in Held, NEW s \in Sem, s = MySem(r), HoldsOf(new) = "no", WaitsOf(new) = "no", Freed(r, new)
  PROVE  SemInv'
<1>0. "no" \notin Sem /\ running \in [Sem -> Nat] /\ queue \in [Sem -> Seq(Req)]
  BY DEF Sem, SemInv, SemType
<1>1. HoldsOf(requests[r]) = s /\ WaitsOf(requests[r]) = "no"
  BY DEF HoldsOf, WaitsOf, MySem, Held
<1>2. SlotsOf(s) /\ QueueOf(s)
  BY <1>0, SemOfSlots
<1>3. r \in Holders(s) /\ Cardinality(Holders(s)) \in Nat /\ IsFiniteSet(Holders(s))
  BY <1>0, <1>1, HoldersAre, HoldersFinite
<1>4. Cardinality(Holders(s) \ {r}) = Cardinality(Holders(s)) - 1
  BY <1>3, FS_RemoveElement
<1>5. running[s] \in Nat /\ running[s] = Cardinality(Holders(s)) /\ Slots(s) \in Nat
  BY <1>0, <1>2, SlotTypes DEF SlotsOf
<1>6. CASE queue[s] = <<>>
  <2>1. running' = [running EXCEPT ![s] = @ - 1] /\ queue' = queue
    BY <1>6 DEF Freed
  <2>2. requests'[r] = new /\ \A q \in Req \ {r} : requests'[q] = requests[q]
    BY <1>6 DEF Freed, Shape
  <2>3. \A q \in Req : WaitsOf(requests'[q]) = WaitsOf(requests[q])
    BY <1>1, <2>2
  <2>4. \A q \in Req : HoldsOf(requests'[q]) = IF q = r THEN "no" ELSE HoldsOf(requests[q])
    BY <2>2
  <2>5. \A t \in Sem \ {s} : SlotsOf(t)' /\ QueueOf(t)'
    <3>1. SUFFICES ASSUME NEW t \in Sem \ {s} PROVE SlotsOf(t)' /\ QueueOf(t)'
      OBVIOUS
    <3>2. \A q \in Req : HoldsOf(requests'[q]) = t <=> HoldsOf(requests[q]) = t
      BY <1>0, <1>1, <2>4
    <3>3. running'[t] = running[t] /\ queue'[t] = queue[t] /\ t \in Sem
      BY <1>0, <2>1
    <3>4. QED
      BY <2>3, <3>2, <3>3, SemKept
  <2>6. Holders(s)' = Holders(s) \ {r}
    <3>1. Holders(s) = {q \in Req : HoldsOf(requests[q]) = s}
      BY <1>0, HoldersAre
    <3>2. Holders(s)' = {q \in Req : HoldsOf(requests'[q]) = s}
      BY <1>0, HoldersArePrime
    <3>3. QED
      BY <1>0, <2>4, <3>1, <3>2
  <2>7. Cardinality(Holders(s)) # 0
    BY <1>3, FS_EmptySet
  <2>8. running'[s] = running[s] - 1 /\ running'[s] \in Nat
    BY <1>0, <1>3, <1>5, <2>1, <2>7
  <2>9. SlotsOf(s)'
    BY <1>2, <1>4, <1>5, <2>6, <2>8 DEF SlotsOf, Slots
  <2>10. QueueOf(s)'
    BY <1>0, <1>2, <1>6, <2>1, <2>3 DEF QueueOf, MaxQueue
  <2>11. SemType'
    BY <1>0, <2>1, <2>8 DEF SemType
  <2>12. QED
    BY <2>5, <2>9, <2>10, <2>11, SemOfSlotsPrime
<1>7. CASE queue[s] # <<>>
  <2> DEFINE h == Head(queue[s])
  <2>1. /\ queue' = [queue EXCEPT ![s] = Tail(@)] /\ running' = running
        /\ requests' = [requests EXCEPT ![r] = new, ![h].at = "granted"]
    BY <1>7 DEF Freed
  <2>2. /\ h \in Req /\ h = queue[s][1] /\ 1 \in 1..Len(queue[s]) /\ requests[h] \in Request
        /\ requests[h].at = "queued" /\ WaitsOf(requests[h]) = s
    BY <1>0, <1>7, QueueHead
  <2>3. h # r /\ SemOf(requests[h].kind) = s /\ requests[h] # None
    BY <1>0, <1>1, <2>2 DEF WaitsOf
  <2>4. requests'[h] = [requests[h] EXCEPT !.at = "granted"] /\ requests'[r] = new
    BY <2>1, <2>2, <2>3 DEF Shape
  <2>5. \A q \in Req \ {r, h} : requests'[q] = requests[q]
    BY <2>1, <2>2, <2>3 DEF Shape
  <2>6. requests'[h] \in Request /\ requests'[h] # None /\ requests'[h].at = "granted"
        /\ requests'[h].kind = requests[h].kind
    BY <2>2, <2>4, NoneAssumption DEF Request, Await, Held
  <2>7. HoldsOf(requests'[h]) = s /\ WaitsOf(requests'[h]) = "no" /\ HoldsOf(requests[h]) = "no"
    BY <2>2, <2>3, <2>6 DEF HoldsOf, WaitsOf, Held
  <2>8. \A t \in Sem \ {s} : SlotsOf(t)' /\ QueueOf(t)'
    <3>1. SUFFICES ASSUME NEW t \in Sem \ {s} PROVE SlotsOf(t)' /\ QueueOf(t)'
      OBVIOUS
    <3>2. \A q \in Req : /\ HoldsOf(requests'[q]) = t <=> HoldsOf(requests[q]) = t
                         /\ WaitsOf(requests'[q]) = t <=> WaitsOf(requests[q]) = t
      BY <1>0, <1>1, <2>2, <2>4, <2>5, <2>7
    <3>3. running'[t] = running[t] /\ queue'[t] = queue[t] /\ t \in Sem
      BY <1>0, <2>1
    <3>4. QED
      BY <3>2, <3>3, SemKept
  <2>9. Holders(s)' = (Holders(s) \ {r}) \cup {h} /\ h \notin Holders(s)
    <3>1. Holders(s) = {q \in Req : HoldsOf(requests[q]) = s}
      BY <1>0, HoldersAre
    <3>2. Holders(s)' = {q \in Req : HoldsOf(requests'[q]) = s}
      BY <1>0, HoldersArePrime
    <3>3. QED
      BY <1>0, <2>2, <2>3, <2>4, <2>5, <2>7, <3>1, <3>2
  <2>10. Cardinality(Holders(s)') = Cardinality(Holders(s))
    <3>1. IsFiniteSet(Holders(s) \ {r})
      BY <1>3, FS_Subset
    <3>2. Cardinality((Holders(s) \ {r}) \cup {h}) = Cardinality(Holders(s) \ {r}) + 1
      BY <2>9, <3>1, FS_AddElement
    <3>3. QED
      BY <1>3, <1>4, <2>9, <3>2
  <2>11. SlotsOf(s)'
    BY <1>2, <2>1, <2>10 DEF SlotsOf, Slots
  <2>12. queue[s] \in Seq(Req) /\ queue'[s] = Tail(queue[s]) /\ Len(queue[s]) \in Nat
    BY <1>0, <2>1
  <2>13. /\ Len(queue'[s]) = Len(queue[s]) - 1
         /\ \A i \in 1..Len(queue'[s]) : queue'[s][i] = queue[s][i + 1] /\ i + 1 \in 1..Len(queue[s])
    BY <1>7, <2>12, HeadTailProperties
  <2>14. \A i, j \in 1..Len(queue'[s]) : queue'[s][i] = queue'[s][j] => i = j
    BY <1>2, <2>12, <2>13 DEF QueueOf
  <2>15. \A q \in Req : WaitsOf(requests'[q]) = s <=> \E i \in 1..Len(queue'[s]) : queue'[s][i] = q
    <3>1. SUFFICES ASSUME NEW q \in Req
                   PROVE  WaitsOf(requests'[q]) = s <=> \E i \in 1..Len(queue'[s]) : queue'[s][i] = q
      OBVIOUS
    <3>2. (\E i \in 1..Len(queue'[s]) : queue'[s][i] = q)
            <=> q # h /\ \E i \in 1..Len(queue[s]) : queue[s][i] = q
      <4>1. ASSUME NEW i \in 1..Len(queue'[s]), queue'[s][i] = q
            PROVE  q # h /\ \E k \in 1..Len(queue[s]) : queue[s][k] = q
        BY <1>2, <2>2, <2>12, <2>13, <4>1 DEF QueueOf
      <4>2. ASSUME q # h, NEW i \in 1..Len(queue[s]), queue[s][i] = q
            PROVE  \E k \in 1..Len(queue'[s]) : queue'[s][k] = q
        <5>1. i - 1 \in 1..Len(queue'[s]) /\ (i - 1) + 1 = i
          BY <2>2, <2>12, <2>13, <4>2
        <5>2. QED
          BY <2>13, <4>2, <5>1
      <4>3. QED
        BY <4>1, <4>2
    <3>3. CASE q = h
      BY <1>0, <2>7, <3>2, <3>3
    <3>4. CASE q = r
      BY <1>0, <1>1, <1>2, <2>4, <3>2, <3>4 DEF QueueOf
    <3>5. CASE q \notin {h, r}
      BY <1>2, <2>5, <3>2, <3>5 DEF QueueOf
    <3>6. QED
      BY <3>3, <3>4, <3>5
  <2>16. QueueOf(s)'
    <3>1. Len(queue'[s]) <= MaxQueue(s)
      BY <1>0, <1>2, <2>12, <2>13, SlotTypes DEF QueueOf
    <3>2. running'[s] = Slots(s)
      BY <1>2, <1>7, <2>1 DEF QueueOf
    <3>3. QED
      BY <2>14, <2>15, <3>1, <3>2 DEF QueueOf, MaxQueue, Slots
  <2>17. SemType'
    <3>1. Tail(queue[s]) \in Seq(Req)
      BY <1>7, <2>12, HeadTailProperties
    <3>2. QED
      BY <1>0, <2>1, <3>1 DEF SemType
  <2>18. QED
    BY <2>8, <2>11, <2>16, <2>17, SemOfSlotsPrime
<1>8. QED
  BY <1>6, <1>7

(* A waiter leaves the queue.                                                *)
LEMMA SplicedIs ==
  ASSUME NEW S, NEW q \in Seq(S), NEW i \in 1..Len(q)
  PROVE  /\ Spliced(q, i) \in Seq(S) /\ Len(Spliced(q, i)) = Len(q) - 1
         /\ \A j \in 1..(Len(q) - 1) : Spliced(q, i)[j] = IF j < i THEN q[j] ELSE q[j + 1]
<1> DEFINE n == Len(q) - 1
           t == [j \in 1..n |-> IF j < i THEN q[j] ELSE q[j + 1]]
<1>1. Len(q) \in Nat /\ n \in Nat
  OBVIOUS
<1>2. \A j \in 1..n : j \in 1..Len(q) /\ j + 1 \in 1..Len(q)
  BY <1>1
<1>3. \A j \in 1..n : (IF j < i THEN q[j] ELSE q[j + 1]) \in S
  BY <1>2
<1>4. t \in [1..n -> S]
  BY <1>3
<1>5. t \in Seq(S)
  BY <1>1, <1>4, SeqDef
<1>6. Len(t) = n
  BY <1>1, <1>4, <1>5, LenProperties
<1>7. Spliced(q, i) = t
  BY DEF Spliced
<1>8. \A j \in 1..n : t[j] = IF j < i THEN q[j] ELSE q[j + 1]
  OBVIOUS
<1>9. QED
  BY <1>5, <1>6, <1>7, <1>8

LEMMA SemLeft ==
  ASSUME Shape, SemInv, NEW r \in Req, NEW s \in Sem, NEW k \in 1..Len(queue[s]),
         queue[s][k] = r, running' = running, queue' = [queue EXCEPT ![s] = Spliced(@, k)],
         requests' = [requests EXCEPT ![r] = None]
  PROVE  SemInv'
<1>0. "no" \notin Sem /\ running \in [Sem -> Nat] /\ queue \in [Sem -> Seq(Req)]
  BY DEF Sem, SemInv, SemType
<1>1. SlotsOf(s) /\ QueueOf(s)
  BY SemOfSlots
<1>2. WaitsOf(requests[r]) = s
  BY <1>1 DEF QueueOf
<1>3. HoldsOf(requests[r]) = "no"
  BY <1>0, <1>2 DEF WaitsOf, HoldsOf, Held
<1>4. requests'[r] = None /\ \A q \in Req \ {r} : requests'[q] = requests[q]
  BY DEF Shape
<1>5. WaitsOf(requests'[r]) = "no" /\ HoldsOf(requests'[r]) = "no"
  BY <1>4 DEF WaitsOf, HoldsOf
<1>6. \A q \in Req : HoldsOf(requests'[q]) = HoldsOf(requests[q])
  BY <1>3, <1>4, <1>5
<1>7. \A t \in Sem \ {s} : SlotsOf(t)' /\ QueueOf(t)'
  <2>1. SUFFICES ASSUME NEW t \in Sem \ {s} PROVE SlotsOf(t)' /\ QueueOf(t)'
    OBVIOUS
  <2>2. \A q \in Req : WaitsOf(requests'[q]) = t <=> WaitsOf(requests[q]) = t
    BY <1>0, <1>2, <1>4, <1>5
  <2>3. running'[t] = running[t] /\ queue'[t] = queue[t] /\ t \in Sem
    BY <1>0
  <2>4. QED
    BY <1>6, <2>2, <2>3, SemKept
<1>8. Holders(s)' = Holders(s)
  <2>1. Holders(s) = {q \in Req : HoldsOf(requests[q]) = s}
    BY HoldersAre
  <2>2. Holders(s)' = {q \in Req : HoldsOf(requests'[q]) = s}
    BY HoldersArePrime
  <2>3. QED
    BY <1>6, <2>1, <2>2
<1>9. SlotsOf(s)'
  BY <1>1, <1>8 DEF SlotsOf, Slots
<1>10. queue[s] \in Seq(Req) /\ Len(queue[s]) \in Nat /\ queue'[s] = Spliced(queue[s], k)
  BY <1>0
<1>11. /\ queue'[s] \in Seq(Req) /\ Len(queue'[s]) = Len(queue[s]) - 1
       /\ \A j \in 1..(Len(queue[s]) - 1) :
            queue'[s][j] = IF j < k THEN queue[s][j] ELSE queue[s][j + 1]
  BY <1>10, SplicedIs
<1>12. \A i, j \in 1..Len(queue'[s]) : queue'[s][i] = queue'[s][j] => i = j
  <2> DEFINE at(i) == IF i < k THEN i ELSE i + 1
  <2>1. SUFFICES ASSUME NEW i \in 1..Len(queue'[s]), NEW j \in 1..Len(queue'[s]),
                        queue'[s][i] = queue'[s][j]
                 PROVE  i = j
    OBVIOUS
  <2>2. i \in 1..(Len(queue[s]) - 1) /\ j \in 1..(Len(queue[s]) - 1) /\ k \in Int
    BY <1>10, <1>11
  <2>3. at(i) \in 1..Len(queue[s]) /\ at(j) \in 1..Len(queue[s])
    BY <1>10, <2>2
  <2>4. queue[s][at(i)] = queue[s][at(j)]
    BY <1>11, <2>1, <2>2
  <2>5. at(i) = at(j)
    BY <1>1, <2>3, <2>4 DEF QueueOf
  <2>6. QED
    BY <2>2, <2>5
<1>13. \A q \in Req : WaitsOf(requests'[q]) = s <=> \E i \in 1..Len(queue'[s]) : queue'[s][i] = q
  <2>1. SUFFICES ASSUME NEW q \in Req
                 PROVE  WaitsOf(requests'[q]) = s <=> \E i \in 1..Len(queue'[s]) : queue'[s][i] = q
    OBVIOUS
  <2>2. ASSUME NEW i \in 1..Len(queue'[s]), queue'[s][i] = q
        PROVE  q # r /\ \E j \in 1..Len(queue[s]) : queue[s][j] = q
    <3>1. CASE i < k
      <4>1. i \in 1..Len(queue[s]) /\ queue[s][i] = q /\ i # k
        BY <1>10, <1>11, <2>2, <3>1
      <4>2. QED
        BY <1>1, <4>1 DEF QueueOf
    <3>2. CASE ~(i < k)
      <4>1. i + 1 \in 1..Len(queue[s]) /\ queue[s][i + 1] = q /\ i + 1 # k
        BY <1>10, <1>11, <2>2, <3>2
      <4>2. QED
        BY <1>1, <4>1 DEF QueueOf
    <3>3. QED
      BY <3>1, <3>2
  <2>3. ASSUME q # r, NEW i \in 1..Len(queue[s]), queue[s][i] = q
        PROVE  \E j \in 1..Len(queue'[s]) : queue'[s][j] = q
    <3>1. i # k
      BY <2>3
    <3>2. CASE i < k
      <4>1. i \in 1..(Len(queue[s]) - 1)
        BY <1>10, <3>2
      <4>2. QED
        BY <1>11, <2>3, <3>2, <4>1
    <3>3. CASE i > k
      <4>1. i - 1 \in 1..(Len(queue[s]) - 1) /\ ~(i - 1 < k) /\ (i - 1) + 1 = i
        BY <1>10, <3>3
      <4>2. queue'[s][i - 1] = q
        BY <1>11, <2>3, <4>1
      <4>3. QED
        BY <1>11, <4>1, <4>2
    <3>4. QED
      BY <1>10, <3>1, <3>2, <3>3
  <2>4. CASE q = r
    BY <1>0, <1>5, <2>2, <2>4
  <2>5. CASE q # r
    <3>1. WaitsOf(requests'[q]) = s <=> \E i \in 1..Len(queue[s]) : queue[s][i] = q
      BY <1>1, <1>4, <2>5 DEF QueueOf
    <3>2. QED
      BY <2>2, <2>3, <2>5, <3>1
  <2>6. QED
    BY <2>4, <2>5
<1>14. Len(queue'[s]) <= MaxQueue(s) /\ running'[s] = Slots(s)
  <2>1. queue[s] # <<>>
    BY <1>10
  <2>2. QED
    BY <1>1, <1>10, <1>11, <2>1, SlotTypes DEF QueueOf
<1>15. QueueOf(s)'
  BY <1>12, <1>13, <1>14 DEF QueueOf, MaxQueue, Slots
<1>16. SemType'
  BY <1>0, <1>10, <1>11 DEF SemType
<1>17. QED
  BY <1>7, <1>9, <1>15, <1>16, SemOfSlotsPrime

----------------------------------------------------------------------------
(* Places: the users' limits.                                                *)

LEMMA MineAre ==
  ASSUME NEW l \in Limit, NEW u \in User
  PROVE  Mine(l, u) = {q \in Req : PlaceOf(requests[q], l, u)}
BY DEF Mine, PlaceOf, CountsOf, Counts, At, Is, MyLimit, Me

LEMMA MineArePrime ==
  ASSUME NEW l \in Limit, NEW u \in User
  PROVE  Mine(l, u)' = {q \in Req : PlaceOf(requests'[q], l, u)}
BY DEF Mine, PlaceOf, CountsOf, Counts, At, Is, MyLimit, Me

LEMMA MineFinite ==
  ASSUME NEW l \in Limit, NEW u \in User
  PROVE  IsFiniteSet(Mine(l, u)) /\ Cardinality(Mine(l, u)) \in Nat
<1>1. IsFiniteSet(Req) /\ Mine(l, u) \subseteq Req
  BY MediaAssumption DEF Mine
<1>2. QED
  BY <1>1, FS_Subset, FS_CardinalityType

LEMMA CapTypes ==
  ASSUME NEW l \in Limit
  PROVE  Cap(l) \in Nat \ {0} /\ SseCap \in Nat \ {0} /\ Cap("sse") = SseCap
BY MediaAssumption DEF Cap, Limit

(* What UserLimitsExact and NobodyLockedOut say of one user at one limit.    *)
PlacesOf(l, u) ==
  /\ l = "sse" => count[l][u] <= SseCap /\ (count[l][u] = SseCap => Mine(l, u) # {})
  /\ l # "sse" => count[l][u] = Cardinality(Mine(l, u)) /\ count[l][u] <= Cap(l)

LEMMA PlaceOfPlaces ==
  ASSUME PlaceInv, NEW l \in Limit, NEW u \in User
  PROVE  PlacesOf(l, u) /\ count[l][u] \in Nat
BY DEF PlaceInv, UserLimitsExact, NobodyLockedOut, PlacesOf

LEMMA PlaceOfPlacesPrime ==
  ASSUME count' \in [Limit -> [User -> Nat]], \A l \in Limit, u \in User : PlacesOf(l, u)'
  PROVE  PlaceInv'
<1>1. UserLimitsExact'
  BY DEF UserLimitsExact, PlacesOf
<1>2. NobodyLockedOut'
  <2>1. "sse" \in Limit
    BY DEF Limit
  <2>2. QED
    BY <2>1 DEF NobodyLockedOut, PlacesOf
<1>3. QED
  BY <1>1, <1>2 DEF PlaceInv

(* Two records that count for the same place, or both for none.              *)
SamePlace(x, y) == \A l \in Limit, u \in User : PlaceOf(x, l, u) <=> PlaceOf(y, l, u)

LEMMA PlaceKept ==
  ASSUME PlaceInv, NEW l \in Limit, NEW u \in User, count'[l][u] = count[l][u],
         \A q \in Req : PlaceOf(requests'[q], l, u) <=> PlaceOf(requests[q], l, u)
  PROVE  PlacesOf(l, u)'
<1>1. PlacesOf(l, u)
  BY PlaceOfPlaces
<1>2. Mine(l, u)' = Mine(l, u)
  <2>1. Mine(l, u) = {q \in Req : PlaceOf(requests[q], l, u)}
    BY MineAre
  <2>2. Mine(l, u)' = {q \in Req : PlaceOf(requests'[q], l, u)}
    BY MineArePrime
  <2>3. QED
    BY <2>1, <2>2
<1>3. QED
  BY <1>1, <1>2 DEF PlacesOf, Cap

LEMMA PlaceSame ==
  ASSUME PlaceInv, count' = count, \A q \in Req : SamePlace(requests'[q], requests[q])
  PROVE  PlaceInv'
<1>1. count' \in [Limit -> [User -> Nat]]
  BY DEF PlaceInv
<1>2. \A l \in Limit, u \in User : PlacesOf(l, u)'
  <2>1. SUFFICES ASSUME NEW l \in Limit, NEW u \in User PROVE PlacesOf(l, u)'
    OBVIOUS
  <2>2. \A q \in Req : PlaceOf(requests'[q], l, u) <=> PlaceOf(requests[q], l, u)
    BY DEF SamePlace
  <2>3. QED
    BY <2>2, PlaceKept
<1>3. QED
  BY <1>1, <1>2, PlaceOfPlacesPrime

(* A user's count changes at one limit only.                                 *)
LEMMA PlaceElsewhere ==
  ASSUME PlaceInv, NEW r \in Req, NEW l \in Limit, NEW u \in User, NEW n \in Nat,
         l = MyLimit(r), u = Me(r), count' = With(r, n),
         \A q \in Req \ {r} : SamePlace(requests'[q], requests[q]),
         \A m \in Limit, v \in User : (m # l \/ v # u) =>
            (PlaceOf(requests'[r], m, v) <=> PlaceOf(requests[r], m, v)),
         PlacesOf(l, u)'
  PROVE  PlaceInv'
<1>1. count \in [Limit -> [User -> Nat]] /\ count' = [count EXCEPT ![l][u] = n]
  BY DEF PlaceInv, With
<1>2. count' \in [Limit -> [User -> Nat]]
  BY <1>1
<1>3. \A m \in Limit, v \in User : PlacesOf(m, v)'
  <2>1. SUFFICES ASSUME NEW m \in Limit, NEW v \in User, m # l \/ v # u PROVE PlacesOf(m, v)'
    OBVIOUS
  <2>2. \A q \in Req : PlaceOf(requests'[q], m, v) <=> PlaceOf(requests[q], m, v)
    BY <2>1 DEF SamePlace
  <2>3. count'[m][v] = count[m][v]
    BY <1>1, <2>1
  <2>4. QED
    BY <2>2, <2>3, PlaceKept
<1>4. QED
  BY <1>2, <1>3, PlaceOfPlacesPrime

(* tryAcquire.                                                               *)
LEMMA PlaceTaken ==
  ASSUME Shape, PlaceInv, NEW r \in Req, NEW l \in Limit, NEW u \in User,
         l = MyLimit(r), u = Me(r), Admits(r), count' = With(r, Admitted(r)),
         \A m \in Limit, v \in User : PlaceOf(requests'[r], m, v) <=> m = l /\ v = u,
         \A q \in Req \ {r} : requests'[q] = requests[q]
  PROVE  PlaceInv'
<1>1. PlacesOf(l, u) /\ count[l][u] \in Nat /\ count \in [Limit -> [User -> Nat]]
  BY PlaceOfPlaces DEF PlaceInv
<1>2. requests[r] # None /\ requests[r] \in Request /\ requests[r].seen < SseCap
  BY DEF Admits, At, Shape, Sound
<1>3. l = "sse" <=> requests[r].kind = "sse"
  BY DEF MyLimit, LimitOf
<1>4. Admitted(r) = (IF l = "sse" THEN requests[r].seen + 1 ELSE count[l][u] + 1)
  BY <1>2, <1>3 DEF Admitted, Is
<1>5. Admitted(r) \in Nat
  BY <1>1, <1>2, <1>4 DEF Request
<1>6. count'[l][u] = Admitted(r)
  BY <1>1 DEF With
<1>7. \A m \in Limit, v \in User : ~PlaceOf(requests[r], m, v)
  BY DEF PlaceOf, CountsOf, Admits, At
<1>8. Mine(l, u)' = Mine(l, u) \cup {r} /\ r \notin Mine(l, u)
  <2>1. Mine(l, u) = {q \in Req : PlaceOf(requests[q], l, u)}
    BY MineAre
  <2>2. Mine(l, u)' = {q \in Req : PlaceOf(requests'[q], l, u)}
    BY MineArePrime
  <2>3. QED
    BY <1>7, <2>1, <2>2
<1>9. Cardinality(Mine(l, u)') = Cardinality(Mine(l, u)) + 1
  BY <1>8, MineFinite, FS_AddElement
<1>10. PlacesOf(l, u)'
  <2>1. CASE l = "sse"
    <3>1. count'[l][u] <= SseCap
      BY <1>2, <1>4, <1>6, <2>1, CapTypes DEF Request
    <3>2. QED
      BY <1>8, <2>1, <3>1 DEF PlacesOf
  <2>2. CASE l # "sse"
    <3>1. count[l][u] < Cap(l)
      BY <1>2, <1>3, <2>2 DEF Admits, Is
    <3>2. count'[l][u] = count[l][u] + 1
      BY <1>4, <1>6, <2>2
    <3>3. count'[l][u] <= Cap(l)
      BY <1>1, <3>1, <3>2, CapTypes
    <3>4. QED
      BY <1>1, <1>9, <2>2, <3>2, <3>3 DEF PlacesOf, Cap
  <2>3. QED
    BY <2>1, <2>2
<1>11. QED
  BY <1>5, <1>7, <1>10, PlaceElsewhere DEF SamePlace

(* The count is raised and at once lowered.                                  *)
LEMMA PlaceFails ==
  ASSUME Shape, PlaceInv, NEW r \in Req, NEW l \in Limit, NEW u \in User,
         l = MyLimit(r), u = Me(r), Admits(r), count' = With(r, Lowered(Admitted(r))),
         requests' = [requests EXCEPT ![r] = None]
  PROVE  PlaceInv'
<1>1. PlacesOf(l, u) /\ count[l][u] \in Nat /\ count \in [Limit -> [User -> Nat]]
  BY PlaceOfPlaces DEF PlaceInv
<1>2. requests[r] # None /\ requests[r] \in Request /\ requests[r].seen < SseCap
  BY DEF Admits, At, Shape, Sound
<1>3. l = "sse" <=> requests[r].kind = "sse"
  BY DEF MyLimit, LimitOf
<1>4. Lowered(Admitted(r)) = (IF l = "sse" THEN requests[r].seen ELSE count[l][u])
  BY <1>1, <1>2, <1>3 DEF Admitted, Is, Lowered, Request
<1>5. Lowered(Admitted(r)) \in Nat
  BY <1>1, <1>2, <1>4 DEF Request
<1>6. count'[l][u] = Lowered(Admitted(r))
  BY <1>1 DEF With
<1>7. requests'[r] = None /\ \A q \in Req \ {r} : requests'[q] = requests[q]
  BY DEF Shape
<1>8. \A q \in Req : SamePlace(requests'[q], requests[q])
  BY <1>7 DEF SamePlace, PlaceOf, CountsOf, Admits, At
<1>9. PlacesOf(l, u)'
  <2>1. CASE l = "sse"
    <3>1. count'[l][u] < SseCap /\ count'[l][u] \in Nat /\ SseCap \in Nat
      BY <1>2, <1>4, <1>5, <1>6, <2>1, CapTypes
    <3>2. QED
      BY <2>1, <3>1 DEF PlacesOf
  <2>2. CASE l # "sse"
    BY <1>4, <1>6, <1>8, <2>2, PlaceKept DEF SamePlace
  <2>3. QED
    BY <2>1, <2>2
<1>10. QED
  BY <1>5, <1>8, <1>9, PlaceElsewhere DEF SamePlace

(* The release function of a limiter or of a stream.                         *)
LEMMA PlaceLeft ==
  ASSUME Shape, PlaceInv, NEW r \in Req, requests[r] # None, count' = Uncounted(r),
         \A l \in Limit, u \in User : ~PlaceOf(requests'[r], l, u),
         \A q \in Req \ {r} : SamePlace(requests'[q], requests[q])
  PROVE  PlaceInv'
<1>1. requests[r] \in Request /\ requests[r].kind \in Kind
  BY DEF Shape, Request
<1>2. Counts(r) <=> CountsOf(requests[r])
  BY DEF Counts, CountsOf, At, Is
<1>3. CASE ~Counts(r)
  <2>1. count' = count
    BY <1>3 DEF Uncounted
  <2>2. \A q \in Req : SamePlace(requests'[q], requests[q])
    BY <1>2, <1>3 DEF SamePlace, PlaceOf
  <2>3. QED
    BY <2>1, <2>2, PlaceSame
<1>4. CASE Counts(r)
  <2>1. MyLimit(r) \in Limit
    BY DEF MyLimit, LimitOf, Limit
  <2>2. Me(r) \in User
    BY <1>1, <1>4 DEF Me, Shape, Sound, Counts, Is, Request
  <2>3. PICK l \in Limit : l = MyLimit(r)
    BY <2>1
  <2>4. PICK u \in User : u = Me(r)
    BY <2>2
  <2>5. PlacesOf(l, u) /\ count[l][u] \in Nat /\ count \in [Limit -> [User -> Nat]]
    BY PlaceOfPlaces DEF PlaceInv
  <2> DEFINE n == Lowered(count[l][u])
  <2>6. count' = With(r, n)
    BY <1>4, <2>3, <2>4 DEF Uncounted
  <2>7. n \in Nat
    BY <2>5 DEF Lowered
  <2>8. count'[l][u] = n
    BY <2>3, <2>4, <2>5, <2>6 DEF With
  <2>9. \A m \in Limit, v \in User : PlaceOf(requests[r], m, v) <=> m = l /\ v = u
    BY <1>2, <1>4, <2>3, <2>4 DEF PlaceOf, MyLimit, Me
  <2>10. Mine(l, u)' = Mine(l, u) \ {r} /\ r \in Mine(l, u)
    <3>1. Mine(l, u) = {q \in Req : PlaceOf(requests[q], l, u)}
      BY MineAre
    <3>2. Mine(l, u)' = {q \in Req : PlaceOf(requests'[q], l, u)}
      BY MineArePrime
    <3>3. QED
      BY <2>9, <3>1, <3>2 DEF SamePlace
  <2>11. Cardinality(Mine(l, u)') = Cardinality(Mine(l, u)) - 1 /\ Cardinality(Mine(l, u)) # 0
    BY <2>10, MineFinite, FS_RemoveElement, FS_EmptySet
  <2>12. PlacesOf(l, u)'
    <3>1. CASE l = "sse"
      <4>1. count[l][u] <= SseCap /\ SseCap \in Nat \ {0}
        BY <2>5, <3>1, CapTypes DEF PlacesOf
      <4>2. n < SseCap
        BY <2>5, <4>1 DEF Lowered
      <4>3. QED
        BY <2>7, <2>8, <3>1, <4>1, <4>2 DEF PlacesOf
    <3>2. CASE l # "sse"
      <4>1. count[l][u] = Cardinality(Mine(l, u)) /\ count[l][u] <= Cap(l) /\ Cap(l) \in Nat
        BY <2>5, <3>2, CapTypes DEF PlacesOf
      <4>2. n = count[l][u] - 1
        BY <2>5, <2>11, <4>1 DEF Lowered
      <4>3. n <= Cap(l) /\ n = Cardinality(Mine(l, u)')
        BY <2>5, <2>11, <4>1, <4>2
      <4>4. QED
        BY <2>8, <3>2, <4>3 DEF PlacesOf, Cap
    <3>3. QED
      BY <3>1, <3>2
  <2>13. \A m \in Limit, v \in User : (m # l \/ v # u) =>
            (PlaceOf(requests'[r], m, v) <=> PlaceOf(requests[r], m, v))
    BY <2>9
  <2>14. QED
    BY <2>3, <2>4, <2>6, <2>7, <2>12, <2>13, PlaceElsewhere
<1>5. QED
  BY <1>3, <1>4

----------------------------------------------------------------------------
(* The staged files and the browser.                                         *)

LEMMA DirSame ==
  ASSUME DirInv, dirs' = dirs, \A q \in Req : DirOf(requests'[q]) <=> DirOf(requests[q])
  PROVE  DirInv'
<1>1. StagedErased <=> dirs = {q \in Req : DirOf(requests[q])}
  BY DEF StagedErased, DirOf, StagedAt, Is, At
<1>2. StagedErased' <=> dirs' = {q \in Req : DirOf(requests'[q])}
  BY DEF StagedErased, DirOf, StagedAt, Is, At
<1>3. QED
  BY <1>1, <1>2 DEF DirInv

LEMMA DirLeft ==
  ASSUME DirInv, NEW r \in Req, dirs' = dirs \ {r}, ~DirOf(requests'[r]),
         \A q \in Req \ {r} : DirOf(requests'[q]) <=> DirOf(requests[q])
  PROVE  DirInv'
<1>1. StagedErased <=> dirs = {q \in Req : DirOf(requests[q])}
  BY DEF StagedErased, DirOf, StagedAt, Is, At
<1>2. StagedErased' <=> dirs' = {q \in Req : DirOf(requests'[q])}
  BY DEF StagedErased, DirOf, StagedAt, Is, At
<1>3. QED
  BY <1>1, <1>2 DEF DirInv

LEMMA DirMade ==
  ASSUME DirInv, NEW r \in Req, dirs' = dirs \cup {r}, DirOf(requests'[r]),
         \A q \in Req \ {r} : DirOf(requests'[q]) <=> DirOf(requests[q])
  PROVE  DirInv'
<1>1. StagedErased <=> dirs = {q \in Req : DirOf(requests[q])}
  BY DEF StagedErased, DirOf, StagedAt, Is, At
<1>2. StagedErased' <=> dirs' = {q \in Req : DirOf(requests'[q])}
  BY DEF StagedErased, DirOf, StagedAt, Is, At
<1>3. QED
  BY <1>1, <1>2 DEF DirInv

(* What OneBrowser says of a request.                                        *)
PageOf(x) == /\ PoolOf(x, "browsing") => chromiums = 1
             /\ PoolOf(x, "launching") => launch # None
             /\ PoolOf(x, "closing") => browser # None

LEMMA PoolPages ==
  ASSUME PoolInv
  PROVE  \A q \in Req : PageOf(requests[q])
BY DEF PoolInv, OneBrowser, PageOf, PoolOf, At

LEMMA PoolPagesPrime ==
  ASSUME {browser', launch'} \subseteq Route \cup {None}, chromiums' \in Nat,
         chromiums' + (IF launch' = None THEN 0 ELSE 1) <= 1,
         chromiums' = 1 => browser' # None, launch' # None => browser' = None,
         \A q \in Req : PageOf(requests[q])'
  PROVE  PoolInv'
BY DEF PoolInv, OneBrowser, PageOf, PoolOf, At

(* No request opens a page, waits for a launch or for a close.               *)
NoNewPage(q) == \A a \in {"browsing", "launching", "closing"} :
  PoolOf(requests'[q], a) => PoolOf(requests[q], a)

LEMMA PoolSame ==
  ASSUME PoolInv, UNCHANGED poolVars, \A q \in Req : NoNewPage(q)
  PROVE  PoolInv'
<1>1. \A q \in Req : PageOf(requests[q])'
  BY PoolPages DEF PageOf, NoNewPage, poolVars
<1>2. QED
  BY <1>1, PoolPagesPrime DEF PoolInv, OneBrowser, poolVars

----------------------------------------------------------------------------
(* Records.                                                                  *)

RecordType == requests' \in [Req -> Request \cup {None}]

LEMMA ShapeOf ==
  ASSUME RecordType, \A q \in Req : Sound(requests'[q])
  PROVE  Shape'
BY DEF Shape, RecordType, Sound

(* A request moves to the await a.                                           *)
LEMMA GotoIs ==
  ASSUME Shape, NEW r \in Req, requests[r] # None, NEW a \in Await, Goto(r, a)
  PROVE  /\ RecordType /\ requests[r] \in Request
         /\ requests'[r] = [requests[r] EXCEPT !.at = a] /\ requests'[r] \in Request
         /\ requests'[r] # None /\ requests'[r].at = a
         /\ \A q \in Req \ {r} : requests'[q] = requests[q]
<1>1. requests[r] \in Request
  BY DEF Shape
<1>2. [requests[r] EXCEPT !.at = a] \in Request
  BY <1>1 DEF Request
<1>3. requests'[r] = [requests[r] EXCEPT !.at = a]
  BY DEF Goto, Shape
<1>4. requests'[r].at = a
  BY <1>1, <1>3 DEF Request
<1>5. QED
  BY <1>1, <1>2, <1>3, <1>4, NoneAssumption DEF Goto, Shape, RecordType

(* A request is forgotten.                                                   *)
LEMMA EndIs ==
  ASSUME Shape, NEW r \in Req, requests' = [requests EXCEPT ![r] = None]
  PROVE  /\ RecordType /\ requests'[r] = None /\ Shape'
         /\ \A q \in Req \ {r} : requests'[q] = requests[q]
<1>1. RecordType /\ requests'[r] = None /\ \A q \in Req \ {r} : requests'[q] = requests[q]
  BY DEF Shape, RecordType
<1>2. \A q \in Req : Sound(requests'[q])
  BY <1>1 DEF Sound, Shape
<1>3. QED
  BY <1>1, <1>2, ShapeOf

(* A request moves, and keeps its slot, its place and its file.              *)
LEMMA GotoKeeps ==
  ASSUME MediaInv, NEW r \in Req, requests[r] # None, NEW a \in Await, Goto(r, a),
         UNCHANGED <<semVars, count>>, requests[r].at \in Held <=> a \in Held,
         {requests[r].at, a} \cap {"queued", "vetting"} = {},
         Sound([requests[r] EXCEPT !.at = a])
  PROVE  Shape' /\ SemInv' /\ PlaceInv'
<1>1. /\ RecordType /\ requests[r] \in Request /\ requests'[r] = [requests[r] EXCEPT !.at = a]
      /\ requests'[r] # None /\ requests'[r].at = a
      /\ \A q \in Req \ {r} : requests'[q] = requests[q]
  BY GotoIs DEF MediaInv
<1>2. /\ requests'[r].kind = requests[r].kind /\ requests'[r].user = requests[r].user
      /\ requests'[r].gone = requests[r].gone
  BY <1>1 DEF Request
<1>3. Shape'
  BY <1>1, ShapeOf DEF MediaInv, Shape
<1>4. SemInv'
  <2>1. HoldsOf(requests'[r]) = HoldsOf(requests[r]) /\ WaitsOf(requests'[r]) = WaitsOf(requests[r])
    BY <1>1, <1>2 DEF HoldsOf, WaitsOf
  <2>2. QED
    BY <1>1, <2>1, SemSame DEF MediaInv
<1>5. PlaceInv'
  <2>1. SamePlace(requests'[r], requests[r])
    BY <1>1, <1>2 DEF SamePlace, PlaceOf, CountsOf
  <2>2. \A q \in Req : SamePlace(requests'[q], requests[q])
    BY <1>1, <2>1 DEF SamePlace
  <2>3. QED
    BY <2>2, PlaceSame DEF MediaInv
<1>6. QED
  BY <1>3, <1>4, <1>5

(* Every record stays, or is that of a request for which a page is on its    *)
(* way and stays so.                                                         *)
Moved(q) == \/ requests'[q] = requests[q]
            \/ /\ requests[q] # None /\ requests[q].kind \in Pages
               /\ requests[q].at \in PageAt \cup {"granted"}
               /\ \E a \in PageAt : requests'[q] = [requests[q] EXCEPT !.at = a]

LEMMA PagesMoved ==
  ASSUME MediaInv, DOMAIN requests' = Req, requests' = [q \in Req |-> requests'[q]],
         \A q \in Req : Moved(q), UNCHANGED <<semVars, count, dirs>>
  PROVE  Shape' /\ SemInv' /\ PlaceInv' /\ DirInv'
<1>1. \A q \in Req : requests[q] # None => requests[q] \in Request /\ Sound(requests[q])
  BY DEF MediaInv, Shape
<1>2. SUFFICES
        ASSUME \A q \in Req :
                 /\ requests'[q] \in Request \cup {None} /\ Sound(requests'[q])
                 /\ HoldsOf(requests'[q]) = HoldsOf(requests[q])
                 /\ WaitsOf(requests'[q]) = WaitsOf(requests[q])
                 /\ SamePlace(requests'[q], requests[q])
                 /\ DirOf(requests'[q]) <=> DirOf(requests[q])
        PROVE  Shape' /\ SemInv' /\ PlaceInv' /\ DirInv'
  <2>1. SUFFICES ASSUME NEW q \in Req
                 PROVE  /\ requests'[q] \in Request \cup {None} /\ Sound(requests'[q])
                        /\ HoldsOf(requests'[q]) = HoldsOf(requests[q])
                        /\ WaitsOf(requests'[q]) = WaitsOf(requests[q])
                        /\ SamePlace(requests'[q], requests[q])
                        /\ DirOf(requests'[q]) <=> DirOf(requests[q])
    OBVIOUS
  <2>2. CASE requests'[q] = requests[q]
    BY <1>1, <2>2 DEF SamePlace, MediaInv, Shape
  <2>3. CASE /\ requests[q] # None /\ requests[q].kind \in Pages
             /\ requests[q].at \in PageAt \cup {"granted"}
             /\ \E a \in PageAt : requests'[q] = [requests[q] EXCEPT !.at = a]
    <3>1. PICK a \in PageAt : requests'[q] = [requests[q] EXCEPT !.at = a]
      BY <2>3
    <3>2. requests[q] \in Request /\ a \in Await /\ a \in Held /\ requests[q].at \in Held
      BY <1>1, <2>3 DEF PageAt, Await, Held
    <3>3. /\ requests'[q] \in Request /\ requests'[q] # None /\ requests'[q].at = a
          /\ requests'[q].kind = requests[q].kind /\ requests'[q].user = requests[q].user
          /\ requests'[q].gone = requests[q].gone /\ requests'[q].seen = requests[q].seen
          /\ requests'[q].retry = requests[q].retry
      BY <3>1, <3>2, NoneAssumption DEF Request
    <3>4. Sound(requests'[q])
      BY <1>1, <2>3, <3>3 DEF Sound, PageAt
    <3>5. HoldsOf(requests'[q]) = HoldsOf(requests[q]) /\ WaitsOf(requests'[q]) = WaitsOf(requests[q])
      BY <2>3, <3>2, <3>3 DEF HoldsOf, WaitsOf, PageAt
    <3>6. SamePlace(requests'[q], requests[q])
      BY <2>3, <3>3 DEF SamePlace, PlaceOf, CountsOf, PageAt
    <3>7. DirOf(requests'[q]) <=> DirOf(requests[q])
      BY <2>3, <3>3 DEF DirOf, Pages
    <3>8. QED
      BY <3>3, <3>4, <3>5, <3>6, <3>7
  <2>4. QED
    BY <2>2, <2>3 DEF Moved
<1>3. Shape'
  BY <1>2, ShapeOf DEF RecordType
<1>4. SemInv'
  BY <1>2, SemSame DEF MediaInv
<1>5. PlaceInv'
  BY <1>2, PlaceSame DEF MediaInv
<1>6. DirInv'
  BY <1>2, DirSame DEF MediaInv
<1>7. QED
  BY <1>3, <1>4, <1>5, <1>6

(* A request gives its slot back, or passes it on, and becomes new.          *)
LEMMA FreedKeeps ==
  ASSUME MediaInv, NEW r \in Req, requests[r] # None, requests[r].at \in Held,
         NEW new \in Request \cup {None}, Sound(new), HoldsOf(new) = "no", WaitsOf(new) = "no",
         Freed(r, new)
  PROVE  /\ Shape' /\ SemInv' /\ requests'[r] = new
         /\ \A q \in Req \ {r} : /\ SamePlace(requests'[q], requests[q]) /\ NoNewPage(q)
                                 /\ DirOf(requests'[q]) <=> DirOf(requests[q])
<1>1. /\ requests' \in [Req -> {new} \cup Request \cup {None}] /\ requests'[r] = new
      /\ \A q \in Req \ {r} : requests'[q] = requests[q] \/ Granted(q)
  BY FreedRecords DEF MediaInv
<1>2. SemInv'
  <2>1. PICK s \in Sem : s = MySem(r)
    BY DEF MySem, SemOf, Sem
  <2>2. QED
    BY <2>1, SemFreed DEF MediaInv
<1>3. \A q \in Req \ {r} : /\ SamePlace(requests'[q], requests[q]) /\ NoNewPage(q)
                           /\ (DirOf(requests'[q]) <=> DirOf(requests[q])) /\ Sound(requests'[q])
  <2>1. SUFFICES ASSUME NEW q \in Req \ {r}
                 PROVE  /\ SamePlace(requests'[q], requests[q]) /\ NoNewPage(q)
                        /\ (DirOf(requests'[q]) <=> DirOf(requests[q])) /\ Sound(requests'[q])
    OBVIOUS
  <2>2. Sound(requests[q]) /\ (requests[q] # None => requests[q] \in Request)
    BY DEF MediaInv, Shape
  <2>3. CASE requests'[q] = requests[q]
    BY <2>2, <2>3 DEF SamePlace, NoNewPage
  <2>4. CASE Granted(q)
    <3>1. /\ requests'[q] \in Request /\ requests'[q] # None /\ requests'[q].at = "granted"
          /\ requests'[q].kind = requests[q].kind /\ requests'[q].user = requests[q].user
          /\ requests'[q].gone = requests[q].gone /\ requests'[q].seen = requests[q].seen
          /\ requests'[q].retry = requests[q].retry
      BY <2>2, <2>4, NoneAssumption DEF Granted, Request, Await, Held
    <3>2. Sound(requests'[q])
      BY <2>2, <2>4, <3>1 DEF Sound, Granted, PageAt
    <3>3. SamePlace(requests'[q], requests[q])
      BY <2>4, <3>1 DEF Granted, SamePlace, PlaceOf, CountsOf
    <3>4. NoNewPage(q) /\ (DirOf(requests'[q]) <=> DirOf(requests[q]))
      BY <2>4, <3>1 DEF Granted, NoNewPage, PoolOf, DirOf, StagedAt
    <3>5. QED
      BY <3>2, <3>3, <3>4
  <2>5. QED
    BY <1>1, <2>3, <2>4
<1>4. Shape'
  <2>1. RecordType
    BY <1>1 DEF RecordType
  <2>2. \A q \in Req : Sound(requests'[q])
    <3>1. Sound(requests'[r])
      BY <1>1
    <3>2. QED
      BY <1>3, <3>1
  <2>3. QED
    BY <2>1, <2>2, ShapeOf
<1>5. QED
  BY <1>1, <1>2, <1>3, <1>4

(* The handler's finally.                                                    *)
LEMMA LeaveSlotKeeps ==
  ASSUME MediaInv, NEW r \in Req, requests[r] # None, requests[r].at \in Held, LeaveSlot(r),
         UNCHANGED poolVars, (dirs' = dirs /\ ~DirOf(requests[r])) \/ dirs' = dirs \ {r}
  PROVE  MediaInv'
<1>1. HoldsOf(None) = "no" /\ WaitsOf(None) = "no" /\ Sound(None)
  BY DEF HoldsOf, WaitsOf, Sound
<1>2. /\ Shape' /\ SemInv' /\ requests'[r] = None
      /\ \A q \in Req \ {r} : /\ SamePlace(requests'[q], requests[q]) /\ NoNewPage(q)
                              /\ DirOf(requests'[q]) <=> DirOf(requests[q])
  BY <1>1, FreedKeeps DEF LeaveSlot
<1>3. PlaceInv'
  <2>1. \A l \in Limit, u \in User : ~PlaceOf(requests'[r], l, u)
    BY <1>2 DEF PlaceOf
  <2>2. Shape /\ PlaceInv /\ count' = Uncounted(r)
    BY DEF MediaInv, LeaveSlot
  <2>3. QED
    BY <1>2, <2>1, <2>2, PlaceLeft
<1>4. DirInv'
  <2>1. ~DirOf(requests'[r]) /\ DirInv
    BY <1>2 DEF DirOf, MediaInv
  <2>2. CASE dirs' = dirs /\ ~DirOf(requests[r])
    BY <1>2, <2>1, <2>2, DirSame
  <2>3. CASE dirs' = dirs \ {r}
    BY <1>2, <2>1, <2>3, DirLeft
  <2>4. QED
    BY <2>2, <2>3
<1>5. PoolInv'
  <2>1. NoNewPage(r)
    BY <1>2 DEF NoNewPage, PoolOf
  <2>2. QED
    BY <1>2, <2>1, PoolSame DEF MediaInv
<1>6. QED
  BY <1>2, <1>3, <1>4, <1>5 DEF MediaInv

(* A handler without a slot ends.                                            *)
LEMMA EndKeeps ==
  ASSUME MediaInv, NEW r \in Req, requests[r] # None,
         requests[r].at \notin Held \cup {"queued"},
         requests' = [requests EXCEPT ![r] = None], UNCHANGED <<semVars, dirs, poolVars>>,
         \/ count' = Uncounted(r)
         \/ count' = count /\ \A l \in Limit, u \in User : ~PlaceOf(requests[r], l, u)
         \/ PlaceInv'
  PROVE  MediaInv'
<1>1. Shape /\ SemInv /\ PlaceInv /\ DirInv /\ PoolInv
  BY DEF MediaInv
<1>2. Shape' /\ requests'[r] = None /\ \A q \in Req \ {r} : requests'[q] = requests[q]
  BY <1>1, EndIs
<1>3. SemInv'
  <2>1. \A q \in Req : /\ HoldsOf(requests'[q]) = HoldsOf(requests[q])
                       /\ WaitsOf(requests'[q]) = WaitsOf(requests[q])
    BY <1>2 DEF HoldsOf, WaitsOf
  <2>2. QED
    BY <1>1, <2>1, SemSame
<1>4. PlaceInv'
  <2>1. \A l \in Limit, u \in User : ~PlaceOf(requests'[r], l, u)
    BY <1>2 DEF PlaceOf
  <2>2. \A q \in Req \ {r} : SamePlace(requests'[q], requests[q])
    BY <1>2 DEF SamePlace
  <2>3. CASE count' = Uncounted(r)
    BY <1>1, <2>1, <2>2, <2>3, PlaceLeft
  <2>4. CASE count' = count /\ \A l \in Limit, u \in User : ~PlaceOf(requests[r], l, u)
    <3>1. \A q \in Req : SamePlace(requests'[q], requests[q])
      BY <2>1, <2>2, <2>4 DEF SamePlace
    <3>2. QED
      BY <1>1, <2>4, <3>1, PlaceSame
  <2>5. QED
    BY <2>3, <2>4
<1>5. DirInv'
  <2>1. \A q \in Req : DirOf(requests'[q]) <=> DirOf(requests[q])
    BY <1>2 DEF DirOf, StagedAt, Held
  <2>2. QED
    BY <1>1, <2>1, DirSame
<1>6. PoolInv'
  <2>1. \A q \in Req : NoNewPage(q)
    BY <1>2 DEF NoNewPage, PoolOf
  <2>2. QED
    BY <1>1, <2>1, PoolSame
<1>7. QED
  BY <1>2, <1>3, <1>4, <1>5, <1>6 DEF MediaInv

(* A request moves on, away from the browser and with its file.              *)
LEMMA QuietKeeps ==
  ASSUME MediaInv, NEW r \in Req, requests[r] # None, NEW a \in Await, Goto(r, a),
         UNCHANGED <<semVars, count, dirs, poolVars>>, requests[r].at \in Held <=> a \in Held,
         {requests[r].at, a} \cap {"queued", "vetting"} = {},
         a \notin {"browsing", "launching", "closing"},
         Sound([requests[r] EXCEPT !.at = a]),
         requests[r].kind = "video" => (requests[r].at \in StagedAt <=> a \in StagedAt)
  PROVE  MediaInv'
<1>1. Shape' /\ SemInv' /\ PlaceInv'
  BY GotoKeeps
<1>2. /\ requests[r] \in Request /\ requests'[r] = [requests[r] EXCEPT !.at = a]
      /\ requests'[r] # None /\ requests'[r].at = a
      /\ \A q \in Req \ {r} : requests'[q] = requests[q]
  BY GotoIs DEF MediaInv
<1>3. requests'[r].kind = requests[r].kind
  BY <1>2 DEF Request
<1>4. DirInv'
  <2>1. \A q \in Req : DirOf(requests'[q]) <=> DirOf(requests[q])
    BY <1>2, <1>3 DEF DirOf
  <2>2. QED
    BY <2>1, DirSame DEF MediaInv
<1>5. PoolInv'
  <2>1. \A q \in Req : NoNewPage(q)
    BY <1>2 DEF NoNewPage, PoolOf
  <2>2. QED
    BY <2>1, PoolSame DEF MediaInv
<1>6. QED
  BY <1>1, <1>4, <1>5 DEF MediaInv

(* A request's record becomes y.                                             *)
LEMMA RecordKeeps ==
  ASSUME MediaInv, NEW r \in Req, NEW y \in Request, Sound(y),
         requests' = [requests EXCEPT ![r] = y], UNCHANGED <<semVars, dirs, poolVars>>,
         HoldsOf(y) = HoldsOf(requests[r]), WaitsOf(y) = WaitsOf(requests[r]),
         DirOf(y) <=> DirOf(requests[r]),
         \A a \in {"browsing", "launching", "closing"} : PoolOf(y, a) => PoolOf(requests[r], a),
         \/ count' = count /\ SamePlace(y, requests[r])
         \/ /\ count' = Uncounted(r) /\ requests[r] # None
            /\ \A l \in Limit, u \in User : ~PlaceOf(y, l, u)
  PROVE  MediaInv'
<1>1. Shape /\ SemInv /\ PlaceInv /\ DirInv /\ PoolInv
  BY DEF MediaInv
<1>2. RecordType /\ requests'[r] = y /\ \A q \in Req \ {r} : requests'[q] = requests[q]
  BY <1>1 DEF Shape, RecordType
<1>3. Shape'
  BY <1>1, <1>2, ShapeOf DEF Shape
<1>4. SemInv'
  BY <1>1, <1>2, SemSame
<1>5. PlaceInv'
  <2>1. \A q \in Req \ {r} : SamePlace(requests'[q], requests[q])
    BY <1>2 DEF SamePlace
  <2>2. CASE count' = count /\ SamePlace(y, requests[r])
    BY <1>1, <1>2, <2>1, <2>2, PlaceSame
  <2>3. CASE /\ count' = Uncounted(r) /\ requests[r] # None
             /\ \A l \in Limit, u \in User : ~PlaceOf(y, l, u)
    BY <1>1, <1>2, <2>1, <2>3, PlaceLeft
  <2>4. QED
    BY <2>2, <2>3
<1>6. DirInv'
  BY <1>1, <1>2, DirSame
<1>7. PoolInv'
  <2>1. \A q \in Req : NoNewPage(q)
    BY <1>2 DEF NoNewPage
  <2>2. QED
    BY <1>1, <2>1, PoolSame
<1>8. QED
  BY <1>3, <1>4, <1>5, <1>6, <1>7 DEF MediaInv

(* A record's await, once it is moved: what Sound asks.                      *)
LEMMA SoundAt ==
  ASSUME NEW x \in Request, Sound(x), NEW a \in Await,
         a \in {"staging", "sending", "erasing"} => x.kind = "video",
         a \in {"spawning", "running"} => x.kind \in Media,
         a \in PageAt => x.kind \in Pages,
         a \in {"resolving", "fetching"} => x.kind \in Images,
         a = "probing" => x.kind = "sse", a = "vetting" => x.kind # "job",
         a \in {"granted", "queued"} => x.kind \notin Images
  PROVE  Sound([x EXCEPT !.at = a]) /\ [x EXCEPT !.at = a] \in Request
<1>1. x # None
  BY NoneAssumption
<1>2. [x EXCEPT !.at = a] \in Request
  BY DEF Request
<1>3. /\ [x EXCEPT !.at = a].at = a /\ [x EXCEPT !.at = a].kind = x.kind
      /\ [x EXCEPT !.at = a].user = x.user /\ [x EXCEPT !.at = a].seen = x.seen
      /\ [x EXCEPT !.at = a].retry = x.retry
  BY DEF Request
<1>4. QED
  BY <1>1, <1>2, <1>3 DEF Sound

----------------------------------------------------------------------------
(* The actions.                                                              *)

LEMMA AtOf ==
  ASSUME MediaInv, NEW r \in Req, NEW S, At(r, S)
  PROVE  requests[r] # None /\ requests[r].at \in S /\ requests[r] \in Request /\ Sound(requests[r])
BY DEF At, MediaInv, Shape

LEMMA MediaKeeps ==
  ASSUME MediaInv, NEW r \in Req, MediaStep(r)
  PROVE  MediaInv'
<1>1. CASE ImageResolved(r)
  <2>1. requests[r] # None /\ requests[r].at = "resolving"
    BY <1>1 DEF ImageResolved, At
  <2>2. requests[r] \in Request /\ Sound(requests[r])
    BY <2>1 DEF MediaInv, Shape
  <2>3. Sound([requests[r] EXCEPT !.at = "fetching"])
    BY <1>1, <2>1, <2>2, SoundAt DEF ImageResolved, Sound, Is, Await, Held, PageAt, Images, Pages, Media
  <2>4. QED
    BY <1>1, <2>1, <2>3, QuietKeeps DEF ImageResolved, Await, Held, StagedAt
<1>2. CASE ImageEnds(r)
  <2>1. requests[r] # None /\ requests[r].at \in {"resolving", "fetching"}
    BY <1>2 DEF ImageEnds, At
  <2>2. QED
    BY <1>2, <2>1, EndKeeps DEF ImageEnds, Held
<1>3. CASE MediaStart(r)
  <2> DEFINE a == IF Is(r, {"video"}) THEN "staging" ELSE "spawning"
  <2>1. requests[r] # None /\ requests[r].at = "granted" /\ requests[r].kind \in Media
    BY <1>3 DEF MediaStart, At, Is
  <2>2. requests[r] \in Request /\ Sound(requests[r]) /\ a \in Await
    BY <2>1 DEF MediaInv, Shape, Await, Held
  <2>3. a = (IF requests[r].kind = "video" THEN "staging" ELSE "spawning")
    BY <2>1 DEF Is
  <2>4. Sound([requests[r] EXCEPT !.at = a])
    BY <2>1, <2>2, <2>3, SoundAt DEF PageAt
  <2>5. QED
    BY <1>3, <2>1, <2>2, <2>3, <2>4, QuietKeeps DEF MediaStart, Held, StagedAt
<1>4. CASE Staged(r)
  <2> DEFINE a == IF requests[r].gone THEN "erasing" ELSE "spawning"
  <2>1. requests[r] # None /\ requests[r].at = "staging"
    BY <1>4 DEF Staged, At
  <2>2. requests[r] \in Request /\ Sound(requests[r]) /\ a \in Await /\ requests[r].kind = "video"
    BY <2>1 DEF MediaInv, Shape, Await, Held, Sound
  <2>3. Sound([requests[r] EXCEPT !.at = a])
    BY <2>1, <2>2, SoundAt DEF PageAt, Media
  <2>4. Goto(r, a) /\ UNCHANGED <<semVars, count, poolVars>> /\ dirs' = dirs \cup {r}
    BY <1>4 DEF Staged
  <2>5. Shape' /\ SemInv' /\ PlaceInv'
    BY <2>1, <2>2, <2>3, <2>4, GotoKeeps DEF Held
  <2>6. /\ requests'[r] = [requests[r] EXCEPT !.at = a] /\ requests'[r] # None /\ requests'[r].at = a
        /\ \A q \in Req \ {r} : requests'[q] = requests[q]
    BY <2>1, <2>2, <2>4, GotoIs DEF MediaInv
  <2>7. DirOf(requests'[r])
    BY <2>2, <2>6 DEF DirOf, StagedAt, Request
  <2>8. DirInv'
    BY <2>4, <2>6, <2>7, DirMade DEF MediaInv
  <2>9. \A q \in Req : NoNewPage(q)
    BY <2>6 DEF NoNewPage, PoolOf
  <2>10. PoolInv'
    BY <2>4, <2>9, PoolSame DEF MediaInv
  <2>11. QED
    BY <2>5, <2>8, <2>10 DEF MediaInv
<1>5. CASE StagingFails(r)
  <2>1. requests[r] # None /\ requests[r].at = "staging"
    BY <1>5 DEF StagingFails, At
  <2>2. QED
    BY <1>5, <2>1, LeaveSlotKeeps DEF StagingFails, Held, DirOf, StagedAt
<1>6. CASE Spawned(r)
  <2>1. requests[r] # None /\ requests[r].at = "spawning"
    BY <1>6 DEF Spawned, At
  <2>2. requests[r] \in Request /\ Sound(requests[r])
    BY <2>1 DEF MediaInv, Shape
  <2>3. Sound([requests[r] EXCEPT !.at = "running"])
    BY <1>6, <2>1, <2>2, SoundAt DEF Spawned, Sound, Is, Await, Held, PageAt, Images, Pages, Media
  <2>4. QED
    BY <1>6, <2>1, <2>3, QuietKeeps DEF Spawned, Await, Held, StagedAt
<1>7. CASE SpawnFails(r) /\ Is(r, {"video"})
  <2>1. requests[r] # None /\ requests[r].at = "spawning" /\ requests[r].kind = "video"
    BY <1>7 DEF SpawnFails, At, Is
  <2>2. requests[r] \in Request /\ Sound(requests[r])
    BY <2>1 DEF MediaInv, Shape
  <2>3. Sound([requests[r] EXCEPT !.at = "erasing"])
    BY <2>1, <2>2, SoundAt DEF Await, Held, PageAt
  <2>4. QED
    BY <1>7, <2>1, <2>3, QuietKeeps DEF SpawnFails, Await, Held, StagedAt
<1>8. CASE SpawnFails(r) /\ ~Is(r, {"video"})
  <2>1. requests[r] # None /\ requests[r].at = "spawning" /\ requests[r].kind # "video"
    BY <1>8 DEF SpawnFails, At, Is
  <2>2. QED
    BY <1>8, <2>1, LeaveSlotKeeps DEF SpawnFails, Held, DirOf
<1>9. CASE FfmpegRetries(r)
  <2>1. requests[r] # None /\ requests[r].at = "running" /\ requests[r].retry
    BY <1>9 DEF FfmpegRetries, At
  <2>2. requests[r] \in Request /\ Sound(requests[r]) /\ requests[r].kind = "video"
    BY <2>1 DEF MediaInv, Shape, Sound
  <2>3. PICK a \in {"erasing", "spawning"} : a = IF requests[r].gone THEN "erasing" ELSE "spawning"
    OBVIOUS
  <2>4. PICK y : y = [requests[r] EXCEPT !.retry = FALSE, !.at = a]
    OBVIOUS
  <2>5. requests' = [requests EXCEPT ![r] = y]
    BY <1>9, <2>1, <2>3, <2>4 DEF FfmpegRetries, MediaInv, Shape
  <2>6. /\ y \in Request /\ y # None /\ y.at = a /\ y.kind = "video" /\ y.user = requests[r].user
        /\ y.gone = requests[r].gone /\ y.seen = requests[r].seen
    BY <2>2, <2>4, NoneAssumption DEF Request, Await, Held
  <2>7. Sound(y)
    <3>1. y.seen < SseCap /\ (y.kind = "job" <=> y.user = None)
      BY <2>1, <2>2, <2>6 DEF Sound
    <3>2. a \notin PageAt \cup {"resolving", "fetching", "probing", "vetting", "granted", "queued"}
      BY <2>3 DEF PageAt
    <3>3. QED
      BY <2>6, <3>1, <3>2 DEF Sound, Media
  <2>8. HoldsOf(y) = HoldsOf(requests[r]) /\ WaitsOf(y) = WaitsOf(requests[r])
    BY <2>1, <2>2, <2>6 DEF HoldsOf, WaitsOf, Held
  <2>9. SamePlace(y, requests[r]) /\ (DirOf(y) <=> DirOf(requests[r]))
    BY <2>1, <2>2, <2>6 DEF SamePlace, PlaceOf, CountsOf, DirOf, StagedAt
  <2>10. \A b \in {"browsing", "launching", "closing"} : ~PoolOf(y, b)
    BY <2>6 DEF PoolOf
  <2>11. QED
    BY <1>9, <2>5, <2>6, <2>7, <2>8, <2>9, <2>10, RecordKeeps DEF FfmpegRetries
<1>10. CASE FfmpegDone(r)
  <2>1. requests[r] # None /\ requests[r].at = "running"
    BY <1>10 DEF FfmpegDone, At
  <2>2. requests[r] \in Request /\ Sound(requests[r])
    BY <2>1 DEF MediaInv, Shape
  <2>3. Sound([requests[r] EXCEPT !.at = "sending"])
    BY <1>10, <2>1, <2>2, SoundAt DEF FfmpegDone, Sound, Is, Await, Held, PageAt
  <2>4. QED
    BY <1>10, <2>1, <2>3, QuietKeeps DEF FfmpegDone, Await, Held, StagedAt
<1>11. CASE FfmpegFails(r)
  <2>1. requests[r] # None /\ requests[r].at = "running"
    BY <1>11 DEF FfmpegFails, At
  <2>2. requests[r] \in Request /\ Sound(requests[r])
    BY <2>1 DEF MediaInv, Shape
  <2>3. Sound([requests[r] EXCEPT !.at = "erasing"])
    BY <1>11, <2>1, <2>2, SoundAt DEF FfmpegFails, Sound, Is, Await, Held, PageAt
  <2>4. QED
    BY <1>11, <2>1, <2>3, QuietKeeps DEF FfmpegFails, Await, Held, StagedAt
<1>12. CASE ThumbnailEnds(r)
  <2>1. requests[r] # None /\ requests[r].at = "running" /\ requests[r].kind = "thumb"
    BY <1>12 DEF ThumbnailEnds, At, Is
  <2>2. QED
    BY <1>12, <2>1, LeaveSlotKeeps DEF ThumbnailEnds, Held, DirOf
<1>13. CASE Sent(r)
  <2>1. requests[r] # None /\ requests[r].at = "sending"
    BY <1>13 DEF Sent, At
  <2>2. requests[r] \in Request /\ Sound(requests[r])
    BY <2>1 DEF MediaInv, Shape
  <2>3. Sound([requests[r] EXCEPT !.at = "erasing"])
    BY <1>13, <2>1, <2>2, SoundAt DEF Sent, Sound, Is, Await, Held, PageAt
  <2>4. QED
    BY <1>13, <2>1, <2>3, QuietKeeps DEF Sent, Await, Held, StagedAt
<1>14. CASE Erased(r)
  <2>1. requests[r] # None /\ requests[r].at = "erasing"
    BY <1>14 DEF Erased, At
  <2>2. QED
    BY <1>14, <2>1, LeaveSlotKeeps DEF Erased, Held
<1>15. QED
  BY <1>1, <1>2, <1>3, <1>4, <1>5, <1>6, <1>7, <1>8, <1>9, <1>10, <1>11, <1>12, <1>13, <1>14
     DEF MediaStep

(* A request past tryAcquire has its place.                                  *)
LEMMA AdmitKeeps ==
  ASSUME MediaInv, NEW r \in Req, Admits(r), NEW y \in Request, Sound(y),
         requests' = [requests EXCEPT ![r] = y], count' = With(r, Admitted(r)),
         y.kind = requests[r].kind, y.user = requests[r].user, y.kind = "sse" => ~y.gone,
         y.at \in {"resolving", "fetching", "granted", "queued"},
         UNCHANGED <<dirs, poolVars>>, SemInv'
  PROVE  MediaInv'
<1>1. Shape /\ PlaceInv /\ DirInv /\ PoolInv
  BY DEF MediaInv
<1>2. RecordType /\ requests'[r] = y /\ \A q \in Req \ {r} : requests'[q] = requests[q]
  BY <1>1 DEF Shape, RecordType
<1>3. requests[r] # None /\ requests[r].at = "vetting" /\ requests[r] \in Request /\ Sound(requests[r])
  BY <1>1 DEF Admits, At, Shape
<1>4. y # None /\ requests[r].kind # "job" /\ requests[r].user # None /\ requests[r].user \in User
  BY <1>3, NoneAssumption DEF Sound, Request
<1>5. Shape'
  BY <1>1, <1>2, ShapeOf DEF Shape
<1>6. PlaceInv'
  <2>1. PICK l \in Limit : l = MyLimit(r)
    BY DEF MyLimit, LimitOf, Limit
  <2>2. PICK u \in User : u = Me(r)
    BY <1>4 DEF Me
  <2>3. \A m \in Limit, v \in User : PlaceOf(y, m, v) <=> (m = l /\ v = u)
    BY <1>4, <2>1, <2>2 DEF PlaceOf, CountsOf, MyLimit, Me
  <2>4. QED
    BY <1>1, <1>2, <2>1, <2>2, <2>3, PlaceTaken
<1>7. DirInv'
  <2>1. ~DirOf(y) /\ ~DirOf(requests[r])
    BY <1>3 DEF DirOf, StagedAt
  <2>2. QED
    BY <1>1, <1>2, <2>1, DirSame
<1>8. PoolInv'
  <2>1. \A q \in Req : NoNewPage(q)
    BY <1>2 DEF NoNewPage, PoolOf
  <2>2. QED
    BY <1>1, <2>1, PoolSame
<1>9. QED
  BY <1>5, <1>6, <1>7, <1>8 DEF MediaInv

LEMMA FrontKeeps ==
  ASSUME MediaInv, NEW r \in Req, FrontStep(r)
  PROVE  MediaInv'
<1>0. Shape /\ SemInv /\ PlaceInv /\ DirInv /\ PoolInv
  BY DEF MediaInv
<1>1. ASSUME NEW k \in Kind, NEW u \in User, NEW p \in Route, Arrive(r, k, u, p)
      PROVE  MediaInv'
  <2>1. requests[r] = None /\ k # "job" /\ (k = "sse" => count["sse"][u] < SseCap)
    BY <1>1 DEF Arrive
  <2>2. PICK n : n = IF k = "sse" THEN count["sse"][u] ELSE 0
    OBVIOUS
  <2>3. n \in Nat /\ n < SseCap
    BY <1>0, <2>1, <2>2, CapTypes DEF PlaceInv, Limit
  <2>a. PICK e \in Route : e = IF k \in Media THEN "direct" ELSE p
    BY DEF Route
  <2>b. PICK b \in BOOLEAN : b = (k = "video")
    OBVIOUS
  <2>4. PICK y : y = [kind |-> k, user |-> u, route |-> e,
                      at |-> "vetting", gone |-> FALSE, seen |-> n, retry |-> b]
    OBVIOUS
  <2>5. /\ requests' = [requests EXCEPT ![r] = y] /\ count' = count
        /\ UNCHANGED <<semVars, dirs, poolVars>>
    BY <1>1, <2>2, <2>a, <2>b, <2>4 DEF Arrive
  <2>6. y \in Request /\ y # None
    <3>1. y \in Request
      BY <2>3, <2>4, <2>a, <2>b DEF Request, Await
    <3>2. QED
      BY <3>1, NoneAssumption
  <2>7. Sound(y)
    <3>1. u # None
      BY MediaAssumption
    <3>2. QED
      BY <2>1, <2>3, <2>b, <2>4, <2>6, <3>1 DEF Sound, PageAt
  <2>8. y.at = "vetting"
    BY <2>4
  <2>9. HoldsOf(y) = HoldsOf(requests[r]) /\ WaitsOf(y) = WaitsOf(requests[r])
    BY <2>1, <2>8 DEF HoldsOf, WaitsOf, Held
  <2>10. SamePlace(y, requests[r]) /\ (DirOf(y) <=> DirOf(requests[r]))
    BY <2>1, <2>8 DEF SamePlace, PlaceOf, CountsOf, DirOf, StagedAt
  <2>11. \A a \in {"browsing", "launching", "closing"} : ~PoolOf(y, a)
    BY <2>8 DEF PoolOf
  <2>12. QED
    BY <2>5, <2>6, <2>7, <2>9, <2>10, <2>11, RecordKeeps
<1>2. ASSUME NEW p \in Route, JobArrives(r, p)
      PROVE  MediaInv'
  <2>1. requests[r] = None /\ UNCHANGED <<count, dirs, poolVars>>
    BY <1>2 DEF JobArrives
  <2>2. PICK a \in {"granted", "queued"} :
          /\ requests' = [requests EXCEPT ![r] = JobRequest(p, a)]
          /\ a = "granted" => /\ running["extraction"] < ExtractSlots /\ UNCHANGED queue
                              /\ running' = [running EXCEPT !["extraction"] = @ + 1]
          /\ a = "queued" => /\ running["extraction"] >= ExtractSlots /\ UNCHANGED running
                             /\ Len(queue["extraction"]) < ExtractQueue
                             /\ queue' = [queue EXCEPT !["extraction"] = Append(@, r)]
    BY <1>2 DEF JobArrives
  <2>3. PICK y : y = JobRequest(p, a)
    OBVIOUS
  <2>4. y \in Request /\ y # None /\ y.at = a /\ y.kind = "job"
    <3>1. "job" \in Kind /\ a \in Await
      BY <2>2 DEF Kind, Pages, Await, Held
    <3>2. y = [kind |-> "job", user |-> None, route |-> p, at |-> a,
               gone |-> FALSE, seen |-> 0, retry |-> FALSE]
      BY <2>3 DEF JobRequest
    <3>3. y \in Request
      BY <3>1, <3>2 DEF Request
    <3>4. QED
      BY <3>2, <3>3, NoneAssumption
  <2>5. Sound(y)
    BY <2>2, <2>3, <2>4, CapTypes DEF JobRequest, Sound, PageAt, Images, Limit
  <2>6. RecordType /\ requests'[r] = y /\ \A q \in Req \ {r} : requests'[q] = requests[q]
    BY <1>0, <2>2, <2>3, <2>4 DEF Shape, RecordType
  <2>7. Shape'
    BY <1>0, <2>5, <2>6, ShapeOf DEF Shape
  <2>8. HoldsOf(requests[r]) = "no" /\ WaitsOf(requests[r]) = "no"
    BY <2>1 DEF HoldsOf, WaitsOf
  <2>9. /\ SemOf("job") = "extraction" /\ "extraction" \in Sem
        /\ Slots("extraction") = ExtractSlots /\ MaxQueue("extraction") = ExtractQueue
    BY DEF SemOf, Media, Sem, Slots, MaxQueue
  <2>10. SemInv'
    <3>1. CASE a = "granted"
      <4>1. HoldsOf(y) = "extraction" /\ WaitsOf(y) = "no"
        BY <2>4, <2>9, <3>1 DEF HoldsOf, WaitsOf, Held
      <4>2. QED
        BY <1>0, <2>2, <2>6, <2>8, <2>9, <3>1, <4>1, SemAcquired
    <3>2. CASE a = "queued"
      <4>1. HoldsOf(y) = "no" /\ WaitsOf(y) = "extraction"
        BY <2>4, <2>9, <3>2 DEF HoldsOf, WaitsOf, Held
      <4>2. QED
        BY <1>0, <2>2, <2>6, <2>8, <2>9, <3>2, <4>1, SemQueued
    <3>3. QED
      BY <2>2, <3>1, <3>2
  <2>11. PlaceInv'
    <3>1. SamePlace(y, requests[r])
      BY <2>1, <2>4 DEF SamePlace, PlaceOf, CountsOf
    <3>2. \A q \in Req : SamePlace(requests'[q], requests[q])
      BY <2>6, <3>1 DEF SamePlace
    <3>3. QED
      BY <1>0, <2>1, <3>2, PlaceSame
  <2>12. DirInv'
    <3>1. ~DirOf(y) /\ ~DirOf(requests[r])
      BY <2>1, <2>4 DEF DirOf
    <3>2. QED
      BY <1>0, <2>1, <2>6, <3>1, DirSame
  <2>13. PoolInv'
    <3>1. \A q \in Req : NoNewPage(q)
      BY <2>2, <2>4, <2>6 DEF NoNewPage, PoolOf
    <3>2. QED
      BY <1>0, <2>1, <3>1, PoolSame
  <2>14. QED
    BY <2>7, <2>10, <2>11, <2>12, <2>13 DEF MediaInv
<1>3. CASE Refused(r)
  <2>1. requests[r] # None /\ requests[r].at = "vetting"
    BY <1>3 DEF Refused, At
  <2>2. \A l \in Limit, u \in User : ~PlaceOf(requests[r], l, u)
    BY <2>1 DEF PlaceOf, CountsOf
  <2>3. requests[r].at \notin Held \cup {"queued"}
    BY <2>1 DEF Held
  <2>4. QED
    BY <1>3, <2>1, <2>2, <2>3, EndKeeps DEF Refused
<1>4. ASSUME Admits(r)
      PROVE  /\ requests[r] # None /\ requests[r].at = "vetting" /\ requests[r] \in Request
             /\ Sound(requests[r]) /\ requests[r].kind # "job" /\ requests[r].user \in User
             /\ HoldsOf(requests[r]) = "no" /\ WaitsOf(requests[r]) = "no"
  <2>1. /\ requests[r] # None /\ requests[r].at = "vetting" /\ requests[r] \in Request
        /\ Sound(requests[r])
    BY <1>0, <1>4 DEF Admits, At, Shape
  <2>2. requests[r].kind # "job" /\ requests[r].user # None /\ requests[r].user \in User \cup {None}
    BY <2>1 DEF Sound, Request
  <2>3. HoldsOf(requests[r]) = "no" /\ WaitsOf(requests[r]) = "no"
    BY <2>1 DEF HoldsOf, WaitsOf, Held
  <2>4. QED
    BY <2>1, <2>2, <2>3
<1>5. CASE AdmitImage(r)
  <2>1. Admits(r) /\ requests[r].kind \in Images
    BY <1>5 DEF AdmitImage, Is
  <2>2. PICK a \in {"resolving", "fetching"} :
          a = IF requests[r].route = "direct" THEN "resolving" ELSE "fetching"
    OBVIOUS
  <2>3. PICK y : y = [requests[r] EXCEPT !.at = a]
    OBVIOUS
  <2>4. requests' = [requests EXCEPT ![r] = y]
    BY <1>0, <1>5, <2>2, <2>3 DEF AdmitImage, Goto, Shape
  <2>5. Sound(y) /\ y \in Request
    BY <1>4, <2>1, <2>2, <2>3, SoundAt DEF Await, PageAt
  <2>6. y.at = a /\ y.kind = requests[r].kind /\ y.user = requests[r].user /\ y # None
    BY <1>4, <2>1, <2>3, <2>5, NoneAssumption DEF Request
  <2>7. SemInv'
    <3>1. HoldsOf(y) = "no" /\ WaitsOf(y) = "no"
      BY <2>2, <2>6 DEF HoldsOf, WaitsOf, Held
    <3>2. \A q \in Req : /\ HoldsOf(requests'[q]) = HoldsOf(requests[q])
                         /\ WaitsOf(requests'[q]) = WaitsOf(requests[q])
      BY <1>0, <1>4, <2>1, <2>4, <3>1 DEF Shape
    <3>3. QED
      BY <1>0, <1>5, <3>2, SemSame DEF AdmitImage
  <2>8. y.kind # "sse"
    BY <2>1, <2>6 DEF Images
  <2>9. QED
    BY <1>5, <2>1, <2>2, <2>4, <2>5, <2>6, <2>7, <2>8, AdmitKeeps DEF AdmitImage
<1>6. ASSUME Admits(r), ~Is(r, Images), ~requests[r].gone, NEW a \in {"granted", "queued"},
             requests' = [requests EXCEPT ![r].at = a, ![r].seen = 0]
      PROVE  \E y \in Request :
               /\ requests' = [requests EXCEPT ![r] = y] /\ Sound(y) /\ y # None /\ y.at = a
               /\ y.kind = requests[r].kind /\ y.user = requests[r].user /\ ~y.gone
  <2>1. requests[r] # None /\ requests[r] \in Request /\ Sound(requests[r]) /\ requests[r].kind \notin Images
    BY <1>4, <1>6 DEF Is
  <2>2. PICK y : y = [requests[r] EXCEPT !.at = a, !.seen = 0]
    OBVIOUS
  <2>3. requests' = [requests EXCEPT ![r] = y]
    BY <1>0, <1>6, <2>1, <2>2 DEF Shape
  <2>4. y \in Request
    BY <2>1, <2>2 DEF Request, Await, Held
  <2>5. /\ y # None /\ y.at = a /\ y.kind = requests[r].kind /\ y.user = requests[r].user
        /\ y.gone = requests[r].gone /\ y.seen = 0 /\ y.retry = requests[r].retry
    BY <2>1, <2>2, <2>4, NoneAssumption DEF Request
  <2>6. 0 < SseCap
    BY CapTypes DEF Limit
  <2>7. Sound(y)
    BY <2>1, <2>4, <2>5, <2>6 DEF Sound, PageAt
  <2>8. QED
    BY <1>6, <2>3, <2>4, <2>5, <2>7
<1>7. MySem(r) \in Sem
  BY DEF MySem, SemOf, Sem
<1>8. CASE AdmitFree(r)
  <2>1. /\ Admits(r) /\ ~Is(r, Images) /\ ~requests[r].gone /\ count' = With(r, Admitted(r))
        /\ requests' = [requests EXCEPT ![r].at = "granted", ![r].seen = 0]
        /\ UNCHANGED <<queue, dirs, poolVars>>
    BY <1>8 DEF AdmitFree
  <2>2. PICK y \in Request :
          /\ requests' = [requests EXCEPT ![r] = y] /\ Sound(y) /\ y # None /\ y.at = "granted"
          /\ y.kind = requests[r].kind /\ y.user = requests[r].user /\ ~y.gone
    BY <1>6, <2>1
  <2>3. PICK s \in Sem : s = MySem(r)
    BY <1>7
  <2>4. HoldsOf(y) = s /\ WaitsOf(y) = "no"
    BY <2>2, <2>3 DEF HoldsOf, WaitsOf, Held, MySem
  <2>5. requests'[r] = y /\ \A q \in Req \ {r} : requests'[q] = requests[q]
    BY <1>0, <2>2 DEF Shape
  <2>6. SemInv'
    BY <1>0, <1>4, <1>8, <2>1, <2>3, <2>4, <2>5, SemAcquired DEF AdmitFree
  <2>7. QED
    BY <2>1, <2>2, <2>6, AdmitKeeps
<1>9. CASE AdmitQueued(r)
  <2>1. /\ Admits(r) /\ ~Is(r, Images) /\ ~requests[r].gone /\ count' = With(r, Admitted(r))
        /\ requests' = [requests EXCEPT ![r].at = "queued", ![r].seen = 0]
        /\ UNCHANGED <<running, dirs, poolVars>>
    BY <1>9 DEF AdmitQueued
  <2>2. PICK y \in Request :
          /\ requests' = [requests EXCEPT ![r] = y] /\ Sound(y) /\ y # None /\ y.at = "queued"
          /\ y.kind = requests[r].kind /\ y.user = requests[r].user /\ ~y.gone
    BY <1>6, <2>1
  <2>3. PICK s \in Sem : s = MySem(r)
    BY <1>7
  <2>4. HoldsOf(y) = "no" /\ WaitsOf(y) = s
    BY <2>2, <2>3 DEF HoldsOf, WaitsOf, Held, MySem
  <2>5. requests'[r] = y /\ \A q \in Req \ {r} : requests'[q] = requests[q]
    BY <1>0, <2>2 DEF Shape
  <2>6. SemInv'
    BY <1>0, <1>4, <1>9, <2>1, <2>3, <2>4, <2>5, SemQueued DEF AdmitQueued
  <2>7. QED
    BY <2>1, <2>2, <2>6, AdmitKeeps
<1>10. CASE AdmitFails(r)
  <2>1. /\ Admits(r) /\ count' = With(r, Lowered(Admitted(r)))
        /\ requests' = [requests EXCEPT ![r] = None] /\ UNCHANGED <<semVars, dirs, poolVars>>
    BY <1>10 DEF AdmitFails
  <2>2. PICK l \in Limit : l = MyLimit(r)
    BY DEF MyLimit, LimitOf, Limit
  <2>3. PICK u \in User : u = Me(r)
    BY <1>4, <2>1 DEF Me
  <2>4. PlaceInv'
    BY <1>0, <2>1, <2>2, <2>3, PlaceFails
  <2>5. requests[r].at \notin Held \cup {"queued"}
    BY <1>4, <2>1 DEF Held
  <2>6. QED
    BY <1>4, <2>1, <2>4, <2>5, EndKeeps
<1>11. QED
  BY <1>1, <1>2, <1>3, <1>5, <1>8, <1>9, <1>10 DEF FrontStep

LEMMA GoneKeeps ==
  ASSUME MediaInv, NEW r \in Req, GoneStep(r)
  PROVE  MediaInv'
<1>0. Shape /\ SemInv /\ PlaceInv /\ DirInv /\ PoolInv
  BY DEF MediaInv
<1>1. CASE GoneNoted(r)
  <2>1. requests[r] # None /\ requests[r].at # "queued" /\ requests[r] \in Request /\ Sound(requests[r])
    BY <1>0, <1>1 DEF GoneNoted, At, LooksLater, Shape
  <2>2. PICK a \in Await : a = IF At(r, {"browsing"}) THEN "broken" ELSE requests[r].at
    BY <2>1 DEF Request, Await, Held
  <2>3. PICK y : y = [requests[r] EXCEPT !.gone = TRUE, !.at = a]
    OBVIOUS
  <2>4. requests' = [requests EXCEPT ![r] = y] /\ UNCHANGED <<semVars, dirs, poolVars>>
    BY <1>0, <1>1, <2>1, <2>2, <2>3 DEF GoneNoted, Shape
  <2>5. y \in Request
    BY <2>1, <2>3 DEF Request
  <2>6. /\ y # None /\ y.at = a /\ y.gone = TRUE /\ y.kind = requests[r].kind
        /\ y.user = requests[r].user /\ y.seen = requests[r].seen /\ y.retry = requests[r].retry
    BY <2>1, <2>3, <2>5, NoneAssumption DEF Request
  <2>7. a = requests[r].at \/ (requests[r].at = "browsing" /\ a = "broken")
    BY <2>1, <2>2 DEF At
  <2>8. Sound(y)
    BY <2>1, <2>5, <2>6, <2>7 DEF Sound, PageAt
  <2>9. HoldsOf(y) = HoldsOf(requests[r]) /\ WaitsOf(y) = WaitsOf(requests[r])
    BY <2>1, <2>6, <2>7 DEF HoldsOf, WaitsOf, Held
  <2>10. DirOf(y) <=> DirOf(requests[r])
    BY <2>1, <2>6, <2>7 DEF DirOf, StagedAt
  <2>11. \A b \in {"browsing", "launching", "closing"} : PoolOf(y, b) => PoolOf(requests[r], b)
    BY <2>1, <2>6, <2>7 DEF PoolOf
  <2>12. CASE requests[r].kind = "sse"
    <3>1. count' = Uncounted(r)
      BY <1>1, <2>1, <2>12 DEF GoneNoted, Is
    <3>2. \A l \in Limit, u \in User : ~PlaceOf(y, l, u)
      BY <2>6, <2>12 DEF PlaceOf, CountsOf
    <3>3. QED
      BY <2>1, <2>4, <2>5, <2>8, <2>9, <2>10, <2>11, <3>1, <3>2, RecordKeeps
  <2>13. CASE requests[r].kind # "sse"
    <3>1. count' = count
      BY <1>1, <2>13 DEF GoneNoted, Is
    <3>2. SamePlace(y, requests[r])
      BY <2>1, <2>6, <2>7, <2>13 DEF SamePlace, PlaceOf, CountsOf
    <3>3. QED
      BY <2>4, <2>5, <2>8, <2>9, <2>10, <2>11, <3>1, <3>2, RecordKeeps
  <2>14. QED
    BY <2>12, <2>13
<1>2. CASE GoneQueued(r)
  <2>1. PICK s \in Sem : s = MySem(r)
    BY DEF MySem, SemOf, Sem
  <2>2. PICK k \in 1..Len(queue[s]) :
          queue[s][k] = r /\ queue' = [queue EXCEPT ![s] = Spliced(@, k)]
    BY <1>2, <2>1 DEF GoneQueued
  <2>3. /\ requests' = [requests EXCEPT ![r] = None] /\ count' = Uncounted(r) /\ running' = running
        /\ dirs' = dirs /\ UNCHANGED poolVars /\ requests[r] # None /\ requests[r].at = "queued"
    BY <1>2 DEF GoneQueued, At
  <2>4. SemInv'
    BY <1>0, <2>1, <2>2, <2>3, SemLeft
  <2>5. Shape' /\ requests'[r] = None /\ \A q \in Req \ {r} : requests'[q] = requests[q]
    BY <1>0, <2>3, EndIs
  <2>6. PlaceInv'
    <3>1. \A l \in Limit, u \in User : ~PlaceOf(requests'[r], l, u)
      BY <2>5 DEF PlaceOf
    <3>2. \A q \in Req \ {r} : SamePlace(requests'[q], requests[q])
      BY <2>5 DEF SamePlace
    <3>3. QED
      BY <1>0, <2>3, <3>1, <3>2, PlaceLeft
  <2>7. DirInv'
    <3>1. ~DirOf(requests'[r]) /\ ~DirOf(requests[r])
      BY <2>3, <2>5 DEF DirOf, StagedAt
    <3>2. QED
      BY <1>0, <2>3, <2>5, <3>1, DirSame
  <2>8. PoolInv'
    <3>1. \A q \in Req : NoNewPage(q)
      BY <2>5 DEF NoNewPage, PoolOf
    <3>2. QED
      BY <1>0, <2>3, <3>1, PoolSame
  <2>9. QED
    BY <2>4, <2>5, <2>6, <2>7, <2>8 DEF MediaInv
<1>3. CASE GoneFetching(r)
  <2>1. requests[r] # None /\ requests[r].at \notin Held \cup {"queued"}
    BY <1>3 DEF GoneFetching, At, Held
  <2>2. QED
    BY <1>3, <2>1, EndKeeps DEF GoneFetching
<1>4. CASE GoneStreaming(r)
  <2>1. /\ requests[r] # None /\ requests[r].at \in {"running", "sending"}
        /\ requests[r].kind = "video" /\ requests[r] \in Request /\ Sound(requests[r])
    BY <1>0, <1>4 DEF GoneStreaming, At, Is, Shape
  <2>2. PICK y : y = [requests[r] EXCEPT !.gone = TRUE, !.at = "erasing"]
    OBVIOUS
  <2>3. requests' = [requests EXCEPT ![r] = y] /\ count' = count /\ UNCHANGED <<semVars, dirs, poolVars>>
    BY <1>0, <1>4, <2>1, <2>2 DEF GoneStreaming, Shape
  <2>4. y \in Request
    BY <2>1, <2>2 DEF Request, Await, Held
  <2>5. /\ y # None /\ y.at = "erasing" /\ y.gone = TRUE /\ y.kind = requests[r].kind
        /\ y.user = requests[r].user /\ y.seen = requests[r].seen /\ y.retry = requests[r].retry
    BY <2>1, <2>2, <2>4, NoneAssumption DEF Request
  <2>6. Sound(y)
    BY <2>1, <2>4, <2>5 DEF Sound, PageAt
  <2>7. HoldsOf(y) = HoldsOf(requests[r]) /\ WaitsOf(y) = WaitsOf(requests[r])
    BY <2>1, <2>5 DEF HoldsOf, WaitsOf, Held
  <2>8. (DirOf(y) <=> DirOf(requests[r])) /\ SamePlace(y, requests[r])
    BY <2>1, <2>5 DEF DirOf, StagedAt, SamePlace, PlaceOf, CountsOf
  <2>9. \A b \in {"browsing", "launching", "closing"} : ~PoolOf(y, b)
    BY <2>5 DEF PoolOf
  <2>10. QED
    BY <2>3, <2>4, <2>6, <2>7, <2>8, <2>9, RecordKeeps
<1>5. QED
  BY <1>1, <1>2, <1>3, <1>4 DEF GoneStep

(* The end of getBrowser.                                                    *)
LEMMA TakeKeeps ==
  ASSUME MediaInv, NEW r \in Req, requests[r] # None, requests[r].kind \in Pages,
         requests[r].at \in {"granted", "stopping"}, TakeBrowser(r),
         UNCHANGED <<semVars, count, dirs, browser, chromiums>>
  PROVE  MediaInv'
<1>0. Shape /\ PoolInv /\ OneBrowser /\ requests[r] \in Request
  BY DEF MediaInv, PoolInv, Shape
<1>1. PICK a \in PageAt :
        /\ Goto(r, a)
        /\ browser # None => /\ a \in {"browsing", "broken"} /\ launch' = launch
                             /\ a = "browsing" => chromiums > 0
        /\ browser = None => /\ a = "launching"
                             /\ launch' = IF launch = None THEN requests[r].route ELSE launch
  <2>1. CASE browser # None
    <3>1. CASE chromiums > 0
      BY <2>1, <3>1 DEF TakeBrowser, PageAt
    <3>2. CASE ~(chromiums > 0)
      BY <2>1, <3>2 DEF TakeBrowser, PageAt
    <3>3. QED
      BY <3>1, <3>2
  <2>2. CASE browser = None
    BY <2>2 DEF TakeBrowser, PageAt
  <2>3. QED
    BY <2>1, <2>2
<1>2. a \in Await
  BY <1>1 DEF PageAt, Await, Held
<1>3. /\ requests'[r] = [requests[r] EXCEPT !.at = a] /\ requests'[r] # None /\ requests'[r].at = a
      /\ RecordType /\ \A q \in Req \ {r} : requests'[q] = requests[q]
  BY <1>0, <1>1, <1>2, GotoIs
<1>4. Shape' /\ SemInv' /\ PlaceInv' /\ DirInv'
  <2>1. Moved(r)
    BY <1>1, <1>3 DEF Moved, PageAt
  <2>2. \A q \in Req : Moved(q)
    BY <1>3, <2>1 DEF Moved
  <2>3. DOMAIN requests' = Req /\ requests' = [q \in Req |-> requests'[q]]
    BY <1>3 DEF RecordType
  <2>4. QED
    BY <2>2, <2>3, PagesMoved
<1>5. PoolInv'
  <2>1. requests[r].route # None /\ requests[r].route \in Route
    BY <1>0, NoneAssumption DEF Request
  <2>2. chromiums \in Nat /\ {browser, launch} \subseteq Route \cup {None}
    BY <1>0 DEF PoolInv
  <2>3. CASE browser # None
    <3>1. launch' = launch /\ a \in {"browsing", "broken"} /\ (a = "browsing" => chromiums > 0)
      BY <1>1, <2>3
    <3>2. a = "browsing" => chromiums = 1
      BY <1>0, <2>2, <3>1 DEF OneBrowser
    <3>3. PageOf(requests[r])'
      BY <1>3, <3>1, <3>2 DEF PageOf, PoolOf
    <3>4. \A q \in Req : PageOf(requests[q])'
      BY <1>0, <1>3, <3>1, <3>3, PoolPages DEF PageOf
    <3>5. QED
      BY <1>0, <2>2, <3>1, <3>4, PoolPagesPrime DEF OneBrowser
  <2>4. CASE browser = None
    <3>1. a = "launching" /\ launch' = IF launch = None THEN requests[r].route ELSE launch
      BY <1>1, <2>4
    <3>2. launch' # None /\ launch' \in Route /\ chromiums = 0
      BY <1>0, <2>1, <2>2, <2>4, <3>1 DEF OneBrowser
    <3>3. PageOf(requests[r])'
      BY <1>3, <3>1, <3>2 DEF PageOf, PoolOf
    <3>4. \A q \in Req : PageOf(requests[q])'
      BY <1>0, <1>3, <3>2, <3>3, PoolPages DEF PageOf
    <3>5. QED
      BY <2>2, <2>4, <3>2, <3>4, PoolPagesPrime
  <2>5. QED
    BY <2>3, <2>4
<1>6. QED
  BY <1>4, <1>5 DEF MediaInv

LEMMA PageKeeps ==
  ASSUME MediaInv, NEW r \in Req, PageStep(r)
  PROVE  MediaInv'
<1>0. Shape /\ SemInv /\ PlaceInv /\ DirInv /\ PoolInv /\ OneBrowser
  BY DEF MediaInv, PoolInv
<1>1. CASE PageStart(r)
  <2>1. /\ requests[r] # None /\ requests[r].at = "granted" /\ requests[r].kind \in Pages
        /\ UNCHANGED <<semVars, count, dirs, browser, chromiums>>
    BY <1>1 DEF PageStart, At, Is
  <2>2. CASE browser # None /\ browser # requests[r].route
    <3>1. Goto(r, "closing") /\ launch' = launch
      BY <1>1, <2>2 DEF PageStart
    <3>2. /\ requests'[r] = [requests[r] EXCEPT !.at = "closing"] /\ requests'[r] # None
          /\ RecordType /\ requests'[r].at = "closing"
          /\ \A q \in Req \ {r} : requests'[q] = requests[q]
      BY <1>0, <2>1, <3>1, GotoIs DEF Await, Held
    <3>3. Shape' /\ SemInv' /\ PlaceInv' /\ DirInv'
      <4>1. \A q \in Req : Moved(q)
        BY <2>1, <3>2 DEF Moved, PageAt
      <4>2. DOMAIN requests' = Req /\ requests' = [q \in Req |-> requests'[q]]
        BY <3>2 DEF RecordType
      <4>3. QED
        BY <2>1, <4>1, <4>2, PagesMoved
    <3>4. PoolInv'
      <4>1. PageOf(requests[r])'
        BY <2>1, <2>2, <3>2 DEF PageOf, PoolOf
      <4>2. \A q \in Req : PageOf(requests[q])'
        BY <1>0, <2>1, <3>1, <3>2, <4>1, PoolPages DEF PageOf
      <4>3. QED
        BY <1>0, <2>1, <3>1, <4>2, PoolPagesPrime DEF OneBrowser, PoolInv
    <3>5. QED
      BY <3>3, <3>4 DEF MediaInv
  <2>3. CASE ~(browser # None /\ browser # requests[r].route)
    <3>1. TakeBrowser(r)
      BY <1>1, <2>3 DEF PageStart
    <3>2. QED
      BY <2>1, <3>1, TakeKeeps
  <2>4. QED
    BY <2>2, <2>3
<1>2. CASE BrowserClosed(r)
  <2> DEFINE others == {q \in Req : At(q, {"closing"})} \ {r}
  <2>1. requests[r] # None /\ requests[r].at = "closing" /\ requests[r] \in Request /\ Sound(requests[r])
    BY <1>0, <1>2 DEF BrowserClosed, At, Shape
  <2>2. /\ requests' = [q \in Req |->
             IF q = r THEN [requests[q] EXCEPT !.at = "stopping"]
             ELSE IF q \in others THEN [requests[q] EXCEPT !.at = "launching"]
             ELSE IF At(q, {"browsing"}) THEN [requests[q] EXCEPT !.at = "broken"]
             ELSE requests[q]]
        /\ launch' = IF others = {} THEN launch ELSE requests[r].route
        /\ browser' = None /\ chromiums' = 0 /\ UNCHANGED <<semVars, count, dirs>>
    BY <1>2 DEF BrowserClosed
  <2>3. \A q \in Req : Moved(q)
    <3>1. SUFFICES ASSUME NEW q \in Req PROVE Moved(q)
      OBVIOUS
    <3>2. requests[q] # None => Sound(requests[q])
      BY <1>0 DEF Shape
    <3>3. CASE q = r
      BY <2>1, <2>2, <3>3 DEF Moved, PageAt, Sound
    <3>4. CASE q # r /\ At(q, {"closing"})
      BY <2>2, <3>2, <3>4 DEF Moved, PageAt, At, Sound
    <3>5. CASE q # r /\ At(q, {"browsing"})
      BY <2>2, <3>2, <3>5 DEF Moved, PageAt, At, Sound
    <3>6. CASE q # r /\ ~At(q, {"closing"}) /\ ~At(q, {"browsing"})
      BY <2>2, <3>6 DEF Moved
    <3>7. QED
      BY <3>3, <3>4, <3>5, <3>6
  <2>4. Shape' /\ SemInv' /\ PlaceInv' /\ DirInv'
    <3>1. DOMAIN requests' = Req /\ requests' = [q \in Req |-> requests'[q]]
      BY <2>2
    <3>2. QED
      BY <2>2, <2>3, <3>1, PagesMoved
  <2>5. browser # None /\ launch = None
    BY <1>0, <2>1 DEF OneBrowser, At
  <2>6. requests[r].route \in Route /\ requests[r].route # None
    BY <2>1, NoneAssumption DEF Request
  <2>7. \A q \in Req : PageOf(requests[q])'
    <3>1. SUFFICES ASSUME NEW q \in Req PROVE PageOf(requests[q])'
      OBVIOUS
    <3>2. requests[q] # None => requests[q] \in Request
      BY <1>0 DEF Shape
    <3>3. CASE q = r
      <4>1. requests'[q].at = "stopping"
        BY <2>1, <2>2, <3>3 DEF Request
      <4>2. QED
        BY <4>1 DEF PageOf, PoolOf
    <3>4. CASE q # r /\ At(q, {"closing"})
      <4>1. requests'[q].at = "launching" /\ others # {}
        BY <2>2, <3>2, <3>4 DEF At, Request
      <4>2. launch' # None
        BY <2>2, <2>6, <4>1
      <4>3. QED
        BY <4>1, <4>2 DEF PageOf, PoolOf
    <3>5. CASE q # r /\ At(q, {"browsing"})
      <4>1. requests'[q].at = "broken"
        BY <2>2, <3>2, <3>5 DEF At, Request
      <4>2. QED
        BY <4>1 DEF PageOf, PoolOf
    <3>6. CASE q # r /\ ~At(q, {"closing"}) /\ ~At(q, {"browsing"})
      <4>1. requests'[q] = requests[q] /\ ~At(q, {"launching"})
        BY <1>0, <2>2, <2>5, <3>6 DEF OneBrowser
      <4>2. QED
        BY <3>6, <4>1 DEF PageOf, PoolOf, At
    <3>7. QED
      BY <3>3, <3>4, <3>5, <3>6
  <2>8. PoolInv'
    <3>1. launch' \in Route \cup {None}
      BY <1>0, <2>2, <2>6 DEF PoolInv
    <3>2. QED
      BY <2>2, <2>7, <3>1, PoolPagesPrime
  <2>9. QED
    BY <2>4, <2>8 DEF MediaInv
<1>3. CASE ProxyStopped(r)
  <2>1. requests[r] # None /\ requests[r].at = "stopping" /\ requests[r].kind \in Pages
    BY <1>0, <1>3 DEF ProxyStopped, At, Shape, Sound, PageAt
  <2>2. QED
    BY <1>3, <2>1, TakeKeeps DEF ProxyStopped
<1>4. CASE PageScanned(r)
  <2>1. requests[r] # None /\ requests[r].at = "browsing" /\ requests[r] \in Request /\ Sound(requests[r])
    BY <1>0, <1>4 DEF PageScanned, At, Shape
  <2>2. Sound([requests[r] EXCEPT !.at = "leaving"]) /\ requests[r].kind \in Pages
    BY <2>1, SoundAt DEF Await, Held, PageAt, Sound
  <2>3. QED
    BY <1>4, <2>1, <2>2, QuietKeeps DEF PageScanned, Await, Held, Pages
<1>5. CASE PageFails(r)
  <2>1. /\ requests[r] # None /\ requests[r].at \in {"browsing", "broken"} /\ requests[r] \in Request
        /\ Sound(requests[r])
    BY <1>0, <1>5 DEF PageFails, At, Shape
  <2>2. requests[r].kind \in Pages
    BY <2>1 DEF Sound, PageAt
  <2>3. PICK g \in BOOLEAN : g = IF requests[r].kind = "sse" THEN TRUE ELSE requests[r].gone
    BY <2>1 DEF Request
  <2>4. PICK y : y = [requests[r] EXCEPT !.at = "leaving", !.gone = g]
    OBVIOUS
  <2>5. requests' = [requests EXCEPT ![r] = y] /\ UNCHANGED <<semVars, dirs, poolVars>>
    BY <1>0, <1>5, <2>1, <2>3, <2>4 DEF PageFails, Is, Shape, Request
  <2>6. y \in Request
    BY <2>1, <2>4 DEF Request, Await, Held
  <2>7. /\ y # None /\ y.at = "leaving" /\ y.gone = g /\ y.kind = requests[r].kind
        /\ y.user = requests[r].user /\ y.seen = requests[r].seen /\ y.retry = requests[r].retry
    BY <2>1, <2>4, <2>6, NoneAssumption DEF Request
  <2>8. Sound(y)
    BY <2>1, <2>2, <2>6, <2>7 DEF Sound, PageAt
  <2>9. HoldsOf(y) = HoldsOf(requests[r]) /\ WaitsOf(y) = WaitsOf(requests[r])
    BY <2>1, <2>7 DEF HoldsOf, WaitsOf, Held
  <2>10. (DirOf(y) <=> DirOf(requests[r])) /\ \A b \in {"browsing", "launching", "closing"} : ~PoolOf(y, b)
    BY <2>1, <2>7 DEF DirOf, StagedAt, PoolOf
  <2>11. CASE requests[r].kind = "sse"
    <3>1. count' = Uncounted(r)
      BY <1>5, <2>1, <2>11 DEF PageFails, Is
    <3>2. \A l \in Limit, u \in User : ~PlaceOf(y, l, u)
      BY <2>3, <2>7, <2>11 DEF PlaceOf, CountsOf
    <3>3. QED
      BY <2>1, <2>5, <2>6, <2>8, <2>9, <2>10, <3>1, <3>2, RecordKeeps
  <2>12. CASE requests[r].kind # "sse"
    <3>1. count' = count
      BY <1>5, <2>12 DEF PageFails, Is
    <3>2. SamePlace(y, requests[r])
      BY <2>1, <2>7, <2>12 DEF SamePlace, PlaceOf, CountsOf
    <3>3. QED
      BY <2>5, <2>6, <2>8, <2>9, <2>10, <3>1, <3>2, RecordKeeps
  <2>13. QED
    BY <2>11, <2>12
<1>6. CASE ContextClosed(r)
  <2>1. requests[r] # None /\ requests[r].at = "leaving" /\ requests[r] \in Request /\ Sound(requests[r])
    BY <1>0, <1>6 DEF ContextClosed, At, Shape
  <2>2. requests[r].kind \in Pages /\ requests[r].at \in Held
    BY <2>1 DEF Sound, PageAt, Held
  <2>3. CASE requests[r].kind = "sse" /\ ~requests[r].gone
    <3>1. PICK y : y = [requests[r] EXCEPT !.at = "probing"]
      OBVIOUS
    <3>2. Freed(r, y) /\ count' = count /\ dirs' = dirs /\ UNCHANGED poolVars
      BY <1>6, <2>1, <2>3, <3>1 DEF ContextClosed, Is
    <3>3. Sound(y) /\ y \in Request
      BY <2>1, <2>3, <3>1, SoundAt DEF Await, PageAt
    <3>4. /\ y # None /\ y.at = "probing" /\ y.kind = requests[r].kind
          /\ y.user = requests[r].user /\ y.gone = requests[r].gone
      BY <2>1, <3>1, <3>3, NoneAssumption DEF Request
    <3>5. HoldsOf(y) = "no" /\ WaitsOf(y) = "no"
      BY <3>4 DEF HoldsOf, WaitsOf, Held
    <3>6. /\ Shape' /\ SemInv' /\ requests'[r] = y
          /\ \A q \in Req \ {r} : /\ SamePlace(requests'[q], requests[q]) /\ NoNewPage(q)
                                  /\ DirOf(requests'[q]) <=> DirOf(requests[q])
      BY <2>1, <2>2, <3>2, <3>3, <3>5, FreedKeeps
    <3>7. SamePlace(y, requests[r]) /\ (DirOf(y) <=> DirOf(requests[r]))
      BY <2>1, <3>4 DEF SamePlace, PlaceOf, CountsOf, DirOf, StagedAt
    <3>8. NoNewPage(r)
      BY <3>4, <3>6 DEF NoNewPage, PoolOf
    <3>9. PlaceInv' /\ DirInv' /\ PoolInv'
      <4>1. PlaceInv'
        <5>1. \A q \in Req : SamePlace(requests'[q], requests[q])
          BY <3>6, <3>7
        <5>2. QED
          BY <1>0, <3>2, <5>1, PlaceSame
      <4>2. DirInv'
        BY <1>0, <3>2, <3>6, <3>7, DirSame
      <4>3. PoolInv'
        <5>1. \A q \in Req : NoNewPage(q)
          BY <3>6, <3>8
        <5>2. QED
          BY <1>0, <3>2, <5>1, PoolSame
      <4>4. QED
        BY <4>1, <4>2, <4>3
    <3>10. QED
      BY <3>6, <3>9 DEF MediaInv
  <2>4. CASE ~(requests[r].kind = "sse" /\ ~requests[r].gone)
    <3>1. LeaveSlot(r) /\ dirs' = dirs /\ UNCHANGED poolVars
      BY <1>6, <2>4 DEF ContextClosed, Is
    <3>2. ~DirOf(requests[r])
      BY <2>2 DEF DirOf, Pages
    <3>3. QED
      BY <2>1, <2>2, <3>1, <3>2, LeaveSlotKeeps
  <2>5. QED
    BY <2>3, <2>4
<1>7. CASE ProbesDone(r)
  <2>1. /\ requests[r] # None /\ requests[r].at \in {"leaving", "probing"} /\ requests[r] \in Request
        /\ Sound(requests[r]) /\ requests[r].kind = "sse"
    BY <1>0, <1>7 DEF ProbesDone, At, Is, Shape
  <2>2. CASE requests[r].at = "probing"
    <3>1. requests' = [requests EXCEPT ![r] = None] /\ count' = Uncounted(r)
      BY <1>7, <2>1, <2>2 DEF ProbesDone, At
    <3>2. requests[r].at \notin Held \cup {"queued"}
      BY <2>2 DEF Held
    <3>3. QED
      BY <1>7, <2>1, <3>1, <3>2, EndKeeps DEF ProbesDone
  <2>3. CASE requests[r].at = "leaving"
    <3>1. PICK y : y = [requests[r] EXCEPT !.gone = TRUE]
      OBVIOUS
    <3>2. /\ requests' = [requests EXCEPT ![r] = y] /\ count' = Uncounted(r)
          /\ UNCHANGED <<semVars, dirs, poolVars>>
      BY <1>7, <2>1, <2>3, <3>1 DEF ProbesDone, At
    <3>3. y \in Request
      BY <2>1, <3>1 DEF Request
    <3>4. /\ y # None /\ y.at = "leaving" /\ y.gone = TRUE /\ y.kind = "sse"
          /\ y.user = requests[r].user /\ y.seen = requests[r].seen /\ y.retry = requests[r].retry
      BY <2>1, <2>3, <3>1, <3>3, NoneAssumption DEF Request
    <3>5. Sound(y)
      BY <2>1, <2>3, <3>3, <3>4 DEF Sound, PageAt
    <3>6. HoldsOf(y) = HoldsOf(requests[r]) /\ WaitsOf(y) = WaitsOf(requests[r])
      BY <2>1, <2>3, <3>4 DEF HoldsOf, WaitsOf
    <3>7. (DirOf(y) <=> DirOf(requests[r])) /\ \A b \in {"browsing", "launching", "closing"} : ~PoolOf(y, b)
      BY <2>1, <3>4 DEF DirOf, PoolOf
    <3>8. \A l \in Limit, u \in User : ~PlaceOf(y, l, u)
      BY <3>4 DEF PlaceOf, CountsOf
    <3>9. QED
      BY <2>1, <3>2, <3>3, <3>5, <3>6, <3>7, <3>8, RecordKeeps
  <2>4. QED
    BY <2>1, <2>2, <2>3
<1>8. QED
  BY <1>1, <1>2, <1>3, <1>4, <1>5, <1>6, <1>7 DEF PageStep

LEMMA BrowserKeeps ==
  ASSUME MediaInv, Launched \/ LaunchFails \/ BrowserCrashes
  PROVE  MediaInv'
<1>0. Shape /\ PoolInv /\ OneBrowser /\ \A q \in Req : PageOf(requests[q])
  BY PoolPages DEF MediaInv, PoolInv
<1>1. ASSUME NEW a \in {"launching", "browsing"}, NEW b \in {"browsing", "broken"},
             requests' = [q \in Req |-> IF At(q, {a})
                                        THEN [requests[q] EXCEPT !.at = b] ELSE requests[q]],
             UNCHANGED <<semVars, count, dirs>>
      PROVE  /\ Shape' /\ SemInv' /\ PlaceInv' /\ DirInv'
             /\ \A q \in Req : \/ ~At(q, {a}) /\ requests'[q] = requests[q]
                               \/ At(q, {a}) /\ requests'[q].at = b
  <2>1. SUFFICES ASSUME \A q \in Req : /\ Moved(q)
                                       /\ \/ ~At(q, {a}) /\ requests'[q] = requests[q]
                                          \/ At(q, {a}) /\ requests'[q].at = b
                 PROVE  Shape' /\ SemInv' /\ PlaceInv' /\ DirInv'
    <3>1. SUFFICES ASSUME NEW q \in Req
                   PROVE  /\ Moved(q)
                          /\ \/ ~At(q, {a}) /\ requests'[q] = requests[q]
                             \/ At(q, {a}) /\ requests'[q].at = b
      OBVIOUS
    <3>2. CASE ~At(q, {a})
      BY <1>1, <3>2 DEF Moved
    <3>3. CASE At(q, {a})
      <4>1. requests[q] # None /\ requests[q].at = a /\ requests[q] \in Request /\ Sound(requests[q])
        BY <1>0, <3>3 DEF At, Shape
      <4>2. requests'[q] = [requests[q] EXCEPT !.at = b] /\ a \in PageAt /\ b \in PageAt
        BY <1>1, <3>3 DEF PageAt
      <4>3. requests'[q].at = b
        BY <4>1, <4>2 DEF Request
      <4>4. Moved(q)
        BY <4>1, <4>2 DEF Moved, Sound
      <4>5. QED
        BY <3>3, <4>3, <4>4
    <3>4. QED
      BY <3>2, <3>3
  <2>2. DOMAIN requests' = Req /\ requests' = [q \in Req |-> requests'[q]]
    BY <1>1
  <2>3. QED
    BY <1>1, <2>1, <2>2, PagesMoved
<1>2. CASE Launched
  <2>1. /\ launch # None /\ browser' = launch /\ launch' = None /\ chromiums' = chromiums + 1
        /\ UNCHANGED <<semVars, count, dirs>>
        /\ requests' = [q \in Req |-> IF At(q, {"launching"})
                                      THEN [requests[q] EXCEPT !.at = "browsing"] ELSE requests[q]]
    BY <1>2 DEF Launched
  <2>2. /\ Shape' /\ SemInv' /\ PlaceInv' /\ DirInv'
        /\ \A q \in Req : \/ ~At(q, {"launching"}) /\ requests'[q] = requests[q]
                          \/ At(q, {"launching"}) /\ requests'[q].at = "browsing"
    BY <1>1, <2>1
  <2>3. chromiums = 0 /\ launch \in Route /\ browser = None
    BY <1>0, <2>1 DEF PoolInv, OneBrowser
  <2>4. \A q \in Req : PageOf(requests[q])'
    <3>1. SUFFICES ASSUME NEW q \in Req PROVE PageOf(requests[q])'
      OBVIOUS
    <3>2. CASE ~At(q, {"launching"}) /\ requests'[q] = requests[q]
      BY <1>0, <2>1, <2>3, <3>2 DEF PageOf, PoolOf, At
    <3>3. CASE requests'[q].at = "browsing"
      BY <2>1, <2>3, <3>3 DEF PageOf, PoolOf
    <3>4. QED
      BY <2>2, <3>2, <3>3
  <2>5. PoolInv'
    BY <2>1, <2>3, <2>4, PoolPagesPrime
  <2>6. QED
    BY <2>2, <2>5 DEF MediaInv
<1>3. CASE LaunchFails
  <2>1. /\ launch # None /\ browser' = browser /\ launch' = None /\ chromiums' = chromiums
        /\ UNCHANGED <<semVars, count, dirs>>
        /\ requests' = [q \in Req |-> IF At(q, {"launching"})
                                      THEN [requests[q] EXCEPT !.at = "broken"] ELSE requests[q]]
    BY <1>3 DEF LaunchFails
  <2>2. /\ Shape' /\ SemInv' /\ PlaceInv' /\ DirInv'
        /\ \A q \in Req : \/ ~At(q, {"launching"}) /\ requests'[q] = requests[q]
                          \/ At(q, {"launching"}) /\ requests'[q].at = "broken"
    BY <1>1, <2>1
  <2>3. chromiums = 0 /\ browser = None
    BY <1>0, <2>1 DEF PoolInv, OneBrowser
  <2>4. \A q \in Req : PageOf(requests[q])'
    <3>1. SUFFICES ASSUME NEW q \in Req PROVE PageOf(requests[q])'
      OBVIOUS
    <3>2. CASE ~At(q, {"launching"}) /\ requests'[q] = requests[q]
      BY <1>0, <2>1, <3>2 DEF PageOf, PoolOf, At
    <3>3. CASE requests'[q].at = "broken"
      BY <3>3 DEF PageOf, PoolOf
    <3>4. QED
      BY <2>2, <3>2, <3>3
  <2>5. PoolInv'
    BY <2>1, <2>3, <2>4, PoolPagesPrime
  <2>6. QED
    BY <2>2, <2>5 DEF MediaInv
<1>4. CASE BrowserCrashes
  <2>1. /\ chromiums > 0 /\ browser' = browser /\ launch' = launch /\ chromiums' = 0
        /\ UNCHANGED <<semVars, count, dirs>>
        /\ requests' = [q \in Req |-> IF At(q, {"browsing"})
                                      THEN [requests[q] EXCEPT !.at = "broken"] ELSE requests[q]]
    BY <1>4 DEF BrowserCrashes
  <2>2. /\ Shape' /\ SemInv' /\ PlaceInv' /\ DirInv'
        /\ \A q \in Req : \/ ~At(q, {"browsing"}) /\ requests'[q] = requests[q]
                          \/ At(q, {"browsing"}) /\ requests'[q].at = "broken"
    BY <1>1, <2>1
  <2>3. launch = None /\ browser \in Route \cup {None}
    BY <1>0, <2>1 DEF PoolInv, OneBrowser
  <2>4. \A q \in Req : PageOf(requests[q])'
    <3>1. SUFFICES ASSUME NEW q \in Req PROVE PageOf(requests[q])'
      OBVIOUS
    <3>2. CASE ~At(q, {"browsing"}) /\ requests'[q] = requests[q]
      BY <1>0, <2>1, <3>2 DEF PageOf, PoolOf, At
    <3>3. CASE requests'[q].at = "broken"
      BY <3>3 DEF PageOf, PoolOf
    <3>4. QED
      BY <2>2, <3>2, <3>3
  <2>5. PoolInv'
    BY <2>1, <2>3, <2>4, PoolPagesPrime
  <2>6. QED
    BY <2>2, <2>5 DEF MediaInv
<1>5. QED
  BY <1>2, <1>3, <1>4

----------------------------------------------------------------------------
(* The theorems.                                                             *)

LEMMA InitKeeps == Init => MediaInv
<1>1. SUFFICES ASSUME Init PROVE MediaInv
  OBVIOUS
<1>2. \A q \in Req : requests[q] = None
  BY <1>1 DEF Init
<1>3. Shape
  BY <1>1 DEF Init, Shape, Sound
<1>4. SemInv
  <2>1. SemType
    BY <1>1 DEF Init, SemType
  <2>2. \A s \in Sem : Holders(s) = {}
    BY <1>2 DEF Holders, At
  <2>3. SlotsExact
    <3>1. \A s \in Sem : running[s] = 0
      BY <1>1 DEF Init
    <3>2. \A s \in Sem : Slots(s) \in Nat
      BY SlotTypes
    <3>3. Cardinality({}) = 0
      BY FS_EmptySet
    <3>4. QED
      BY <2>2, <3>1, <3>2, <3>3 DEF SlotsExact
  <2>4. QueueSound
    <3>1. SUFFICES ASSUME NEW s \in Sem
                   PROVE  /\ \A i, j \in 1..Len(queue[s]) : queue[s][i] = queue[s][j] => i = j
                          /\ \A r \in Req : (At(r, {"queued"}) /\ MySem(r) = s)
                                             <=> \E i \in 1..Len(queue[s]) : queue[s][i] = r
                          /\ Len(queue[s]) <= MaxQueue(s)
                          /\ queue[s] # <<>> => running[s] = Slots(s)
      BY DEF QueueSound
    <3>2. queue[s] = <<>> /\ Len(queue[s]) = 0
      BY <1>1 DEF Init
    <3>3. MaxQueue(s) \in Nat
      BY SlotTypes
    <3>4. QED
      BY <1>2, <3>2, <3>3 DEF At
  <2>5. QED
    BY <2>1, <2>3, <2>4 DEF SemInv
<1>5. PlaceInv
  <2>1. count \in [Limit -> [User -> Nat]] /\ \A l \in Limit, u \in User : count[l][u] = 0
    BY <1>1 DEF Init
  <2>2. \A l \in Limit, u \in User : Mine(l, u) = {}
    BY <1>2 DEF Mine
  <2>3. UserLimitsExact
    BY <2>1, <2>2, FS_EmptySet, CapTypes DEF UserLimitsExact
  <2>4. NobodyLockedOut
    BY <2>1, CapTypes DEF NobodyLockedOut, Limit
  <2>5. QED
    BY <2>1, <2>3, <2>4 DEF PlaceInv
<1>6. DirInv
  BY <1>1, <1>2 DEF Init, DirInv, StagedErased, Is
<1>7. PoolInv
  BY <1>1, <1>2 DEF Init, PoolInv, OneBrowser, At
<1>8. QED
  BY <1>3, <1>4, <1>5, <1>6, <1>7 DEF MediaInv

LEMMA StutterKeeps ==
  ASSUME MediaInv, UNCHANGED vars
  PROVE  MediaInv'
<1>1. /\ requests' = requests /\ UNCHANGED semVars /\ count' = count /\ dirs' = dirs
      /\ UNCHANGED poolVars
  BY DEF vars
<1>2. Shape'
  BY <1>1 DEF MediaInv, Shape
<1>3. SemInv'
  BY <1>1, SemSame DEF MediaInv
<1>4. PlaceInv'
  BY <1>1, PlaceSame DEF MediaInv, SamePlace
<1>5. DirInv'
  BY <1>1, DirSame DEF MediaInv
<1>6. PoolInv'
  BY <1>1, PoolSame DEF MediaInv, NoNewPage
<1>7. QED
  BY <1>2, <1>3, <1>4, <1>5, <1>6 DEF MediaInv

(* The invariant that every theorem below follows from.                      *)
THEOREM MediaInvariant == Spec => []MediaInv
<1>1. Init => MediaInv
  BY InitKeeps
<1>2. MediaInv /\ [Next]_vars => MediaInv'
  <2>1. SUFFICES ASSUME MediaInv, [Next]_vars PROVE MediaInv'
    OBVIOUS
  <2>2. ASSUME NEW r \in Req, FrontStep(r) \/ MediaStep(r) \/ PageStep(r) \/ GoneStep(r)
        PROVE  MediaInv'
    BY <2>1, <2>2, FrontKeeps, MediaKeeps, PageKeeps, GoneKeeps
  <2>3. CASE Launched \/ LaunchFails \/ BrowserCrashes
    BY <2>1, <2>3, BrowserKeeps
  <2>4. CASE UNCHANGED vars
    BY <2>1, <2>4, StutterKeeps
  <2>5. QED
    BY <2>1, <2>2, <2>3, <2>4 DEF Next
<1>3. QED
  BY <1>1, <1>2, PTL DEF Spec

(* Every variable of the routes keeps its type (TypeOK).                     *)
THEOREM TypeCorrect == Spec => []TypeOK
<1>1. MediaInv => TypeOK
  BY DEF MediaInv, Shape, SemInv, SemType, PlaceInv, DirInv, PoolInv, TypeOK
<1>2. QED
  BY <1>1, MediaInvariant, PTL

(* Whatever the number of requests, slots and places in the queue, the       *)
(* counter of each BoundedSemaphore (utils/semaphore.ts) is the number of    *)
(* handlers on one of its slots, and within its maximum.                     *)
THEOREM SlotsAreExact == Spec => []SlotsExact
<1>1. MediaInv => SlotsExact
  BY DEF MediaInv, SemInv
<1>2. QED
  BY <1>1, MediaInvariant, PTL

(* No grant and no abort loses, doubles or strands a waiter of a             *)
(* BoundedSemaphore, and its queue never outgrows its bound.                 *)
THEOREM QueuesAreSound == Spec => []QueueSound
<1>1. MediaInv => QueueSound
  BY DEF MediaInv, SemInv
<1>2. QED
  BY <1>1, MediaInvariant, PTL

(* The per-user limiters (routes/ffmpeg-concurrency.ts, routes/extract.ts)   *)
(* count exactly the requests of the user, and admit no more than the cap.   *)
THEOREM UserLimitsAreExact == Spec => []UserLimitsExact
<1>1. MediaInv => UserLimitsExact
  BY DEF MediaInv, PlaceInv
<1>2. QED
  BY <1>1, MediaInvariant, PTL

(* /extract/stream, which writes back a count it read before an await, still *)
(* never refuses a user who has no stream.                                   *)
THEOREM NobodyIsLockedOut == Spec => []NobodyLockedOut
<1>1. MediaInv => NobodyLockedOut
  BY DEF MediaInv, PlaceInv
<1>2. QED
  BY <1>1, MediaInvariant, PTL

(* A file staged by /stream-download never outlives its request.             *)
THEOREM StagedFilesGo == Spec => []StagedErased
<1>1. MediaInv => StagedErased
  BY DEF MediaInv, DirInv
<1>2. QED
  BY <1>1, MediaInvariant, PTL

(* However extractions, route changes, failed launches and crashes interleave *)
(* in getBrowser and closeBrowser, there is at most one Chromium, it is the  *)
(* one browserInstance names, and every waiter has a launch to wait for.     *)
THEOREM OneBrowserAtMost == Spec => []OneBrowser
<1>1. MediaInv => OneBrowser
  BY DEF MediaInv, PoolInv
<1>2. QED
  BY <1>1, MediaInvariant, PTL
----------------------------------------------------------------------------
(* Each semaphore as its callers see it: those on a slot, and its queue.     *)
Slot(s) == INSTANCE SlotQueue WITH Client <- Req, Capacity <- Slots(s), Places <- MaxQueue(s),
                                   holders <- Holders(s), waiters <- queue[s]

(* One step of the routes, at the semaphore s.                               *)
SlotStep(s) == Slot(s)!Next \/ (Holders(s)' = Holders(s) /\ queue'[s] = queue[s])

(* SlotQueue counts as this module does.                                     *)
LEMMA SlotCount ==
  ASSUME NEW s \in Sem
  PROVE  \A S : Slot(s)!Cardinality(S) = Cardinality(S)
BY DEF Slot!Cardinality, Cardinality

(* When one record changes, the counter tells how the holders do.            *)
LEMMA OneRecord ==
  ASSUME SemInv, SemInv', NEW r \in Req, \A q \in Req \ {r} : requests'[q] = requests[q],
         NEW s \in Sem
  PROVE  /\ running'[s] = running[s] => Holders(s)' = Holders(s)
         /\ running'[s] = running[s] + 1 => /\ r \notin Holders(s)
                                            /\ Holders(s)' = Holders(s) \cup {r}
         /\ running'[s] = running[s] - 1 => /\ r \in Holders(s)
                                            /\ Holders(s)' = Holders(s) \ {r}
<1> DEFINE H == Holders(s)
           G == Holders(s)'
<1>1. /\ running[s] = Cardinality(H) /\ running'[s] = Cardinality(G)
      /\ IsFiniteSet(H) /\ Cardinality(H) \in Nat
  BY HoldersFinite DEF SemInv, SlotsExact
<1>2. \A q \in Req \ {r} : q \in G <=> q \in H
  BY HoldersAre, HoldersArePrime
<1>3. G \subseteq Req /\ H \subseteq Req
  BY HoldersAre, HoldersArePrime
<1>4. \/ G = H
      \/ r \notin H /\ G = H \cup {r}
      \/ r \in H /\ G = H \ {r}
  BY <1>2, <1>3
<1>5. r \notin H => Cardinality(H \cup {r}) = Cardinality(H) + 1
  BY <1>1, FS_AddElement
<1>6. r \in H => Cardinality(H \ {r}) = Cardinality(H) - 1
  BY <1>1, FS_RemoveElement
<1> HIDE DEF H, G
<1>7. /\ running'[s] = running[s] => G = H
      /\ running'[s] = running[s] + 1 => r \notin H /\ G = H \cup {r}
      /\ running'[s] = running[s] - 1 => r \in H /\ G = H \ {r}
  <2>1. CASE G = H
    BY <1>1, <2>1
  <2>2. CASE r \notin H /\ G = H \cup {r}
    <3>1. Cardinality(G) = Cardinality(H) + 1
      BY <1>5, <2>2
    <3>2. QED
      BY <1>1, <2>2, <3>1
  <2>3. CASE r \in H /\ G = H \ {r}
    <3>1. Cardinality(G) = Cardinality(H) - 1
      BY <1>6, <2>3
    <3>2. QED
      BY <1>1, <2>3, <3>1
  <2>4. QED
    BY <1>4, <2>1, <2>2, <2>3
<1>8. QED
  BY <1>7 DEF H, G

(* A step that changes one record and no semaphore changes no holder.        *)
LEMMA QuietStep ==
  ASSUME SemInv, SemInv', NEW r \in Req, UNCHANGED semVars,
         \A q \in Req \ {r} : requests'[q] = requests[q]
  PROVE  \A s \in Sem : SlotStep(s)
BY OneRecord DEF SlotStep, semVars

(* Nor does one that moves pages from one await to another.                  *)
PageMoves(q) == At(q, PageAt) /\ \E a \in PageAt : requests'[q] = [requests[q] EXCEPT !.at = a]

LEMMA MovedStep ==
  ASSUME Shape, UNCHANGED semVars,
         \A q \in Req : requests'[q] = requests[q] \/ PageMoves(q)
  PROVE  \A s \in Sem : SlotStep(s)
<1>1. ASSUME NEW q \in Req
      PROVE  HoldsOf(requests'[q]) = HoldsOf(requests[q])
  <2>1. CASE requests'[q] = requests[q]
    BY <2>1
  <2>2. CASE PageMoves(q)
    <3>1. PICK a \in PageAt : requests'[q] = [requests[q] EXCEPT !.at = a]
      BY <2>2 DEF PageMoves
    <3>2. /\ requests[q] # None /\ requests[q] \in Request /\ requests[q].at \in Held
          /\ a \in Held /\ a \in Await
      BY <2>2 DEF PageMoves, At, Shape, PageAt, Held, Await
    <3>3. /\ requests'[q] \in Request /\ requests'[q].at = a
          /\ requests'[q].kind = requests[q].kind
      BY <3>1, <3>2 DEF Request
    <3>4. QED
      BY <3>2, <3>3, NoneAssumption DEF HoldsOf
  <2>3. QED
    BY <2>1, <2>2
<1>2. \A s \in Sem : Holders(s)' = Holders(s)
  BY <1>1, HoldersAre, HoldersArePrime
<1>3. QED
  BY <1>2 DEF SlotStep, semVars

(* A free slot is taken: by a request that has none, and nobody waits.       *)
LEMMA TakeStep ==
  ASSUME SemInv, SemInv', NEW r \in Req, NEW s \in Sem, WaitsOf(requests[r]) = "no",
         running[s] < Slots(s), running' = [running EXCEPT ![s] = @ + 1], queue' = queue,
         \A q \in Req \ {r} : requests'[q] = requests[q]
  PROVE  \A t \in Sem : SlotStep(t)
<1>0. "no" \notin Sem /\ running \in [Sem -> Nat] /\ queue \in [Sem -> Seq(Req)]
  BY DEF Sem, SemInv, SemType
<1>1. r \notin Holders(s) /\ Holders(s)' = Holders(s) \cup {r}
  BY <1>0, OneRecord
<1>2. SlotsOf(s) /\ QueueOf(s)
  BY SemOfSlots
<1>3. Cardinality(Holders(s)) < Slots(s) /\ queue[s] = <<>>
  BY <1>0, <1>2, SlotTypes DEF SlotsOf, QueueOf
<1>4. Slot(s)!New(r)
  BY <1>0, <1>1, <1>2 DEF Slot!New, QueueOf
<1>5. Slot(s)!Take(r)
  BY <1>1, <1>3, <1>4, SlotCount DEF Slot!Take
<1>6. ASSUME NEW t \in Sem, t # s
      PROVE  Holders(t)' = Holders(t) /\ queue'[t] = queue[t]
  BY <1>0, <1>6, OneRecord
<1>7. QED
  BY <1>5, <1>6 DEF SlotStep, Slot!Next

(* A request that has none queues while every slot is taken.                 *)
LEMMA WaitStep ==
  ASSUME SemInv, SemInv', NEW r \in Req, NEW s \in Sem,
         WaitsOf(requests[r]) = "no", HoldsOf(requests[r]) = "no",
         running[s] >= Slots(s), Len(queue[s]) < MaxQueue(s),
         running' = running, queue' = [queue EXCEPT ![s] = Append(@, r)],
         \A q \in Req \ {r} : requests'[q] = requests[q]
  PROVE  \A t \in Sem : SlotStep(t)
<1>0. "no" \notin Sem /\ running \in [Sem -> Nat] /\ queue \in [Sem -> Seq(Req)]
  BY DEF Sem, SemInv, SemType
<1>1. \A t \in Sem : Holders(t)' = Holders(t)
  BY OneRecord
<1>2. SlotsOf(s) /\ QueueOf(s)
  BY SemOfSlots
<1>3. Cardinality(Holders(s)) = Slots(s)
  BY <1>0, <1>2, SlotTypes DEF SlotsOf
<1>4. r \notin Holders(s)
  BY <1>0, HoldersAre
<1>5. Slot(s)!New(r)
  <2>1. \A i \in 1..Len(queue[s]) : queue[s][i] # r
    BY <1>0, <1>2 DEF QueueOf
  <2>2. QED
    BY <1>4, <2>1 DEF Slot!New
<1>6. queue'[s] = Append(queue[s], r)
  BY <1>0
<1>7. Slot(s)!Wait(r)
  BY <1>1, <1>3, <1>5, <1>6, SlotCount DEF Slot!Wait
<1>8. \A t \in Sem : t # s => queue'[t] = queue[t]
  BY <1>0
<1>9. QED
  BY <1>1, <1>7, <1>8 DEF SlotStep, Slot!Next

(* A slot comes back, and goes to the head of the queue if there is one.     *)
LEMMA ReturnStep ==
  ASSUME Shape, SemInv, SemInv', NEW r \in Req, NEW new, requests[r] # None,
         requests[r].at \in Held, HoldsOf(new) = "no", Freed(r, new)
  PROVE  \A t \in Sem : SlotStep(t)
<1>0. "no" \notin Sem /\ running \in [Sem -> Nat] /\ queue \in [Sem -> Seq(Req)]
  BY DEF Sem, SemInv, SemType
<1>1. PICK s \in Sem : s = MySem(r)
  BY DEF MySem, SemOf, Sem
<1>2. HoldsOf(requests[r]) = s /\ r \in Holders(s)
  <2>1. HoldsOf(requests[r]) = s
    BY <1>1 DEF HoldsOf, MySem
  <2>2. QED
    BY <2>1, HoldersAre
<1>3. CASE queue[s] = <<>>
  <2>1. running' = [running EXCEPT ![s] = @ - 1] /\ queue' = queue
    BY <1>1, <1>3 DEF Freed
  <2>2. \A q \in Req \ {r} : requests'[q] = requests[q]
    BY <1>1, <1>3 DEF Freed, Shape
  <2>3. Holders(s)' = Holders(s) \ {r}
    BY <1>0, <2>1, <2>2, OneRecord
  <2>4. Slot(s)!Return(r)
    BY <1>2, <1>3, <2>1, <2>3 DEF Slot!Return
  <2>5. ASSUME NEW t \in Sem, t # s
        PROVE  Holders(t)' = Holders(t) /\ queue'[t] = queue[t]
    BY <1>0, <2>1, <2>2, <2>5, OneRecord
  <2>6. QED
    BY <2>4, <2>5 DEF SlotStep, Slot!Next
<1>4. CASE queue[s] # <<>>
  <2> DEFINE h == Head(queue[s])
  <2>1. /\ queue' = [queue EXCEPT ![s] = Tail(@)]
        /\ requests' = [requests EXCEPT ![r] = new, ![h].at = "granted"]
    BY <1>1, <1>4 DEF Freed
  <2>2. h \in Req /\ requests[h] \in Request /\ requests[h].at = "queued" /\ WaitsOf(requests[h]) = s
    BY <1>4, QueueHead
  <2>3. h # r /\ SemOf(requests[h].kind) = s /\ HoldsOf(requests[h]) = "no"
    BY <1>0, <2>2 DEF WaitsOf, HoldsOf, Held
  <2>4. /\ requests'[h] = [requests[h] EXCEPT !.at = "granted"] /\ requests'[r] = new
        /\ \A q \in Req \ {r, h} : requests'[q] = requests[q]
    BY <2>1, <2>2, <2>3 DEF Shape
  <2>5. HoldsOf(requests'[h]) = s
    <3>1. /\ requests'[h] \in Request /\ requests'[h].at = "granted"
          /\ requests'[h].kind = requests[h].kind
      BY <2>2, <2>4 DEF Request, Await, Held
    <3>2. QED
      BY <2>3, <3>1, NoneAssumption DEF HoldsOf, Held
  <2>6. Holders(s)' = (Holders(s) \ {r}) \cup {h}
    <3>1. Holders(s) = {q \in Req : HoldsOf(requests[q]) = s}
      BY HoldersAre
    <3>2. Holders(s)' = {q \in Req : HoldsOf(requests'[q]) = s}
      BY HoldersArePrime
    <3>3. QED
      BY <1>0, <2>2, <2>3, <2>4, <2>5, <3>1, <3>2
  <2>7. queue'[s] = Tail(queue[s])
    BY <1>0, <2>1
  <2>8. Slot(s)!Return(r)
    BY <1>2, <1>4, <2>6, <2>7 DEF Slot!Return
  <2>9. ASSUME NEW t \in Sem, t # s
        PROVE  Holders(t)' = Holders(t) /\ queue'[t] = queue[t]
    <3>1. \A q \in Req : HoldsOf(requests'[q]) = t <=> HoldsOf(requests[q]) = t
      BY <1>0, <1>2, <2>3, <2>4, <2>5, <2>9
    <3>2. Holders(t)' = Holders(t)
      BY <3>1, HoldersAre, HoldersArePrime
    <3>3. QED
      BY <1>0, <2>1, <2>9, <3>2
  <2>10. QED
    BY <2>8, <2>9 DEF SlotStep, Slot!Next
<1>5. QED
  BY <1>3, <1>4

(* A waiter whose client hung up leaves the queue to those behind it.        *)
LEMMA GiveUpStep ==
  ASSUME Shape, SemInv, SemInv', NEW r \in Req, GoneQueued(r)
  PROVE  \A t \in Sem : SlotStep(t)
<1>0. queue \in [Sem -> Seq(Req)]
  BY DEF SemInv, SemType
<1>1. PICK s \in Sem : s = MySem(r)
  BY DEF MySem, SemOf, Sem
<1>2. PICK i \in 1..Len(queue[s]) :
        queue[s][i] = r /\ queue' = [queue EXCEPT ![s] = Spliced(@, i)]
  BY <1>1 DEF GoneQueued
<1>3. running' = running /\ \A q \in Req \ {r} : requests'[q] = requests[q]
  BY DEF GoneQueued, Shape
<1>4. \A t \in Sem : Holders(t)' = Holders(t)
  BY <1>3, OneRecord
<1>5. queue'[s] = Spliced(queue[s], i)
  BY <1>0, <1>2
<1>6. Slot(s)!GiveUp(r)
  BY <1>2, <1>4, <1>5 DEF Slot!GiveUp, Spliced
<1>7. \A t \in Sem : t # s => queue'[t] = queue[t]
  BY <1>0, <1>2
<1>8. QED
  BY <1>4, <1>6, <1>7 DEF SlotStep, Slot!Next
(* Each action of the front is one of these at both semaphores.              *)
LEMMA FrontSlots ==
  ASSUME MediaInv, MediaInv', NEW r \in Req, FrontStep(r)
  PROVE  \A t \in Sem : SlotStep(t)
<1>0. Shape /\ SemInv /\ SemInv' /\ DOMAIN requests = Req
  BY DEF MediaInv, Shape
<1>1. ASSUME UNCHANGED semVars, \A q \in Req \ {r} : requests'[q] = requests[q]
      PROVE  \A t \in Sem : SlotStep(t)
  BY <1>0, <1>1, QuietStep
<1>2. ASSUME NEW k \in Kind, NEW u \in User, NEW p \in Route, Arrive(r, k, u, p)
      PROVE  \A t \in Sem : SlotStep(t)
  BY <1>0, <1>1, <1>2 DEF Arrive
<1>3. ASSUME NEW p \in Route, JobArrives(r, p)
      PROVE  \A t \in Sem : SlotStep(t)
  <2>1. /\ WaitsOf(requests[r]) = "no" /\ HoldsOf(requests[r]) = "no"
        /\ "extraction" \in Sem /\ Slots("extraction") = ExtractSlots
        /\ MaxQueue("extraction") = ExtractQueue
    BY <1>3 DEF JobArrives, WaitsOf, HoldsOf, Sem, Slots, MaxQueue
  <2>2. \A q \in Req \ {r} : requests'[q] = requests[q]
    BY <1>0, <1>3 DEF JobArrives
  <2>3. CASE /\ running["extraction"] < ExtractSlots /\ queue' = queue
             /\ running' = [running EXCEPT !["extraction"] = @ + 1]
    BY <1>0, <2>1, <2>2, <2>3, TakeStep
  <2>4. CASE /\ running["extraction"] >= ExtractSlots /\ Len(queue["extraction"]) < ExtractQueue
             /\ queue' = [queue EXCEPT !["extraction"] = Append(@, r)] /\ running' = running
    BY <1>0, <2>1, <2>2, <2>4, WaitStep
  <2>5. QED
    BY <1>3, <2>3, <2>4 DEF JobArrives
<1>4. CASE Refused(r)
  BY <1>0, <1>1, <1>4 DEF Refused
<1>5. CASE AdmitImage(r)
  BY <1>0, <1>1, <1>5 DEF AdmitImage, Goto
<1>6. ASSUME Admits(r)
      PROVE  WaitsOf(requests[r]) = "no" /\ HoldsOf(requests[r]) = "no"
  BY <1>6 DEF Admits, At, WaitsOf, HoldsOf, Held
<1>7. PICK s \in Sem : s = MySem(r)
  BY DEF MySem, SemOf, Sem
<1>8. CASE AdmitFree(r)
  BY <1>0, <1>6, <1>7, <1>8, TakeStep DEF AdmitFree
<1>9. CASE AdmitQueued(r)
  BY <1>0, <1>6, <1>7, <1>9, WaitStep DEF AdmitQueued
<1>10. CASE AdmitFails(r)
  BY <1>0, <1>1, <1>10 DEF AdmitFails
<1>11. QED
  BY <1>2, <1>3, <1>4, <1>5, <1>8, <1>9, <1>10 DEF FrontStep

(* And each one of ffmpeg's.                                                 *)
LEMMA MediaSlots ==
  ASSUME MediaInv, MediaInv', NEW r \in Req, MediaStep(r)
  PROVE  \A t \in Sem : SlotStep(t)
<1>0. Shape /\ SemInv /\ SemInv' /\ DOMAIN requests = Req
  BY DEF MediaInv, Shape
<1>1. ASSUME UNCHANGED semVars, \A q \in Req \ {r} : requests'[q] = requests[q]
      PROVE  \A t \in Sem : SlotStep(t)
  BY <1>0, <1>1, QuietStep
<1>2. ASSUME At(r, Held), LeaveSlot(r)
      PROVE  \A t \in Sem : SlotStep(t)
  <2>1. HoldsOf(None) = "no" /\ requests[r] # None /\ requests[r].at \in Held /\ Freed(r, None)
    BY <1>2 DEF HoldsOf, At, LeaveSlot
  <2>2. QED
    BY <1>0, <2>1, ReturnStep
<1>3. ASSUME \E a \in Await : Goto(r, a), UNCHANGED semVars
      PROVE  \A t \in Sem : SlotStep(t)
  BY <1>0, <1>1, <1>3 DEF Goto
<1>4. CASE ImageResolved(r) \/ MediaStart(r) \/ Spawned(r) \/ FfmpegDone(r) \/ FfmpegFails(r) \/ Sent(r)
  BY <1>3, <1>4 DEF ImageResolved, MediaStart, Spawned, FfmpegDone, FfmpegFails, Sent, Await, Held
<1>5. CASE ImageEnds(r)
  BY <1>0, <1>1, <1>5 DEF ImageEnds
<1>6. CASE Staged(r)
  BY <1>0, <1>1, <1>6 DEF Staged, Goto
<1>7. CASE FfmpegRetries(r)
  BY <1>0, <1>1, <1>7 DEF FfmpegRetries
<1>8. CASE SpawnFails(r)
  <2>1. At(r, Held)
    BY <1>8 DEF SpawnFails, At, Held
  <2>2. QED
    BY <1>2, <1>3, <1>8, <2>1 DEF SpawnFails, Await, Held
<1>9. CASE StagingFails(r)
  BY <1>2, <1>9 DEF StagingFails, At, Held
<1>10. CASE ThumbnailEnds(r)
  BY <1>2, <1>10 DEF ThumbnailEnds, At, Held
<1>11. CASE Erased(r)
  BY <1>2, <1>11 DEF Erased, At, Held
<1>12. QED
  BY <1>4, <1>5, <1>6, <1>7, <1>8, <1>9, <1>10, <1>11 DEF MediaStep

(* And each one of a page's.                                                 *)
LEMMA PageSlots ==
  ASSUME MediaInv, MediaInv', NEW r \in Req, PageStep(r)
  PROVE  \A t \in Sem : SlotStep(t)
<1>0. Shape /\ SemInv /\ SemInv' /\ DOMAIN requests = Req
  BY DEF MediaInv, Shape
<1>1. ASSUME UNCHANGED semVars, \A q \in Req \ {r} : requests'[q] = requests[q]
      PROVE  \A t \in Sem : SlotStep(t)
  BY <1>0, <1>1, QuietStep
<1>2. CASE PageStart(r)
  BY <1>0, <1>1, <1>2 DEF PageStart, TakeBrowser, Goto
<1>3. CASE BrowserClosed(r)
  <2>1. \A q \in Req : requests'[q] = requests[q] \/ PageMoves(q)
    <3>1. SUFFICES ASSUME NEW q \in Req PROVE requests'[q] = requests[q] \/ PageMoves(q)
      OBVIOUS
    <3>2. CASE At(q, {"closing", "browsing"})
      BY <1>3, <3>2 DEF BrowserClosed, PageMoves, At, PageAt
    <3>3. CASE ~At(q, {"closing", "browsing"})
      BY <1>3, <3>3 DEF BrowserClosed, At
    <3>4. QED
      BY <3>2, <3>3
  <2>2. QED
    BY <1>0, <1>3, <2>1, MovedStep DEF BrowserClosed
<1>4. CASE ProxyStopped(r)
  BY <1>0, <1>1, <1>4 DEF ProxyStopped, TakeBrowser, Goto
<1>5. CASE PageScanned(r)
  BY <1>0, <1>1, <1>5 DEF PageScanned, Goto
<1>6. CASE PageFails(r)
  BY <1>0, <1>1, <1>6 DEF PageFails
<1>7. CASE ContextClosed(r)
  <2>1. requests[r] # None /\ requests[r].at \in Held /\ requests[r] \in Request
    BY <1>0, <1>7 DEF ContextClosed, At, Held, Shape
  <2>2. PICK new : Freed(r, new) /\ new \in {None, [requests[r] EXCEPT !.at = "probing"]}
    BY <1>7 DEF ContextClosed, LeaveSlot
  <2>3. HoldsOf(new) = "no"
    <3>1. [requests[r] EXCEPT !.at = "probing"].at \notin Held
      BY <2>1 DEF Request, Held
    <3>2. QED
      BY <2>2, <3>1 DEF HoldsOf
  <2>4. QED
    BY <1>0, <2>1, <2>2, <2>3, ReturnStep
<1>8. CASE ProbesDone(r)
  BY <1>0, <1>1, <1>8 DEF ProbesDone
<1>9. QED
  BY <1>2, <1>3, <1>4, <1>5, <1>6, <1>7, <1>8 DEF PageStep

(* And the hang-ups, the launches and the crashes.                           *)
LEMMA GoneSlots ==
  ASSUME MediaInv, MediaInv', NEW r \in Req, GoneStep(r)
  PROVE  \A t \in Sem : SlotStep(t)
<1>0. Shape /\ SemInv /\ SemInv' /\ DOMAIN requests = Req
  BY DEF MediaInv, Shape
<1>1. ASSUME UNCHANGED semVars, \A q \in Req \ {r} : requests'[q] = requests[q]
      PROVE  \A t \in Sem : SlotStep(t)
  BY <1>0, <1>1, QuietStep
<1>2. CASE GoneNoted(r)
  BY <1>0, <1>1, <1>2 DEF GoneNoted
<1>3. CASE GoneQueued(r)
  BY <1>0, <1>3, GiveUpStep
<1>4. CASE GoneFetching(r)
  BY <1>0, <1>1, <1>4 DEF GoneFetching
<1>5. CASE GoneStreaming(r)
  BY <1>0, <1>1, <1>5 DEF GoneStreaming
<1>6. QED
  BY <1>2, <1>3, <1>4, <1>5 DEF GoneStep

LEMMA BrowserSlots ==
  ASSUME MediaInv, Launched \/ LaunchFails \/ BrowserCrashes
  PROVE  \A t \in Sem : SlotStep(t)
<1>1. \A q \in Req : requests'[q] = requests[q] \/ PageMoves(q)
  BY DEF Launched, LaunchFails, BrowserCrashes, PageMoves, At, PageAt
<1>2. Shape /\ UNCHANGED semVars
  BY DEF MediaInv, Launched, LaunchFails, BrowserCrashes
<1>3. QED
  BY <1>1, <1>2, MovedStep

(* Both semaphores of the routes keep the promise of SlotQueue: who comes    *)
(* while a slot is free takes it, the others queue in the order in which     *)
(* they came and within the bound, a hang-up takes a waiter out and leaves   *)
(* the order of the others, and every end of a handler hands its slot to the *)
(* head of the queue.  The routes that share a semaphore, and its fellow,    *)
(* disturb none of it.                                                       *)
THEOREM SlotQueuesRefined == Spec => Slot("ffmpeg")!Spec /\ Slot("extraction")!Spec
<1>1. ASSUME NEW s \in Sem, Init
      PROVE  Slot(s)!Init
  <2>1. Holders(s) = {} /\ queue[s] = <<>>
    BY <1>1 DEF Init, Holders, At
  <2>2. QED
    BY <2>1 DEF Slot!Init
<1>2. ASSUME MediaInv, MediaInv', [Next]_vars
      PROVE  \A s \in Sem : SlotStep(s)
  <2>1. ASSUME NEW r \in Req, FrontStep(r) \/ MediaStep(r) \/ PageStep(r) \/ GoneStep(r)
        PROVE  \A s \in Sem : SlotStep(s)
    BY <1>2, <2>1, FrontSlots, MediaSlots, PageSlots, GoneSlots
  <2>2. CASE Launched \/ LaunchFails \/ BrowserCrashes
    BY <1>2, <2>2, BrowserSlots
  <2>3. CASE UNCHANGED vars
    BY <2>3 DEF vars, semVars, SlotStep, Holders, At, MySem
  <2>4. QED
    BY <1>2, <2>1, <2>2, <2>3 DEF Next
<1>3. MediaInv /\ MediaInv' /\ [Next]_vars
        => /\ [Slot("ffmpeg")!Next]_<<Holders("ffmpeg"), queue["ffmpeg"]>>
           /\ [Slot("extraction")!Next]_<<Holders("extraction"), queue["extraction"]>>
  BY <1>2 DEF SlotStep, Sem
<1>4. Init => Slot("ffmpeg")!Init /\ Slot("extraction")!Init
  BY <1>1 DEF Sem
<1>5. QED
  BY <1>3, <1>4, MediaInvariant, PTL DEF Spec, Slot!Spec
=============================================================================
