--------------------------- MODULE Transfer_proofs ---------------------------
(***************************************************************************)
(* Proofs about a job's transfer, for every limit of hops, retries and     *)
(* chunks and every media file: no key is zeroed under the code that uses  *)
(* it, no plaintext stays, and what is sent is the file.                   *)
(*                                                                         *)
(* HopInv is about the requests of the download, FileInv about what they   *)
(* and the removal of the directory leave, KeyInv about the upload's keys  *)
(* and its body, SentInv about the frames, PlanInv about what the file is  *)
(* cut into: what Upload_proofs proves of the cutting, of the file at hand. *)
(***************************************************************************)
EXTENDS Transfer, Upload_proofs

Live == {"resolving", "waiting", "opening", "writing"}

(* Every hop but the last has redirected or failed.  The last one is at work *)
(* while the download is awaited, and only then, unless it is orphaned.      *)
HopInv ==
  /\ phase \in Phase /\ orphaned \in BOOLEAN
  /\ hops \in Seq(HopAt)
  /\ attempt \in 0..MaxRetries /\ first \in Nat \ {0}
  /\ first <= Len(hops) + 1 /\ Len(hops) < first + MaxHops
  /\ \A i \in 1..Len(hops) : i # Len(hops) => hops[i] \in {"draining", "over"}
  /\ phase = "queued" => hops = <<>>
  /\ phase = "backoff" => /\ attempt < MaxRetries
                          /\ \A i \in 1..Len(hops) : hops[i] \in {"draining", "over"}
  /\ phase \in {"fetching", "backoff"} => dir = "made"
  /\ phase = "fetching" => first <= Len(hops) /\ hops[Len(hops)] \in Live
  /\ (phase # "fetching" /\ ~orphaned /\ Len(hops) > 0) => hops[Len(hops)] \notin Live

Plain == {f \in File : files[f] = "plain"}

(* What is readable is listed, and nothing comes later.                      *)
FileInv ==
  /\ files \in [File -> {"absent", "empty", "plain"}]
  /\ phase = "over" => dir # "made"
  /\ (phase = "unlinking" /\ ~orphaned) => Plain \subseteq list[1]
  /\ (phase = "over" /\ ~orphaned) => Plain = {}

(* The awaits before the keys are made, and those with the keys.             *)
Early  == {"queued", "fetching", "backoff", "streaming", "moving", "downloaded",
           "refreshing", "scanning", "remuxing"}
Sealed == {"thumbnail", "unthumb", "probing"}

KeyInv ==
  /\ phase \in Early  => keys = "none" /\ body = "idle"
  /\ phase \in Sealed => keys = "live" /\ body = "idle"
  /\ phase = "posting" => keys = "live" /\ body # "idle"
  /\ body \in {"idle", "waiting", "reading", "sent", "stopped"}
  /\ body \in {"waiting", "reading"} => phase = "posting"

Frames == {Frame(i) : i \in Nat}

(* The frames sent are those of the plan in their order, and a body that was *)
(* sent to its end has them all.                                             *)
SentInv ==
  /\ sent \in Seq(Frames)
  /\ \A i \in 1..Len(sent) : sent[i] = Frame(i)
  /\ body = "idle" => sent = <<>> /\ reply = "none" /\ settled = "no"
  /\ body = "sent" => ~(Len(sent) < Len(segments))

TransferInv == HopInv /\ FileInv /\ KeyInv /\ SentInv

(* The plan is made once, before the keys, and covers the file; a body is of *)
(* a plan within the server's limit, and no longer than it.                  *)
Planned == Sealed \cup {"posting"}

PlanInv ==
  /\ layout \in Layout /\ segments \in Seq(Segment)
  /\ phase \in Early => segments = <<>>
  /\ segments # <<>> =>
       /\ Tiles(segments, 0, Size(layout))
       /\ (fragmented /\ Moofs(layout) # <<>>) =>
            /\ segments[1].size = Moofs(layout)[1]
            /\ \A i \in 2..Len(segments) : Whole(segments[i], ToSet(Moofs(layout)))
  /\ (phase \in Planned \/ body # "idle") => segments # <<>> /\ Len(segments) <= MaxChunks
  /\ Len(sent) <= Len(segments)
  /\ body = "reading" => Len(sent) < Len(segments)

(* The rest of the types.                                                    *)
RestInv ==
  /\ dir \in {"none", "made", "removed", "left"} /\ Len(list) <= 1
  /\ outcome \in {"none", "dropped", "stored", "failed"}
  /\ layout \in Layouts \cup {NoLayout}
  /\ remuxed \in BOOLEAN /\ fragmented \in BOOLEAN /\ open \in BOOLEAN
  /\ keys \in {"none", "live", "zeroed"}
  /\ reply \in {"none", "2xx", "error"}
  /\ settled \in {"no", "2xx", "error", "failed"}

----------------------------------------------------------------------------
LEMMA InitInv == Init => TransferInv
<1>1. ASSUME Init PROVE TransferInv
  <2>1. HopInv
    <3>1. hops = <<>> /\ Len(hops) = 0 /\ hops \in Seq(HopAt)
      BY <1>1 DEF Init, DownloadInit
    <3>2. phase = "queued" /\ attempt = 0 /\ first = 1 /\ orphaned = FALSE
      BY <1>1 DEF Init, DownloadInit
    <3>3. /\ phase \in Phase /\ orphaned \in BOOLEAN
          /\ attempt \in 0..MaxRetries /\ first \in Nat \ {0}
          /\ first <= Len(hops) + 1 /\ Len(hops) < first + MaxHops
      <4>1. 0 \in 0..MaxRetries /\ 0 < 1 + MaxHops
        BY DownloadAssumption
      <4>2. phase \in Phase /\ orphaned \in BOOLEAN
        BY <3>2 DEF Phase
      <4>3. QED
        BY <3>1, <3>2, <4>1, <4>2
    <3>4. QED
      BY <3>1, <3>2, <3>3 DEF HopInv
  <2>2. FileInv
    BY <1>1 DEF Init, DownloadInit, FileInv
  <2>3. KeyInv
    BY <1>1 DEF Init, DownloadInit, UploadInit, KeyInv, Early, Sealed
  <2>4. SentInv
    BY <1>1 DEF Init, UploadInit, SentInv
  <2>5. QED
    BY <2>1, <2>2, <2>3, <2>4 DEF TransferInv
<1>2. QED
  BY <1>1

----------------------------------------------------------------------------
(* The download's requests.                                                  *)

LEMMA OneMore ==
  ASSUME NEW h \in Seq(HopAt)
  PROVE  LET g == Append(h, "resolving")
         IN /\ g \in Seq(HopAt) /\ Len(g) = Len(h) + 1 /\ g[Len(h) + 1] = "resolving"
            /\ \A i \in 1..Len(h) : g[i] = h[i]
  BY AppendProperties DEF HopAt

LEMMA LastHop == ASSUME HopInv, hops # <<>> PROVE Len(hops) \in 1..Len(hops)
<1>1. Len(hops) \in Nat /\ Len(hops) # 0
  BY EmptySeq DEF HopInv
<1>2. QED
  BY <1>1

LEMMA EndedHop == ASSUME HopInv, hops # <<>>, hops[Current] \in Live, Ended, UNCHANGED dir PROVE HopInv'
  BY LastHop DEF HopInv, Ended, Awaited, Current, Live, HopAt, Phase

(* A hop i that is no longer at work comes to its end.                       *)
LEMMA OverHop ==
  ASSUME HopInv, NEW i \in 1..Len(hops), hops[i] = "draining" \/ hops[i] = "closing",
         hops' = [hops EXCEPT ![i] = "over"], UNCHANGED <<attempt, first, dir>>,
         orphaned' \in BOOLEAN, orphaned => orphaned',
         \/ phase' = phase
         \/ phase = "fetching" /\ phase' = "erasing" /\ orphaned'
  PROVE  HopInv'
  BY DEF HopInv, Live, HopAt, Phase

LEMMA NetworkHops == ASSUME HopInv, NetworkStep PROVE HopInv'
<1>1. CASE Redirected
  <2>0. PICK drained : drained = [hops EXCEPT ![Len(hops)] = "draining"]
    OBVIOUS
  <2>1. /\ hops # <<>> /\ Len(hops) \in Nat /\ Len(hops) > 0 /\ hops[Len(hops)] = "waiting"
        /\ drained \in Seq(HopAt) /\ Len(drained) = Len(hops)
        /\ \A i \in 1..Len(hops) : drained[i] \in {"draining", "over"}
    BY <1>1, <2>0, LastHop DEF HopInv, Redirected, Current, HopAt
  <2>2. CASE Len(hops) - first + 1 < MaxHops
    <3>1. hops' = Append(drained, "resolving") /\ UNCHANGED <<phase, attempt, first, orphaned>>
      BY <1>1, <2>0, <2>2 DEF Redirected, Current
    <3>2. /\ hops' \in Seq(HopAt) /\ Len(hops') = Len(hops) + 1 /\ hops'[Len(hops')] = "resolving"
          /\ \A i \in 1..Len(hops) : hops'[i] = drained[i]
      BY <2>1, <3>1, OneMore
    <3>3. phase # "queued" /\ (phase = "fetching" \/ orphaned)
      BY <2>1 DEF HopInv, Live
    <3>4. QED
      <4>1. first <= Len(hops') + 1 /\ Len(hops') < first + MaxHops /\ first <= Len(hops) + 1
        BY <2>2, <3>2, DownloadAssumption DEF HopInv
      <4>2. \A i \in 1..Len(hops') : i # Len(hops') => hops'[i] \in {"draining", "over"}
        BY <2>1, <3>2
      <4>3. phase = "fetching" => first <= Len(hops') /\ hops'[Len(hops')] \in Live
        BY <3>2, <4>1 DEF Live, HopInv
      <4>4. UNCHANGED dir
        BY <1>1 DEF Redirected, diskVars
      <4>5. QED
        <5>1. phase' = phase /\ phase # "queued" /\ (phase # "fetching" => orphaned')
          BY <3>1, <3>3
        <5>2. phase # "backoff"
          BY <2>1 DEF HopInv
        <5>3. QED
          BY <3>1, <3>2, <4>1, <4>2, <4>3, <4>4, <5>1, <5>2 DEF HopInv
  <2>3. CASE ~(Len(hops) - first + 1 < MaxHops)
    <3>1. /\ hops' = drained /\ UNCHANGED <<attempt, first, orphaned>>
          /\ phase' = IF Awaited(Len(hops)) THEN "erasing" ELSE phase
      BY <1>1, <2>0, <2>3 DEF Redirected, Current
    <3>2. phase' # "fetching"
      BY <3>1 DEF Awaited, HopInv
    <3>3. QED
      BY <2>1, <3>1, <3>2 DEF HopInv, Live, Phase
  <2>4. QED
    BY <2>2, <2>3
<1>2. CASE TooManyRequests
  BY <1>2, LastHop DEF HopInv, TooManyRequests, Awaited, Current, Live, HopAt, Phase, diskVars
<1>3. CASE Accepted
  BY <1>3, LastHop DEF HopInv, Accepted, Current, Live, HopAt, diskVars
<1>4. CASE Finished
  BY <1>4, LastHop DEF HopInv, Finished, Awaited, Current, Live, HopAt, Phase, diskVars
<1>5. CASE Broke
  BY <1>5, EndedHop DEF Broke, Live, diskVars
<1>6. ASSUME NEW i \in 1..Len(hops), Drained(i) PROVE HopInv'
  BY <1>6, OverHop DEF Drained, HopInv, diskVars
<1>7. ASSUME NEW i \in 1..Len(hops), DrainBreaks(i) PROVE HopInv'
  <2>1. phase = "fetching" => hops[Current] \notin {"draining", "over"}
    BY DEF HopInv, Current, Live
  <2>2. Awaited(i) => phase = "fetching" /\ orphaned'
    BY <1>7, <2>1 DEF DrainBreaks, Awaited
  <2>3. QED
    BY <1>7, <2>2, OverHop DEF DrainBreaks, HopInv, diskVars
<1>8. QED
  BY <1>1, <1>2, <1>3, <1>4, <1>5, <1>6, <1>7 DEF NetworkStep

LEMMA LocalHops == ASSUME HopInv, LocalStep PROVE HopInv'
<1>1. CASE Start
  <2>1. /\ hops = <<>> /\ Len(hops) = 0 /\ first = 1
        /\ hops' = <<"resolving">> /\ hops' \in Seq(HopAt) /\ Len(hops') = 1 /\ hops'[1] = "resolving"
    BY <1>1 DEF HopInv, Start, HopAt
  <2>2. QED
    BY <1>1, <2>1, DownloadAssumption DEF HopInv, Start, Live, Phase
<1>2. CASE Resolved
  BY <1>2, LastHop DEF HopInv, Resolved, Current, Live, HopAt, diskVars
<1>3. CASE Unresolved \/ TimedOut
  BY <1>3, EndedHop DEF Unresolved, TimedOut, Live, diskVars
<1>4. CASE Retried
  <2>1. /\ hops' = Append(hops, "resolving") /\ first' = Len(hops) + 1 /\ phase' = "fetching"
        /\ attempt' = attempt + 1 /\ UNCHANGED <<orphaned, dir>> /\ phase = "backoff"
    BY <1>4 DEF Retried, diskVars
  <2>2. /\ hops' \in Seq(HopAt) /\ Len(hops') = Len(hops) + 1 /\ hops'[Len(hops')] = "resolving"
        /\ \A i \in 1..Len(hops) : hops'[i] = hops[i]
    BY <2>1, OneMore DEF HopInv
  <2>3. \A i \in 1..Len(hops) : hops[i] \in {"draining", "over"}
    BY <2>1 DEF HopInv
  <2>4. QED
    BY <2>1, <2>2, <2>3, DownloadAssumption DEF HopInv, Live, Phase
<1>5. CASE \/ StartStream \/ Moved \/ MoveFails \/ ListDir \/ RemoveDir
           \/ \E ok \in BOOLEAN : StreamEnds(ok)
           \/ \E f \in File : EraseFile(f)
  BY <1>5 DEF HopInv, StartStream, Moved, MoveFails, ListDir, RemoveDir, StreamEnds, EraseFile,
              downloadVars, Phase
<1>6. QED
  BY <1>1, <1>2, <1>3, <1>4, <1>5 DEF LocalStep

LEMMA FileHops == ASSUME HopInv, FileStep PROVE HopInv'
<1>1. CASE Opened
  BY <1>1, LastHop DEF HopInv, Opened, Current, Live, HopAt
<1>2. CASE ClosingOpened
  BY <1>2, OverHop, LastHop DEF HopInv, ClosingOpened, Current
<1>3. QED
  BY <1>1, <1>2 DEF FileStep

Down == {"queued", "fetching", "backoff"}

(* The upload leaves the requests alone.                                     *)
LEMMA UploadHops ==
  ASSUME HopInv, UNCHANGED <<downloadVars, dir>>, phase \notin Down, phase' \in Phase \ Down
  PROVE  HopInv'
  BY DEF HopInv, downloadVars, Down

----------------------------------------------------------------------------
(* The files.                                                                *)

(* No step of the network makes or removes one.                              *)
LEMMA SameFiles ==
  ASSUME FileInv, UNCHANGED <<files, list, dir>>, orphaned => orphaned',
         phase' \notin {"unlinking", "over"} \/ phase' = phase
  PROVE  FileInv'
  BY DEF FileInv, Plain

LEMMA NetworkFiles == ASSUME FileInv, orphaned \in BOOLEAN, NetworkStep PROVE FileInv'
<1>1. /\ UNCHANGED <<files, list, dir>> /\ (orphaned => orphaned')
      /\ phase' \notin {"unlinking", "over"} \/ phase' = phase
  BY DEF NetworkStep, Redirected, TooManyRequests, Accepted, Finished, Broke, Drained, DrainBreaks,
         Ended, diskVars
<1>2. QED
  BY <1>1, SameFiles

(* A file that is opened late is empty, unless a hop is orphaned.            *)
LEMMA FileFiles == ASSUME HopInv, FileInv, FileStep PROVE FileInv'
<1>1. UNCHANGED <<phase, orphaned, dir, list>>
  BY DEF FileStep, Opened, ClosingOpened
<1>2. files' \in [File -> {"absent", "empty", "plain"}]
  BY DEF FileStep, Opened, ClosingOpened, FileInv, Made, File
<1>3. CASE Opened
  <2>1. phase = "fetching" \/ orphaned
    BY <1>3, LastHop DEF HopInv, Opened, Current, Live
  <2>2. phase = "fetching" \/ orphaned'
    BY <2>1, <1>1
  <2>3. QED
    BY <1>1, <1>2, <2>2 DEF FileInv
<1>4. CASE ClosingOpened
  <2>1. Plain' \subseteq Plain
    BY <1>4 DEF ClosingOpened, FileInv, Made, Plain, File
  <2>2. QED
    BY <1>1, <1>2, <2>1 DEF FileInv
<1>5. QED
  BY <1>3, <1>4 DEF FileStep

LEMMA LocalFiles == ASSUME HopInv, FileInv, LocalStep PROVE FileInv'
<1>1. CASE \/ Start \/ Resolved \/ Unresolved \/ Retried \/ TimedOut \/ MoveFails
           \/ \E ok \in BOOLEAN : StreamEnds(ok)
  <2>1. /\ UNCHANGED <<files, list>> /\ (orphaned => orphaned')
        /\ phase' \notin {"unlinking", "over"} \/ (phase' = phase /\ UNCHANGED dir)
    BY <1>1 DEF Start, Resolved, Unresolved, Retried, TimedOut, MoveFails, StreamEnds,
                Ended, diskVars, downloadVars
  <2>2. QED
    BY <2>1 DEF FileInv, Plain
<1>2. CASE StartStream \/ Moved
  <2>1. /\ phase' \notin {"unlinking", "over"}
        /\ files' \in [File -> {"absent", "empty", "plain"}]
    BY <1>2 DEF StartStream, Moved, FileInv
  <2>2. QED
    BY <2>1 DEF FileInv
<1>3. CASE ListDir
  <2>1. /\ phase' = "unlinking" /\ UNCHANGED <<files, orphaned>> /\ list' = <<Present>>
    BY <1>3 DEF ListDir, Listed, downloadVars
  <2>2. list'[1] = Present
    BY <2>1
  <2>3. QED
    BY <2>1, <2>2 DEF FileInv, Plain, Present
<1>4. ASSUME NEW f \in File, EraseFile(f) PROVE FileInv'
  <2>1. /\ phase' = "unlinking" /\ UNCHANGED orphaned /\ list'[1] = list[1] \ {f}
        /\ files' = [files EXCEPT ![f] = "absent"] /\ phase = "unlinking"
    BY <1>4 DEF EraseFile, downloadVars
  <2>2. QED
    BY <2>1 DEF FileInv, Plain
<1>5. CASE RemoveDir
  <2>1. /\ phase = "unlinking" /\ phase' = "over" /\ UNCHANGED <<files, orphaned>> /\ list[1] = {}
        /\ dir' # "made"
    BY <1>5 DEF RemoveDir, downloadVars
  <2>2. QED
    BY <2>1 DEF FileInv, Plain
<1>6. QED
  BY <1>1, <1>2, <1>3, <1>4, <1>5 DEF LocalStep

(* The upload makes files only while the job goes on.                        *)
LEMMA UploadFiles ==
  ASSUME FileInv, UNCHANGED <<orphaned, dir, list>>,
         files' \in [File -> {"absent", "empty", "plain"}],
         phase' \notin {"unlinking", "over"} \/ UNCHANGED <<phase, files>>
  PROVE  FileInv'
  BY DEF FileInv, Plain

----------------------------------------------------------------------------
(* The upload's keys, its body and the answer.                               *)

LEMMA SameSent ==
  ASSUME SentInv, UNCHANGED <<segments, sent, body, reply, settled>>
  PROVE  SentInv'
<1>1. Frames' = Frames /\ \A i \in 1..Len(sent) : Frame(i)' = Frame(i)
  BY DEF Frames, Frame
<1>2. QED
  BY <1>1 DEF SentInv

(* The download goes from early awaits to early ones, or to the removal.     *)
LEMMA DownloadPhases ==
  ASSUME DownloadNext
  PROVE  \/ phase' = phase
         \/ phase \in Early /\ phase' \in Early \cup {"erasing"}
         \/ phase \in {"erasing", "unlinking"} /\ phase' \in {"unlinking", "over"}
<1>1. CASE NetworkStep
  BY <1>1 DEF NetworkStep, Redirected, TooManyRequests, Accepted, Finished, Broke, Drained,
              DrainBreaks, Ended, Awaited, Early
<1>2. CASE LocalStep
  BY <1>2 DEF LocalStep, Start, StartStream, Resolved, Unresolved, Retried, TimedOut, StreamEnds,
              Moved, MoveFails, ListDir, EraseFile, RemoveDir, Ended, Awaited, Early
<1>3. CASE FileStep
  BY <1>3 DEF FileStep, Opened, ClosingOpened
<1>4. QED
  BY <1>1, <1>2, <1>3 DEF DownloadNext

LEMMA DownloadKeeps ==
  ASSUME KeyInv, SentInv, DownloadNext, UNCHANGED uploadVars
  PROVE  KeyInv' /\ SentInv'
<1>1. \/ phase' = phase
      \/ phase \in Early /\ phase' \in Early \cup {"erasing"}
      \/ phase \in {"erasing", "unlinking"} /\ phase' \in {"unlinking", "over"}
  BY DownloadPhases
<1>2. KeyInv'
  BY <1>1 DEF KeyInv, uploadVars, postVars, Early, Sealed
<1>3. SentInv'
  BY SameSent DEF uploadVars, planVars, postVars
<1>4. QED
  BY <1>2, <1>3

(* The steps before the request, and those that give up.                     *)
Quiet ==
  \/ \E how \in {"none", "failed", "dropped"} : NoUpload(how)
  \/ AskToken \/ NoToken \/ GotToken \/ Unreadable \/ Unscannable
  \/ \E b \in BOOLEAN : StartRemux(b) \/ Thumbnail(b)
  \/ ThumbErased \/ CleanRemux
Plans == NotVideo \/ AlreadyFragmented \/ Remuxed \/ RemuxFails
BodyStep ==
  \/ Pull \/ Encrypt \/ ReadFails \/ BodyStops \/ UploadTimer
  \/ SocketError \/ ReplyEnds \/ ReplyBreaks \/ \E s \in {"2xx", "error"} : Replies(s)

LEMMA QuietKeeps == ASSUME TransferInv, Quiet PROVE TransferInv'
<1>1. /\ UNCHANGED <<downloadVars, dir, list, segments, keys, postVars>>
      /\ phase \notin Down
  BY DEF Quiet, NoUpload, Ends, AskToken, NoToken, GotToken, Unreadable, Unscannable, Scannable, StartRemux,
         Thumbnail, ThumbErased, CleanRemux, uploadVars, planVars, diskVars, Down
<1>2. /\ phase \in Early => phase' \in Early \cup {"cleaning", "erasing"}
      /\ phase \in Sealed => phase' \in Sealed
      /\ phase \notin Early \cup Sealed => phase = "cleaning" /\ phase' = "erasing"
      /\ phase' \in Phase \ (Down \cup {"posting", "unlinking", "over"})
  BY DEF Quiet, NoUpload, Ends, AskToken, NoToken, GotToken, Unreadable, Unscannable, Scannable, StartRemux,
         Thumbnail, ThumbErased, CleanRemux, Down, Early, Sealed, Phase
<1>3. files' \in [File -> {"absent", "empty", "plain"}]
  BY DEF Quiet, NoUpload, Ends, AskToken, NoToken, GotToken, Unreadable, Unscannable, Scannable, StartRemux,
         Thumbnail, ThumbErased, CleanRemux, diskVars, TransferInv, FileInv, Made
<1>4. HopInv'
  BY <1>1, <1>2, UploadHops DEF TransferInv
<1>5. FileInv'
  BY <1>1, <1>2, <1>3, UploadFiles DEF TransferInv, downloadVars
<1>6. KeyInv'
  BY <1>1, <1>2 DEF TransferInv, KeyInv, postVars, Early, Sealed
<1>7. SentInv'
  BY <1>1, SameSent DEF TransferInv, postVars
<1>8. QED
  BY <1>4, <1>5, <1>6, <1>7 DEF TransferInv

LEMMA PlanKeeps == ASSUME TransferInv, Plans PROVE TransferInv'
<1>1. /\ UNCHANGED <<downloadVars, diskVars, postVars>>
      /\ phase \in {"scanning", "remuxing"}
      /\ \/ phase' = "cleaning" /\ outcome' = "failed" /\ UNCHANGED keys
         \/ phase' = "thumbnail" /\ keys' = "live" /\ UNCHANGED outcome
  BY DEF Plans, Scannable, NotVideo, AlreadyFragmented, Remuxed, RemuxFails, PlanFixed, PlanFragments,
         Plan
<1>2. body = "idle" /\ sent = <<>>
  BY <1>1 DEF TransferInv, KeyInv, SentInv, Early
<1>3. HopInv'
  BY <1>1, UploadHops DEF TransferInv, diskVars, Down, Phase
<1>4. FileInv'
  BY <1>1, UploadFiles DEF TransferInv, FileInv, diskVars, downloadVars
<1>5. KeyInv'
  BY <1>1, <1>2 DEF KeyInv, postVars, Early, Sealed
<1>6. SentInv'
  BY <1>1, <1>2 DEF TransferInv, SentInv, postVars
<1>7. QED
  BY <1>3, <1>4, <1>5, <1>6 DEF TransferInv

(* The request starts, or is given up before; uploadFile returns from it.    *)
LEMMA ReturnKeeps == ASSUME TransferInv, NoTarget \/ Post \/ Return PROVE TransferInv'
<1>1. /\ UNCHANGED <<downloadVars, diskVars, segments, sent, reply, settled>>
      /\ phase \in {"probing", "posting"} /\ phase' \in {"posting", "cleaning"}
  BY DEF NoTarget, Post, Return, Unwind, planVars, postVars
<1>2. HopInv'
  BY <1>1, UploadHops DEF TransferInv, diskVars, Down, Phase
<1>3. FileInv'
  BY <1>1, UploadFiles DEF TransferInv, FileInv, diskVars, downloadVars
<1>4. KeyInv'
  BY DEF NoTarget, Post, Return, Unwind, postVars, TransferInv, KeyInv, Early, Sealed
<1>5. CASE NoTarget \/ Return
  <2>1. UNCHANGED body
    BY <1>5 DEF NoTarget, Return, Unwind, postVars
  <2>2. Frames' = Frames /\ \A i \in 1..Len(sent) : Frame(i)' = Frame(i)
    BY <1>1 DEF Frames, Frame
  <2>3. SentInv'
    BY <1>1, <2>1, <2>2 DEF TransferInv, SentInv
  <2>4. QED
    BY <1>2, <1>3, <1>4, <2>3 DEF TransferInv
<1>6. CASE Post
  <2>1. body = "idle" /\ body' = "waiting" /\ UNCHANGED outcome
    BY <1>6 DEF Post, TransferInv, KeyInv, Sealed
  <2>2. Frames' = Frames /\ sent = <<>> /\ reply = "none" /\ settled = "no"
    BY <1>1, <2>1 DEF Frames, Frame, TransferInv, SentInv
  <2>3. SentInv'
    BY <1>1, <2>1, <2>2 DEF TransferInv, SentInv
  <2>4. QED
    BY <1>2, <1>3, <1>4, <2>3 DEF TransferInv
<1>7. QED
  BY <1>5, <1>6

(* Body, answer, timer and socket beside each other.                         *)
LEMMA BodyKeeps == ASSUME TransferInv, BodyStep PROVE TransferInv'
<1>1. /\ UNCHANGED <<phase, keys, outcome, segments, downloadVars, diskVars>>
      /\ phase \notin Early \cup Sealed
  <2>1. UNCHANGED <<phase, keys, outcome, segments, downloadVars, diskVars>>
    BY DEF BodyStep, Pull, Encrypt, ReadFails, BodyStops, UploadTimer, SocketError, ReplyEnds,
           ReplyBreaks, Replies, Fail, postRest, planVars
  <2>2. body # "idle"
    BY DEF BodyStep, Pull, Encrypt, ReadFails, BodyStops, UploadTimer, SocketError, ReplyEnds,
           ReplyBreaks, Replies, TransferInv, KeyInv, SentInv
  <2>3. QED
    BY <2>1, <2>2 DEF TransferInv, KeyInv
<1>2. HopInv'
  BY <1>1, UploadHops DEF TransferInv, HopInv, diskVars, Down, Early
<1>3. FileInv'
  BY <1>1, UploadFiles DEF TransferInv, FileInv, diskVars, downloadVars
<1>4. /\ body \in {"waiting", "reading"} /\ body' \in {"waiting", "reading", "sent", "stopped"}
      \/ UNCHANGED body
  BY DEF BodyStep, Pull, Encrypt, ReadFails, BodyStops, UploadTimer, SocketError, ReplyEnds,
         ReplyBreaks, Replies
<1>5. KeyInv'
  BY <1>1, <1>4 DEF TransferInv, KeyInv
<1>6. Frames' = Frames /\ \A i \in Nat : Frame(i)' = Frame(i)
  BY <1>1 DEF Frames, Frame
<1>7. SentInv'
  <2>1. CASE Encrypt
    <3>1. /\ body = "reading" /\ body' = "waiting" /\ UNCHANGED <<outcome, segments, reply, settled>>
          /\ sent' = Append(sent, Frame(Len(sent) + 1))
      BY <2>1, <1>1 DEF Encrypt
    <3>2. Len(sent) \in Nat /\ Frame(Len(sent) + 1) \in Frames
      BY DEF TransferInv, SentInv, Frames
    <3>3. /\ sent' \in Seq(Frames) /\ Len(sent') = Len(sent) + 1
          /\ \A i \in 1..Len(sent) : sent'[i] = sent[i]
          /\ sent'[Len(sent) + 1] = Frame(Len(sent) + 1)
      BY <3>1, <3>2, AppendProperties DEF TransferInv, SentInv
    <3>4. \A i \in 1..Len(sent') : sent'[i] = Frame(i)'
      BY <3>2, <3>3, <1>6 DEF TransferInv, SentInv
    <3>5. QED
      BY <3>1, <3>3, <3>4, <1>6 DEF TransferInv, SentInv
  <2>2. CASE ~Encrypt
    <3>1. UNCHANGED sent
      BY <2>2 DEF BodyStep, Pull, ReadFails, BodyStops, UploadTimer, SocketError, ReplyEnds,
                  ReplyBreaks, Replies, Fail
    <3>2. /\ body' = "idle" => body = "idle"
          /\ body' = "sent" => ~(Len(sent) < Len(segments))
          /\ body' = "idle" => reply' = "none" /\ settled' = "no"
      BY <2>2 DEF BodyStep, Pull, ReadFails, BodyStops, UploadTimer, SocketError, ReplyEnds,
                  ReplyBreaks, Replies, Fail, TransferInv, SentInv, KeyInv
    <3>3. QED
      BY <3>1, <3>2, <1>1, <1>6 DEF TransferInv, SentInv
  <2>3. QED
    BY <2>1, <2>2
<1>8. QED
  BY <1>2, <1>3, <1>5, <1>7 DEF TransferInv

----------------------------------------------------------------------------
LEMMA StepKeeps == ASSUME TransferInv, [Next]_vars PROVE TransferInv'
<1>1. CASE Download_Step
  <2>1. HopInv'
    BY <1>1, NetworkHops, LocalHops, FileHops DEF Download_Step, DownloadNext, TransferInv
  <2>2. FileInv'
    BY <1>1, NetworkFiles, LocalFiles, FileFiles DEF Download_Step, DownloadNext, TransferInv, HopInv
  <2>3. KeyInv' /\ SentInv'
    BY <1>1, DownloadKeeps DEF Download_Step, TransferInv
  <2>4. QED
    BY <2>1, <2>2, <2>3 DEF TransferInv
<1>2. CASE Upload_Step
  <2>1. Quiet \/ Plans \/ NoTarget \/ Post \/ Return \/ BodyStep
    BY <1>2 DEF Upload_Step, UploadStep, ServerStep, Quiet, Plans, BodyStep
  <2>2. QED
    BY <2>1, QuietKeeps, PlanKeeps, ReturnKeeps, BodyKeeps
<1>3. CASE UNCHANGED vars
  <2>1. HopInv'
    BY <1>3 DEF vars, downloadVars, diskVars, TransferInv, HopInv
  <2>2. FileInv'
    BY <1>3 DEF vars, downloadVars, diskVars, TransferInv, FileInv, Plain
  <2>3. KeyInv' /\ SentInv'
    BY <1>3, SameSent DEF vars, uploadVars, planVars, postVars, TransferInv, KeyInv
  <2>4. QED
    BY <2>1, <2>2, <2>3 DEF TransferInv
<1>4. QED
  BY <1>1, <1>2, <1>3 DEF Next, Over

LEMMA DownloadRest == ASSUME RestInv, DownloadNext, UNCHANGED uploadVars PROVE RestInv'
<1>1. dir' \in {"none", "made", "removed", "left"} /\ (Len(list') <= 1)
  <2>1. CASE NetworkStep \/ FileStep
    BY <2>1 DEF NetworkStep, Redirected, TooManyRequests, Accepted, Finished, Broke, Drained,
                DrainBreaks, FileStep, Opened, ClosingOpened, diskVars, RestInv
  <2>2. CASE LocalStep
    <3>1. dir' \in {"none", "made", "removed", "left"}
      BY <2>2 DEF LocalStep, Start, StartStream, Resolved, Unresolved, Retried, TimedOut, StreamEnds,
                  Moved, MoveFails, ListDir, EraseFile, RemoveDir, diskVars, RestInv
    <3>2. UNCHANGED list \/ \E S : list' = <<S>>
      BY <2>2 DEF LocalStep, Start, StartStream, Resolved, Unresolved, Retried, TimedOut, StreamEnds,
                  Moved, MoveFails, ListDir, EraseFile, RemoveDir, diskVars
    <3>3. Len(list') <= 1
      <4>1. CASE UNCHANGED list
        BY <4>1 DEF RestInv
      <4>2. ASSUME NEW S, list' = <<S>> PROVE Len(list') <= 1
        <5>1. Len(<<S>>) = 1
          OBVIOUS
        <5>2. QED
          BY <4>2, <5>1
      <4>3. QED
        BY <3>2, <4>1, <4>2
    <3>4. QED
      BY <3>1, <3>3
  <2>3. QED
    BY <2>1, <2>2 DEF DownloadNext
<1>2. QED
  BY <1>1 DEF RestInv, uploadVars, planVars, postVars

LEMMA BodyRest == ASSUME RestInv, BodyStep PROVE RestInv'
<1>1. UNCHANGED <<dir, list, outcome, layout, remuxed, fragmented, keys>>
  BY DEF BodyStep, Pull, Encrypt, ReadFails, BodyStops, UploadTimer, SocketError, ReplyEnds,
         ReplyBreaks, Replies, postRest, planVars, diskVars
<1>2. open' \in BOOLEAN
  <2>1. CASE Pull
    BY <2>1 DEF Pull
  <2>2. CASE ~Pull
    BY <2>2 DEF BodyStep, Encrypt, ReadFails, BodyStops, UploadTimer, SocketError, ReplyEnds,
                ReplyBreaks, Replies, Fail, RestInv
  <2>3. QED
    BY <2>1, <2>2
<1>3. reply' \in {"none", "2xx", "error"} /\ settled' \in {"no", "2xx", "error", "failed"}
  BY DEF BodyStep, Pull, Encrypt, ReadFails, BodyStops, UploadTimer, SocketError, ReplyEnds,
         ReplyBreaks, Replies, Fail, RestInv
<1>4. QED
  BY <1>1, <1>2, <1>3 DEF RestInv

LEMMA UploadRest == ASSUME RestInv, Upload_Step PROVE RestInv'
<1>1. CASE UploadStep
  <2>1. CASE \/ Quiet \/ NoTarget \/ Post \/ Return
    <3>1. UNCHANGED <<dir, list, fragmented>> /\ layout' \in Layouts \cup {NoLayout}
      BY <2>1 DEF Quiet, NoUpload, Ends, AskToken, NoToken, GotToken, Unreadable, Unscannable,
                  StartRemux, Thumbnail, ThumbErased, CleanRemux, NoTarget, Post, Return, Unwind,
                  uploadVars, planVars, postVars, diskVars, RestInv
    <3>2. remuxed' \in BOOLEAN /\ open' \in BOOLEAN
      BY <2>1 DEF Quiet, NoUpload, Ends, AskToken, NoToken, GotToken, Unreadable, Unscannable,
                  StartRemux, Thumbnail, ThumbErased, CleanRemux, NoTarget, Post, Return, Unwind,
                  uploadVars, planVars, postVars, RestInv
    <3>3. /\ outcome' \in {"none", "dropped", "stored", "failed"}
          /\ keys' \in {"none", "live", "zeroed"} /\ UNCHANGED <<reply, settled>>
      BY <2>1 DEF Quiet, NoUpload, Ends, AskToken, NoToken, GotToken, Unreadable, Unscannable,
                  StartRemux, Thumbnail, ThumbErased, CleanRemux, NoTarget, Post, Return, Unwind,
                  uploadVars, planVars, postVars, RestInv
    <3>4. QED
      BY <3>1, <3>2, <3>3 DEF RestInv
  <2>2. CASE Plans
    <3>1. UNCHANGED <<dir, list, reply, settled>> /\ remuxed' \in BOOLEAN /\ open' \in BOOLEAN
      BY <2>2 DEF Plans, NotVideo, AlreadyFragmented, Remuxed, RemuxFails, postVars, diskVars, RestInv
    <3>2. /\ layout' \in Layouts \cup {NoLayout} /\ fragmented' \in BOOLEAN
          /\ outcome' \in {"none", "dropped", "stored", "failed"}
          /\ keys' \in {"none", "live", "zeroed"}
      BY <2>2 DEF Plans, NotVideo, AlreadyFragmented, Remuxed, RemuxFails, PlanFixed, PlanFragments,
                  Plan, RestInv
    <3>3. /\ dir' \in {"none", "made", "removed", "left"} /\ (Len(list') <= 1)
          /\ reply' \in {"none", "2xx", "error"} /\ settled' \in {"no", "2xx", "error", "failed"}
      BY <3>1 DEF RestInv
    <3>4. QED
      BY <3>1, <3>2, <3>3 DEF RestInv
  <2>3. CASE BodyStep
    BY <2>3, BodyRest
  <2>4. QED
    BY <1>1, <2>1, <2>2, <2>3 DEF UploadStep, Quiet, Plans, BodyStep
<1>2. CASE ServerStep
  BY <1>2, BodyRest DEF ServerStep, BodyStep
<1>3. QED
  BY <1>1, <1>2 DEF Upload_Step

----------------------------------------------------------------------------
(* The plan.                                                                 *)

(* Whatever the file, what uploadFile cuts it into covers it.                *)
LEMMA FragmentPlan ==
  ASSUME NEW l \in Layout
  PROVE  LET segs == Merge(Scan(l))
         IN /\ Tiles(segs, 0, Size(l))
            /\ Moofs(l) # <<>> =>
                 /\ segs[1].size = Moofs(l)[1]
                 /\ \A i \in 2..Len(segs) : Whole(segs[i], ToSet(Moofs(l)))
<1>1. Tiles(Scan(l), 0, Size(l))
  BY ScanTiles
<1>2. CASE Moofs(l) = <<>>
  <2>1. Merge(Scan(l)) = Scan(l)
    <3>1. Len(Scan(l)) = 1
      BY <1>2, ScanTiles
    <3>2. QED
      BY <3>1 DEF Merge
  <2>2. QED
    BY <1>1, <1>2, <2>1
<1>3. CASE Moofs(l) # <<>>
  <2>1. Scan(l)[1].size = Moofs(l)[1] /\ \A i \in 2..Len(Scan(l)) : Whole(Scan(l)[i], ToSet(Moofs(l)))
    BY <1>3, ScanTiles
  <2>2. QED
    BY <1>1, <2>1, MergeTiles
<1>4. QED
  BY <1>2, <1>3

(* A step that leaves the plan and the body alone.                           *)
LEMMA SamePlan ==
  ASSUME PlanInv, UNCHANGED <<layout, segments, fragmented, sent, body>>,
         phase' \in Early => phase \in Early,
         phase' \in Planned => phase \in Planned
  PROVE  PlanInv'
BY DEF PlanInv

LEMMA QuietPlan == ASSUME TransferInv, PlanInv, Quiet PROVE PlanInv'
<1>1. CASE GotToken
  <2>1. /\ UNCHANGED <<outcome, segments, fragmented, sent, body>> /\ layout' \in Layouts
        /\ phase = "refreshing" /\ phase' = "scanning"
    BY <1>1 DEF GotToken, postVars
  <2>2. segments = <<>> /\ layout' \in Layout
    BY <2>1, UploadAssumption DEF PlanInv, Early
  <2>3. phase' \notin Planned
    BY <2>1 DEF Planned, Sealed
  <2>4. QED
    BY <2>1, <2>2, <2>3 DEF PlanInv
<1>2. CASE ~GotToken
  <2>1. /\ UNCHANGED <<layout, segments, fragmented, sent, body>>
    BY <1>2 DEF Quiet, NoUpload, Ends, AskToken, NoToken, Unreadable, Unscannable, StartRemux,
                Thumbnail, ThumbErased, CleanRemux, uploadVars, planVars, postVars
  <2>2. (phase' \in Early => phase \in Early) /\ (phase' \in Planned => phase \in Planned)
    BY <1>2 DEF Quiet, NoUpload, Ends, AskToken, NoToken, Unreadable, Unscannable, Scannable, StartRemux,
                Thumbnail, ThumbErased, CleanRemux, Early, Sealed, Planned
  <2>3. QED
    BY <2>1, <2>2, SamePlan
<1>3. QED
  BY <1>1, <1>2

LEMMA PlansPlan == ASSUME TransferInv, PlanInv, Plans PROVE PlanInv'
<1>1. /\ UNCHANGED <<body, sent>> /\ phase \in Early /\ phase \notin {"posting"}
      /\ phase' \in {"cleaning", "thumbnail"}
      /\ phase' = "thumbnail" => ~(Len(segments') > MaxChunks)
  BY DEF Plans, Scannable, NotVideo, AlreadyFragmented, Remuxed, RemuxFails, PlanFixed, PlanFragments,
         Plan, postVars, Early
<1>2. layout \in Layout /\ layout' \in Layout
  BY UploadAssumption
  DEF PlanInv, Plans, NotVideo, AlreadyFragmented, Remuxed, RemuxFails, PlanFixed, PlanFragments, Plan
<1>3. /\ Tiles(segments', 0, Size(layout'))
      /\ (fragmented' /\ Moofs(layout') # <<>>) =>
           /\ segments'[1].size = Moofs(layout')[1]
           /\ \A i \in 2..Len(segments') : Whole(segments'[i], ToSet(Moofs(layout')))
  <2>1. CASE NotVideo \/ RemuxFails
    <3>1. ~fragmented' /\ layout' = layout /\ segments' = FixedSegments(Size(layout))
      BY <2>1 DEF NotVideo, RemuxFails, PlanFixed, Plan
    <3>2. Size(layout) \in Nat
      BY <1>2, MoofsRise DEF Rising
    <3>3. QED
      BY <3>1, <3>2, FixedTiles
  <2>2. CASE AlreadyFragmented \/ Remuxed
    <3>1. segments' = Merge(Scan(layout'))
      BY <2>2 DEF AlreadyFragmented, Remuxed, PlanFragments, Plan
    <3>2. QED
      BY <3>1, <1>2, FragmentPlan
  <2>3. QED
    BY <2>1, <2>2 DEF Plans
<1>4. body = "idle" /\ sent = <<>>
  BY <1>1 DEF TransferInv, KeyInv, SentInv
<1>5. segments' \in Seq(Segment) /\ Len(segments') > 0 /\ Len(segments') \in Nat /\ segments' # <<>>
  BY <1>3 DEF Tiles
<1>6. Len(segments') <= MaxChunks \/ phase' = "cleaning"
  BY <1>1, <1>5, UploadAssumption
<1>7. /\ phase' \notin Early /\ body' = "idle"
      /\ phase' \in Planned => Len(segments') <= MaxChunks
  BY <1>1, <1>4, <1>6 DEF Early, Planned, Sealed
<1>8. Len(sent') <= Len(segments') /\ body' # "reading"
  BY <1>1, <1>4, <1>5
<1>9. QED
  BY <1>2, <1>3, <1>5, <1>7, <1>8 DEF PlanInv

LEMMA BodyPlan == ASSUME TransferInv, PlanInv, BodyStep PROVE PlanInv'
<1>1. UNCHANGED <<phase, layout, segments, fragmented>> /\ body # "idle"
  <2>1. UNCHANGED <<phase, layout, segments, fragmented>>
    BY DEF BodyStep, Pull, Encrypt, ReadFails, BodyStops, UploadTimer, SocketError, ReplyEnds,
           ReplyBreaks, Replies, Fail, postRest, planVars
  <2>2. body # "idle"
    BY DEF BodyStep, Pull, Encrypt, ReadFails, BodyStops, UploadTimer, SocketError, ReplyEnds,
           ReplyBreaks, Replies, TransferInv, KeyInv, SentInv
  <2>3. QED
    BY <2>1, <2>2
<1>2. Len(sent') <= Len(segments) /\ (body' = "reading" => Len(sent') < Len(segments))
  <2>1. CASE Encrypt
    <3>1. /\ body = "reading" /\ body' = "waiting" /\ sent' = Append(sent, Frame(Len(sent) + 1))
      BY <2>1 DEF Encrypt
    <3>2. Len(sent) \in Nat /\ Frame(Len(sent) + 1) \in Frames /\ sent \in Seq(Frames)
      BY DEF TransferInv, SentInv, Frames
    <3>3. Len(sent') = Len(sent) + 1
      BY <3>1, <3>2, AppendProperties
    <3>4. Len(segments) \in Nat /\ Len(sent) < Len(segments)
      BY <3>1 DEF PlanInv
    <3>5. QED
      BY <3>1, <3>2, <3>3, <3>4
  <2>2. CASE ~Encrypt
    BY <2>2 DEF BodyStep, Pull, ReadFails, BodyStops, UploadTimer, SocketError, ReplyEnds,
                ReplyBreaks, Replies, Fail, PlanInv
  <2>3. QED
    BY <2>1, <2>2
<1>3. QED
  BY <1>1, <1>2 DEF PlanInv

LEMMA PlanKept == ASSUME TransferInv, PlanInv, [Next]_vars PROVE PlanInv'
<1>1. CASE Download_Step
  <2>1. UNCHANGED <<layout, segments, fragmented, sent, body, outcome>>
    BY <1>1 DEF Download_Step, uploadVars, planVars, postVars
  <2>2. (phase' \in Early => phase \in Early) /\ (phase' \in Planned => phase \in Planned)
    BY <1>1, DownloadPhases DEF Download_Step, Early, Planned, Sealed
  <2>3. QED
    BY <2>1, <2>2, SamePlan
<1>2. CASE NoTarget \/ Return
  <2>1. UNCHANGED <<layout, segments, fragmented, sent, body>> /\ phase \in Planned /\ phase' = "cleaning"
    BY <1>2 DEF NoTarget, Return, Unwind, planVars, postVars, Planned, Sealed
  <2>2. phase' \notin Early \cup Planned
    BY <2>1 DEF Early, Planned, Sealed
  <2>3. QED
    BY <2>1, <2>2, SamePlan
<1>3. CASE Post
  <2>1. /\ UNCHANGED <<outcome, layout, segments, fragmented, sent>> /\ body' = "waiting"
        /\ phase = "probing" /\ phase' = "posting"
    BY <1>3 DEF Post, planVars
  <2>2. phase \in Planned /\ phase' \notin Early
    BY <2>1 DEF Early, Planned, Sealed
  <2>3. QED
    BY <2>1, <2>2 DEF PlanInv
<1>4. CASE Quiet \/ Plans \/ BodyStep
  BY <1>4, QuietPlan, PlansPlan, BodyPlan
<1>5. CASE UNCHANGED vars
  <2>1. UNCHANGED <<phase, outcome, layout, segments, fragmented, sent, body>>
    BY <1>5 DEF vars, uploadVars, planVars, postVars
  <2>2. QED
    BY <2>1, SamePlan
<1>6. QED
  BY <1>1, <1>2, <1>3, <1>4, <1>5
  DEF Next, Over, Upload_Step, UploadStep, ServerStep, Quiet, Plans, BodyStep

----------------------------------------------------------------------------
(* The invariant of a transfer: requests, files, keys and what was sent.     *)
THEOREM TransferInvariant == Spec => []TransferInv
<1>1. TransferInv /\ [Next]_vars => TransferInv'
  BY StepKeeps
<1>2. QED
  BY InitInv, <1>1, PTL DEF Spec

(* Every variable has its type; a download makes at most MaxRetries retries  *)
(* and at most MaxHops requests per attempt.                                 *)
THEOREM TypeCorrect == Spec => []TypeOK
<1>1. Init => RestInv
  <2>1. Init => list = <<>> /\ Len(list) = 0
    BY DEF Init, DownloadInit
  <2>2. Init => open \in BOOLEAN /\ remuxed \in BOOLEAN /\ fragmented \in BOOLEAN
    BY DEF Init, UploadInit
  <2>3. QED
    BY <2>1, <2>2 DEF Init, DownloadInit, UploadInit, RestInv
<1>2. RestInv /\ [Next]_vars => RestInv'
  BY DownloadRest, UploadRest
  DEF Next, Over, Download_Step, vars, uploadVars, planVars, postVars, diskVars, RestInv
<1>3. TransferInv /\ RestInv => TypeOK
  <2>1. ASSUME TransferInv, RestInv PROVE TypeOK
    <3>1. \A i \in DOMAIN hops : hops[i] \in HopAt
      BY <2>1 DEF TransferInv, HopInv
    <3>2. first \in 1..(Len(hops) + 1) /\ Len(hops) - first < MaxHops
      BY <2>1, DownloadAssumption DEF TransferInv, HopInv
    <3>3. QED
      BY <2>1, <3>1, <3>2 DEF TransferInv, HopInv, FileInv, KeyInv, RestInv, TypeOK
  <2>2. QED
    BY <2>1
<1>4. QED
  BY <1>1, <1>2, <1>3, TransferInvariant, PTL DEF Spec

(* No chunk is produced after the keys were zeroed: darkreelPost settles     *)
(* only when the body has stopped, for any file and any limit.               *)
THEOREM KeysLiveLongEnough == Spec => []KeysOutliveBody
<1>1. TransferInv => KeysOutliveBody
  BY DEF TransferInv, KeyInv, KeysOutliveBody
<1>2. QED
  BY <1>1, TransferInvariant, PTL

(* Nothing readable is left when a job is over, however often its download   *)
(* was redirected and retried and however late its files were opened, unless *)
(* a rejected download left a hop under way.                                 *)
THEOREM NoPlaintextStays == Spec => []PlaintextGone
<1>1. TransferInv => PlaintextGone
  BY DEF TransferInv, FileInv, PlaintextGone, Plain
<1>2. QED
  BY <1>1, TransferInvariant, PTL

(* What is uploaded is planned: the segments cover the file from its first   *)
(* byte to its last, within the server's limit.                              *)
THEOREM PlanInvariant == Spec => []PlanInv
<1>1. Init => PlanInv
  <2>1. ASSUME Init PROVE PlanInv
    <3>1. /\ layout = NoLayout /\ segments = <<>> /\ sent = <<>> /\ body = "idle"
          /\ phase = "queued" /\ outcome = "none"
      BY <2>1 DEF Init, DownloadInit, UploadInit
    <3>2. NoLayout \in Layout
      BY DEF NoLayout, Layout
    <3>3. Len(<<>>) <= Len(<<>>) /\ <<>> \in Seq(Segment) /\ phase \notin Planned
      BY <3>1 DEF Planned, Sealed
    <3>4. QED
      BY <3>1, <3>2, <3>3 DEF PlanInv
  <2>2. QED
    BY <2>1
<1>2. TransferInv /\ PlanInv /\ [Next]_vars => PlanInv'
  BY PlanKept
<1>3. QED
  BY <1>1, <1>2, TransferInvariant, PTL DEF Spec

(* What Darkreel is sent is the file from its first byte on, in chunks that   *)
(* follow one another without a gap and each in a ciphertext that holds it,  *)
(* and it is the whole file, flagged, if the body came to its end: for every *)
(* file, however its boxes lie, every size of a bucket and every moment at   *)
(* which a timer, an answer or an error came.                                *)
THEOREM TheFileIsSent == Spec => []SentIsTheFile
<1>1. ASSUME TransferInv, PlanInv, body = "idle"
      PROVE  SentIsTheFile
  <2>1. sent = <<>> /\ Len(sent) = 0 /\ DOMAIN sent = {}
    BY <1>1 DEF TransferInv, SentInv
  <2>2. QED
    BY <1>1, <2>1, UploadAssumption DEF SentIsTheFile
<1>2. ASSUME TransferInv, PlanInv, body # "idle"
      PROVE  SentIsTheFile
  <2>1. /\ sent \in Seq(Frames) /\ (body = "sent" => ~(Len(sent) < Len(segments)))
        /\ \A i \in 1..Len(sent) : sent[i] = Frame(i)
    BY <1>2 DEF TransferInv, SentInv
  <2>2. Tiles(segments, 0, Size(layout)) /\ Len(segments) <= MaxChunks /\ Len(sent) <= Len(segments)
    BY <1>2 DEF PlanInv
  <2>3. /\ Len(sent) \in Nat /\ Len(segments) \in Nat /\ Len(segments) > 0 /\ MaxChunks \in Nat
        /\ DOMAIN sent = 1..Len(sent)
    BY <2>1, <2>2, UploadAssumption DEF Tiles
  <2>4. ASSUME NEW i \in 1..Len(sent)
        PROVE  /\ sent[i].index = i - 1 /\ sent[i].last = (i = Len(segments))
               /\ sent[i].offset = segments[i].offset /\ sent[i].size = segments[i].size
               /\ sent[i].ciphertext = Ciphertext(segments[i].size)
               /\ segments[i].size \in Nat
    <3>1. sent[i] = Frame(i) /\ segments[i] \in Segment
      BY <2>1, <2>2, <2>3 DEF Tiles
    <3>2. QED
      BY <3>1 DEF Frame, Segment
  <2>5. ASSUME NEW i \in 1..Len(sent)
        PROVE  sent[i].offset = IF i = 1 THEN 0 ELSE sent[i - 1].offset + sent[i - 1].size
    <3>1. CASE i = 1
      BY <3>1, <2>2, <2>4 DEF Tiles
    <3>2. CASE i # 1
      <4>1. i - 1 \in 1..Len(sent) /\ i - 1 \in 1..(Len(segments) - 1)
        BY <3>2, <2>2, <2>3
      <4>2. segments[(i - 1) + 1].offset = segments[i - 1].offset + segments[i - 1].size
        BY <4>1, <2>2 DEF Tiles, After
      <4>3. QED
        BY <3>2, <4>1, <4>2, <2>4
    <3>3. QED
      BY <3>1, <3>2
  <2>6. ASSUME NEW i \in 1..Len(sent), i = Len(segments)
        PROVE  i = Len(sent) /\ sent[i].offset + sent[i].size = Size(layout)
    <3>1. segments[i].offset + segments[i].size = Size(layout)
      BY <2>2, <2>6 DEF Tiles, After
    <3>2. ~(Len(sent) < Len(segments))
      BY <2>3, <2>6
    <3>3. Len(sent) = Len(segments)
      BY <3>2, <2>2, <2>3
    <3>4. QED
      BY <3>1, <3>3, <2>4, <2>6
  <2>7. ASSUME NEW i \in 1..Len(sent)
        PROVE  sent[i].ciphertext >= sent[i].size + Overhead
    BY <2>4, CiphertextHolds
  <2>8. ASSUME body = "sent"
        PROVE  sent # <<>> /\ Last(sent).last
    <3>1. Len(sent) = Len(segments) /\ Len(sent) \in 1..Len(sent)
      BY <2>1, <2>2, <2>3, <2>8
    <3>2. sent # <<>> /\ sent[Len(sent)].last = TRUE
      <4>1. sent[Len(sent)].last = (Len(sent) = Len(segments))
        BY <3>1, <2>4
      <4>2. sent[Len(sent)].last = TRUE
        BY <4>1, <3>1, Zenon
      <4>3. Len(sent) > 0
        BY <3>1, <2>3
      <4>4. sent # <<>>
        BY <4>3
      <4>5. QED
        BY <4>2, <4>4
    <3>3. QED
      BY <3>2 DEF Last
  <2>9. Len(sent) <= MaxChunks
    BY <2>2, <2>3
  <2>10. QED
    BY <2>3, <2>4, <2>5, <2>6, <2>7, <2>8, <2>9 DEF SentIsTheFile
<1>3. TransferInv /\ PlanInv => SentIsTheFile
  BY <1>1, <1>2
<1>4. QED
  BY <1>3, TransferInvariant, PlanInvariant, PTL

(* Darkreel's player can cut a fragmented file at its chunks: every chunk but *)
(* the init segment starts at a moof, and one that needs more than a bucket  *)
(* holds a single fragment; mergeSegments never joins past a bucket.         *)
THEOREM FragmentsArePlayable == Spec => []FragmentsStartAtMoof
<1>1. TransferInv /\ PlanInv => FragmentsStartAtMoof
  <2> DEFINE m == ToSet(Moofs(layout))
  <2>1. SUFFICES ASSUME TransferInv, PlanInv, fragmented, Moofs(layout) # <<>>
                 PROVE  /\ \A i \in DOMAIN sent : i = 1 \/ sent[i].offset \in m
                        /\ \A i \in DOMAIN sent : i # 1 /\ sent[i].ciphertext > Mib =>
                             m \cap (sent[i].offset + 1)..(sent[i].offset + sent[i].size - 1) = {}
                        /\ sent # <<>> => sent[1].size = Moofs(layout)[1]
    BY DEF FragmentsStartAtMoof
  <2>2. sent \in Seq(Frames) /\ \A i \in 1..Len(sent) : sent[i] = Frame(i)
    BY <2>1 DEF TransferInv, SentInv
  <2>3. Len(sent) <= Len(segments) /\ segments \in Seq(Segment)
    BY <2>1 DEF PlanInv
  <2>4. ASSUME NEW i \in DOMAIN sent
        PROVE  /\ i \in 1..Len(segments) /\ segments[i] \in Segment
               /\ sent[i].offset = segments[i].offset /\ sent[i].size = segments[i].size
               /\ sent[i].ciphertext = Ciphertext(segments[i].size)
    <3>1. i \in 1..Len(sent) /\ i \in 1..Len(segments) /\ segments[i] \in Segment
      BY <2>2, <2>3
    <3>2. sent[i] = Frame(i)
      BY <3>1, <2>2
    <3>3. QED
      BY <3>1, <3>2 DEF Frame
  <2>5. ASSUME NEW i \in DOMAIN sent
        PROVE  /\ segments[1].size = Moofs(layout)[1]
               /\ i # 1 => Whole(segments[i], m)
    <3>1. i \in 1..Len(segments) /\ segments # <<>>
      BY <2>3, <2>4
    <3>2. i # 1 => i \in 2..Len(segments)
      BY <3>1, <2>3
    <3>3. QED
      BY <3>1, <3>2, <2>1 DEF PlanInv
  <2> HIDE DEF m
  <2>6. ASSUME NEW i \in DOMAIN sent, i # 1
        PROVE  sent[i].offset \in m
    BY <2>4, <2>5, <2>6 DEF Whole
  <2>7. ASSUME NEW i \in DOMAIN sent, i # 1, sent[i].ciphertext > Mib
        PROVE  m \cap (sent[i].offset + 1)..(sent[i].offset + sent[i].size - 1) = {}
    <3>1. segments[i].size \in Nat /\ Mib \in Nat /\ ChunkData \in Nat
      BY <2>4, UploadAssumption, ChunkDataPositive DEF Segment
    <3>2. ~(segments[i].size <= ChunkData)
      <4>1. segments[i].size <= ChunkData => Ciphertext(segments[i].size) = Mib
        BY <3>1, CiphertextHolds
      <4>2. sent[i].ciphertext = Ciphertext(segments[i].size)
        BY <2>4
      <4>3. QED
        BY <3>1, <4>1, <4>2, <2>7
    <3>3. Whole(segments[i], m)
      BY <2>5, <2>7
    <3>4. m \cap (segments[i].offset + 1)..(After(segments[i]) - 1) = {}
      BY <3>2, <3>3 DEF Whole
    <3>5. /\ sent[i].offset = segments[i].offset /\ sent[i].size = segments[i].size
          /\ segments[i].offset \in Nat
      BY <2>4 DEF Segment
    <3>6. (sent[i].offset + 1)..(sent[i].offset + sent[i].size - 1)
            = (segments[i].offset + 1)..(After(segments[i]) - 1)
      BY <3>1, <3>5 DEF After
    <3>7. QED
      BY <3>4, <3>6
  <2>8. ASSUME sent # <<>>
        PROVE  sent[1].size = Moofs(layout)[1]
    <3>1. 1 \in DOMAIN sent
      BY <2>2, <2>8
    <3>2. QED
      BY <3>1, <2>4, <2>5
  <2>9. QED
    BY <2>6, <2>7, <2>8
<1>2. QED
  BY <1>1, TransferInvariant, PlanInvariant, PTL
=============================================================================
