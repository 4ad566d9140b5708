------------------------------- MODULE Upload -------------------------------
(***************************************************************************)
(* What the job does with the file it downloaded: uploadStep of            *)
(* jobs/pipeline.ts, uploadToDarkreel, uploadFile of darkreel/client.ts    *)
(* and darkreelPost of darkreel/http.ts.                                   *)
(*                                                                         *)
(* A media file is the sequence of its top-level boxes.                    *)
(***************************************************************************)
EXTENDS Download, SequencesExt

CONSTANTS
  Mib,       \* MIB
  Overhead,  \* FRAME_HEADER + GCM_OVERHEAD
  MaxChunks, \* the server's limit
  Layouts    \* the media files considered

ChunkData == Mib - Overhead      \* CHUNK_DATA_SIZE

\* The file ends in tail bytes that are no box.
Box    == [moof : BOOLEAN, size : Nat \ {0}]
Layout == [boxes : Seq(Box), tail : Nat]

ASSUME UploadAssumption ==
  /\ Mib \in Nat /\ Overhead \in Nat /\ Overhead < Mib /\ MaxChunks \in Nat \ {0}
  /\ \A l \in Layouts : l \in Layout

VARIABLES
  outcome,    \* of the job: "none", "dropped" (nothing configured), "stored" or "failed"
  layout,     \* of the file to upload
  segments,   \* what uploadFile cuts it into
  remuxed,    \* the file is the copy made by ffmpeg
  fragmented,
  keys,       \* the file's three keys: "none", "live" or "zeroed"
  body,       \* multipartBody: "idle", "waiting" at a yield, "reading", "sent", "stopped"
  sent,       \* the frames produced so far
  open,       \* the request is neither ended nor destroyed
  reply,      \* the server's status: "none", "2xx" or "error"
  settled     \* of darkreelPost: "no", or the answer

planVars   == <<layout, segments, remuxed, fragmented>>
postVars   == <<body, sent, open, reply, settled>>
uploadVars == <<outcome, planVars, keys, postVars>>

NoLayout == [boxes |-> <<>>, tail |-> 0]

UploadInit ==
  /\ outcome = "none" /\ layout = NoLayout /\ segments = <<>>
  /\ remuxed = FALSE /\ fragmented = FALSE /\ keys = "none"
  /\ body = "idle" /\ sent = <<>> /\ open = FALSE /\ reply = "none" /\ settled = "no"

----------------------------------------------------------------------------
(* The segments of a file. *)

\* The loop of scanFMP4Segments after n boxes: where the next one starts, and where
\* the moofs did.
Walk(l) ==
  LET after[n \in 0..Len(l.boxes)] ==
        IF n = 0 THEN [pos |-> 0, moofs |-> <<>>]
        ELSE LET p == after[n - 1]
                 b == l.boxes[n]
             IN [pos   |-> p.pos + b.size,
                 moofs |-> IF b.moof THEN Append(p.moofs, p.pos) ELSE p.moofs]
  IN after

Moofs(l) == Walk(l)[Len(l.boxes)].moofs
Size(l)  == Walk(l)[Len(l.boxes)].pos + l.tail

\* scanFMP4Segments: what precedes the first moof, then one segment per moof.
Scan(l) ==
  LET m   == Moofs(l)
      End(i) == IF i < Len(m) THEN m[i + 1] ELSE Size(l)
  IN IF m = <<>> THEN <<[offset |-> 0, size |-> Size(l)]>>
     ELSE <<[offset |-> 0, size |-> m[1]]>>
          \o [i \in DOMAIN m |-> [offset |-> m[i], size |-> End(i) - m[i]]]

Joins(cur, s) == s.offset = cur.offset + cur.size /\ cur.size + s.size <= ChunkData

\* Mutant: a chunk that is full is not started over, its rest is dropped.
MergeOne_Drops(out, s) ==
  LET cur == Last(out)
  IN IF Joins(cur, s) THEN out ELSE Append(out, s)

\* One fragment more: into the last chunk, or a chunk of its own.
MergeOne(out, s) ==
  LET cur == Last(out)
  IN IF Joins(cur, s) THEN Append(Front(out), [cur EXCEPT !.size = @ + s.size])
                      ELSE Append(out, s)

\* The chunks after the init segment, once n more fragments are in.
Merged(segs) ==
  LET out[n \in 0..(Len(segs) - 2)] ==
        IF n = 0 THEN <<segs[2]>> ELSE MergeOne(out[n - 1], segs[n + 2])
  IN out

\* Mutant: the init segment is merged like the others.
Merge_Init(segs) ==
  LET out[n \in 0..(Len(segs) - 1)] ==
        IF n = 0 THEN <<segs[1]>> ELSE MergeOne(out[n - 1], segs[n + 1])
  IN IF Len(segs) <= 2 THEN segs ELSE out[Len(segs) - 1]

\* mergeSegments; the init segment stays alone.
Merge(segs) == IF Len(segs) <= 2 THEN segs
               ELSE <<segs[1]>> \o Merged(segs)[Len(segs) - 2]

\* makeFixedSegments.
FixedSegments(n) ==
  IF n = 0 THEN <<[offset |-> 0, size |-> 0]>>
  ELSE [i \in 1..((n + ChunkData - 1) \div ChunkData) |->
          [offset |-> (i - 1) * ChunkData,
           size   |-> IF i * ChunkData <= n THEN ChunkData ELSE n - (i - 1) * ChunkData]]

\* chunkCiphertextSize: 1, 2, 4, 8 or 16 buckets, then whole ones.
Ciphertext(n) ==
  LET need  == n + Overhead
      fits  == {b \in {1, 2, 4, 8, 16} : need <= b * Mib}
  IN IF fits # {} THEN Mib * (CHOOSE b \in fits : \A c \in fits : b <= c)
     ELSE Mib * ((need + Mib - 1) \div Mib)

----------------------------------------------------------------------------
(* uploadStep and the access token. *)

\* The job's finally: the directory goes whatever happened.
Ends(how) ==
  /\ phase' = "erasing" /\ outcome' = how
  /\ UNCHANGED <<planVars, keys, postVars, downloadVars, diskVars>>

\* The job was failed meanwhile, its session is gone, or nothing is configured.
NoUpload(how) == phase = "downloaded" /\ how \in {"none", "failed", "dropped"} /\ Ends(how)

AskToken ==
  /\ phase = "downloaded" /\ phase' = "refreshing"
  /\ UNCHANGED <<uploadVars, downloadVars, diskVars>>

\* Revoked, unreachable, too slow, or a reply out of contract.
NoToken == phase = "refreshing" /\ Ends("failed")

GotToken ==
  /\ phase = "refreshing" /\ phase' = "scanning"
  /\ \E l \in Layouts : layout' = l
  /\ UNCHANGED <<outcome, segments, remuxed, fragmented, keys, postVars, downloadVars, diskVars>>

----------------------------------------------------------------------------
(* uploadFile up to the request. *)

\* The chunks of l; too many are refused before any key is made.
Plan(l, isFragmented, how) ==
  /\ layout' = l /\ fragmented' = isFragmented
  /\ segments' = how
  /\ IF Len(how) > MaxChunks
     THEN /\ phase' = "cleaning" /\ outcome' = "failed" /\ UNCHANGED keys
     ELSE /\ phase' = "thumbnail" /\ keys' = "live" /\ UNCHANGED outcome

PlanFragments(l) == Plan(l, TRUE, Merge(Scan(l)))
PlanFixed        == Plan(layout, FALSE, FixedSegments(Size(layout)))

\* stat or open fails, or the file is empty: only a file with bytes goes on.
Unreadable == phase = "scanning" /\ Ends("failed")
Scannable  == phase = "scanning" /\ Size(layout) > 0

\* The file to send cannot be read after all: the copy, if it was made, goes.
Unscannable ==
  /\ Scannable \/ phase = "remuxing"
  /\ phase' = "cleaning" /\ outcome' = "failed"
  /\ remuxed' \in {FALSE, files["remux"] = "plain"}
  /\ UNCHANGED <<layout, segments, fragmented, keys, postVars, downloadVars, diskVars>>

\* By its name the file is an image or another file.
NotVideo ==
  /\ Scannable
  /\ PlanFixed
  /\ UNCHANGED <<remuxed, postVars, downloadVars, diskVars>>

AlreadyFragmented ==
  /\ Scannable /\ Len(Scan(layout)) > 1
  /\ PlanFragments(layout)
  /\ UNCHANGED <<remuxed, postVars, downloadVars, diskVars>>

\* ffmpeg may have opened its output or not.
StartRemux(opened) ==
  /\ Scannable /\ Len(Scan(layout)) <= 1
  /\ phase' = "remuxing"
  /\ files' = IF opened THEN Made("remux", "plain") ELSE files
  /\ UNCHANGED <<uploadVars, downloadVars, dir, list>>

\* ffmpeg's result is any file; expected are fragments.
Remuxed ==
  /\ phase = "remuxing" /\ files["remux"] = "plain"
  /\ \E l \in Layouts : PlanFragments(l)
  /\ remuxed' = TRUE
  /\ UNCHANGED <<postVars, downloadVars, diskVars>>

\* It fails or is killed by its timer: the file as it is.
RemuxFails ==
  /\ phase = "remuxing"
  /\ PlanFixed
  /\ UNCHANGED <<remuxed, postVars, downloadVars, diskVars>>

\* generateThumbnail, its finally, then the probes.
Thumbnail(made) ==
  /\ phase = "thumbnail" /\ phase' = "unthumb"
  /\ files' = IF made THEN Made("thumb", "plain") ELSE files
  /\ UNCHANGED <<uploadVars, downloadVars, dir, list>>

ThumbErased ==
  /\ phase = "unthumb" /\ phase' = "probing"
  /\ files' = [files EXCEPT !["thumb"] = "absent"]
  /\ UNCHANGED <<uploadVars, downloadVars, dir, list>>

\* Both finally blocks of uploadFile.
Unwind(how) == keys' = "zeroed" /\ phase' = "cleaning" /\ outcome' = how

\* The thumbnail is too large for its frame, or resolveDarkreelTarget refuses.
NoTarget ==
  /\ phase = "probing" /\ Unwind("failed")
  /\ UNCHANGED <<planVars, postVars, downloadVars, diskVars>>

Post ==
  /\ phase = "probing" /\ phase' = "posting"
  /\ open' = TRUE /\ body' = "waiting"
  /\ UNCHANGED <<outcome, planVars, keys, sent, reply, settled, downloadVars, diskVars>>

----------------------------------------------------------------------------
(* multipartBody and darkreelPost. *)

postRest == <<outcome, planVars, downloadVars, diskVars>>

\* The request pulls the next part; past the last chunk it is ended.
Pull ==
  /\ body = "waiting" /\ open
  /\ body' = IF Len(sent) < Len(segments) THEN "reading" ELSE "sent"
  /\ open' = (Len(sent) < Len(segments))
  /\ UNCHANGED <<phase, keys, sent, reply, settled, postRest>>

Frame(i) ==
  [index |-> i - 1, offset |-> segments[i].offset, size |-> segments[i].size,
   last |-> (i = Len(segments)), ciphertext |-> Ciphertext(segments[i].size)]

\* The read is over: the chunk is framed and encrypted, wanted or not.
Encrypt ==
  /\ body = "reading" /\ body' = "waiting"
  /\ sent' = Append(sent, Frame(Len(sent) + 1))
  /\ UNCHANGED <<phase, keys, open, reply, settled, postRest>>

\* fail(err): the request is destroyed, the first result stands.
Fail == open' = FALSE /\ settled' = IF settled = "no" THEN "failed" ELSE settled

\* A short read or no memory: the body's error ends the request, and the call
\* unless a response is in.
ReadFails ==
  /\ body = "reading" /\ body' = "stopped"
  /\ IF reply = "none" THEN Fail ELSE open' = FALSE /\ UNCHANGED settled
  /\ UNCHANGED <<phase, keys, sent, reply, postRest>>

\* The destroyed stream calls the generator's return(), which runs after a read.
BodyStops ==
  /\ body = "waiting" /\ ~open /\ body' = "stopped"
  /\ UNCHANGED <<phase, keys, sent, open, reply, settled, postRest>>

\* The server answers at any time, with any status, a 2xx in mid-body included.
Replies(s) ==
  /\ phase = "posting" /\ settled = "no" /\ reply = "none"
  /\ open \/ body = "sent"
  /\ reply' = s
  /\ UNCHANGED <<phase, keys, body, sent, open, settled, postRest>>

\* The response is complete; what is not sent yet will not be.
ReplyEnds ==
  /\ settled = "no" /\ reply # "none"
  /\ settled' = reply /\ open' = FALSE
  /\ UNCHANGED <<phase, keys, body, sent, reply, postRest>>

\* The response is too large or cut off.
ReplyBreaks ==
  /\ settled = "no" /\ reply # "none"
  /\ Fail
  /\ UNCHANGED <<phase, keys, body, sent, reply, postRest>>

\* The connection is refused or breaks.
SocketError ==
  /\ phase = "posting" /\ settled = "no"
  /\ IF reply = "none" THEN Fail ELSE open /\ open' = FALSE /\ UNCHANGED settled
  /\ UNCHANGED <<phase, keys, body, sent, reply, postRest>>

UploadTimer ==
  /\ phase = "posting" /\ settled = "no"
  /\ Fail
  /\ UNCHANGED <<phase, keys, body, sent, reply, postRest>>

\* Mutant: the promise settles with the response, the body still running.
Return_Early ==
  /\ phase = "posting" /\ settled # "no"
  /\ Unwind(IF settled = "2xx" THEN "stored" ELSE "failed")
  /\ UNCHANGED <<planVars, postVars, downloadVars, diskVars>>

\* bodyDone.then: uploadFile goes on when the body stopped.
Return ==
  /\ phase = "posting" /\ settled # "no" /\ body \in {"sent", "stopped"}
  /\ Unwind(IF settled = "2xx" THEN "stored" ELSE "failed")
  /\ UNCHANGED <<planVars, postVars, downloadVars, diskVars>>

\* cleanupRemux, if the copy was made.
CleanRemux ==
  /\ phase = "cleaning" /\ phase' = "erasing"
  /\ files' = IF remuxed THEN [files EXCEPT !["remux"] = "absent"] ELSE files
  /\ UNCHANGED <<uploadVars, downloadVars, dir, list>>

----------------------------------------------------------------------------
\* What happens by itself; Pull and the server's answers need not.
UploadStep ==
  \/ \E how \in {"none", "failed", "dropped"} : NoUpload(how)
  \/ AskToken \/ NoToken \/ GotToken
  \/ Unreadable \/ Unscannable \/ NotVideo \/ AlreadyFragmented \/ Remuxed \/ RemuxFails
  \/ \E b \in BOOLEAN : StartRemux(b) \/ Thumbnail(b)
  \/ ThumbErased \/ NoTarget \/ Post
  \/ Encrypt \/ ReadFails \/ BodyStops \/ UploadTimer \/ Return \/ CleanRemux

ServerStep == Pull \/ SocketError \/ ReplyEnds \/ ReplyBreaks \/ \E s \in {"2xx", "error"} : Replies(s)
=============================================================================
