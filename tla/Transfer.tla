------------------------------ MODULE Transfer ------------------------------
(***************************************************************************)
(* One job's media from the site to Darkreel: Download and Upload, from    *)
(* downloadVideo to the secureRemoveDir of processJob's finally.           *)
(***************************************************************************)
EXTENDS Upload

vars == <<phase, downloadVars, diskVars, uploadVars>>

Init == DownloadInit /\ UploadInit

Download_Step == DownloadNext /\ UNCHANGED uploadVars
Upload_Step   == UploadStep \/ ServerStep

Over == phase = "over" /\ UNCHANGED vars

Next == Download_Step \/ Upload_Step \/ Over

\* Timers run out, the resolver answers, local steps go on.  The site and
\* Darkreel owe nothing, nor does the system draw on the body.
Fairness ==
  /\ WF_vars(LocalStep /\ UNCHANGED uploadVars)
  /\ WF_vars(FileStep /\ UNCHANGED uploadVars)
  /\ WF_vars(UploadStep)

Spec == Init /\ [][Next]_vars /\ Fairness

----------------------------------------------------------------------------
(* Properties. *)

Phase == {"queued", "fetching", "backoff", "streaming", "moving", "downloaded", "refreshing",
          "scanning", "remuxing", "thumbnail", "unthumb", "probing", "posting", "cleaning",
          "erasing", "unlinking", "over"}

\* Types, and the retry and redirect limits of downloadDirect: at most
\* MaxRetries retries, at most MaxHops requests per attempt.
TypeOK ==
  /\ phase \in Phase
  /\ attempt \in 0..MaxRetries
  /\ \A i \in DOMAIN hops : hops[i] \in HopAt
  /\ first \in 1..(Len(hops) + 1) /\ Len(hops) - first < MaxHops
  /\ orphaned \in BOOLEAN
  /\ dir \in {"none", "made", "removed", "left"}
  /\ files \in [File -> {"absent", "empty", "plain"}]
  /\ Len(list) <= 1
  /\ outcome \in {"none", "dropped", "stored", "failed"}
  /\ layout \in Layouts \cup {NoLayout}
  /\ remuxed \in BOOLEAN /\ fragmented \in BOOLEAN /\ open \in BOOLEAN
  /\ keys \in {"none", "live", "zeroed"}
  /\ body \in {"idle", "waiting", "reading", "sent", "stopped"}
  /\ reply \in {"none", "2xx", "error"}
  /\ settled \in {"no", "2xx", "error", "failed"}

\* No chunk is produced after uploadFile zeroed its keys: "settles only after the
\* request body stream has stopped" (darkreel/http.ts), whatever ended the call.
KeysOutliveBody ==
  keys = "zeroed" => body \in {"idle", "sent", "stopped"}

\* What Darkreel is sent is the file, from its first byte on: chunks that follow
\* one another without a gap, within the server's limit, each in a ciphertext
\* that holds it; the last flag is on the chunk that ends the file and on no
\* other, and a body that was sent to its end has it.  So of an upload that
\* counts as stored because a 2xx came before the end (darkreel/http.ts asks only
\* for the status), the server has a beginning without the flag.
SentIsTheFile ==
  /\ Len(sent) <= MaxChunks
  /\ \A i \in DOMAIN sent :
       /\ sent[i].index = i - 1
       /\ sent[i].offset = IF i = 1 THEN 0 ELSE sent[i - 1].offset + sent[i - 1].size
       /\ sent[i].ciphertext >= sent[i].size + Overhead
       /\ sent[i].last => i = Len(sent) /\ sent[i].offset + sent[i].size = Size(layout)
  /\ body = "sent" => sent # <<>> /\ Last(sent).last

\* What Darkreel's player needs of a file declared fragmented: chunk 0 is what
\* precedes the first moof, every later chunk starts at a moof; and a ciphertext
\* of more than one bucket holds one fragment only.
FragmentsStartAtMoof ==
  (fragmented /\ Moofs(layout) # <<>>) =>
    LET m == ToSet(Moofs(layout))
    IN /\ \A i \in DOMAIN sent : i = 1 \/ sent[i].offset \in m
       /\ \A i \in DOMAIN sent : i # 1 /\ sent[i].ciphertext > Mib =>
            m \cap (sent[i].offset + 1)..(sent[i].offset + sent[i].size - 1) = {}
       /\ sent # <<>> => sent[1].size = Moofs(layout)[1]

\* When a job is over nothing of its media is left in plain text: not the
\* download, nor the remuxed copy, nor the thumbnail.  The exception is a hop
\* whose download was rejected by the connection of the hop before it.
PlaintextGone ==
  phase = "over" /\ ~orphaned => \A f \in File : files[f] # "plain"

\* Every transfer ends, and its place in the pipeline is free again, whatever the
\* site and Darkreel do: each wait has a timer.
TransferEnds == phase # "queued" ~> phase = "over"
=============================================================================
