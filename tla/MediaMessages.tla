------------------------------ MODULE MediaMessages ------------------------------
(***************************************************************************)
(* Sending files and voice messages: encrypted with a key of their own,    *)
(* uploaded to media-service in chunks, then stored as messages that carry *)
(* the id of the upload and, sealed in their envelope, the key.            *)
(*                                                                         *)
(* Sends are of one file, by any of the user's pages: several may be under *)
(* way, and a failed one is tried again as a new send.  What an upload can *)
(* be resumed by is in localStorage, under the file's name, size and time. *)
(* Each replica of media-service keeps its uploads in memory, and any      *)
(* replica may be sent a request.                                          *)
(*                                                                         *)
(* An upload has the name of the send that began it, and an asset that of  *)
(* the send that completed it.  A lost request stands for any that fails.  *)
(***************************************************************************)
EXTENDS Naturals

CONSTANTS
  Sends, MediaReplicas, Nothing,
  Original,                 \* the file as it is, not encrypted
  Chunks,                   \* the chunks of a file: 1 .. Chunks
  MaxTicks,                 \* bound on the clock, in milliseconds
  MaxMishaps                \* bound on lost requests, expiries and restarts

Indices == 1 .. Chunks
Times == 0 .. MaxTicks
Contents == [Indices -> Sends \union {Original, Nothing}]
Uploaded == [at : MediaReplicas, parts : Contents]

ASSUME MediaAssumption ==
  /\ Original \notin Sends
  /\ Nothing \notin Sends \union {Original} \union Nat \union Contents \union Uploaded
  /\ Chunks \in Nat \ {0} /\ MaxTicks \in Nat /\ MaxMishaps \in Nat

VARIABLES
  clock,
  step,                     \* each send: where its page is
  pendingId,                \* the id of its row on the screen, a time
  sealedAt,                 \* when its file was encrypted, or Nothing
  upload, have,             \* the upload it uses, the chunks it need not send
  saved,                    \* localStorage: the upload of each resume key
  uploads,                  \* media-service: uploads not completed
  assets,                   \* media-service: what each completed upload held
  stored,                   \* sends whose message is stored
  shows,                    \* each row: the message it has become
  mishaps,
  disturbed                 \* sends with a request lost or led to another
                            \* replica, or whose upload was forgotten

screenVars == <<pendingId, shows>>
clientVars == <<sealedAt, upload, have, saved>>
serviceVars == <<uploads, assets>>
mishapVars == <<mishaps, disturbed>>
mediaVars == <<clock, step, screenVars, clientVars, serviceVars, stored, mishapVars>>

\* Slip: the key is the file's name alone.
KeyOfName(time) == IF time = Nothing THEN <<"file", 0>> ELSE <<"enc", 0>>
\* The parts of resumeKey that tell files apart.  An encrypted file is called
\* "enc" and is as old as its encryption; the original keeps its time.
ResumeKey(time) == IF time = Nothing THEN <<"file", 0>> ELSE <<"enc", time>>
ResumeKeys == {<<"file", 0>>} \union ({"enc"} \X Times)

MediaInit ==
  /\ clock = 0
  /\ step = [s \in Sends |-> "idle"]
  /\ pendingId = [s \in Sends |-> Nothing]
  /\ sealedAt = [s \in Sends |-> Nothing]
  /\ upload = [s \in Sends |-> Nothing]
  /\ have = [s \in Sends |-> {}]
  /\ saved = [key \in ResumeKeys |-> Nothing]
  /\ uploads = [s \in Sends |-> Nothing]
  /\ assets = [s \in Sends |-> Nothing]
  /\ stored = {}
  /\ shows = [s \in Sends |-> Nothing]
  /\ mishaps = 0
  /\ disturbed = {}

Go(s, where) == step' = [step EXCEPT ![s] = where]
At(s, where) == step[s] = where

Tick ==
  /\ clock < MaxTicks
  /\ clock' = clock + 1
  /\ UNCHANGED <<step, screenVars, clientVars, serviceVars, stored, mishapVars>>

-------------------------------------------------------------------------------
(* sendFileMessage and sendVoiceMessage, up to the upload.                 *)

\* The row appears, "sending", with the time as its id.
Begin(s) ==
  /\ At(s, "idle")
  /\ pendingId' = [pendingId EXCEPT ![s] = clock]
  /\ Go(s, "encrypting")
  /\ UNCHANGED <<clock, clientVars, serviceVars, stored, shows, mishapVars>>

Encrypted(s) ==
  /\ At(s, "encrypting")
  /\ sealedAt' = [sealedAt EXCEPT ![s] = clock]
  /\ Go(s, "asking")
  /\ UNCHANGED <<clock, screenVars, upload, have, saved, serviceVars, stored, mishapVars>>

\* The envelope is there, or, without a key of the peer, the original is sent.
\* Then uploadFileResumable looks for an upload to resume.
StartUpload(s) ==
  /\ At(s, "asking")
  /\ \E time \in {sealedAt[s], Nothing} :
       /\ sealedAt' = [sealedAt EXCEPT ![s] = time]
       /\ upload' = [upload EXCEPT ![s] = saved[ResumeKey(time)]]
       /\ Go(s, IF saved[ResumeKey(time)] = Nothing THEN "init" ELSE "status")
  /\ UNCHANGED <<clock, screenVars, have, saved, serviceVars, stored, mishapVars>>

-------------------------------------------------------------------------------
(* uploadFileResumable and the handlers of media-service.                  *)

Remember(s, u) == saved' = [saved EXCEPT ![ResumeKey(sealedAt[s])] = u]
Held(u) == {i \in Indices : uploads[u].parts[i] # Nothing}

\* get_upload, in the memory of the replica asked.
Known(u, r) == uploads[u] # Nothing /\ uploads[u].at = r
\* The request went to a replica that does not have the upload.
Stray(s, r) ==
  disturbed' = IF uploads[upload[s]] # Nothing /\ ~Known(upload[s], r)
               THEN disturbed \union {s} ELSE disturbed

\* upload_status: the chunks already there, or 404 and a new upload.
AskStatus(s, r) ==
  /\ At(s, "status")
  /\ IF Known(upload[s], r)
     THEN /\ have' = [have EXCEPT ![s] = Held(upload[s])]
          /\ Go(s, "chunks")
          /\ UNCHANGED <<saved, upload>>
     ELSE /\ Remember(s, Nothing)
          /\ upload' = [upload EXCEPT ![s] = Nothing]
          /\ Go(s, "init")
          /\ UNCHANGED have
  /\ UNCHANGED <<clock, screenVars, sealedAt, serviceVars, stored, mishapVars>>

InitUpload(s, r) ==
  /\ At(s, "init")
  /\ uploads' = [uploads EXCEPT ![s] = [at |-> r, parts |-> [i \in Indices |-> Nothing]]]
  /\ upload' = [upload EXCEPT ![s] = s]
  /\ have' = [have EXCEPT ![s] = {}]
  /\ Remember(s, s)
  /\ Go(s, "chunks")
  /\ UNCHANGED <<clock, screenVars, sealedAt, assets, stored, mishapVars>>

\* Slip: the loop ends before the last chunk.
SkipLast(s) == Indices \ (have[s] \union {Chunks})
\* The chunks still to send, in order.
Missing(s) == Indices \ have[s]
NextChunk(s) == CHOOSE i \in Missing(s) : \A j \in Missing(s) : i <= j

\* upload_chunk finds the upload, then waits for the body ...
SendChunk(s, r) ==
  /\ At(s, "chunks")
  /\ Missing(s) # {}
  /\ Go(s, IF Known(upload[s], r) THEN "writing" ELSE "failed")
  /\ Stray(s, r)
  /\ UNCHANGED <<clock, screenVars, clientVars, serviceVars, stored, mishaps>>

Source(s) == IF sealedAt[s] = Nothing THEN Original ELSE s

\* ... and writes it, whether or not the upload is still there.
Written(s) ==
  IF uploads[upload[s]] = Nothing THEN uploads
  ELSE [uploads EXCEPT ![upload[s]].parts[NextChunk(s)] = Source(s)]

WriteChunk(s) ==
  /\ At(s, "writing")
  /\ uploads' = Written(s)
  /\ have' = [have EXCEPT ![s] = @ \union {NextChunk(s)}]
  /\ Go(s, "chunks")
  /\ UNCHANGED <<clock, screenVars, sealedAt, upload, saved, assets, stored, mishapVars>>

\* complete_upload: NOT_FOUND, INCOMPLETE, or an asset of all chunks.
Complete(s, r) ==
  /\ At(s, "chunks")
  /\ Missing(s) = {}
  /\ LET u == upload[s]
     IN IF Known(u, r) /\ Held(u) = Indices
        THEN /\ assets' = [assets EXCEPT ![s] = uploads[u].parts]
             /\ uploads' = [uploads EXCEPT ![u] = Nothing]
             /\ Go(s, "completed")
        ELSE Go(s, "failed") /\ UNCHANGED serviceVars
  /\ Stray(s, r)
  /\ UNCHANGED <<clock, screenVars, clientVars, stored, mishaps>>

\* localStorage.removeItem: what another send has saved there by now, too.
FinishUpload(s) ==
  /\ At(s, "completed")
  /\ Remember(s, Nothing)
  /\ Go(s, "posting")
  /\ UNCHANGED <<clock, screenVars, sealedAt, upload, have, serviceVars, stored, mishapVars>>

-------------------------------------------------------------------------------
(* The message.                                                            *)

\* Slip: every row that waits is patched.
IsAnyRow(x, s) == TRUE
\* Does patchOptimisticMessage take the row of x for that of s?
IsRow(x, s) == pendingId[x] = pendingId[s]

\* sendMessageRest and patchOptimisticMessage.
PostMessage(s) ==
  /\ At(s, "posting")
  /\ stored' = stored \union {s}
  /\ shows' = [x \in Sends |-> IF shows[x] = Nothing /\ IsRow(x, s) THEN s ELSE shows[x]]
  /\ Go(s, "sent")
  /\ UNCHANGED <<clock, pendingId, clientVars, serviceVars, mishapVars>>

-------------------------------------------------------------------------------
(* What can go wrong.                                                      *)

Mishap == mishaps < MaxMishaps /\ mishaps' = mishaps + 1

\* A request fails, or only its answer is lost: the send ends there, but for a
\* lost status, which starts a new upload.
LoseRequest(s) ==
  /\ Mishap
  /\ step[s] \in {"status", "init", "chunks", "writing", "completed", "posting"}
  /\ IF At(s, "status")
     THEN /\ Remember(s, Nothing)
          /\ upload' = [upload EXCEPT ![s] = Nothing]
          /\ Go(s, "init")
          /\ UNCHANGED disturbed
     ELSE /\ Go(s, "failed")
          /\ disturbed' = disturbed \union {s}
          /\ UNCHANGED <<saved, upload>>
  /\ stored' \in IF At(s, "posting") THEN {stored, stored \union {s}} ELSE {stored}
  /\ uploads' \in IF At(s, "writing") THEN {uploads, Written(s)} ELSE {uploads}
  /\ UNCHANGED <<clock, screenVars, sealedAt, have, assets>>

Drop(gone) ==
  /\ uploads' = [u \in Sends |-> IF u \in gone THEN Nothing ELSE uploads[u]]
  /\ disturbed' = disturbed \union {s \in Sends : upload[s] \in gone}
  /\ UNCHANGED <<clock, step, screenVars, clientVars, assets, stored>>

\* After 24 hours.
Expire(u) == Mishap /\ uploads[u] # Nothing /\ Drop({u})

\* A replica restarts.
RestartReplica(r) == Mishap /\ Drop({u \in Sends : Known(u, r)})

MediaNext ==
  \/ Tick
  \/ \E s \in Sends :
       \/ Begin(s) \/ Encrypted(s) \/ StartUpload(s)
       \/ WriteChunk(s) \/ FinishUpload(s) \/ PostMessage(s)
       \/ LoseRequest(s) \/ Expire(s)
       \/ \E r \in MediaReplicas :
            AskStatus(s, r) \/ InitUpload(s, r) \/ SendChunk(s, r) \/ Complete(s, r)
  \/ \E r \in MediaReplicas : RestartReplica(r)

MediaSpec == MediaInit /\ [][MediaNext]_mediaVars

-------------------------------------------------------------------------------
(* Properties.                                                             *)

\* The type invariant.
MediaTypeOK ==
  /\ clock \in Times
  /\ pendingId \in [Sends -> Times \union {Nothing}]
  /\ sealedAt \in [Sends -> Times \union {Nothing}]
  /\ {upload, shows} \subseteq [Sends -> Sends \union {Nothing}]
  /\ have \in [Sends -> SUBSET Indices]
  /\ saved \in [ResumeKeys -> Sends \union {Nothing}]
  /\ uploads \in [Sends -> Uploaded \union {Nothing}]
  /\ assets \in [Sends -> [Indices -> Sends \union {Original}] \union {Nothing}]
  /\ stored \subseteq Sends /\ disturbed \subseteq Sends

\* The asset a media message names holds the whole file, encrypted once, under
\* the key in the message's envelope: chunks of another encryption, left by a
\* failed send or being sent at the same time, are never resumed.  Excepted:
\* two files encrypted in one millisecond, which have one resume key.
MediaReadable ==
  \A s \in stored :
    \/ \A i \in Indices : assets[s][i] = Source(s)
    \/ \E x \in Sends \ {s} : sealedAt[x] = sealedAt[s] /\ sealedAt[s] # Nothing

\* A send fails only when a request was lost or led to a replica without the
\* upload, when the upload expired or was lost in a restart, or when another
\* send resumed the same upload and completed it first.
UploadFailsForReason ==
  \A s \in Sends :
    At(s, "failed") => s \in disturbed \/ \E x \in Sends \ {s} : upload[x] = upload[s]

\* A row that has become a sent message shows that send's message, unless another
\* send began in the same millisecond and so has the same pending id.
RowShowsItsMessage ==
  \A s \in Sends :
    At(s, "sent") /\ shows[s] # s =>
      \E x \in Sends \ {s} : pendingId[x] = pendingId[s]
===============================================================================
