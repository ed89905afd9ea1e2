---------------------------- MODULE EncryptionProofs ----------------------------
(***************************************************************************)
(* Proofs about the encryption of a conversation: uploads of encrypted     *)
(* files, sender keys and the Double Ratchet, for any number of sends,     *)
(* replicas, chunks, members, tasks and messages, and of the three         *)
(* together.                                                               *)
(***************************************************************************)
EXTENDS Encryption, SequenceTheorems, WellFoundedInduction, TLAPS

-------------------------------------------------------------------------------
(* Uploads of encrypted files.                                             *)

USE MediaAssumption

Steps == {"idle", "encrypting", "asking", "status", "init", "chunks", "writing",
          "completed", "posting", "sent", "failed"}

\* How the file of s was sealed is settled.
Settled(s) == step[s] \notin {"idle", "encrypting", "asking"}
\* The upload that s may begin has been begun, if it ever is.
Started(s) == Settled(s) /\ step[s] \notin {"status", "init"}
Uploading(s) == step[s] \in {"chunks", "writing"}
Over(s) == step[s] \in {"completed", "posting", "sent", "failed"}

\* Chunk p belongs to the file of s, or to one sealed in the same millisecond.
Fits(s, p) ==
  IF sealedAt[s] = Nothing THEN p = Original
  ELSE p \in Sends /\ Settled(p) /\ sealedAt[p] = sealedAt[s]

MediaTypeInv == MediaTypeOK /\ step \in [Sends -> Steps]

\* An upload is resumed only by sends of a file sealed at the same time.
UploadInv ==
  /\ \A key \in ResumeKeys :
       saved[key] # Nothing => Started(saved[key]) /\ ResumeKey(sealedAt[saved[key]]) = key
  /\ \A s \in Sends :
       upload[s] # Nothing =>
         Settled(s) /\ Started(upload[s]) /\ sealedAt[upload[s]] = sealedAt[s]
  /\ \A s \in Sends : upload[s] = Nothing =>
       step[s] \in {"idle", "encrypting", "asking", "init", "failed"}
  /\ \A s \in Sends : step[s] = "init" => upload[s] = Nothing

ContentInv ==
  /\ \A u \in Sends : uploads[u] # Nothing =>
       /\ Started(u)
       /\ \A i \in Indices : uploads[u].parts[i] # Nothing => Fits(u, uploads[u].parts[i])
  /\ \A s \in Sends : assets[s] # Nothing =>
       Settled(s) /\ \A i \in Indices : Fits(s, assets[s][i])
  /\ \A s \in Sends :
       step[s] \in {"completed", "posting", "sent"} \/ s \in stored => assets[s] # Nothing

\* Why an upload of s may fail.
Excused(s) ==
  s \in disturbed \/ \E x \in Sends \ {s} : upload[x] = upload[s] /\ Over(x)

ReasonInv ==
  /\ \A s \in Sends :
       Uploading(s) =>
         IF uploads[upload[s]] = Nothing THEN Excused(s) ELSE have[s] \subseteq Held(upload[s])
  /\ \A s \in Sends : step[s] = "writing" => Missing(s) # {}
  /\ \A s \in Sends : step[s] = "failed" => Excused(s)

RowsInv ==
  /\ \A s \in Sends : pendingId[s] = Nothing <=> step[s] = "idle"
  /\ \A s \in Sends : shows[s] # Nothing =>
       pendingId[s] # Nothing /\ pendingId[shows[s]] = pendingId[s]
  /\ \A s \in Sends : step[s] = "sent" => shows[s] # Nothing

MediaInv == MediaTypeInv /\ UploadInv /\ ContentInv /\ ReasonInv /\ RowsInv

-------------------------------------------------------------------------------
(* Lemmas about the operators.                                             *)

\* Files sealed at different times have different resume keys.
LEMMA ResumeKeyTells ==
  ASSUME NEW t \in Times \union {Nothing}, NEW v \in Times \union {Nothing}
  PROVE  /\ ResumeKey(t) \in ResumeKeys
         /\ ResumeKey(t) = ResumeKey(v) => t = v
  <1>1. ASSUME NEW w \in Times PROVE <<"enc", w>> \in {"enc"} \X Times
    BY <1>1
  <1>2. <<"enc", t>> # <<"file", 0>> /\ <<"enc", v>> # <<"file", 0>>
    OBVIOUS
  <1>3. <<"enc", t>> = <<"enc", v>> => t = v
    OBVIOUS
  <1> QED
    BY DEF ResumeKey, ResumeKeys

\* The loop of uploadFileResumable has a next chunk while one is missing.
LEMMA NextIsMissing ==
  ASSUME NEW s \in Sends, Missing(s) # {}
  PROVE  NextChunk(s) \in Missing(s)
  <1>1. Missing(s) \subseteq Nat
    BY DEF Missing, Indices
  <1>2. PICK i \in Missing(s) : \A j \in Missing(s) : ~ (<<j, i>> \in OpToRel(<, Nat))
    BY <1>1, WFMin, NatLessThanWellFounded
  <1>3. \A j \in Missing(s) : ~ (j < i)
    BY <1>1, <1>2 DEF OpToRel
  <1>4. \A j \in Missing(s) : i <= j
    BY <1>1, <1>3
  <1> QED
    BY <1>4 DEF NextChunk

\* write_chunk changes one chunk of one upload that is there.
LEMMA WrittenChanges ==
  ASSUME MediaTypeInv, NEW s \in Sends, upload[s] \in Sends, Missing(s) # {}
  PROVE  /\ Written(s) \in [Sends -> Uploaded \union {Nothing}]
         /\ \A u \in Sends :
              /\ Written(s)[u] = Nothing <=> uploads[u] = Nothing
              /\ u # upload[s] => Written(s)[u] = uploads[u]
         /\ uploads[upload[s]] # Nothing =>
              Written(s)[upload[s]].parts =
                [uploads[upload[s]].parts EXCEPT ![NextChunk(s)] = Source(s)]
  <1>1. uploads \in [Sends -> Uploaded \union {Nothing}]
    BY DEF MediaTypeInv, MediaTypeOK
  <1>2. CASE uploads[upload[s]] = Nothing
    BY <1>1, <1>2 DEF Written
  <1>3. CASE uploads[upload[s]] # Nothing
    <2> DEFINE old == uploads[upload[s]]
               new == [old EXCEPT !.parts[NextChunk(s)] = Source(s)]
    <2>1. old \in Uploaded
      BY <1>1, <1>3
    <2>2. NextChunk(s) \in Indices /\ Source(s) \in Sends \union {Original}
      BY NextIsMissing DEF Missing, Source
    <2>3. [old.parts EXCEPT ![NextChunk(s)] = Source(s)] \in Contents
      BY <2>1, <2>2 DEF Uploaded, Contents
    <2>4. new = [at |-> old.at, parts |-> [old.parts EXCEPT ![NextChunk(s)] = Source(s)]]
      BY <2>1 DEF Uploaded
    <2>5. new \in Uploaded
      BY <2>1, <2>3 DEF Uploaded
    <2>6. Written(s) = [uploads EXCEPT ![upload[s]] = new]
      BY <1>3 DEF Written
    <2> QED
      BY <1>1, <1>3, <2>4, <2>5, <2>6
  <1> QED
    BY <1>2, <1>3

LEMMA MediaInitInv == MediaInit => MediaInv
  <1> SUFFICES ASSUME MediaInit PROVE MediaInv
    OBVIOUS
  <1>1. MediaTypeInv
    BY DEF MediaInit, MediaTypeInv, MediaTypeOK, Steps, Times
  <1> QED
    BY <1>1 DEF MediaInit, MediaInv, UploadInv, ContentInv, ReasonInv, RowsInv, Uploading

-------------------------------------------------------------------------------
(* Steps.                                                                  *)

LEMMA TickInv ==
  ASSUME MediaInv, Tick
  PROVE  MediaInv'
  <1> USE DEF Tick, Go, At, screenVars, clientVars, serviceVars, mishapVars
  <1>1. MediaTypeInv'
    BY DEF MediaInv, MediaTypeInv, MediaTypeOK, Times
  <1>2. UploadInv'
    BY DEF MediaInv, UploadInv, Settled, Started
  <1>3. ContentInv'
    BY DEF MediaInv, ContentInv, Settled, Started, Fits
  <1>4. ReasonInv'
    BY DEF MediaInv, ReasonInv, Uploading, Excused, Over, Held, Missing
  <1>5. RowsInv'
    BY DEF MediaInv, RowsInv
  <1> QED
    BY <1>1, <1>2, <1>3, <1>4, <1>5 DEF MediaInv

LEMMA BeginInv ==
  ASSUME MediaInv, NEW s \in Sends, Begin(s)
  PROVE  MediaInv'
  <1> USE DEF Begin, Go, At, screenVars, clientVars, serviceVars, mishapVars
  <1>1. MediaTypeInv'
    BY DEF MediaInv, MediaTypeInv, MediaTypeOK, Steps
  <1>2. UploadInv'
    BY DEF MediaInv, UploadInv, Settled, Started
  <1>3. ContentInv'
    BY DEF MediaInv, ContentInv, Settled, Started, Fits
  <1>4. ReasonInv'
    BY DEF MediaInv, ReasonInv, Uploading, Excused, Over, Held, Missing
  <1>5. RowsInv'
    BY DEF MediaInv, MediaTypeInv, MediaTypeOK, RowsInv, Times
  <1> QED
    BY <1>1, <1>2, <1>3, <1>4, <1>5 DEF MediaInv

LEMMA EncryptedInv ==
  ASSUME MediaInv, NEW s \in Sends, Encrypted(s)
  PROVE  MediaInv'
  <1> USE DEF Encrypted, Go, At, screenVars, clientVars, serviceVars, mishapVars
  <1>1. MediaTypeInv'
    BY DEF MediaInv, MediaTypeInv, MediaTypeOK, Steps
  <1>2. UploadInv'
    BY DEF MediaInv, UploadInv, Settled, Started
  <1>3. ContentInv'
    BY DEF MediaInv, ContentInv, Settled, Started, Fits
  <1>4. ReasonInv'
    BY DEF MediaInv, ReasonInv, Uploading, Excused, Over, Held, Missing
  <1>5. RowsInv'
    BY DEF MediaInv, RowsInv
  <1> QED
    BY <1>1, <1>2, <1>3, <1>4, <1>5 DEF MediaInv

LEMMA StartUploadInv ==
  ASSUME MediaInv, NEW s \in Sends, StartUpload(s)
  PROVE  MediaInv'
  <1> USE DEF StartUpload, Go, At, screenVars, clientVars, serviceVars, mishapVars
  <1>0. PICK time \in {sealedAt[s], Nothing} :
          /\ sealedAt' = [sealedAt EXCEPT ![s] = time]
          /\ upload' = [upload EXCEPT ![s] = saved[ResumeKey(time)]]
          /\ step' = [step EXCEPT ![s] = IF saved[ResumeKey(time)] = Nothing THEN "init" ELSE "status"]
    OBVIOUS
  <1>a. time \in Times \union {Nothing}
    BY DEF MediaInv, MediaTypeInv, MediaTypeOK
  <1>b. saved[ResumeKey(time)] \in Sends \union {Nothing}
    BY ResumeKeyTells DEF MediaInv, MediaTypeInv, MediaTypeOK
  <1>1. MediaTypeInv'
    BY <1>0, <1>b DEF MediaInv, MediaTypeInv, MediaTypeOK, Steps
  <1>2. UploadInv'
    <2>1. \A key \in ResumeKeys : saved[key] # Nothing =>
            Started(saved[key])' /\ ResumeKey(sealedAt[saved[key]])' = key
      BY DEF MediaInv, UploadInv, Settled, Started
    <2>2. saved[ResumeKey(time)] # Nothing => sealedAt[saved[ResumeKey(time)]] = time
      BY ResumeKeyTells DEF MediaInv, MediaTypeInv, MediaTypeOK, UploadInv
    <2> QED
      BY ResumeKeyTells DEF MediaInv, MediaTypeInv, MediaTypeOK, UploadInv, Settled, Started
  <1>3. ContentInv'
    BY DEF MediaInv, ContentInv, Settled, Started, Fits
  <1>4. ReasonInv'
    BY DEF MediaInv, ReasonInv, Uploading, Excused, Over, Held, Missing
  <1>5. RowsInv'
    BY DEF MediaInv, RowsInv
  <1> QED
    BY <1>1, <1>2, <1>3, <1>4, <1>5 DEF MediaInv

LEMMA AskStatusInv ==
  ASSUME MediaInv, NEW s \in Sends, NEW r \in MediaReplicas, AskStatus(s, r)
  PROVE  MediaInv'
  <1> USE DEF AskStatus, Go, At, screenVars, clientVars, serviceVars, mishapVars
  <1>1. MediaTypeInv'
    BY DEF MediaInv, MediaTypeInv, MediaTypeOK, UploadInv, ContentInv, ReasonInv, Steps,
           Remember, Held
  <1>2. UploadInv'
    BY DEF MediaInv, MediaTypeInv, MediaTypeOK, UploadInv, ContentInv, Settled, Started, Steps,
           Remember
  <1>3. ContentInv'
    BY DEF MediaInv, MediaTypeInv, ContentInv, Settled, Started, Fits
  <1>4. ReasonInv'
    <2>1. \A u \in Sends : Held(u)' = Held(u)
      BY DEF Held
    <2>2. \A x \in Sends \ {s} : Excused(x) => Excused(x)'
      BY DEF MediaInv, MediaTypeInv, MediaTypeOK, Excused, Over
    <2>3. CASE Known(upload[s], r)
      BY <1>1, <2>1, <2>2, <2>3, SMTT(20)
         DEF MediaInv, MediaTypeInv, MediaTypeOK, UploadInv, ContentInv, ReasonInv, RowsInv,
             Uploading, Missing, Known
    <2>4. CASE ~ Known(upload[s], r)
      BY <2>1, <2>2, <2>4
         DEF MediaInv, MediaTypeInv, MediaTypeOK, UploadInv, ReasonInv, Uploading, Missing
    <2> QED
      BY <2>3, <2>4
  <1>5. RowsInv'
    BY DEF MediaInv, MediaTypeInv, RowsInv
  <1> QED
    BY <1>1, <1>2, <1>3, <1>4, <1>5 DEF MediaInv

LEMMA InitUploadInv ==
  ASSUME MediaInv, NEW s \in Sends, NEW r \in MediaReplicas, InitUpload(s, r)
  PROVE  MediaInv'
  <1> DEFINE fresh == [at |-> r, parts |-> [i \in Indices |-> Nothing]]
  <1>1. /\ fresh \in Uploaded /\ fresh # Nothing
        /\ \A i \in Indices : fresh.parts[i] = Nothing
    BY DEF Uploaded, Contents
  <1>2. /\ step[s] = "init" /\ step' = [step EXCEPT ![s] = "chunks"]
        /\ uploads' = [uploads EXCEPT ![s] = fresh]
        /\ upload' = [upload EXCEPT ![s] = s]
        /\ have' = [have EXCEPT ![s] = {}]
        /\ saved' = [saved EXCEPT ![ResumeKey(sealedAt[s])] = s]
        /\ UNCHANGED <<clock, pendingId, shows, sealedAt, assets, stored, mishaps, disturbed>>
    BY DEF InitUpload, Go, At, Remember, screenVars, mishapVars
  <1> HIDE DEF fresh
  <1>3. MediaTypeInv'
    <2>1. upload' \in [Sends -> Sends \union {Nothing}] /\ saved' \in [ResumeKeys -> Sends \union {Nothing}]
      BY <1>2 DEF MediaInv, MediaTypeInv, MediaTypeOK
    <2>2. step' \in [Sends -> Steps]
      BY <1>2 DEF MediaInv, MediaTypeInv, Steps
    <2>3. uploads' \in [Sends -> Uploaded \union {Nothing}] /\ have' \in [Sends -> SUBSET Indices]
      BY <1>1, <1>2 DEF MediaInv, MediaTypeInv, MediaTypeOK
    <2> QED
      BY <1>2, <2>1, <2>2, <2>3 DEF MediaInv, MediaTypeInv, MediaTypeOK
  <1>4. UploadInv'
    BY <1>2 DEF MediaInv, MediaTypeInv, MediaTypeOK, UploadInv, Settled, Started
  <1>5. ContentInv'
    BY <1>1, <1>2 DEF MediaInv, MediaTypeInv, ContentInv, Settled, Started, Fits
  <1>6. ReasonInv'
    <2>1. \A x \in Sends : upload[x] # s
      BY <1>2 DEF MediaInv, UploadInv, Started
    <2>2. Held(s)' = {}
      BY <1>1, <1>2 DEF MediaInv, MediaTypeInv, MediaTypeOK, Held
    <2>3. \A u \in Sends \ {s} : uploads'[u] = uploads[u] /\ Held(u)' = Held(u)
      BY <1>2 DEF Held
    <2>4. \A x \in Sends : Excused(x) /\ x # s => Excused(x)'
      BY <1>2 DEF Excused, Over
    <2> QED
      BY <1>1, <1>2, <2>1, <2>3, <2>4
         DEF MediaInv, MediaTypeInv, MediaTypeOK, UploadInv, ReasonInv, Uploading, Missing
  <1>7. RowsInv'
    BY <1>2 DEF MediaInv, RowsInv
  <1> QED
    BY <1>3, <1>4, <1>5, <1>6, <1>7 DEF MediaInv

LEMMA SendChunkInv ==
  ASSUME MediaInv, NEW s \in Sends, NEW r \in MediaReplicas, SendChunk(s, r)
  PROVE  MediaInv'
  <1> USE DEF SendChunk, Go, At, screenVars, clientVars, serviceVars, mishapVars
  <1>1. MediaTypeInv'
    BY DEF MediaInv, MediaTypeInv, MediaTypeOK, Steps, Stray
  <1>2. UploadInv'
    BY DEF MediaInv, UploadInv, Settled, Started
  <1>3. ContentInv'
    BY DEF MediaInv, ContentInv, Settled, Started, Fits
  <1>4. ReasonInv'
    BY DEF MediaInv, ReasonInv, Uploading, Excused, Over, Held, Missing, Stray
  <1>5. RowsInv'
    BY DEF MediaInv, RowsInv
  <1> QED
    BY <1>1, <1>2, <1>3, <1>4, <1>5 DEF MediaInv

LEMMA ChunkKeeps ==
  ASSUME MediaInv, NEW s \in Sends, step[s] = "writing", uploads' = Written(s)
  PROVE  /\ uploads' \in [Sends -> Uploaded \union {Nothing}]
         /\ \A u \in Sends :
              /\ uploads'[u] = Nothing <=> uploads[u] = Nothing
              /\ uploads[u] # Nothing =>
                   /\ Held(u) \subseteq Held(u)'
                   /\ u = upload[s] => NextChunk(s) \in Held(u)'
                   /\ \A i \in Indices :
                        uploads'[u].parts[i] # Nothing => Fits(u, uploads'[u].parts[i])
  <1>1. /\ upload[s] \in Sends /\ sealedAt[upload[s]] = sealedAt[s]
        /\ Settled(s) /\ Missing(s) # {}
    BY DEF MediaInv, MediaTypeInv, MediaTypeOK, UploadInv, ReasonInv
  <1>2. /\ NextChunk(s) \in Indices
        /\ Source(s) # Nothing /\ Fits(upload[s], Source(s))
    BY <1>1, NextIsMissing DEF Missing, Source, Fits
  <1>3. /\ uploads' \in [Sends -> Uploaded \union {Nothing}]
        /\ \A u \in Sends :
             /\ uploads'[u] = Nothing <=> uploads[u] = Nothing
             /\ u # upload[s] => uploads'[u] = uploads[u]
        /\ uploads[upload[s]] # Nothing =>
             uploads'[upload[s]].parts =
               [uploads[upload[s]].parts EXCEPT ![NextChunk(s)] = Source(s)]
    BY <1>1, WrittenChanges DEF MediaInv
  <1>4. ASSUME NEW u \in Sends, uploads[u] # Nothing, u # upload[s]
        PROVE  /\ Held(u) \subseteq Held(u)'
               /\ \A i \in Indices :
                    uploads'[u].parts[i] # Nothing => Fits(u, uploads'[u].parts[i])
    BY <1>3, <1>4 DEF MediaInv, ContentInv, Held
  <1>5. ASSUME NEW u \in Sends, u = upload[s], uploads[u] # Nothing
        PROVE  /\ Held(u) \subseteq Held(u)'
               /\ NextChunk(s) \in Held(u)'
               /\ \A i \in Indices :
                    uploads'[u].parts[i] # Nothing => Fits(u, uploads'[u].parts[i])
    <2> DEFINE was == uploads[u].parts
    <2>1. was \in Contents
      BY <1>5 DEF MediaInv, MediaTypeInv, MediaTypeOK, Uploaded
    <2>2. \A i \in Indices : uploads'[u].parts[i] = IF i = NextChunk(s) THEN Source(s) ELSE was[i]
      BY <1>3, <1>5, <2>1 DEF Contents
    <2>3. \A i \in Indices : was[i] # Nothing => Fits(u, was[i])
      BY <1>5 DEF MediaInv, ContentInv
    <2> QED
      BY <1>2, <1>5, <2>2, <2>3 DEF Held
  <1>6. ASSUME NEW u \in Sends, uploads[u] # Nothing
        PROVE  /\ Held(u) \subseteq Held(u)'
               /\ u = upload[s] => NextChunk(s) \in Held(u)'
               /\ \A i \in Indices :
                    uploads'[u].parts[i] # Nothing => Fits(u, uploads'[u].parts[i])
    BY <1>4, <1>5, <1>6
  <1> QED
    BY <1>3, <1>6

LEMMA WriteChunkInv ==
  ASSUME MediaInv, NEW s \in Sends, WriteChunk(s)
  PROVE  MediaInv'
  <1> USE DEF WriteChunk, Go, At, screenVars, clientVars, serviceVars, mishapVars
  <1>0. upload[s] \in Sends /\ NextChunk(s) \in Indices
    BY NextIsMissing DEF MediaInv, MediaTypeInv, MediaTypeOK, UploadInv, ReasonInv, Missing
  <1>1. MediaTypeInv'
    BY <1>0, ChunkKeeps DEF MediaInv, MediaTypeInv, MediaTypeOK, Steps
  <1>2. UploadInv'
    BY DEF MediaInv, UploadInv, Settled, Started
  <1>3. ContentInv'
    BY ChunkKeeps DEF MediaInv, ContentInv, Settled, Started, Fits
  <1>4. ReasonInv'
    <2>1. \A x \in Sends : Excused(x) => Excused(x)'
      BY DEF Excused, Over
    <2>2. \A u \in Sends :
            /\ uploads'[u] = Nothing <=> uploads[u] = Nothing
            /\ uploads[u] # Nothing =>
                 /\ Held(u) \subseteq Held(u)'
                 /\ u = upload[s] => NextChunk(s) \in Held(u)'
      BY ChunkKeeps
    <2>3. \A x \in Sends : Uploading(x)' => Uploading(x) /\ upload[x] \in Sends
      BY DEF MediaInv, MediaTypeInv, MediaTypeOK, UploadInv, Uploading
    <2>4. ASSUME NEW x \in Sends, Uploading(x)', uploads'[upload[x]] # Nothing
          PROVE  have'[x] \subseteq Held(upload[x])'
      BY <2>2, <2>3, <2>4 DEF MediaInv, ReasonInv
    <2> QED
      BY <2>1, <2>2, <2>3 DEF MediaInv, MediaTypeInv, ReasonInv, Missing
  <1>5. RowsInv'
    BY DEF MediaInv, RowsInv
  <1> QED
    BY <1>1, <1>2, <1>3, <1>4, <1>5 DEF MediaInv

LEMMA CompleteInv ==
  ASSUME MediaInv, NEW s \in Sends, NEW r \in MediaReplicas, Complete(s, r)
  PROVE  MediaInv'
  <1> DEFINE u == upload[s]
             parts == uploads[u].parts
  <1> USE DEF Complete, Go, At, screenVars, clientVars, serviceVars
  <1>1. u \in Sends /\ sealedAt[u] = sealedAt[s] /\ Settled(s) /\ step[s] = "chunks"
    BY DEF MediaInv, MediaTypeInv, MediaTypeOK, UploadInv
  <1>2. CASE Known(u, r) /\ Held(u) = Indices
    <2>1. /\ assets' = [assets EXCEPT ![s] = parts]
          /\ uploads' = [uploads EXCEPT ![u] = Nothing]
          /\ step' = [step EXCEPT ![s] = "completed"]
          /\ disturbed' \in {disturbed, disturbed \union {s}}
          /\ UNCHANGED <<clock, pendingId, shows, sealedAt, upload, have, saved, stored>>
      BY <1>2 DEF Stray
    <2>2. parts \in Contents /\ \A i \in Indices : parts[i] # Nothing
      BY <1>1, <1>2 DEF MediaInv, MediaTypeInv, MediaTypeOK, Known, Held, Uploaded
    <2>3. parts \in [Indices -> Sends \union {Original}] /\ parts # Nothing
      BY <2>2 DEF Contents
    <2>4. \A i \in Indices : Fits(s, parts[i])
      BY <1>1, <1>2, <2>2 DEF MediaInv, ContentInv, Known, Fits
    <2> HIDE DEF u, parts
    <2>5. MediaTypeInv'
      BY <1>1, <2>1, <2>3 DEF MediaInv, MediaTypeInv, MediaTypeOK, Steps
    <2>6. UploadInv'
      BY <2>1 DEF MediaInv, UploadInv, Settled, Started
    <2>7. ContentInv'
      <3>1. ASSUME NEW x \in Sends, assets'[x] # Nothing
            PROVE  Settled(x) /\ \A i \in Indices : Fits(x, assets'[x][i])
        BY <1>1, <2>1, <2>4, <3>1 DEF MediaInv, ContentInv
      <3>2. \A x \in Sends : Settled(x) => Settled(x)'
        BY <2>1 DEF Settled
      <3>3. \A x \in Sends : Started(x) => Started(x)'
        BY <2>1 DEF Started, Settled
      <3>4. \A x \in Sends : \A p : Fits(x, p) => Fits(x, p)'
        BY <3>2 DEF Fits
      <3>5. \A x \in Sends : uploads'[x] # Nothing => uploads'[x] = uploads[x]
        BY <2>1
      <3> QED
        BY <2>1, <2>3, <3>1, <3>2, <3>3, <3>4 DEF MediaInv, MediaTypeInv, MediaTypeOK, ContentInv
    <2>8. ReasonInv'
      <3>1. \A x \in Sends : Excused(x) => Excused(x)'
        BY <2>1 DEF Excused, Over
      <3>2. \A x \in Sends \ {s} : upload[x] = u => Excused(x)'
        BY <2>5 DEF MediaTypeInv, Excused, Over, u
      <3>3. \A x \in Sends : x # u => Held(x)' = Held(x)
        BY <2>1 DEF Held
      <3> QED
        BY <2>1, <3>1, <3>2, <3>3
           DEF MediaInv, MediaTypeInv, MediaTypeOK, UploadInv, ReasonInv, Uploading, Missing
    <2>9. RowsInv'
      BY <2>1 DEF MediaInv, RowsInv
    <2> QED
      BY <2>5, <2>6, <2>7, <2>8, <2>9 DEF MediaInv
  <1>3. CASE ~ (Known(u, r) /\ Held(u) = Indices)
    <2>1. /\ step' = [step EXCEPT ![s] = "failed"]
          /\ disturbed' = IF uploads[u] # Nothing /\ ~Known(u, r)
                          THEN disturbed \union {s} ELSE disturbed
          /\ UNCHANGED <<clock, pendingId, shows, sealedAt, upload, have, saved, uploads, assets, stored>>
      BY <1>3 DEF Stray
    <2>2. uploads[u] # Nothing => ~Known(u, r)
      BY <1>3 DEF MediaInv, ReasonInv, Uploading, Missing, Held
    <2>3. MediaTypeInv'
      BY <2>1 DEF MediaInv, MediaTypeInv, MediaTypeOK, Steps
    <2>4. UploadInv'
      BY <2>1 DEF MediaInv, UploadInv, Settled, Started
    <2>5. ContentInv'
      BY <2>1 DEF MediaInv, ContentInv, Settled, Started, Fits
    <2>6. ReasonInv'
      <3>1. \A x \in Sends : Excused(x) => Excused(x)'
        BY <2>1 DEF Excused, Over
      <3>2. Excused(s)'
        BY <2>1, <2>2, <3>1 DEF MediaInv, ReasonInv, Uploading, Excused
      <3> QED
        BY <2>1, <3>1, <3>2 DEF MediaInv, ReasonInv, Uploading, Missing, Held
    <2>7. RowsInv'
      BY <2>1 DEF MediaInv, RowsInv
    <2> QED
      BY <2>3, <2>4, <2>5, <2>6, <2>7 DEF MediaInv
  <1> QED
    BY <1>2, <1>3

LEMMA FinishUploadInv ==
  ASSUME MediaInv, NEW s \in Sends, FinishUpload(s)
  PROVE  MediaInv'
  <1> USE DEF FinishUpload, Go, At, screenVars, clientVars, serviceVars, mishapVars
  <1>1. MediaTypeInv'
    BY DEF MediaInv, MediaTypeInv, MediaTypeOK, Steps, Remember
  <1>2. UploadInv'
    BY DEF MediaInv, UploadInv, Settled, Started, Remember
  <1>3. ContentInv'
    BY DEF MediaInv, ContentInv, Settled, Started, Fits
  <1>4. ReasonInv'
    BY DEF MediaInv, ReasonInv, Uploading, Excused, Over, Held, Missing
  <1>5. RowsInv'
    BY DEF MediaInv, RowsInv
  <1> QED
    BY <1>1, <1>2, <1>3, <1>4, <1>5 DEF MediaInv

LEMMA PostMessageInv ==
  ASSUME MediaInv, NEW s \in Sends, PostMessage(s)
  PROVE  MediaInv'
  <1> USE DEF PostMessage, Go, At, screenVars, clientVars, serviceVars, mishapVars
  <1>1. MediaTypeInv'
    BY DEF MediaInv, MediaTypeInv, MediaTypeOK, Steps
  <1>2. UploadInv'
    BY DEF MediaInv, UploadInv, Settled, Started
  <1>3. ContentInv'
    BY DEF MediaInv, ContentInv, Settled, Started, Fits
  <1>4. ReasonInv'
    BY DEF MediaInv, ReasonInv, Uploading, Excused, Over, Held, Missing
  <1>5. RowsInv'
    BY DEF MediaInv, RowsInv, IsRow
  <1> QED
    BY <1>1, <1>2, <1>3, <1>4, <1>5 DEF MediaInv

LEMMA LoseRequestInv ==
  ASSUME MediaInv, NEW s \in Sends, LoseRequest(s)
  PROVE  MediaInv'
  <1> USE DEF LoseRequest, Go, At, screenVars, mishapVars
  <1>1. CASE step[s] = "status"
    <2>1. /\ step' = [step EXCEPT ![s] = "init"]
          /\ upload' = [upload EXCEPT ![s] = Nothing]
          /\ saved' = [saved EXCEPT ![ResumeKey(sealedAt[s])] = Nothing]
          /\ UNCHANGED <<clock, pendingId, shows, sealedAt, have, uploads, assets, stored, disturbed>>
      BY <1>1 DEF Remember
    <2>2. MediaTypeInv'
      <3>1. upload' \in [Sends -> Sends \union {Nothing}] /\ saved' \in [ResumeKeys -> Sends \union {Nothing}]
        BY <2>1 DEF MediaInv, MediaTypeInv, MediaTypeOK
      <3>2. step' \in [Sends -> Steps]
        BY DEF MediaInv, MediaTypeInv, Steps
      <3> QED
        BY <2>1, <3>1, <3>2 DEF MediaInv, MediaTypeInv, MediaTypeOK
    <2>3. UploadInv'
      BY <2>1 DEF MediaInv, MediaTypeInv, MediaTypeOK, UploadInv, Settled, Started
    <2>4. ContentInv'
      BY <2>1 DEF MediaInv, ContentInv, Settled, Started, Fits
    <2>5. ReasonInv'
      BY <2>1 DEF MediaInv, ReasonInv, Uploading, Excused, Over, Held, Missing
    <2>6. RowsInv'
      BY <2>1 DEF MediaInv, RowsInv
    <2> QED
      BY <2>2, <2>3, <2>4, <2>5, <2>6 DEF MediaInv
  <1>2. CASE step[s] # "status"
    <2>1. /\ Started(s) \/ step[s] = "init"
          /\ step' = [step EXCEPT ![s] = "failed"]
          /\ disturbed' = disturbed \union {s}
          /\ stored' \in IF step[s] = "posting" THEN {stored, stored \union {s}} ELSE {stored}
          /\ UNCHANGED <<clock, pendingId, shows, sealedAt, upload, have, saved, assets>>
      BY <1>2 DEF Started, Settled
    <2>2. /\ uploads' \in [Sends -> Uploaded \union {Nothing}]
          /\ \A u \in Sends :
               /\ uploads'[u] = Nothing <=> uploads[u] = Nothing
               /\ uploads[u] # Nothing =>
                    /\ Held(u) \subseteq Held(u)'
                    /\ \A i \in Indices :
                         uploads'[u].parts[i] # Nothing => Fits(u, uploads'[u].parts[i])
      <3>1. CASE uploads' = uploads
        BY <3>1 DEF MediaInv, MediaTypeInv, MediaTypeOK, ContentInv, Held
      <3>2. CASE step[s] = "writing" /\ uploads' = Written(s)
        BY <3>2, ChunkKeeps
      <3> QED
        BY <1>2, <3>1, <3>2
    <2>3. MediaTypeInv'
      <3>1. step' \in [Sends -> Steps]
        BY DEF MediaInv, MediaTypeInv, Steps
      <3>2. stored' \subseteq Sends /\ disturbed' \subseteq Sends
        BY DEF MediaInv, MediaTypeInv, MediaTypeOK
      <3> QED
        BY <2>1, <2>2, <3>1 DEF MediaInv, MediaTypeInv, MediaTypeOK
    <2>4. UploadInv'
      BY <2>1 DEF MediaInv, UploadInv, Settled, Started
    <2>5. ContentInv'
      BY <2>1, <2>2 DEF MediaInv, ContentInv, Settled, Started, Fits
    <2>6. ReasonInv'
      BY <2>1, <2>2, <2>3
         DEF MediaInv, MediaTypeInv, MediaTypeOK, UploadInv, ReasonInv, Uploading, Excused,
             Over, Missing
    <2>7. RowsInv'
      BY <2>1 DEF MediaInv, RowsInv
    <2> QED
      BY <2>3, <2>4, <2>5, <2>6, <2>7 DEF MediaInv
  <1> QED
    BY <1>1, <1>2

LEMMA ExpireInv ==
  ASSUME MediaInv, NEW u \in Sends, Expire(u)
  PROVE  MediaInv'
  <1> USE DEF Expire, Go, At, screenVars, clientVars, serviceVars, mishapVars
  <1>1. MediaTypeInv'
    BY DEF MediaInv, MediaTypeInv, MediaTypeOK, Drop
  <1>2. UploadInv'
    BY DEF MediaInv, UploadInv, Settled, Started, Drop
  <1>3. ContentInv'
    BY DEF MediaInv, ContentInv, Settled, Started, Drop, Fits
  <1>4. ReasonInv'
    BY DEF MediaInv, MediaTypeInv, MediaTypeOK, UploadInv, ReasonInv, Uploading, Excused, Over,
           Held, Missing, Drop
  <1>5. RowsInv'
    BY DEF MediaInv, RowsInv, Drop
  <1> QED
    BY <1>1, <1>2, <1>3, <1>4, <1>5 DEF MediaInv

LEMMA RestartReplicaInv ==
  ASSUME MediaInv, NEW r \in MediaReplicas, RestartReplica(r)
  PROVE  MediaInv'
  <1> USE DEF RestartReplica, Go, At, screenVars, clientVars, serviceVars, mishapVars
  <1>1. MediaTypeInv'
    BY DEF MediaInv, MediaTypeInv, MediaTypeOK, Drop
  <1>2. UploadInv'
    BY DEF MediaInv, UploadInv, Settled, Started, Drop
  <1>3. ContentInv'
    BY DEF MediaInv, ContentInv, Settled, Started, Drop, Fits
  <1>4. ReasonInv'
    BY DEF MediaInv, MediaTypeInv, MediaTypeOK, UploadInv, ReasonInv, Uploading, Excused, Over,
           Held, Missing, Drop
  <1>5. RowsInv'
    BY DEF MediaInv, RowsInv, Drop
  <1> QED
    BY <1>1, <1>2, <1>3, <1>4, <1>5 DEF MediaInv

LEMMA MediaNextInv == MediaInv /\ [MediaNext]_mediaVars => MediaInv'
  <1> SUFFICES ASSUME MediaInv, [MediaNext]_mediaVars PROVE MediaInv'
    OBVIOUS
  <1>1. CASE Tick
    BY <1>1, TickInv
  <1>2. ASSUME NEW s \in Sends,
               \/ Begin(s) \/ Encrypted(s) \/ StartUpload(s)
               \/ WriteChunk(s) \/ FinishUpload(s) \/ PostMessage(s)
               \/ LoseRequest(s) \/ Expire(s)
        PROVE  MediaInv'
    BY <1>2, BeginInv, EncryptedInv, StartUploadInv, WriteChunkInv, FinishUploadInv,
       PostMessageInv, LoseRequestInv, ExpireInv
  <1>3. ASSUME NEW s \in Sends, NEW r \in MediaReplicas,
               AskStatus(s, r) \/ InitUpload(s, r) \/ SendChunk(s, r) \/ Complete(s, r)
        PROVE  MediaInv'
    BY <1>3, AskStatusInv, InitUploadInv, SendChunkInv, CompleteInv
  <1>4. ASSUME NEW r \in MediaReplicas, RestartReplica(r) PROVE MediaInv'
    BY <1>4, RestartReplicaInv
  <1>5. CASE UNCHANGED mediaVars
    BY <1>5
       DEF mediaVars, screenVars, clientVars, serviceVars, mishapVars, MediaInv, MediaTypeInv,
           MediaTypeOK, UploadInv, ContentInv, ReasonInv, RowsInv, Settled, Started, Fits,
           Uploading, Excused, Over, Held, Missing
  <1> QED
    BY <1>1, <1>2, <1>3, <1>4, <1>5 DEF MediaNext

-------------------------------------------------------------------------------
(* Theorems.                                                               *)

\* The inductive invariant holds in every reachable state.
THEOREM MediaInvariance == MediaSpec => []MediaInv
  BY MediaInitInv, MediaNextInv, PTL DEF MediaSpec

\* Whatever fails, resumes, expires or restarts, the upload named in a stored message
\* holds the whole file as that message's key sealed it.
THEOREM FilesReadable == MediaSpec => []MediaReadable
  <1>1. MediaInv => MediaReadable
    <2> SUFFICES ASSUME MediaInv, NEW s \in stored,
                        NEW i \in Indices, assets[s][i] # Source(s)
                 PROVE  \E x \in Sends \ {s} : sealedAt[x] = sealedAt[s] /\ sealedAt[s] # Nothing
      BY DEF MediaReadable
    <2>1. s \in Sends /\ Fits(s, assets[s][i])
      BY DEF MediaInv, MediaTypeInv, MediaTypeOK, ContentInv
    <2>2. sealedAt[s] # Nothing /\ assets[s][i] # s
      BY <2>1 DEF Source, Fits
    <2>3. assets[s][i] \in Sends \ {s} /\ sealedAt[assets[s][i]] = sealedAt[s]
      BY <2>1, <2>2 DEF Fits
    <2> QED
      BY <2>2, <2>3
  <1> QED
    BY <1>1, MediaInvariance, PTL

\* A send that fails was disturbed, or another send ended the upload it shared.
THEOREM FailsForReason == MediaSpec => []UploadFailsForReason
  <1>1. MediaInv => UploadFailsForReason
    BY DEF MediaInv, ReasonInv, Excused, UploadFailsForReason, At
  <1> QED
    BY <1>1, MediaInvariance, PTL

\* A sent row shows its own message, or that of a send with the same pending id.
THEOREM RowsShowTheirs == MediaSpec => []RowShowsItsMessage
  <1>1. MediaInv => RowShowsItsMessage
    <2> SUFFICES ASSUME MediaInv, NEW s \in Sends, At(s, "sent"), shows[s] # s
                 PROVE  \E x \in Sends \ {s} : pendingId[x] = pendingId[s]
      BY DEF RowShowsItsMessage
    <2>1. shows[s] \in Sends \ {s} /\ pendingId[shows[s]] = pendingId[s]
      BY DEF MediaInv, MediaTypeInv, MediaTypeOK, RowsInv, At
    <2> QED
      BY <2>1
  <1> QED
    BY <1>1, MediaInvariance, PTL

HIDE MediaAssumption

-------------------------------------------------------------------------------
(* Sender keys.                                                            *)

\* A record belongs to the member whose chain it holds.
MemberRecords == {r \in Records : r.chain.by = r.senderId}

Work ==
  [kind : {"free"}] \union [kind : {"send"}, record : MemberRecords \union {NoRecord}]
    \union [kind : {"post"}, record : MemberRecords]
    \union [kind : {"fetch"}, answer : [Members -> MemberRecords \union {NoRecord}]]
    \union [kind : {"read"}, message : said, record : MemberRecords]

GroupTypeInv ==
  /\ own \in [Members -> MemberRecords \union {NoRecord}]
  /\ peer \in [Members -> [Members -> MemberRecords \union {NoRecord}]]
  /\ posted \in [Members -> [Members -> MemberRecords \union {NoRecord}]]
  /\ generated \in [Members -> Nat]
  /\ working \in [Members -> [Slots -> Work]]
  /\ \A m \in said : m.from \in Members /\ m.iteration \in Nat

\* The record a chain begins with, which is the one posted.
First(a) == [chain |-> Chain(a, 1), iteration |-> 0, senderId |-> a]

\* A device's own record is of the only chain it generated, or of the chain of
\* a peer whose message it read.
HasItsChain(a) ==
  /\ own[a] # NoRecord /\ own[a].senderId = a => own[a].chain = Chain(a, 1)
  /\ own[a] = NoRecord => generated[a] = 0

\* Whatever others have, are sent or work with is the chain from its start: no
\* reading moves it on.
CopiesAreFirst(a) ==
  /\ \A u \in Members : posted[a][u] \in {NoRecord, First(a)}
  /\ \A u \in Members \ {a} : peer[u][a] \in {NoRecord, First(a)}
  /\ \A t \in Slots : working[a][t].kind = "post" => working[a][t].record = First(a)
  /\ \A u \in Members \ {a}, t \in Slots :
       /\ working[u][t].kind = "fetch" => working[u][t].answer[a] \in {NoRecord, First(a)}
       /\ working[u][t].kind = "read" /\ working[u][t].message.from = a
            => working[u][t].record = First(a)

\* The peer's record that a device files under its own name is of another's
\* chain, on which it spoke.
OwnPeerIsAnothers(a) ==
  /\ peer[a][a] # NoRecord => peer[a][a].senderId # a
  /\ \A t \in Slots :
       /\ working[a][t].kind = "fetch" => working[a][t].answer[a] = NoRecord
       /\ working[a][t].kind = "read" /\ working[a][t].message.from = a
            => working[a][t].record.senderId # a

\* What it said on its own chain has the keys its record has passed, each once.
SaidOnce(a) ==
  /\ \A m \in said :
       m.from = a /\ OnOwnChain(m) =>
         /\ own[a] # NoRecord /\ m.chain = Chain(a, 1)
         /\ own[a].senderId = a => m.iteration < own[a].iteration
  /\ \A m, x \in said :
       m.from = a /\ x.from = a /\ OnOwnChain(m) /\ OnOwnChain(x) /\ m.iteration = x.iteration
         => m = x

Intact(a) == HasItsChain(a) /\ CopiesAreFirst(a) /\ SaidOnce(a)

Sound(a) == a \notin overlapped

GroupInv ==
  /\ GroupTypeInv
  /\ \A a \in Members : OwnPeerIsAnothers(a)
  /\ \A a \in Members : Sound(a) => Intact(a)

USE MembersAssumption

LEMMA GroupInitInv == GroupInit => GroupInv
  <1> SUFFICES ASSUME GroupInit PROVE GroupInv
    OBVIOUS
  <1>1. GroupTypeInv
    BY DEF GroupInit, GroupTypeInv, Work
  <1>2. ASSUME NEW a \in Members PROVE Intact(a) /\ OwnPeerIsAnothers(a)
    BY DEF GroupInit, Intact, HasItsChain, CopiesAreFirst, OwnPeerIsAnothers, SaidOnce
  <1> QED
    BY <1>1, <1>2 DEF GroupInv

\* What one device has of one other is replaced.
LEMMA OneEntry ==
  ASSUME NEW S, NEW f \in [Members -> [Members -> S]],
         NEW u \in Members, NEW v \in Members, NEW r \in S
  PROVE  /\ [f EXCEPT ![u][v] = r] \in [Members -> [Members -> S]]
         /\ \A x, y \in Members :
              [f EXCEPT ![u][v] = r][x][y] = IF x = u /\ y = v THEN r ELSE f[x][y]
  <1>1. PICK row : row = [f[u] EXCEPT ![v] = r]
    OBVIOUS
  <1>2. row \in [Members -> S] /\ \A y \in Members : row[y] = IF y = v THEN r ELSE f[u][y]
    BY <1>1
  <1>3. [f EXCEPT ![u][v] = r] = [f EXCEPT ![u] = row]
    BY <1>1
  <1>4. [f EXCEPT ![u] = row] \in [Members -> [Members -> S]]
    BY <1>2
  <1>5. \A x \in Members : [f EXCEPT ![u] = row][x] = IF x = u THEN row ELSE f[x]
    OBVIOUS
  <1> QED
    BY <1>2, <1>3, <1>4, <1>5

\* The kinds of work tell what else a piece of work has.
LEMMA Kinds ==
  ASSUME NEW w \in Work
  PROVE  /\ w.kind = "send" => w = [kind |-> "send", record |-> w.record] /\ w.record \in MemberRecords \union {NoRecord}
         /\ w.kind = "post" => w.record \in MemberRecords
         /\ w.kind = "fetch" => w = [kind |-> "fetch", answer |-> w.answer]
                                /\ w.answer \in [Members -> MemberRecords \union {NoRecord}]
         /\ w.kind = "read" => w.message \in said /\ w.record \in MemberRecords
  BY DEF Work

\* Steps that only take up, or put down, a piece of work.
LEMMA BecomeInv ==
  ASSUME GroupInv, NEW u \in Members, NEW t \in Slots, NEW w \in Work,
         working' = [working EXCEPT ![u][t] = w],
         UNCHANGED <<own, peer, said, generated, heard, overlapped>>,
         posted' \in [Members -> [Members -> MemberRecords \union {NoRecord}]],
         \A a \in Members : Sound(a) =>
           /\ \A v \in Members : posted'[a][v] \in {NoRecord, First(a)}
           /\ w.kind = "fetch" /\ a # u => w.answer[a] \in {NoRecord, First(a)}
           /\ w.kind = "read" /\ w.message.from = a /\ a # u => w.record = First(a),
         Sound(u) /\ w.kind = "post" => w.record = First(u),
         w.kind = "fetch" => w.answer[u] = NoRecord,
         w.kind = "read" /\ w.message.from = u => w.record.senderId # u
  PROVE  GroupInv'
  <1>1. working' \in [Members -> [Slots -> Work]] /\ Work' = Work
    BY DEF GroupInv, GroupTypeInv, Work
  <1>2. GroupTypeInv'
    BY <1>1 DEF GroupInv, GroupTypeInv
  <1>3. \A v \in Members, x \in Slots :
          working'[v][x] = IF v = u /\ x = t THEN w ELSE working[v][x]
    BY DEF GroupInv, GroupTypeInv
  <1>4. ASSUME NEW a \in Members, Sound(a)'
        PROVE  Intact(a)'
    <2>1. Sound(a) /\ Intact(a)
      BY <1>4 DEF GroupInv, Sound
    <2>2. HasItsChain(a)' /\ SaidOnce(a)'
      BY <2>1 DEF Intact, HasItsChain, SaidOnce
    <2>3. CopiesAreFirst(a)'
      BY <1>3, <2>1 DEF Intact, CopiesAreFirst, First, Chain
    <2> QED
      BY <2>2, <2>3 DEF Intact
  <1>5. ASSUME NEW a \in Members PROVE OwnPeerIsAnothers(a)'
    BY <1>3 DEF GroupInv, OwnPeerIsAnothers
  <1> QED
    BY <1>2, <1>4, <1>5 DEF GroupInv

LEMMA StartSendInv ==
  ASSUME GroupInv, NEW u \in Members, NEW t \in Slots, StartSend(u, t)
  PROVE  GroupInv'
  <1> DEFINE w == [kind |-> "send", record |-> own[u]]
  <1>1. w \in Work
    BY DEF GroupInv, GroupTypeInv, Work
  <1>2. /\ working' = [working EXCEPT ![u][t] = w]
        /\ UNCHANGED <<own, peer, posted, said, generated, heard, overlapped>>
    BY DEF StartSend, Become
  <1>3. posted' \in [Members -> [Members -> MemberRecords \union {NoRecord}]]
    BY <1>2 DEF GroupInv, GroupTypeInv
  <1>4. \A a \in Members : Sound(a) => \A v \in Members : posted'[a][v] \in {NoRecord, First(a)}
    BY <1>2 DEF GroupInv, Intact, CopiesAreFirst
  <1>5. w.kind = "send"
    OBVIOUS
  <1> HIDE DEF w
  <1> QED
    BY <1>1, <1>2, <1>3, <1>4, <1>5, BecomeInv

LEMMA FetchInv ==
  ASSUME GroupInv, NEW u \in Members, NEW t \in Slots, Fetch(u, t)
  PROVE  GroupInv'
  <1> DEFINE answer == [v \in Members |-> IF v = u THEN NoRecord ELSE posted[v][u]]
             w == [kind |-> "fetch", answer |-> answer]
  <1>1. answer \in [Members -> MemberRecords \union {NoRecord}]
    BY DEF GroupInv, GroupTypeInv
  <1>2. w \in Work
    BY <1>1 DEF Work
  <1>3. /\ working' = [working EXCEPT ![u][t] = w]
        /\ UNCHANGED <<own, peer, posted, said, generated, heard, overlapped>>
    BY DEF Fetch, Become
  <1>4. posted' \in [Members -> [Members -> MemberRecords \union {NoRecord}]]
    BY <1>3 DEF GroupInv, GroupTypeInv
  <1>5. \A a \in Members : Sound(a) =>
          /\ \A v \in Members : posted'[a][v] \in {NoRecord, First(a)}
          /\ answer[a] \in {NoRecord, First(a)}
    BY <1>3 DEF GroupInv, Intact, CopiesAreFirst
  <1>6. w.kind = "fetch" /\ w.answer = answer /\ answer[u] = NoRecord
    OBVIOUS
  <1> HIDE DEF w, answer
  <1> QED
    BY <1>2, <1>3, <1>4, <1>5, <1>6, BecomeInv

LEMMA EndFetchInv ==
  ASSUME GroupInv, NEW u \in Members, NEW t \in Slots, EndFetch(u, t)
  PROVE  GroupInv'
  <1> DEFINE w == [kind |-> "free"]
  <1>1. w \in Work
    BY DEF Work
  <1>2. /\ working' = [working EXCEPT ![u][t] = w]
        /\ UNCHANGED <<own, peer, posted, said, generated, heard, overlapped>>
    BY DEF EndFetch, Become
  <1>3. posted' \in [Members -> [Members -> MemberRecords \union {NoRecord}]]
    BY <1>2 DEF GroupInv, GroupTypeInv
  <1>4. \A a \in Members : Sound(a) => \A v \in Members : posted'[a][v] \in {NoRecord, First(a)}
    BY <1>2 DEF GroupInv, Intact, CopiesAreFirst
  <1>5. w.kind = "free"
    OBVIOUS
  <1> HIDE DEF w
  <1> QED
    BY <1>1, <1>2, <1>3, <1>4, <1>5, BecomeInv

LEMMA StartReadInv ==
  ASSUME GroupInv, NEW u \in Members, NEW t \in Slots, NEW m \in said, StartRead(u, t, m)
  PROVE  GroupInv'
  <1> DEFINE record == peer[u][m.from]
             w == [kind |-> "read", message |-> m, record |-> record]
  <1>1. m.from \in Members /\ record \in MemberRecords
    BY DEF StartRead, Unlocks, GroupInv, GroupTypeInv
  <1>2. w \in Work
    BY <1>1 DEF Work
  <1>3. /\ working' = [working EXCEPT ![u][t] = w]
        /\ UNCHANGED <<own, peer, posted, said, generated, heard, overlapped>>
    BY DEF StartRead, Become
  <1>4. posted' \in [Members -> [Members -> MemberRecords \union {NoRecord}]]
    BY <1>3 DEF GroupInv, GroupTypeInv
  <1>5. \A a \in Members : Sound(a) =>
          /\ \A v \in Members : posted'[a][v] \in {NoRecord, First(a)}
          /\ m.from = a /\ a # u => record = First(a)
    BY <1>1, <1>3 DEF GroupInv, Intact, CopiesAreFirst, MemberRecords
  <1>6. m.from = u => record.senderId # u
    BY <1>1 DEF GroupInv, OwnPeerIsAnothers, MemberRecords
  <1>7. w.kind = "read" /\ w.message = m /\ w.record = record
    OBVIOUS
  <1> HIDE DEF w, record
  <1>8. \A a \in Members : Sound(a) =>
          /\ \A v \in Members : posted'[a][v] \in {NoRecord, First(a)}
          /\ w.kind = "fetch" /\ a # u => w.answer[a] \in {NoRecord, First(a)}
          /\ w.kind = "read" /\ w.message.from = a /\ a # u => w.record = First(a)
    BY <1>5, <1>7
  <1> QED
    BY <1>2, <1>3, <1>4, <1>6, <1>7, <1>8, BecomeInv

LEMMA PostInv ==
  ASSUME GroupInv, NEW u \in Members, NEW t \in Slots,
         NEW reached \in SUBSET (Members \ {u}), Post(u, t, reached)
  PROVE  GroupInv'
  <1> DEFINE w == [kind |-> "send", record |-> own[u]]
             r == working[u][t].record
  <1>1. w \in Work
    BY DEF GroupInv, GroupTypeInv, Work
  <1>2. /\ working' = [working EXCEPT ![u][t] = w]
        /\ UNCHANGED <<own, peer, said, generated, heard, overlapped>>
        /\ working[u][t].kind = "post"
        /\ posted' = [posted EXCEPT ![u] = [v \in Members |-> IF v \in reached THEN r ELSE @[v]]]
    BY DEF Post, Become
  <1>3. r \in MemberRecords
    BY <1>2, Kinds DEF GroupInv, GroupTypeInv
  <1> HIDE DEF r
  <1>4. posted' \in [Members -> [Members -> MemberRecords \union {NoRecord}]]
    BY <1>2, <1>3 DEF GroupInv, GroupTypeInv
  <1>5. Sound(u) => r = First(u)
    BY <1>2 DEF GroupInv, Intact, CopiesAreFirst, r
  <1>6. \A a, v \in Members :
          posted'[a][v] = IF a = u /\ v \in reached THEN r ELSE posted[a][v]
    BY <1>2 DEF GroupInv, GroupTypeInv
  <1>7. \A a \in Members : Sound(a) => \A v \in Members : posted'[a][v] \in {NoRecord, First(a)}
    BY <1>5, <1>6 DEF GroupInv, Intact, CopiesAreFirst
  <1>8. w.kind = "send"
    OBVIOUS
  <1> HIDE DEF w
  <1> QED
    BY <1>1, <1>2, <1>4, <1>7, <1>8, BecomeInv

LEMMA GenerateInv ==
  ASSUME GroupInv, NEW u \in Members, NEW t \in Slots, Generate(u, t)
  PROVE  GroupInv'
  <1> DEFINE record == [chain |-> Chain(u, generated[u] + 1), iteration |-> 0, senderId |-> u]
             w == [kind |-> "post", record |-> record]
  <1>1. record \in MemberRecords /\ record.senderId = u /\ record.iteration = 0
    BY DEF GroupInv, GroupTypeInv, MemberRecords, Records, Chain
  <1>2. w \in Work
    BY <1>1 DEF Work
  <1>3. /\ working' = [working EXCEPT ![u][t] = w]
        /\ own' = [own EXCEPT ![u] = record]
        /\ generated' = [generated EXCEPT ![u] = @ + 1]
        /\ overlapped' = IF own[u] = NoRecord THEN overlapped ELSE overlapped \union {u}
        /\ UNCHANGED <<peer, posted, said>>
    BY <1>1 DEF Generate, Become, Save, IsOwn, Overlaps
  <1>4. Sound(u)' => record = First(u) /\ own[u] = NoRecord /\ generated[u] = 0
    BY <1>3 DEF GroupInv, Sound, Intact, HasItsChain, First
  <1>5. w.kind = "post" /\ w.record = record
    OBVIOUS
  <1> HIDE DEF w, record
  <1>6. working' \in [Members -> [Slots -> Work]] /\ Work' = Work
    BY <1>2, <1>3 DEF GroupInv, GroupTypeInv, Work
  <1>7. GroupTypeInv'
    BY <1>1, <1>3, <1>6 DEF GroupInv, GroupTypeInv
  <1>8. \A v \in Members, x \in Slots :
          working'[v][x] = IF v = u /\ x = t THEN w ELSE working[v][x]
    BY <1>3 DEF GroupInv, GroupTypeInv
  <1>9. \A a \in Members : /\ own'[a] = IF a = u THEN record ELSE own[a]
                           /\ generated'[a] = IF a = u THEN generated[u] + 1 ELSE generated[a]
    BY <1>3 DEF GroupInv, GroupTypeInv
  <1>10. ASSUME NEW a \in Members, Sound(a)'
         PROVE  Intact(a)'
    <2>1. Sound(a) /\ Intact(a)
      BY <1>3, <1>10 DEF GroupInv, Sound
    <2>2. HasItsChain(a)'
      BY <1>1, <1>4, <1>9, <1>10, <2>1 DEF Intact, HasItsChain, First, Chain, MemberRecords
    <2>3. CopiesAreFirst(a)'
      BY <1>3, <1>4, <1>5, <1>8, <1>10, <2>1 DEF Intact, CopiesAreFirst, First, Chain
    <2>4. SaidOnce(a)'
      BY <1>3, <1>4, <1>9, <1>10, <2>1 DEF Intact, SaidOnce, Chain, OnOwnChain
    <2> QED
      BY <2>2, <2>3, <2>4 DEF Intact
  <1>11. ASSUME NEW a \in Members PROVE OwnPeerIsAnothers(a)'
    BY <1>3, <1>5, <1>8 DEF GroupInv, OwnPeerIsAnothers
  <1> QED
    BY <1>7, <1>10, <1>11 DEF GroupInv

LEMMA StorePeerInv ==
  ASSUME GroupInv, NEW u \in Members, NEW t \in Slots, NEW v \in Members, StorePeer(u, t, v)
  PROVE  GroupInv'
  <1> DEFINE old == working[u][t]
             w == [old EXCEPT !.answer[v] = NoRecord]
  <1>1. old \in Work /\ old.kind = "fetch" /\ old.answer[v] # NoRecord
    BY DEF StorePeer, GroupInv, GroupTypeInv
  <1>2. /\ old = [kind |-> "fetch", answer |-> old.answer]
        /\ old.answer \in [Members -> MemberRecords \union {NoRecord}]
    BY <1>1, Kinds
  <1>3. /\ peer' = [peer EXCEPT ![u][v] = old.answer[v]]
        /\ working' = [working EXCEPT ![u][t] = w]
        /\ UNCHANGED <<own, posted, said, generated, heard, overlapped>>
    BY DEF StorePeer
  <1> HIDE DEF old
  <1>4. w = [kind |-> "fetch", answer |-> [old.answer EXCEPT ![v] = NoRecord]]
    BY <1>2
  <1>5. w.kind = "fetch" /\ \A a \in Members : w.answer[a] \in {NoRecord, old.answer[a]}
    BY <1>2, <1>4
  <1>6. w \in Work
    BY <1>2, <1>4 DEF Work
  <1> HIDE DEF w
  <1>7. working' \in [Members -> [Slots -> Work]] /\ Work' = Work
    BY <1>3, <1>6 DEF GroupInv, GroupTypeInv, Work
  <1>8. GroupTypeInv'
    BY <1>2, <1>3, <1>7 DEF GroupInv, GroupTypeInv
  <1>9. \A z \in Members, x \in Slots :
          working'[z][x] = IF z = u /\ x = t THEN w ELSE working[z][x]
    BY <1>3 DEF GroupInv, GroupTypeInv
  <1>10. \A z, a \in Members : peer'[z][a] = IF z = u /\ a = v THEN old.answer[v] ELSE peer[z][a]
    BY <1>3 DEF GroupInv, GroupTypeInv
  <1>11. ASSUME NEW a \in Members, Sound(a)'
         PROVE  Intact(a)'
    <2>1. Sound(a) /\ Intact(a)
      BY <1>3, <1>11 DEF GroupInv, Sound
    <2>2. HasItsChain(a)' /\ SaidOnce(a)'
      BY <1>3, <2>1 DEF Intact, HasItsChain, SaidOnce, Chain
    <2>3. a # u => old.answer[a] \in {NoRecord, First(a)}
      BY <1>1, <2>1 DEF Intact, CopiesAreFirst, old
    <2>4. CopiesAreFirst(a)'
      BY <1>3, <1>5, <1>9, <1>10, <2>1, <2>3 DEF Intact, CopiesAreFirst, First, Chain
    <2> QED
      BY <2>2, <2>4 DEF Intact
  <1>12. ASSUME NEW a \in Members PROVE OwnPeerIsAnothers(a)'
    <2>1. OwnPeerIsAnothers(a)
      BY DEF GroupInv
    <2>2. a = u => old.answer[a] = NoRecord
      BY <1>1, <2>1 DEF OwnPeerIsAnothers, old
    <2> QED
      BY <1>1, <1>5, <1>9, <1>10, <2>1, <2>2 DEF OwnPeerIsAnothers
  <1> QED
    BY <1>8, <1>11, <1>12 DEF GroupInv

LEMMA FinishSendInv ==
  ASSUME GroupInv, NEW u \in Members, NEW t \in Slots, FinishSend(u, t)
  PROVE  GroupInv'
  <1> DEFINE record == working[u][t].record
             next == Advanced(record)
             w == [kind |-> "free"]
  <1>1. PICK m : /\ m.from = u /\ m.chain = record.chain /\ m.iteration = record.iteration
                 /\ said' = said \union {m}
    BY DEF FinishSend
  <1>2. record \in MemberRecords
    BY Kinds DEF FinishSend, GroupInv, GroupTypeInv
  <1>3. /\ next \in MemberRecords /\ next.chain = record.chain /\ next.senderId = record.senderId
        /\ next.iteration = record.iteration + 1 /\ record.iteration \in Nat
    BY <1>2 DEF MemberRecords, Records, Advanced
  <1>4. /\ working' = [working EXCEPT ![u][t] = w]
        /\ overlapped' = IF own[u] = record THEN overlapped ELSE overlapped \union {u}
        /\ UNCHANGED <<posted, generated>>
        /\ Save(u, u, next)
    BY DEF FinishSend, Become, Overlaps
  <1> HIDE DEF record, next
  <1>5. IF record.senderId = u THEN own' = [own EXCEPT ![u] = next] /\ peer' = peer
                               ELSE own' = own /\ peer' = [peer EXCEPT ![u][u] = next]
    BY <1>3, <1>4 DEF Save, IsOwn
  <1>6. Work \subseteq Work' /\ w \in Work
    BY <1>1 DEF Work
  <1>7. working' \in [Members -> [Slots -> Work]]
    BY <1>4, <1>6 DEF GroupInv, GroupTypeInv
  <1>8. working' \in [Members -> [Slots -> Work']]
    BY <1>6, <1>7
  <1>9. GroupTypeInv'
    <2>1. own' \in [Members -> MemberRecords \union {NoRecord}]
      BY <1>3, <1>5 DEF GroupInv, GroupTypeInv
    <2>2. peer' \in [Members -> [Members -> MemberRecords \union {NoRecord}]]
      <3>1. CASE record.senderId = u
        BY <1>5, <3>1 DEF GroupInv, GroupTypeInv
      <3>2. CASE record.senderId # u
        <4>1. peer' = [peer EXCEPT ![u][u] = next]
          BY <1>5, <3>2
        <4> QED
          BY <1>3, <4>1, OneEntry DEF GroupInv, GroupTypeInv
      <3> QED
        BY <3>1, <3>2
    <2>3. m.from \in Members /\ m.iteration \in Nat
      BY <1>1, <1>3
    <2> QED
      BY <1>1, <1>4, <1>8, <2>1, <2>2, <2>3 DEF GroupInv, GroupTypeInv
  <1>10. \A v \in Members, x \in Slots :
          working'[v][x] = IF v = u /\ x = t THEN w ELSE working[v][x]
    BY <1>4 DEF GroupInv, GroupTypeInv
  <1>11. w.kind = "free"
    OBVIOUS
  <1> HIDE DEF w
  <1>12. Sound(u)' => own[u] = record /\ (record.senderId = u => record.chain = Chain(u, 1))
    <2>1. SUFFICES ASSUME Sound(u)'
                   PROVE  own[u] = record /\ (record.senderId = u => record.chain = Chain(u, 1))
      OBVIOUS
    <2>2. own[u] = record /\ Intact(u)
      BY <1>4, <2>1 DEF GroupInv, Sound
    <2> QED
      BY <1>2, <2>2 DEF Intact, HasItsChain, MemberRecords
  <1>13. \A a \in Members : a # u => own'[a] = own[a] /\ peer'[a][a] = peer[a][a]
    <2>1. CASE record.senderId = u
      BY <1>5, <2>1 DEF GroupInv, GroupTypeInv
    <2>2. CASE record.senderId # u
      <3>1. own' = own /\ peer' = [peer EXCEPT ![u][u] = next]
        BY <1>5, <2>2
      <3> QED
        BY <1>3, <3>1, OneEntry DEF GroupInv, GroupTypeInv
    <2> QED
      BY <2>1, <2>2
  <1>14. \A a \in Members : \A v \in Members \ {a} : peer'[v][a] = peer[v][a]
    <2>1. CASE record.senderId = u
      BY <1>5, <2>1
    <2>2. CASE record.senderId # u
      <3>1. peer' = [peer EXCEPT ![u][u] = next]
        BY <1>5, <2>2
      <3> QED
        BY <1>3, <3>1, OneEntry DEF GroupInv, GroupTypeInv
    <2> QED
      BY <2>1, <2>2
  <1>15. ASSUME NEW a \in Members PROVE OwnPeerIsAnothers(a)'
    <2>1. OwnPeerIsAnothers(a)
      BY DEF GroupInv
    <2>2. peer'[a][a] # NoRecord => peer'[a][a].senderId # a
      <3>1. CASE a # u \/ record.senderId = u
        BY <1>5, <1>13, <2>1, <3>1 DEF OwnPeerIsAnothers
      <3>2. CASE a = u /\ record.senderId # u
        <4>1. peer' = [peer EXCEPT ![u][u] = next]
          BY <1>5, <3>2
        <4>2. peer'[u][u] = next
          BY <1>3, <4>1, OneEntry DEF GroupInv, GroupTypeInv
        <4> QED
          BY <1>3, <3>2, <4>2
      <3> QED
        BY <3>1, <3>2
    <2> QED
      BY <1>10, <1>11, <2>1, <2>2 DEF OwnPeerIsAnothers
  <1>16. ASSUME NEW a \in Members, Sound(a)'
         PROVE  Intact(a)'
    <2>1. Sound(a) /\ Intact(a)
      BY <1>4, <1>16 DEF GroupInv, Sound
    <2>2. CopiesAreFirst(a)'
      BY <1>4, <1>10, <1>11, <1>14, <2>1 DEF Intact, CopiesAreFirst, First, Chain
    <2>3. CASE a # u \/ record.senderId # u
      <3>1. own'[a] = own[a]
        BY <1>5, <1>13, <2>3
      <3>2. HasItsChain(a)'
        BY <1>4, <2>1, <3>1 DEF Intact, HasItsChain, Chain
      <3>3. ~ (m.from = a /\ OnOwnChain(m))
        <4>1. record.chain.by = record.senderId
          BY <1>2 DEF MemberRecords
        <4> QED
          BY <1>1, <2>3, <4>1 DEF OnOwnChain
      <3>4. SaidOnce(a)'
        BY <1>1, <2>1, <3>1, <3>3 DEF Intact, SaidOnce, Chain, OnOwnChain
      <3> QED
        BY <2>2, <3>2, <3>4 DEF Intact
    <2>4. CASE a = u /\ record.senderId = u
      <3>1. own[u] = record /\ record.chain = Chain(u, 1)
        BY <1>12, <1>16, <2>4
      <3>2. own' = [own EXCEPT ![u] = next] /\ own'[u] = next /\ next # NoRecord
        BY <1>3, <1>5, <2>4 DEF GroupInv, GroupTypeInv, MemberRecords
      <3>3. HasItsChain(a)'
        BY <1>2, <1>3, <1>4, <2>1, <2>4, <3>1, <3>2
        DEF Intact, HasItsChain, Chain, MemberRecords
      <3>4. /\ \A x \in said : x.from = u /\ OnOwnChain(x) =>
                 x.chain = Chain(u, 1) /\ x.iteration < record.iteration /\ x.iteration \in Nat
            /\ \A x, y \in said :
                 x.from = u /\ y.from = u /\ OnOwnChain(x) /\ OnOwnChain(y)
                   /\ x.iteration = y.iteration => x = y
        BY <2>1, <2>4, <3>1 DEF Intact, SaidOnce, GroupInv, GroupTypeInv
      <3>5. SaidOnce(a)'
        BY <1>1, <1>3, <2>4, <3>1, <3>2, <3>4 DEF SaidOnce, Chain, OnOwnChain
      <3> QED
        BY <2>2, <3>3, <3>5 DEF Intact
    <2> QED
      BY <2>3, <2>4
  <1> QED
    BY <1>9, <1>16, <1>15 DEF GroupInv

LEMMA FinishReadInv ==
  ASSUME GroupInv, NEW u \in Members, NEW t \in Slots, FinishRead(u, t)
  PROVE  GroupInv'
  <1> DEFINE m == working[u][t].message
             record == working[u][t].record
             next == [record EXCEPT !.iteration = m.iteration + 1]
             w == [kind |-> "free"]
  <1>1. m \in said /\ record \in MemberRecords /\ working[u][t].kind = "read"
    BY Kinds DEF FinishRead, GroupInv, GroupTypeInv
  <1>2. m.from \in Members /\ m.iteration \in Nat
    BY <1>1 DEF GroupInv, GroupTypeInv
  <1>3. next \in MemberRecords /\ next.senderId = record.senderId
    BY <1>1, <1>2 DEF MemberRecords, Records
  <1>4. /\ working' = [working EXCEPT ![u][t] = w]
        /\ UNCHANGED <<posted, said, generated, overlapped>>
        /\ Save(u, m.from, next)
    BY DEF FinishRead, Become
  <1>5. ASSUME NEW a \in Members
        PROVE  /\ Sound(a) /\ m.from = a /\ a # u => record.senderId = a
               /\ m.from = u => record.senderId # u
    <2>1. Sound(a) /\ m.from = a /\ a # u => record = First(a)
      BY <1>1 DEF GroupInv, Intact, CopiesAreFirst
    <2> QED
      BY <1>1, <2>1 DEF GroupInv, OwnPeerIsAnothers, First
  <1> HIDE DEF m, record, next
  <1>6. IF record.senderId = m.from
        THEN own' = [own EXCEPT ![u] = next] /\ peer' = peer
        ELSE own' = own /\ peer' = [peer EXCEPT ![u][m.from] = next]
    BY <1>3, <1>4 DEF Save, IsOwn
  <1>7. w \in Work /\ Work' = Work /\ w.kind = "free"
    BY <1>4 DEF Work
  <1> HIDE DEF w
  <1>8. working' \in [Members -> [Slots -> Work']]
    BY <1>4, <1>7 DEF GroupInv, GroupTypeInv
  <1>9. GroupTypeInv'
    <2>1. CASE record.senderId = m.from
      <3>1. own' = [own EXCEPT ![u] = next] /\ peer' = peer
        BY <1>6, <2>1
      <3>2. own' \in [Members -> MemberRecords \union {NoRecord}]
        BY <1>3, <3>1 DEF GroupInv, GroupTypeInv
      <3>3. /\ peer' \in [Members -> [Members -> MemberRecords \union {NoRecord}]]
            /\ posted' \in [Members -> [Members -> MemberRecords \union {NoRecord}]]
            /\ generated' \in [Members -> Nat]
            /\ \A x \in said' : x.from \in Members /\ x.iteration \in Nat
        BY <1>4, <3>1 DEF GroupInv, GroupTypeInv
      <3> QED
        BY <1>8, <3>2, <3>3 DEF GroupTypeInv
    <2>2. CASE record.senderId # m.from
      <3>1. peer' = [peer EXCEPT ![u][m.from] = next] /\ own' = own
        BY <1>6, <2>2
      <3>2. peer' \in [Members -> [Members -> MemberRecords \union {NoRecord}]]
        BY <1>2, <1>3, <3>1, OneEntry DEF GroupInv, GroupTypeInv
      <3>3. /\ own' \in [Members -> MemberRecords \union {NoRecord}]
            /\ posted' \in [Members -> [Members -> MemberRecords \union {NoRecord}]]
            /\ generated' \in [Members -> Nat]
            /\ \A x \in said' : x.from \in Members /\ x.iteration \in Nat
        BY <1>4, <3>1 DEF GroupInv, GroupTypeInv
      <3> QED
        BY <1>8, <3>2, <3>3 DEF GroupTypeInv
    <2> QED
      BY <2>1, <2>2
  <1>10. \A v \in Members, x \in Slots :
          working'[v][x] = IF v = u /\ x = t THEN w ELSE working[v][x]
    BY <1>4 DEF GroupInv, GroupTypeInv
  <1>11. ASSUME NEW a \in Members, Sound(a)'
         PROVE  Intact(a)'
    <2>1. Sound(a) /\ Intact(a)
      BY <1>4, <1>11 DEF GroupInv, Sound
    <2>2. \A v \in Members \ {a} : peer'[v][a] = peer[v][a]
      <3>1. CASE peer' = peer
        BY <3>1
      <3>2. CASE record.senderId # m.from /\ peer' = [peer EXCEPT ![u][m.from] = next]
        <4>1. a = m.from => a = u
          BY <1>5, <2>1, <3>2
        <4>2. \A v, y \in Members :
                peer'[v][y] = IF v = u /\ y = m.from THEN next ELSE peer[v][y]
          BY <1>2, <1>3, <3>2, OneEntry DEF GroupInv, GroupTypeInv
        <4> QED
          BY <4>1, <4>2
      <3> QED
        BY <1>6, <3>1, <3>2
    <2>3. CopiesAreFirst(a)'
      BY <1>4, <1>7, <1>10, <2>1, <2>2 DEF Intact, CopiesAreFirst, First, Chain
    <2>4. CASE own'[a] = own[a]
      BY <1>4, <2>1, <2>3, <2>4 DEF Intact, HasItsChain, SaidOnce, Chain, OnOwnChain
    <2>5. CASE own'[a] # own[a]
      <3>1. a = u /\ own'[a] = next /\ own[a] # next /\ record.senderId = m.from
        BY <1>6, <2>5 DEF GroupInv, GroupTypeInv
      <3>2. next.senderId # a /\ next # NoRecord
        BY <1>3, <1>5, <3>1 DEF MemberRecords
      <3> QED
        BY <1>4, <2>1, <2>3, <3>1, <3>2 DEF Intact, HasItsChain, SaidOnce, Chain, OnOwnChain
    <2> QED
      BY <2>4, <2>5
  <1>12. ASSUME NEW a \in Members PROVE OwnPeerIsAnothers(a)'
    <2>1. OwnPeerIsAnothers(a)
      BY DEF GroupInv
    <2>2. peer'[a][a] # NoRecord => peer'[a][a].senderId # a
      <3>1. CASE peer' = peer
        BY <2>1, <3>1 DEF OwnPeerIsAnothers
      <3>2. CASE record.senderId # m.from /\ peer' = [peer EXCEPT ![u][m.from] = next]
        <4>1. \A v, y \in Members :
                peer'[v][y] = IF v = u /\ y = m.from THEN next ELSE peer[v][y]
          BY <1>2, <1>3, <3>2, OneEntry DEF GroupInv, GroupTypeInv
        <4> QED
          BY <1>3, <2>1, <3>2, <4>1 DEF OwnPeerIsAnothers
      <3> QED
        BY <1>6, <3>1, <3>2
    <2> QED
      BY <1>7, <1>10, <2>1, <2>2 DEF OwnPeerIsAnothers
  <1> QED
    BY <1>9, <1>11, <1>12 DEF GroupInv

LEMMA GroupNextInv == GroupInv /\ [GroupNext]_groupVars => GroupInv'
  <1> SUFFICES ASSUME GroupInv, [GroupNext]_groupVars PROVE GroupInv'
    OBVIOUS
  <1>1. CASE UNCHANGED groupVars
    BY <1>1 DEF groupVars, GroupInv, GroupTypeInv, Work, Sound, Intact, HasItsChain,
                CopiesAreFirst, OwnPeerIsAnothers, SaidOnce
  <1>2. CASE GroupNext
    <2>1. PICK u \in Members, t \in Slots :
            \/ StartSend(u, t)
            \/ Generate(u, t)
            \/ \E reached \in SUBSET (Members \ {u}) : Post(u, t, reached)
            \/ FinishSend(u, t)
            \/ Fetch(u, t)
            \/ \E v \in Members : StorePeer(u, t, v)
            \/ EndFetch(u, t)
            \/ \E m \in said : StartRead(u, t, m)
            \/ FinishRead(u, t)
      BY <1>2 DEF GroupNext
    <2> QED
      BY <2>1, StartSendInv, GenerateInv, PostInv, FinishSendInv, FetchInv, StorePeerInv,
         EndFetchInv, StartReadInv, FinishReadInv
  <1> QED
    BY <1>1, <1>2

LEMMA GroupInvAdvances == GroupInv => ChainsAdvance
  <1> SUFFICES ASSUME GroupInv PROVE ChainsAdvance
    OBVIOUS
  <1>1. ReadsAsSaid
    <2>1. SUFFICES ASSUME NEW u \in Members, NEW m \in said, m.from # u, OnOwnChain(m),
                          peer[u][m.from] # NoRecord, Sound(m.from)
                   PROVE  Unlocks(peer[u][m.from], m)
      BY DEF ReadsAsSaid, Sound
    <2>2. m.from \in Members /\ m.iteration \in Nat /\ Intact(m.from)
      BY <2>1 DEF GroupInv, GroupTypeInv
    <2>3. peer[u][m.from] = First(m.from) /\ m.chain = Chain(m.from, 1)
      BY <2>1, <2>2 DEF Intact, CopiesAreFirst, SaidOnce
    <2> QED
      BY <2>1, <2>2, <2>3 DEF First, Unlocks
  <1>2. ASSUME NEW m \in said, NEW x \in said, m # x, SameKey(m, x), m.from = x.from,
               OnOwnChain(m), Sound(m.from)
        PROVE  FALSE
    <2>1. OnOwnChain(x) /\ m.iteration = x.iteration
      BY <1>2 DEF SameKey, OnOwnChain
    <2> QED
      BY <1>2, <2>1 DEF GroupInv, GroupTypeInv, Intact, SaidOnce
  <1>3. OwnKeyOnce
    BY <1>2 DEF OwnKeyOnce, Sound
  <1> QED
    BY <1>1, <1>3 DEF ChainsAdvance

\* Sender keys: who has a member's key reads the messages of that member's own chain as
\* they come, and no two of them share a key, but for authors whose two sends at once
\* saved over each other.
THEOREM SenderKeysAdvance == GroupSpec => []ChainsAdvance
  <1>1. GroupSpec => []GroupInv
    BY GroupInitInv, GroupNextInv, PTL DEF GroupSpec
  <1> QED
    BY <1>1, GroupInvAdvances, PTL

HIDE MembersAssumption

-------------------------------------------------------------------------------
(* The Double Ratchet.                                                     *)

Jobs ==
  [kind : {"idle"}]
    \union [kind : {"encrypt"}, state : States \union {None}, written : States \union {None}]
    \union [kind : {"decrypt"}, message : sent, state : States \union {None}]

DmTypeInv ==
  /\ ratchet \in [Users -> States \union {None}]
  /\ task \in [Users -> [Tasks -> Jobs]]
  /\ \A m \in sent : /\ m.from \in Users /\ m.dh \in RatchetKeys /\ m.key \in MessageKeys
                     /\ m.pn \in Nat /\ m.n = m.key.n
  /\ opened \in [Users -> SUBSET sent]
  /\ made \in [Users -> Nat]
  /\ overwritten \subseteq Users

\* The states a device works with: the one stored, and those its operations read.
Has(u, s) ==
  s = ratchet[u] \/ \E t \in Tasks : task[u][t].kind # "idle" /\ s = task[u][t].state

Root(u) == << DH(IdentityKey(u), IdentityKey(Peer(u))) >>
FirstChain(u, k) == Append(Root(u), DH(k, IdentityKey(Peer(u))))

\* The chain a device in state s sends with.
ChainOf(u, s) == IF s.CKs = NoChain THEN FirstChain(u, s.DHs) ELSE s.CKs

\* The ratchet keys of a device, each with the chain it sends with.
Uses(u, k, c) ==
  \/ \E s \in States : Has(u, s) /\ k = s.DHs /\ c = ChainOf(u, s)
  \/ \E m \in sent : m.from = u /\ k = m.dh /\ c = m.key.chain

\* A chain is the first one, or was begun on reading a message of the peer.
Rooted(u, k, c) ==
  \/ c = FirstChain(u, k)
  \/ \E m \in sent : m.from = Peer(u) /\ c = Append(m.key.chain, DH(k, m.dh))

SendingInv(u) ==
  \A k \in RatchetKeys, c \in ChainKeys :
    Uses(u, k, c) => /\ k.owner = u /\ k.n \in 1 .. made[u]
                     /\ Rooted(u, k, c)
                     /\ \A d \in ChainKeys : Uses(u, k, d) => d = c

\* What a device receives with is a chain the peer sends with.
Theirs(u, k, c) == \E m \in sent : m.from = Peer(u) /\ m.dh = k /\ m.key.chain = c

ReceivingInv(u, s) ==
  /\ s.CKs = NoChain => s.DHr = None
  /\ s.CKs # NoChain => s.RK = s.CKs
  /\ s.DHr = None => s.CKs = NoChain /\ s.CKr = NoChain /\ s.MKSKIPPED = {} /\ s.RK = Root(u)
  /\ s.DHr # None /\ s.CKr = NoChain =>
       s.DHr = IdentityKey(Peer(u)) /\ s.CKs = FirstChain(u, s.DHs)
  /\ s.CKr # NoChain => Theirs(u, s.DHr, s.CKr) /\ Len(s.CKr) < Len(s.RK) /\ s.Nr >= 1
  /\ \A x \in s.MKSKIPPED :
       /\ Theirs(u, x.dh, x.key.chain) /\ Len(x.key.chain) < Len(s.RK)
       /\ x.dh = s.DHr => x.key.n < s.Nr

\* What is left to do with a message that opens.
Receives(u, s, m) ==
  IF IsSkipped(s, m) THEN [dh |-> m.dh, key |-> m.key] \in s.MKSKIPPED
  ELSE IF m.dh = s.DHr
       THEN s.CKr # NoChain /\ m.n \in s.Nr .. s.Nr + MaxSkip /\ m.key.chain = s.CKr
       ELSE /\ m.n <= MaxSkip
            /\ m.key.chain = Append(s.RK, DH(IF s.DHr = None THEN IdentityKey(u) ELSE s.DHs, m.dh))

JobsInv(u) ==
  \A t \in Tasks :
    /\ task[u][t].kind = "encrypt" => task[u][t].state = task[u][t].written
    /\ task[u][t].kind = "decrypt" =>
         /\ task[u][t].message.from = Peer(u)
         /\ IF task[u][t].state = None
            THEN Receives(u, Blank(u, Fresh(u)), task[u][t].message)
            ELSE Receives(u, task[u][t].state, task[u][t].message)

\* The messages of a device that never wrote over a state it had not read.
SentInv(u) ==
  /\ \A m, x \in sent : m.from = u /\ x.from = u /\ m.dh = x.dh /\ m.n = x.n => m = x
  /\ \A m \in sent : m.from = u =>
       ratchet[u] # None /\ (m.dh = ratchet[u].DHs => m.n < ratchet[u].Ns)

\* The key of m is gone from s.
Gone(s, m) ==
  /\ Len(m.key.chain) < Len(s.RK)
  /\ m.dh = s.DHr => m.n < s.Nr
  /\ ~ IsSkipped(s, m)

OpenedInv(u) ==
  \A m \in opened[u] : m.from = Peer(u) /\ ratchet[u] # None /\ Gone(ratchet[u], m)

DeviceInv(u) ==
  /\ SendingInv(u) /\ JobsInv(u)
  /\ \A s \in States : Has(u, s) => ReceivingInv(u, s)
  /\ u \notin overwritten => SentInv(u) /\ OpenedInv(u)

KeysInv == DmTypeInv /\ \A u \in Users : DeviceInv(u)

-------------------------------------------------------------------------------
(* In step.                                                                *)

Beginning(u) == ratchet[u] = None \/ ratchet[u].DHr = None
Ahead(u) == ratchet[u] # None /\ ratchet[u].DHr = IdentityKey(Peer(u))

Before == sent = {} /\ \A u \in Users : Beginning(u)

OneWrote(u) ==
  /\ Ahead(u) /\ Beginning(Peer(u))
  /\ \A m \in sent : m.from = u /\ m.dh = ratchet[u].DHs

BothWrote ==
  \A u \in Users : Ahead(u) /\ \A m \in sent : m.from = u => m.dh = ratchet[u].DHs

Entry(m) == [dh |-> m.dh, key |-> m.key]

\* The leader's state L and the other's F: the leader receives with the chain the
\* other sends with, and sends with one the other has yet to begin receiving with.
Follows(L, F) ==
  /\ L.DHr = F.DHs /\ L.CKr = F.CKs /\ L.CKr # NoChain /\ L.Nr <= F.Ns
  /\ L.CKs = Append(F.CKs, DH(L.DHs, F.DHs)) /\ F.DHr # L.DHs

\* What either has sent.
LeaderSent(l, L, F) ==
  \A m \in sent : m.from = l =>
    /\ m.dh = L.DHs => m.pn = L.PN
    /\ m.dh = F.DHr => m.n < L.PN
    /\ m.dh # L.DHs => Len(m.key.chain) < Len(L.CKs)

OtherSent(l, F) ==
  \A m \in sent : m.from = Peer(l) => Len(m.key.chain) <= Len(F.CKs)

\* What either has still to read is at hand: in the chain it receives with, in the
\* one it is about to begin, or among the skipped keys.
AtHand(s, m) == (m.dh = s.DHr /\ m.n >= s.Nr) \/ Entry(m) \in s.MKSKIPPED

LeaderOwes(l, L, F) ==
  \A m \in sent \ opened[Peer(l)] :
    m.from = l /\ ~ TooLong(m) => m.dh = L.DHs \/ AtHand(F, m)

OtherOwes(l, L) ==
  \A m \in sent \ opened[l] : m.from = Peer(l) /\ ~ TooLong(m) => AtHand(L, m)

\* l has read what its peer writes and has answered with a chain of its own, which
\* the peer may have yet to read.
LeadsWith(l, L, F) ==
  Follows(L, F) /\ LeaderSent(l, L, F) /\ OtherSent(l, F) /\ LeaderOwes(l, L, F) /\ OtherOwes(l, L)

Leads(l) ==
  ratchet[l] # None /\ ratchet[Peer(l)] # None /\ LeadsWith(l, ratchet[l], ratchet[Peer(l)])

InStep ==
  overwritten = {} => \/ Before \/ (\E u \in Users : OneWrote(u)) \/ BothWrote
                      \/ \E l \in Users : Leads(l)

USE UsersAssumption, SkipAssumption

-------------------------------------------------------------------------------
LEMMA Peers ==
  ASSUME NEW u \in Users
  PROVE  /\ Peer(u) \in Users /\ Peer(u) # u /\ Peer(Peer(u)) = u
         /\ \A v \in Users : v = u \/ v = Peer(u)
  <1>1. PICK a \in Users, b \in Users : a # b /\ Users = {a, b}
    OBVIOUS
  <1>2. \A v \in Users : \E w \in Users : w # v
    BY <1>1
  <1>3. ASSUME NEW v \in Users
        PROVE  Peer(v) \in Users /\ Peer(v) # v
    BY <1>2 DEF Peer
  <1> QED
    BY <1>1, <1>3

LEMMA Appending ==
  ASSUME NEW c \in ChainKeys, NEW x \in SUBSET RatchetKeys
  PROVE  /\ Append(c, x) \in ChainKeys /\ Append(c, x) # NoChain
         /\ Len(c) \in Nat /\ Len(Append(c, x)) = Len(c) + 1
         /\ \A d \in ChainKeys, y \in SUBSET RatchetKeys :
              Append(c, x) = Append(d, y) => c = d /\ x = y
  <1>1. Append(c, x) \in ChainKeys /\ Len(c) \in Nat /\ Len(Append(c, x)) = Len(c) + 1
    BY DEF ChainKeys
  <1>2. Append(c, x) # NoChain
    BY AppendProperties DEF NoChain, ChainKeys
  <1>3. ASSUME NEW d \in ChainKeys, NEW y \in SUBSET RatchetKeys, Append(c, x) = Append(d, y)
        PROVE  c = d /\ x = y
    <2>1. c \in Seq(SUBSET RatchetKeys) /\ d \in Seq(SUBSET RatchetKeys)
      BY DEF ChainKeys
    <2> HIDE DEF RatchetKeys
    <2> QED
      BY <1>3, <2>1
  <1> QED
    BY <1>1, <1>2, <1>3

LEMMA KeyTypes ==
  ASSUME NEW u \in Users
  PROVE  /\ IdentityKey(u) \in RatchetKeys /\ IdentityKey(u).owner = u /\ IdentityKey(u).n = 0
         /\ \A n \in Nat : /\ RatchetKey(u, n) \in RatchetKeys
                           /\ RatchetKey(u, n).owner = u /\ RatchetKey(u, n).n = n
         /\ \A k, j \in RatchetKeys : DH(k, j) \in SUBSET RatchetKeys
  <1>1. ASSUME NEW n \in Nat
        PROVE  /\ [owner |-> u, n |-> n] \in RatchetKeys
               /\ [owner |-> u, n |-> n].owner = u /\ [owner |-> u, n |-> n].n = n
    BY DEF RatchetKeys
  <1>2. \A k, j \in RatchetKeys : DH(k, j) \in SUBSET RatchetKeys
    BY DEF DH
  <1> QED
    BY <1>1, <1>2 DEF IdentityKey, RatchetKey

\* The two keys of an output are told apart by their owners.
LEMMA Ends ==
  ASSUME NEW k, NEW j, NEW k2, NEW j2, k.owner = k2.owner, j.owner = j2.owner, k.owner # j.owner,
         DH(k, j) = DH(k2, j2)
  PROVE  k = k2 /\ j = j2
  <1>1. k \in DH(k2, j2) /\ j \in DH(k2, j2)
    BY DEF DH
  <1> QED
    BY <1>1 DEF DH

\* A chain with an output mixed in.
LEMMA Mixed ==
  ASSUME NEW c \in ChainKeys, NEW k \in RatchetKeys, NEW j \in RatchetKeys,
         NEW d, d = Append(c, DH(k, j))
  PROVE  d \in ChainKeys /\ d # NoChain /\ Len(d) = Len(c) + 1 /\ Len(c) \in Nat
  <1>1. PICK x \in SUBSET RatchetKeys : x = DH(k, j)
    BY KeyTypes
  <1>2. d = Append(c, x)
    BY <1>1
  <1>3. Append(c, x) \in ChainKeys /\ Append(c, x) # NoChain /\ Len(c) \in Nat /\ Len(Append(c, x)) = Len(c) + 1
    BY Appending
  <1> QED
    BY <1>2, <1>3

LEMMA MixedAlike ==
  ASSUME NEW c \in ChainKeys, NEW k \in RatchetKeys, NEW j \in RatchetKeys,
         NEW d \in ChainKeys, NEW k2 \in RatchetKeys, NEW j2 \in RatchetKeys,
         Append(c, DH(k, j)) = Append(d, DH(k2, j2))
  PROVE  c = d /\ DH(k, j) = DH(k2, j2)
  <1>1. PICK x \in SUBSET RatchetKeys, y \in SUBSET RatchetKeys : x = DH(k, j) /\ y = DH(k2, j2)
    BY KeyTypes
  <1>2. Append(c, x) = Append(d, y)
    BY <1>1
  <1>3. c = d /\ x = y
    BY <1>2, Appending
  <1> QED
    BY <1>1, <1>3

LEMMA Roots ==
  ASSUME NEW u \in Users, NEW k \in RatchetKeys
  PROVE  /\ Root(u) \in ChainKeys /\ Len(Root(u)) = 1 /\ Root(Peer(u)) = Root(u)
         /\ FirstChain(u, k) \in ChainKeys /\ FirstChain(u, k) # NoChain /\ Len(FirstChain(u, k)) = 2
         /\ FirstChain(Peer(u), k) = Append(Root(u), DH(IdentityKey(u), k))
  <1>1. /\ IdentityKey(u) \in RatchetKeys /\ IdentityKey(Peer(u)) \in RatchetKeys
        /\ DH(IdentityKey(u), IdentityKey(Peer(u))) \in SUBSET RatchetKeys
        /\ DH(k, IdentityKey(Peer(u))) \in SUBSET RatchetKeys
    BY KeyTypes, Peers
  <1>2. Root(u) \in ChainKeys /\ Len(Root(u)) = 1
    BY <1>1 DEF Root, ChainKeys
  <1>3. Root(Peer(u)) = Root(u)
    <2>1. DH(IdentityKey(Peer(u)), IdentityKey(u)) = DH(IdentityKey(u), IdentityKey(Peer(u)))
      BY DEF DH
    <2> QED
      BY <2>1, Peers DEF Root
  <1>4. FirstChain(u, k) \in ChainKeys /\ FirstChain(u, k) # NoChain /\ Len(FirstChain(u, k)) = 2
    <2>1. PICK x \in SUBSET RatchetKeys : x = DH(k, IdentityKey(Peer(u)))
      BY <1>1
    <2>2. PICK c \in ChainKeys : c = Root(u) /\ Len(c) = 1
      BY <1>2
    <2>3. FirstChain(u, k) = Append(c, x)
      BY <2>1, <2>2 DEF FirstChain
    <2>4. Append(c, x) \in ChainKeys /\ Append(c, x) # NoChain /\ Len(Append(c, x)) = Len(c) + 1
      BY Appending
    <2> QED
      BY <2>2, <2>3, <2>4
  <1>5. FirstChain(Peer(u), k) = Append(Root(u), DH(k, IdentityKey(u)))
    BY <1>3, Peers DEF FirstChain
  <1>6. DH(k, IdentityKey(u)) = DH(IdentityKey(u), k)
    BY DEF DH
  <1> QED
    BY <1>2, <1>3, <1>4, <1>5, <1>6

LEMMA FirstLong ==
  ASSUME NEW u \in Users, NEW k \in RatchetKeys, NEW c, c = FirstChain(u, k)
  PROVE  c \in ChainKeys /\ c # NoChain /\ Len(c) \in Nat /\ Len(c) = 2
  <1>1. FirstChain(u, k) \in ChainKeys /\ FirstChain(u, k) # NoChain /\ Len(FirstChain(u, k)) = 2
    BY Roots
  <1>2. c \in ChainKeys /\ c # NoChain
    BY <1>1
  <1>3. Len(c) = 2
    BY <1>1
  <1> QED
    BY <1>2, <1>3

LEMMA BlankState ==
  ASSUME NEW u \in Users, NEW k \in RatchetKeys
  PROVE  /\ Blank(u, k) \in States /\ Blank(u, k) # None
         /\ Blank(u, k).RK = Root(u) /\ Blank(u, k).CKs = NoChain /\ Blank(u, k).CKr = NoChain
         /\ Blank(u, k).DHs = k /\ Blank(u, k).DHr = None /\ Blank(u, k).MKSKIPPED = {}
         /\ Blank(u, k).Ns = 0 /\ Blank(u, k).Nr = 0 /\ Blank(u, k).PN = 0
  <1>1. Root(u) \in ChainKeys /\ NoChain \in ChainKeys
    BY Roots DEF NoChain, ChainKeys
  <1>2. Blank(u, k) =
          [RK |-> Root(u), CKs |-> NoChain, CKr |-> NoChain, DHs |-> k, DHr |-> None,
           Ns |-> 0, Nr |-> 0, PN |-> 0, MKSKIPPED |-> {}]
    BY DEF Blank, Root
  <1>3. Blank(u, k) \in States
    BY <1>1, <1>2 DEF States
  <1> QED
    BY <1>2, <1>3

\* The fields of a state, and what makes one.
Shaped(s) ==
  s = [RK |-> s.RK, CKs |-> s.CKs, CKr |-> s.CKr, DHs |-> s.DHs, DHr |-> s.DHr,
       Ns |-> s.Ns, Nr |-> s.Nr, PN |-> s.PN, MKSKIPPED |-> s.MKSKIPPED]

LEMMA StateFields ==
  ASSUME NEW s \in States
  PROVE  /\ Shaped(s)
         /\ s.RK \in ChainKeys /\ s.CKs \in ChainKeys /\ s.CKr \in ChainKeys
         /\ s.DHs \in RatchetKeys /\ s.DHr \in RatchetKeys \union {None}
         /\ s.Ns \in Nat /\ s.Nr \in Nat /\ s.PN \in Nat
         /\ s.MKSKIPPED \in SUBSET [dh : RatchetKeys, key : MessageKeys]
  BY DEF States, Shaped

LEMMA StateMade ==
  ASSUME NEW s, Shaped(s),
         s.RK \in ChainKeys, s.CKs \in ChainKeys, s.CKr \in ChainKeys,
         s.DHs \in RatchetKeys, s.DHr \in RatchetKeys \union {None},
         s.Ns \in Nat, s.Nr \in Nat, s.PN \in Nat,
         s.MKSKIPPED \in SUBSET [dh : RatchetKeys, key : MessageKeys]
  PROVE  s \in States
  BY DEF States, Shaped

LEMMA Places ==
  ASSUME NEW S, NEW T
  PROVE  /\ S \subseteq Put(S, T) /\ Put(S, T) \subseteq S \union T
         /\ \A x \in T : x \in Put(S, T) \/ \E y \in S : x.dh = y.dh /\ x.key.n = y.key.n
  BY DEF Put

LEMMA SkippedKeys ==
  ASSUME NEW k \in RatchetKeys, NEW c \in ChainKeys, NEW i \in Nat, NEW j \in Nat
  PROVE  /\ Skipped(k, c, i, j) \in SUBSET [dh : RatchetKeys, key : MessageKeys]
         /\ \A x \in Skipped(k, c, i, j) :
              x.dh = k /\ x.key.chain = c /\ x.key.n \in Nat /\ x.key.n >= i /\ x.key.n < j
         /\ \A n \in Nat : n >= i /\ n < j =>
              [dh |-> k, key |-> [chain |-> c, n |-> n]] \in Skipped(k, c, i, j)
  <1>1. \A x \in Skipped(k, c, i, j) : \E n \in i .. j - 1 : x = [dh |-> k, key |-> MessageKey(c, n)]
    BY DEF Skipped
  <1>2. \A n \in i .. j - 1 : n \in Nat /\ MessageKey(c, n) \in MessageKeys
    BY DEF MessageKey, MessageKeys
  <1>3. \A n \in Nat : n >= i /\ n < j => n \in i .. j - 1
    OBVIOUS
  <1>4. Skipped(k, c, i, j) \in SUBSET [dh : RatchetKeys, key : MessageKeys]
    BY <1>1, <1>2
  <1>5. \A x \in Skipped(k, c, i, j) :
              x.dh = k /\ x.key.chain = c /\ x.key.n \in Nat /\ x.key.n >= i /\ x.key.n < j
    BY <1>1, <1>2 DEF MessageKey
  <1>6. \A n \in Nat : n >= i /\ n < j =>
              [dh |-> k, key |-> [chain |-> c, n |-> n]] \in Skipped(k, c, i, j)
    BY <1>3 DEF Skipped, MessageKey
  <1> QED
    BY <1>4, <1>5, <1>6

\* A message of whom it may be is read when the keys are at hand.
LEMMA OpensMeans ==
  ASSUME NEW u \in Users, NEW s \in States, NEW fresh \in RatchetKeys,
         NEW m, m.dh \in RatchetKeys, m.key \in MessageKeys, m.n = m.key.n
  PROVE  Opens(s, m, u, fresh) <=> Receives(u, s, m)
  <1>1. /\ s.Nr \in Nat /\ s.RK \in ChainKeys /\ s.CKr \in ChainKeys /\ s.DHs \in RatchetKeys
        /\ m.key.n \in Nat /\ m.key.chain \in ChainKeys /\ m.key = [chain |-> m.key.chain, n |-> m.key.n]
    BY DEF States, MessageKeys
  <1> DEFINE r == Arrive(s, m, u, fresh)
             mine == IF s.DHr = None THEN IdentityKey(u) ELSE s.DHs
  <1>2. \A c, i : MessageKey(c, i) = m.key <=> c = m.key.chain /\ i = m.key.n
    BY <1>1 DEF MessageKey
  <1>3. Opens(s, m, u, fresh) <=>
          IF IsSkipped(s, m) THEN [dh |-> m.dh, key |-> m.key] \in s.MKSKIPPED
          ELSE /\ r.CKr # NoChain /\ m.n >= r.Nr
               /\ r.CKr = m.key.chain /\ Lesser(m.n, r.Nr + MaxSkip) = m.key.n
    BY <1>2 DEF Opens
  <1>4. CASE m.dh = s.DHr
    <2>1. r = s
      BY <1>4 DEF Arrive
    <2>2. m.n >= s.Nr /\ Lesser(m.n, s.Nr + MaxSkip) = m.key.n <=> m.n \in s.Nr .. s.Nr + MaxSkip
      BY <1>1 DEF Lesser
    <2> HIDE DEF r
    <2> QED
      BY <1>3, <1>4, <2>1, <2>2 DEF Receives
  <1>5. CASE m.dh # s.DHr
    <2>1. r.CKr = Append(s.RK, DH(mine, m.dh)) /\ r.Nr = 0
      BY <1>5 DEF Arrive, DHStep
    <2>2. mine \in RatchetKeys /\ DH(mine, m.dh) \in SUBSET RatchetKeys
      BY <1>1, KeyTypes
    <2>3. r.CKr # NoChain
      <3>1. PICK x \in SUBSET RatchetKeys : x = DH(mine, m.dh)
        BY <2>2
      <3>2. Append(s.RK, x) # NoChain
        BY <1>1, Appending
      <3> QED
        BY <2>1, <3>1, <3>2
    <2>4. m.n >= 0 /\ Lesser(m.n, 0 + MaxSkip) = m.key.n <=> m.n <= MaxSkip
      BY <1>1 DEF Lesser
    <2> HIDE DEF r
    <2> QED
      BY <1>3, <1>5, <2>1, <2>3, <2>4 DEF Receives
  <1> QED
    BY <1>4, <1>5

\* The three ways in which a message opens, and the state each leaves.
SameChains(s, n) ==
  /\ n.RK = s.RK /\ n.CKs = s.CKs /\ n.CKr = s.CKr /\ n.DHs = s.DHs /\ n.DHr = s.DHr
  /\ n.Ns = s.Ns /\ n.PN = s.PN

TakesKept(s, m, n) ==
  /\ Entry(m) \in s.MKSKIPPED
  /\ SameChains(s, n) /\ n.Nr = s.Nr /\ n.MKSKIPPED = DropUsed(s, m)

TakesNext(s, m, n) ==
  /\ m.dh = s.DHr /\ s.CKr # NoChain /\ m.key.chain = s.CKr
  /\ m.n \in s.Nr .. s.Nr + MaxSkip
  /\ SameChains(s, n) /\ n.Nr = m.n + 1
  /\ n.MKSKIPPED = Put(Skipped(m.dh, s.CKr, s.Nr, m.n), s.MKSKIPPED)

Ratchets(u, s, m, fresh, n) ==
  /\ m.dh # s.DHr /\ m.n <= MaxSkip
  /\ m.key.chain = Append(s.RK, DH(IF s.DHr = None THEN IdentityKey(u) ELSE s.DHs, m.dh))
  /\ n.RK = Append(m.key.chain, DH(fresh, m.dh)) /\ n.CKs = n.RK
  /\ n.CKr = m.key.chain /\ n.DHs = fresh /\ n.DHr = m.dh
  /\ n.Ns = 0 /\ n.Nr = m.n + 1 /\ n.PN = s.Ns
  /\ n.MKSKIPPED = Put(Skipped(m.dh, m.key.chain, 0, m.n), KeepOldChain(s, m.pn))

LEMMA OpeningMeans ==
  ASSUME NEW u \in Users, NEW s \in States, NEW fresh \in RatchetKeys,
         NEW m, m.dh \in RatchetKeys, m.key \in MessageKeys, m.n = m.key.n, m.pn \in Nat,
         Receives(u, s, m), s.DHr = None => s.CKr = NoChain,
         NEW n, n = AfterOpening(s, m, u, fresh)
  PROVE  /\ n \in States
         /\ \/ TakesKept(s, m, n)
            \/ ~ IsSkipped(s, m) /\ TakesNext(s, m, n)
            \/ ~ IsSkipped(s, m) /\ Ratchets(u, s, m, fresh, n)
  <1> DEFINE Entries == SUBSET [dh : RatchetKeys, key : MessageKeys]
  <1>1. /\ s.Nr \in Nat /\ s.RK \in ChainKeys /\ s.CKr \in ChainKeys /\ s.DHs \in RatchetKeys
        /\ s.Ns \in Nat /\ s.MKSKIPPED \in Entries /\ s.DHr \in RatchetKeys \union {None}
        /\ m.key.n \in Nat /\ m.key.chain \in ChainKeys
    BY DEF States, MessageKeys
  <1>2. \A S, T \in Entries : Put(S, T) \in Entries
    BY DEF Put
  <1>3. KeepOldChain(s, m.pn) \in Entries
    <2>1. CASE s.CKr = NoChain
      BY <1>1, <2>1 DEF KeepOldChain
    <2>3. CASE s.CKr # NoChain
      <3>1. s.DHr \in RatchetKeys /\ Lesser(m.pn, s.Nr + MaxSkip) \in Nat
        BY <1>1, <2>3 DEF Lesser
      <3> QED
        BY <1>1, <1>2, <2>3, <3>1, SkippedKeys DEF KeepOldChain
    <2> QED
      BY <2>1, <2>3
  <1> DEFINE r == Arrive(s, m, u, fresh)
  <1>4. CASE IsSkipped(s, m)
    <2>1. n = [s EXCEPT !.MKSKIPPED = DropUsed(s, m)] /\ DropUsed(s, m) \in Entries
      BY <1>1, <1>4 DEF AfterOpening, DropUsed
    <2> DEFINE kept == DropUsed(s, m)
    <2> HIDE DEF kept
    <2>2. n = [RK |-> s.RK, CKs |-> s.CKs, CKr |-> s.CKr, DHs |-> s.DHs, DHr |-> s.DHr,
               Ns |-> s.Ns, Nr |-> s.Nr, PN |-> s.PN, MKSKIPPED |-> kept]
      BY <2>1, StateFields DEF Shaped, kept
    <2>3. /\ Shaped(n)
          /\ n.RK = s.RK /\ n.CKs = s.CKs /\ n.CKr = s.CKr /\ n.DHs = s.DHs /\ n.DHr = s.DHr
          /\ n.Ns = s.Ns /\ n.Nr = s.Nr /\ n.PN = s.PN /\ n.MKSKIPPED = kept
      BY <2>2 DEF Shaped
    <2>4. kept \in Entries
      BY <2>1 DEF kept
    <2>5. n \in States
      BY <2>3, <2>4, StateFields, StateMade
    <2>6. Entry(m) \in s.MKSKIPPED
      BY <1>4 DEF Receives, Entry
    <2>7. TakesKept(s, m, n)
      BY <2>3, <2>6 DEF TakesKept, SameChains, kept
    <2> QED
      BY <2>5, <2>7
  <1>5. CASE ~ IsSkipped(s, m) /\ m.dh = s.DHr
    <2>1. n = [s EXCEPT !.Nr = m.n + 1,
                        !.MKSKIPPED = Put(Skipped(m.dh, s.CKr, s.Nr, m.n), s.MKSKIPPED)]
      BY <1>5 DEF AfterOpening, Arrive
    <2>2. Put(Skipped(m.dh, s.CKr, s.Nr, m.n), s.MKSKIPPED) \in Entries
      BY <1>1, <1>2, SkippedKeys
    <2> DEFINE kept == Put(Skipped(m.dh, s.CKr, s.Nr, m.n), s.MKSKIPPED)
    <2> HIDE DEF kept
    <2>3. n = [s EXCEPT !.Nr = m.n + 1, !.MKSKIPPED = kept]
      BY <2>1 DEF kept
    <2>4. n = [RK |-> s.RK, CKs |-> s.CKs, CKr |-> s.CKr, DHs |-> s.DHs, DHr |-> s.DHr,
               Ns |-> s.Ns, Nr |-> m.n + 1, PN |-> s.PN, MKSKIPPED |-> kept]
      <3>1. PICK z : z = m.n + 1
        OBVIOUS
      <3>2. n = [s EXCEPT !.Nr = z, !.MKSKIPPED = kept]
        BY <2>3, <3>1
      <3>3. n = [RK |-> s.RK, CKs |-> s.CKs, CKr |-> s.CKr, DHs |-> s.DHs, DHr |-> s.DHr,
                 Ns |-> s.Ns, Nr |-> z, PN |-> s.PN, MKSKIPPED |-> kept]
        <4>1. Shaped(s)
          BY StateFields
        <4> QED
          BY <3>2, <4>1 DEF Shaped
      <3> QED
        BY <3>1, <3>3
    <2>5. m.n + 1 \in Nat /\ kept \in Entries
      BY <1>1, <2>2 DEF kept
    <2>6. /\ Shaped(n)
          /\ n.RK = s.RK /\ n.CKs = s.CKs /\ n.CKr = s.CKr /\ n.DHs = s.DHs /\ n.DHr = s.DHr
          /\ n.Ns = s.Ns /\ n.Nr = m.n + 1 /\ n.PN = s.PN /\ n.MKSKIPPED = kept
      BY <2>4 DEF Shaped
    <2>7. n \in States
      BY <2>5, <2>6, StateFields, StateMade
    <2>8. s.CKr # NoChain /\ m.n \in s.Nr .. s.Nr + MaxSkip /\ m.key.chain = s.CKr
      BY <1>5 DEF Receives
    <2>9. TakesNext(s, m, n)
      BY <1>5, <2>6, <2>8 DEF TakesNext, SameChains, kept
    <2> QED
      BY <1>5, <2>7, <2>9
  <1>6. CASE ~ IsSkipped(s, m) /\ m.dh # s.DHr
    <2> DEFINE mine == IF s.DHr = None THEN IdentityKey(u) ELSE s.DHs
    <2>1. m.n <= MaxSkip /\ m.key.chain = Append(s.RK, DH(mine, m.dh))
      BY <1>6 DEF Receives
    <2>2. r = [RK |-> Append(m.key.chain, DH(fresh, m.dh)), CKs |-> Append(m.key.chain, DH(fresh, m.dh)),
               CKr |-> m.key.chain, DHs |-> fresh, DHr |-> m.dh, Ns |-> 0, Nr |-> 0, PN |-> s.Ns,
               MKSKIPPED |-> KeepOldChain(s, m.pn)]
      BY <1>6, <2>1 DEF Arrive, DHStep
    <2>3. n = [r EXCEPT !.Nr = m.n + 1, !.MKSKIPPED = Put(Skipped(m.dh, r.CKr, r.Nr, m.n), r.MKSKIPPED)]
      BY <1>6 DEF AfterOpening
    <2> HIDE DEF r
    <2>4. /\ r.CKr = m.key.chain /\ r.Nr = 0 /\ r.MKSKIPPED = KeepOldChain(s, m.pn)
      BY <2>2
    <2> DEFINE kept == Put(Skipped(m.dh, m.key.chain, 0, m.n), KeepOldChain(s, m.pn))
    <2>5. /\ Shaped(n)
          /\ n.RK = Append(m.key.chain, DH(fresh, m.dh)) /\ n.CKs = n.RK
          /\ n.CKr = m.key.chain /\ n.DHs = fresh /\ n.DHr = m.dh
          /\ n.Ns = 0 /\ n.Nr = m.n + 1 /\ n.PN = s.Ns /\ n.MKSKIPPED = kept
      <3>1. n = [r EXCEPT !.Nr = m.n + 1, !.MKSKIPPED = kept]
        BY <2>3, <2>4
      <3> HIDE DEF kept
      <3>2. PICK a : a = Append(m.key.chain, DH(fresh, m.dh))
        OBVIOUS
      <3>3. PICK old : old = KeepOldChain(s, m.pn)
        OBVIOUS
      <3>4. PICK c, i, j : c = m.key.chain /\ i = m.n + 1 /\ j = s.Ns
        OBVIOUS
      <3>5. r = [RK |-> a, CKs |-> a, CKr |-> c, DHs |-> fresh, DHr |-> m.dh,
                 Ns |-> 0, Nr |-> 0, PN |-> j, MKSKIPPED |-> old]
        BY <2>2, <3>2, <3>3, <3>4
      <3>6. n = [r EXCEPT !.Nr = i, !.MKSKIPPED = kept]
        BY <3>1, <3>4
      <3>7. n = [RK |-> a, CKs |-> a, CKr |-> c, DHs |-> fresh, DHr |-> m.dh,
                 Ns |-> 0, Nr |-> i, PN |-> j, MKSKIPPED |-> kept]
        BY <3>5, <3>6
      <3>8. /\ Shaped(n)
            /\ n.RK = a /\ n.CKs = a /\ n.CKr = c /\ n.DHs = fresh /\ n.DHr = m.dh
            /\ n.Ns = 0 /\ n.Nr = i /\ n.PN = j /\ n.MKSKIPPED = kept
        BY <3>7 DEF Shaped
      <3> QED
        BY <3>2, <3>4, <3>8
    <2>6. kept \in Entries
      <3>1. Skipped(m.dh, m.key.chain, 0, m.n) \in Entries
        <4>1. PICK z \in Nat, i \in Nat, c \in ChainKeys : z = 0 /\ i = m.n /\ c = m.key.chain
          BY <1>1
        <4>2. Skipped(m.dh, c, z, i) \in Entries
          BY SkippedKeys
        <4> QED
          BY <4>1, <4>2
      <3> QED
        BY <1>2, <1>3, <3>1
    <2> HIDE DEF kept
    <2>7. Append(m.key.chain, DH(fresh, m.dh)) \in ChainKeys
      BY <1>1, KeyTypes, Appending
    <2>8. n \in States
      <3>1. PICK a \in ChainKeys : a = Append(m.key.chain, DH(fresh, m.dh))
        BY <2>7
      <3>2. n.RK \in ChainKeys /\ n.CKs \in ChainKeys
        BY <2>5, <3>1
      <3>3. /\ n.CKr \in ChainKeys /\ n.DHs \in RatchetKeys /\ n.DHr \in RatchetKeys \union {None}
            /\ n.Ns \in Nat /\ n.Nr \in Nat /\ n.PN \in Nat /\ n.MKSKIPPED \in Entries
        BY <1>1, <2>5, <2>6
      <3> QED
        BY <2>5, <3>2, <3>3, StateMade
    <2>9. Ratchets(u, s, m, fresh, n)
      BY <1>6, <2>1, <2>5 DEF Ratchets, kept
    <2> QED
      BY <1>6, <2>8, <2>9
  <1> QED
    BY <1>4, <1>5, <1>6

\* What sending changes: a chain is begun if there is none.
LEMMA SendingMeans ==
  ASSUME NEW u \in Users, NEW s \in States, s.CKs = NoChain => s.RK = Root(u) /\ s.DHr = None,
         NEW n, n = AfterSending(SendChain(s, u))
  PROVE  /\ n \in States /\ SendChain(s, u).CKs = ChainOf(u, s) /\ SendChain(s, u).Ns = s.Ns
         /\ SendChain(s, u).DHs = s.DHs /\ SendChain(s, u).PN = s.PN
         /\ n.DHs = s.DHs /\ n.CKs = ChainOf(u, s) /\ n.CKs # NoChain /\ n.CKs \in ChainKeys
         /\ n.RK = IF s.CKs = NoChain THEN n.CKs ELSE s.RK
         /\ n.DHr = IF s.CKs = NoChain THEN IdentityKey(Peer(u)) ELSE s.DHr
         /\ n.Ns = s.Ns + 1 /\ n.Nr = s.Nr /\ n.PN = s.PN /\ n.CKr = s.CKr /\ n.MKSKIPPED = s.MKSKIPPED
  <1>1. s.Ns \in Nat /\ s.CKs \in ChainKeys /\ s.DHs \in RatchetKeys
    BY DEF States
  <1>2. CASE s.CKs = NoChain
    <2> DEFINE first == FirstChain(u, s.DHs)
    <2>1. first \in ChainKeys /\ first # NoChain
      BY <1>1, Roots
    <2>2. ChainOf(u, s) = first /\ first = Append(s.RK, DH(s.DHs, IdentityKey(Peer(u))))
      BY <1>2 DEF ChainOf, FirstChain
    <2>3. SendChain(s, u) = [s EXCEPT !.RK = first, !.CKs = first, !.DHr = IdentityKey(Peer(u))]
      BY <1>2, <2>2 DEF SendChain
    <2>4. IdentityKey(Peer(u)) \in RatchetKeys
      BY Peers, KeyTypes
    <2> HIDE DEF first
    <2>5. SendChain(s, u) =
            [RK |-> first, CKs |-> first, CKr |-> s.CKr, DHs |-> s.DHs, DHr |-> IdentityKey(Peer(u)),
             Ns |-> s.Ns, Nr |-> s.Nr, PN |-> s.PN, MKSKIPPED |-> s.MKSKIPPED]
      <3>1. PICK j : j = IdentityKey(Peer(u))
        OBVIOUS
      <3>2. SendChain(s, u) = [s EXCEPT !.RK = first, !.CKs = first, !.DHr = j]
        BY <2>3, <3>1
      <3>3. s = [RK |-> s.RK, CKs |-> s.CKs, CKr |-> s.CKr, DHs |-> s.DHs, DHr |-> s.DHr,
                 Ns |-> s.Ns, Nr |-> s.Nr, PN |-> s.PN, MKSKIPPED |-> s.MKSKIPPED]
        BY StateFields DEF Shaped
      <3>4. SendChain(s, u) =
              [RK |-> first, CKs |-> first, CKr |-> s.CKr, DHs |-> s.DHs, DHr |-> j,
               Ns |-> s.Ns, Nr |-> s.Nr, PN |-> s.PN, MKSKIPPED |-> s.MKSKIPPED]
        BY <3>2, <3>3
      <3> QED
        BY <3>1, <3>4
    <2>6. n = [RK |-> first, CKs |-> first, CKr |-> s.CKr, DHs |-> s.DHs, DHr |-> IdentityKey(Peer(u)),
               Ns |-> s.Ns + 1, Nr |-> s.Nr, PN |-> s.PN, MKSKIPPED |-> s.MKSKIPPED]
      BY <2>5 DEF AfterSending
    <2>7. /\ Shaped(n)
          /\ n.RK = first /\ n.CKs = first /\ n.CKr = s.CKr /\ n.DHs = s.DHs
          /\ n.DHr = IdentityKey(Peer(u)) /\ n.Ns = s.Ns + 1 /\ n.Nr = s.Nr /\ n.PN = s.PN
          /\ n.MKSKIPPED = s.MKSKIPPED
      BY <2>6 DEF Shaped
    <2>8. n \in States
      BY <1>1, <2>1, <2>4, <2>7, StateFields, StateMade
    <2>9. /\ SendChain(s, u).CKs = first /\ SendChain(s, u).Ns = s.Ns
          /\ SendChain(s, u).DHs = s.DHs /\ SendChain(s, u).PN = s.PN
      BY <2>5
    <2> QED
      BY <1>2, <2>1, <2>2, <2>7, <2>8, <2>9
  <1>3. CASE s.CKs # NoChain
    <2>1. SendChain(s, u) = s /\ ChainOf(u, s) = s.CKs
      BY <1>3 DEF SendChain, ChainOf
    <2>2. n = [s EXCEPT !.Ns = s.Ns + 1]
      BY <2>1 DEF AfterSending
    <2> QED
      BY <1>1, <1>3, <2>1, <2>2 DEF States
  <1> QED
    BY <1>2, <1>3

-------------------------------------------------------------------------------
(* What the chains of a device tell.                                       *)

Traced == DmTypeInv /\ \A u \in Users : SendingInv(u)

LEMMA SentTypes ==
  ASSUME DmTypeInv, NEW m \in sent
  PROVE  /\ m.from \in Users /\ m.dh \in RatchetKeys /\ m.key \in MessageKeys /\ m.pn \in Nat
         /\ m.n = m.key.n /\ m.n \in Nat /\ m.key.chain \in ChainKeys
         /\ m.key = [chain |-> m.key.chain, n |-> m.n] /\ Len(m.key.chain) \in Nat
  <1>1. m.from \in Users /\ m.dh \in RatchetKeys /\ m.key \in MessageKeys /\ m.pn \in Nat /\ m.n = m.key.n
    BY DEF DmTypeInv
  <1>2. m.key.chain \in ChainKeys /\ m.key.n \in Nat /\ m.key = [chain |-> m.key.chain, n |-> m.key.n]
    BY <1>1 DEF MessageKeys
  <1>3. Len(m.key.chain) \in Nat
    BY <1>2 DEF ChainKeys
  <1> QED
    BY <1>1, <1>2, <1>3

LEMMA RootedLong ==
  ASSUME DmTypeInv, NEW u \in Users, NEW k \in RatchetKeys, NEW c, Rooted(u, k, c)
  PROVE  Len(c) \in Nat /\ Len(c) >= 1 /\ c \in ChainKeys
  <1>1. CASE c = FirstChain(u, k)
    BY <1>1, FirstLong
  <1>2. ASSUME NEW x \in sent, c = Append(x.key.chain, DH(k, x.dh))
        PROVE  Len(c) \in Nat /\ Len(c) >= 1 /\ c \in ChainKeys
    <2>1. x.dh \in RatchetKeys /\ x.key.chain \in ChainKeys
      BY SentTypes
    <2>2. c \in ChainKeys /\ Len(c) = Len(x.key.chain) + 1 /\ Len(x.key.chain) \in Nat
      BY <1>2, <2>1, Mixed
    <2> QED
      BY <2>2
  <1> QED
    BY <1>1, <1>2 DEF Rooted

\* The message's key is its author's, and its chain grew from the first two keys.
LEMMA SentKeys ==
  ASSUME Traced, NEW m \in sent
  PROVE  /\ m.dh.owner = m.from /\ m.dh.n \in 1 .. made[m.from]
         /\ Rooted(m.from, m.dh, m.key.chain) /\ Len(m.key.chain) >= 2 /\ m.key.chain # NoChain
  <1>1. m.from \in Users /\ m.dh \in RatchetKeys /\ m.key.chain \in ChainKeys
    BY SentTypes DEF Traced
  <1>2. Uses(m.from, m.dh, m.key.chain)
    BY DEF Uses
  <1>3. m.dh.owner = m.from /\ m.dh.n \in 1 .. made[m.from] /\ Rooted(m.from, m.dh, m.key.chain)
    BY <1>1, <1>2 DEF Traced, SendingInv
  <1>4. Len(m.key.chain) >= 2 /\ m.key.chain # NoChain
    <2>1. CASE m.key.chain = FirstChain(m.from, m.dh)
      BY <1>1, <2>1, FirstLong
    <2>2. ASSUME NEW x \in sent, m.key.chain = Append(x.key.chain, DH(m.dh, x.dh))
          PROVE  Len(m.key.chain) >= 2 /\ m.key.chain # NoChain
      <3>1. x.from \in Users /\ x.dh \in RatchetKeys /\ x.key.chain \in ChainKeys
        BY SentTypes DEF Traced
      <3>2. PICK c : c = m.key.chain
        OBVIOUS
      <3>3. c # NoChain /\ Len(c) = Len(x.key.chain) + 1 /\ Len(x.key.chain) \in Nat
        BY <1>1, <2>2, <3>1, <3>2, Mixed
      <3>4. Uses(x.from, x.dh, x.key.chain)
        BY DEF Uses
      <3>5. Rooted(x.from, x.dh, x.key.chain)
        BY <3>1, <3>4 DEF Traced, SendingInv
      <3>6. Len(x.key.chain) >= 1
        BY <3>1, <3>5, RootedLong DEF Traced
      <3> QED
        BY <3>2, <3>3, <3>6
    <2> QED
      BY <1>3, <2>1, <2>2 DEF Rooted
  <1> QED
    BY <1>3, <1>4

LEMMA OneChain ==
  ASSUME Traced, NEW m \in sent, NEW x \in sent, m.from = x.from, m.dh = x.dh
  PROVE  m.key.chain = x.key.chain
  <1>1. /\ m.from \in Users /\ m.dh \in RatchetKeys
        /\ m.key.chain \in ChainKeys /\ x.key.chain \in ChainKeys
    BY SentTypes DEF Traced
  <1>2. Uses(m.from, m.dh, m.key.chain) /\ Uses(m.from, m.dh, x.key.chain)
    BY DEF Uses
  <1> QED
    BY <1>1, <1>2 DEF Traced, SendingInv

\* A chain one receives with belongs to a key of the peer.
LEMMA TheirsKeys ==
  ASSUME Traced, NEW u \in Users, NEW k, NEW c, Theirs(u, k, c)
  PROVE  /\ k \in RatchetKeys /\ k.owner = Peer(u) /\ k.n >= 1 /\ k # None
         /\ c \in ChainKeys /\ c # NoChain /\ Len(c) >= 2
         /\ \A m \in sent : m.from = Peer(u) /\ m.dh = k => m.key.chain = c
  <1>1. PICK x \in sent : x.from = Peer(u) /\ x.dh = k /\ x.key.chain = c
    BY DEF Theirs
  <1>2. k \in RatchetKeys /\ c \in ChainKeys
    BY <1>1, SentTypes DEF Traced
  <1>3. k.owner = Peer(u) /\ k.n >= 1 /\ c # NoChain /\ Len(c) >= 2
    BY <1>1, SentKeys
  <1>4. \A m \in sent : m.from = Peer(u) /\ m.dh = k => m.key.chain = c
    BY <1>1, OneChain
  <1> QED
    BY <1>2, <1>3, <1>4

\* A device cannot read what it wrote itself.
LEMMA OwnUnreadable ==
  ASSUME Traced, NEW u \in Users, NEW s \in States, ReceivingInv(u, s), s.DHs.owner = u,
         NEW m \in sent, m.from = u, Receives(u, s, m)
  PROVE  FALSE
  <1>1. /\ m.dh \in RatchetKeys /\ m.dh.owner = u /\ m.key.chain \in ChainKeys
        /\ Rooted(u, m.dh, m.key.chain) /\ Peer(u) # u
    <2>1. m.dh \in RatchetKeys /\ m.key.chain \in ChainKeys
      BY SentTypes DEF Traced
    <2>2. m.dh.owner = m.from /\ Rooted(m.from, m.dh, m.key.chain)
      BY SentKeys
    <2>3. Peer(u) # u
      BY Peers
    <2> QED
      BY <2>1, <2>2, <2>3
  <1>2. ~ IsSkipped(s, m)
    <2>1. \A x \in s.MKSKIPPED : x.dh.owner = Peer(u)
      BY TheirsKeys DEF ReceivingInv
    <2> QED
      BY <1>1, <2>1 DEF IsSkipped
  <1>3. m.dh = s.DHr => s.CKr = NoChain
    BY <1>1, TheirsKeys DEF ReceivingInv
  <1> DEFINE mine == IF s.DHr = None THEN IdentityKey(u) ELSE s.DHs
  <1>4. m.key.chain = Append(s.RK, DH(mine, m.dh))
    BY <1>2, <1>3 DEF Receives
  <1>5. mine \in RatchetKeys /\ mine.owner = u /\ s.RK \in ChainKeys
    BY KeyTypes, StateFields
  <1> HIDE DEF mine
  <1>6. ASSUME NEW c \in ChainKeys, NEW j \in RatchetKeys, j.owner = Peer(u),
               m.key.chain = Append(c, DH(m.dh, j))
        PROVE  FALSE
    <2>1. DH(mine, m.dh) = DH(m.dh, j)
      <3>1. PICK r \in ChainKeys, k \in RatchetKeys : r = s.RK /\ k = m.dh /\ k.owner = u
        BY <1>1, <1>5
      <3>2. Append(r, DH(mine, k)) = Append(c, DH(k, j))
        BY <1>4, <1>6, <3>1
      <3>3. DH(mine, k) = DH(k, j)
        BY <1>5, <1>6, <3>2, MixedAlike
      <3> QED
        BY <3>1, <3>3
    <2>2. j \in DH(mine, m.dh)
      BY <2>1 DEF DH
    <2>3. j = mine \/ j = m.dh
      BY <2>2 DEF DH
    <2> QED
      BY <1>1, <1>5, <1>6, <2>3
  <1>7. CASE m.key.chain = FirstChain(u, m.dh)
    <2>1. Root(u) \in ChainKeys /\ IdentityKey(Peer(u)) \in RatchetKeys /\ IdentityKey(Peer(u)).owner = Peer(u)
      BY <1>1, Roots, Peers, KeyTypes
    <2> QED
      BY <1>6, <1>7, <2>1 DEF FirstChain
  <1>8. ASSUME NEW x \in sent, x.from = Peer(u), m.key.chain = Append(x.key.chain, DH(m.dh, x.dh))
        PROVE  FALSE
    <2>1. x.key.chain \in ChainKeys /\ x.dh \in RatchetKeys /\ x.dh.owner = Peer(u)
      BY <1>8, SentTypes, SentKeys DEF Traced
    <2> QED
      BY <1>6, <1>8, <2>1
  <1> QED
    BY <1>1, <1>7, <1>8 DEF Rooted

LEMMA GoneUnreadable ==
  ASSUME Traced, NEW u \in Users, NEW s \in States, NEW m \in sent, Gone(s, m), Receives(u, s, m)
  PROVE  FALSE
  <1>1. m.dh \in RatchetKeys /\ m.n \in Nat /\ Len(m.key.chain) \in Nat
    BY SentTypes DEF Traced
  <1>2. s.Nr \in Nat /\ s.RK \in ChainKeys
    BY StateFields
  <1> DEFINE mine == IF s.DHr = None THEN IdentityKey(u) ELSE s.DHs
  <1>3. mine \in RatchetKeys
    BY KeyTypes, StateFields
  <1> HIDE DEF mine
  <1>4. m.dh # s.DHr
    BY <1>1, <1>2 DEF Gone, Receives
  <1>5. m.key.chain = Append(s.RK, DH(mine, m.dh))
    BY <1>4 DEF Gone, Receives, mine
  <1>6. Len(m.key.chain) = Len(s.RK) + 1 /\ Len(s.RK) \in Nat
    BY <1>1, <1>2, <1>3, <1>5, Mixed
  <1> QED
    BY <1>6 DEF Gone

\* What is in MKSKIPPED after a new chain was begun: what was there and what the old
\* chain still owed.
LEMMA OldChainKept ==
  ASSUME NEW s \in States, s.DHr = None => s.CKr = NoChain, NEW pn \in Nat
  PROVE  /\ \A x \in KeepOldChain(s, pn) :
              x \in s.MKSKIPPED \/ (/\ s.CKr # NoChain /\ x.dh = s.DHr /\ x.key.chain = s.CKr
                                   /\ x.key.n \in Nat /\ x.key.n >= s.Nr)
         /\ \A x \in s.MKSKIPPED :
              x \in KeepOldChain(s, pn) \/ (s.CKr # NoChain /\ x.dh = s.DHr /\ x.key.n >= s.Nr)
         /\ \A n \in Nat : s.CKr # NoChain /\ n >= s.Nr /\ n < pn /\ n < s.Nr + MaxSkip =>
              [dh |-> s.DHr, key |-> [chain |-> s.CKr, n |-> n]] \in KeepOldChain(s, pn)
  <1>1. CASE s.CKr = NoChain
    BY <1>1 DEF KeepOldChain
  <1>2. CASE s.CKr # NoChain
    <2>1. PICK to : to = Lesser(pn, s.Nr + MaxSkip)
      OBVIOUS
    <2>2. to \in Nat /\ s.Nr \in Nat /\ s.CKr \in ChainKeys /\ s.DHr \in RatchetKeys
          /\ \A n \in Nat : n < pn /\ n < s.Nr + MaxSkip => n < to
      BY <1>2, <2>1, StateFields DEF Lesser
    <2>3. PICK S : S = Skipped(s.DHr, s.CKr, s.Nr, to)
      OBVIOUS
    <2>4. KeepOldChain(s, pn) = Put(S, s.MKSKIPPED)
      BY <1>2, <2>1, <2>3 DEF KeepOldChain
    <2>5. /\ \A x \in S :
              x.dh = s.DHr /\ x.key.chain = s.CKr /\ x.key.n \in Nat /\ x.key.n >= s.Nr /\ x.key.n < to
          /\ \A n \in Nat : n >= s.Nr /\ n < to =>
              [dh |-> s.DHr, key |-> [chain |-> s.CKr, n |-> n]] \in S
      BY <2>2, <2>3, SkippedKeys
    <2>6. /\ S \subseteq Put(S, s.MKSKIPPED) /\ Put(S, s.MKSKIPPED) \subseteq S \union s.MKSKIPPED
          /\ \A x \in s.MKSKIPPED :
               x \in Put(S, s.MKSKIPPED) \/ \E y \in S : x.dh = y.dh /\ x.key.n = y.key.n
      BY Places
    <2>7. \A x \in KeepOldChain(s, pn) :
              x \in s.MKSKIPPED \/ (/\ s.CKr # NoChain /\ x.dh = s.DHr /\ x.key.chain = s.CKr
                                   /\ x.key.n \in Nat /\ x.key.n >= s.Nr)
      BY <1>2, <2>4, <2>5, <2>6
    <2>8. \A x \in s.MKSKIPPED :
              x \in KeepOldChain(s, pn) \/ (s.CKr # NoChain /\ x.dh = s.DHr /\ x.key.n >= s.Nr)
      BY <1>2, <2>4, <2>5, <2>6
    <2>9. \A n \in Nat : s.CKr # NoChain /\ n >= s.Nr /\ n < pn /\ n < s.Nr + MaxSkip =>
              [dh |-> s.DHr, key |-> [chain |-> s.CKr, n |-> n]] \in KeepOldChain(s, pn)
      BY <2>2, <2>4, <2>5, <2>6
    <2> QED
      BY <2>7, <2>8, <2>9
  <1> QED
    BY <1>1, <1>2

\* What reading m makes of what a device knows: m can be read no more, nor what
\* could not be read before.
Read(u, s, m, n) ==
  /\ ReceivingInv(u, n) /\ Gone(n, m)
  /\ \A x \in sent : x.from = Peer(u) /\ Gone(s, x) => Gone(n, x)

LEMMA ReadKept ==
  ASSUME Traced, NEW u \in Users, NEW s \in States, ReceivingInv(u, s),
         NEW m \in sent, m.from = Peer(u), NEW n \in States, TakesKept(s, m, n)
  PROVE  Read(u, s, m, n)
  <1>1. n.MKSKIPPED \subseteq s.MKSKIPPED /\ ~ IsSkipped(n, m)
    BY DEF TakesKept, DropUsed, IsSkipped
  <1>2. /\ n.RK = s.RK /\ n.CKs = s.CKs /\ n.CKr = s.CKr /\ n.DHs = s.DHs /\ n.DHr = s.DHr
        /\ n.Nr = s.Nr
    BY DEF TakesKept, SameChains
  <1>3. ReceivingInv(u, n)
    BY <1>1, <1>2 DEF ReceivingInv
  <1>4. Gone(n, m)
    <2>1. Entry(m) \in s.MKSKIPPED /\ Entry(m).dh = m.dh /\ Entry(m).key = m.key /\ m.n = m.key.n
      BY SentTypes DEF TakesKept, Entry, Traced
    <2>2. Len(m.key.chain) < Len(s.RK) /\ (m.dh = s.DHr => m.n < s.Nr)
      BY <2>1 DEF ReceivingInv
    <2> QED
      BY <1>1, <1>2, <2>2 DEF Gone
  <1>5. ASSUME NEW x \in sent, Gone(s, x)
        PROVE  Gone(n, x)
    BY <1>1, <1>2, <1>5 DEF Gone, IsSkipped
  <1> QED
    BY <1>3, <1>4, <1>5 DEF Read

LEMMA ReadNext ==
  ASSUME Traced, NEW u \in Users, NEW s \in States, ReceivingInv(u, s),
         NEW m \in sent, m.from = Peer(u), ~ IsSkipped(s, m),
         NEW n \in States, TakesNext(s, m, n)
  PROVE  Read(u, s, m, n)
  <1>1. /\ s.Nr \in Nat /\ s.CKr \in ChainKeys /\ m.n \in Nat /\ m.dh \in RatchetKeys
    BY StateFields, SentTypes DEF Traced
  <1>2. /\ n.RK = s.RK /\ n.CKs = s.CKs /\ n.CKr = s.CKr /\ n.DHs = s.DHs /\ n.DHr = s.DHr
        /\ n.Nr = m.n + 1 /\ m.dh = s.DHr /\ s.CKr # NoChain /\ m.key.chain = s.CKr
        /\ m.n >= s.Nr
    BY <1>1 DEF TakesNext, SameChains
  <1>3. PICK S : S = Skipped(m.dh, s.CKr, s.Nr, m.n)
    OBVIOUS
  <1>4. \A x \in S : x.dh = m.dh /\ x.key.chain = s.CKr /\ x.key.n \in Nat /\ x.key.n >= s.Nr /\ x.key.n < m.n
    BY <1>1, <1>3, SkippedKeys
  <1>5. n.MKSKIPPED \subseteq S \union s.MKSKIPPED
    BY <1>3, Places DEF TakesNext
  <1>6. /\ Theirs(u, s.DHr, s.CKr) /\ Len(s.CKr) < Len(s.RK)
        /\ \A x \in s.MKSKIPPED : /\ Theirs(u, x.dh, x.key.chain) /\ Len(x.key.chain) < Len(s.RK)
                                  /\ x.dh = s.DHr => x.key.n < s.Nr
    BY <1>2 DEF ReceivingInv
  <1>7. \A x \in s.MKSKIPPED : x.key.n \in Nat
    BY StateFields DEF MessageKeys
  <1>8. \A x \in n.MKSKIPPED : /\ Theirs(u, x.dh, x.key.chain) /\ Len(x.key.chain) < Len(n.RK)
                               /\ x.dh = n.DHr => x.key.n < n.Nr
    BY <1>1, <1>2, <1>4, <1>5, <1>6, <1>7
  <1>9. ReceivingInv(u, n)
    <2>1. n.Nr >= 1 /\ m.dh # None
      BY <1>1, <1>2
    <2> QED
      BY <1>2, <1>6, <1>8, <2>1 DEF ReceivingInv
  <1>10. Gone(n, m)
    <2>1. \A x \in n.MKSKIPPED : x.dh # m.dh \/ x.key.n # m.n
      BY <1>1, <1>4, <1>5 DEF IsSkipped
    <2> QED
      BY <1>1, <1>2, <1>6, <2>1 DEF Gone, IsSkipped
  <1>11. ASSUME NEW x \in sent, Gone(s, x)
         PROVE  Gone(n, x)
    <2>1. x.n \in Nat
      BY SentTypes DEF Traced
    <2>2. x.dh = s.DHr => x.n < s.Nr
      BY <1>11 DEF Gone
    <2>3. \A y \in n.MKSKIPPED : x.dh # y.dh \/ x.n # y.key.n
      BY <1>1, <1>2, <1>4, <1>5, <1>11, <2>1, <2>2 DEF Gone, IsSkipped
    <2>4. x.dh = n.DHr => x.n < n.Nr
      BY <1>1, <1>2, <2>1, <2>2
    <2> QED
      BY <1>2, <1>11, <2>3, <2>4 DEF Gone, IsSkipped
  <1> QED
    BY <1>9, <1>10, <1>11 DEF Read

LEMMA ReadRatchets ==
  ASSUME Traced, NEW u \in Users, NEW s \in States, ReceivingInv(u, s),
         NEW m \in sent, m.from = Peer(u), ~ IsSkipped(s, m), NEW fresh \in RatchetKeys,
         NEW n \in States, Ratchets(u, s, m, fresh, n)
  PROVE  /\ Read(u, s, m, n) /\ Len(m.key.chain) = Len(s.RK) + 1
         /\ Len(n.RK) = Len(m.key.chain) + 1 /\ n.CKs # NoChain
  <1>1. /\ s.Nr \in Nat /\ s.RK \in ChainKeys /\ m.n \in Nat /\ m.pn \in Nat /\ m.dh \in RatchetKeys
        /\ m.key.chain \in ChainKeys
    BY StateFields, SentTypes DEF Traced
  <1>2. /\ n.CKr = m.key.chain /\ n.DHr = m.dh /\ n.Nr = m.n + 1 /\ n.CKs = n.RK /\ m.dh # s.DHr
        /\ n.RK = Append(m.key.chain, DH(fresh, m.dh))
        /\ m.key.chain = Append(s.RK, DH(IF s.DHr = None THEN IdentityKey(u) ELSE s.DHs, m.dh))
        /\ n.MKSKIPPED = Put(Skipped(m.dh, m.key.chain, 0, m.n), KeepOldChain(s, m.pn))
    BY DEF Ratchets
  <1>3. PICK c \in ChainKeys : c = m.key.chain /\ Len(c) = Len(s.RK) + 1 /\ Len(s.RK) \in Nat
    <2>1. PICK mine \in RatchetKeys : mine = IF s.DHr = None THEN IdentityKey(u) ELSE s.DHs
      BY KeyTypes, StateFields
    <2>2. m.key.chain = Append(s.RK, DH(mine, m.dh))
      BY <1>2, <2>1
    <2>3. Len(m.key.chain) = Len(s.RK) + 1 /\ Len(s.RK) \in Nat
      BY <1>1, <2>2, Mixed
    <2> QED
      BY <1>1, <2>3
  <1>4. n.CKs # NoChain /\ Len(n.RK) = Len(c) + 1 /\ Len(c) \in Nat
    <2>1. PICK r : r = n.RK
      OBVIOUS
    <2>2. r = Append(c, DH(fresh, m.dh))
      BY <1>2, <1>3, <2>1
    <2>3. PICK k \in RatchetKeys : k = m.dh
      BY <1>1
    <2>4. r = Append(c, DH(fresh, k))
      BY <2>2, <2>3
    <2>5. r # NoChain /\ Len(r) = Len(c) + 1 /\ Len(c) \in Nat
      BY <2>4, Mixed
    <2> QED
      BY <1>2, <2>1, <2>5
  <1>5. PICK S : S = Skipped(m.dh, c, 0, m.n)
    OBVIOUS
  <1>6. \A x \in S : x.dh = m.dh /\ x.key.chain = c /\ x.key.n \in Nat /\ x.key.n < m.n
    <2>1. PICK z \in Nat : z = 0
      OBVIOUS
    <2>2. S = Skipped(m.dh, c, z, m.n)
      BY <1>5, <2>1
    <2> QED
      BY <1>1, <2>2, SkippedKeys
  <1>7. PICK old : old = KeepOldChain(s, m.pn)
    OBVIOUS
  <1>8. n.MKSKIPPED \subseteq S \union old
    BY <1>2, <1>3, <1>5, <1>7, Places
  <1>9. s.DHr = None => s.CKr = NoChain
    BY DEF ReceivingInv
  <1>10. \A x \in old : x \in s.MKSKIPPED \/ (/\ s.CKr # NoChain /\ x.dh = s.DHr /\ x.key.chain = s.CKr
                                              /\ x.key.n \in Nat /\ x.key.n >= s.Nr)
    BY <1>1, <1>7, <1>9, OldChainKept
  <1>11. ASSUME NEW x \in old
         PROVE  Theirs(u, x.dh, x.key.chain) /\ Len(x.key.chain) < Len(s.RK) /\ x.dh # m.dh
    <2>1. Theirs(u, x.dh, x.key.chain) /\ Len(x.key.chain) < Len(s.RK)
      BY <1>10, <1>11 DEF ReceivingInv
    <2>2. x.dh = m.dh => x.key.chain = m.key.chain
      BY <2>1, TheirsKeys
    <2>3. x.dh # m.dh
      BY <1>3, <2>1, <2>2
    <2> QED
      BY <2>1, <2>3
  <1>12. Theirs(u, m.dh, c)
    BY <1>3 DEF Theirs
  <1>13. \A x \in n.MKSKIPPED : /\ Theirs(u, x.dh, x.key.chain) /\ Len(x.key.chain) < Len(n.RK)
                                /\ x.dh = n.DHr => x.key.n < n.Nr
    <2>1. ASSUME NEW x \in S
          PROVE  /\ Theirs(u, x.dh, x.key.chain) /\ Len(x.key.chain) < Len(n.RK)
                 /\ x.dh = n.DHr => x.key.n < n.Nr
      BY <1>1, <1>2, <1>4, <1>6, <1>12, SMTT(30)
    <2>2. ASSUME NEW x \in old
          PROVE  /\ Theirs(u, x.dh, x.key.chain) /\ Len(x.key.chain) < Len(n.RK)
                 /\ x.dh = n.DHr => x.key.n < n.Nr
      <3>1. Theirs(u, x.dh, x.key.chain) /\ Len(x.key.chain) < Len(s.RK) /\ x.dh # m.dh
        BY <1>11
      <3>2. Len(x.key.chain) \in Nat
        BY <3>1, TheirsKeys DEF ChainKeys
      <3> QED
        BY <1>2, <1>3, <1>4, <3>1, <3>2
    <2> QED
      BY <1>8, <2>1, <2>2
  <1>14. ReceivingInv(u, n)
    <2>1. n.Nr >= 1 /\ m.dh # None /\ c # NoChain
      BY <1>1, <1>2, <1>12, TheirsKeys
    <2>2. Len(c) < Len(n.RK)
      BY <1>4
    <2> QED
      BY <1>2, <1>3, <1>4, <1>12, <1>13, <2>1, <2>2 DEF ReceivingInv
  <1>15. Gone(n, m)
    <2>1. \A x \in n.MKSKIPPED : x.dh # m.dh \/ x.key.n # m.n
      BY <1>1, <1>6, <1>8, <1>11
    <2> QED
      BY <1>1, <1>2, <1>3, <1>4, <2>1 DEF Gone, IsSkipped
  <1>16. ASSUME NEW x \in sent, x.from = Peer(u), Gone(s, x)
         PROVE  Gone(n, x)
    <2>1. x.n \in Nat /\ Len(x.key.chain) \in Nat
      BY SentTypes DEF Traced
    <2>2. /\ Len(x.key.chain) < Len(s.RK) /\ (x.dh = s.DHr => x.n < s.Nr)
          /\ \A y \in s.MKSKIPPED : x.dh # y.dh \/ x.n # y.key.n
      BY <1>16 DEF Gone, IsSkipped
    <2>3. x.dh # m.dh
      <3>1. x.dh = m.dh => x.key.chain = c
        BY <1>3, <1>16, OneChain
      <3> QED
        BY <1>3, <2>2, <3>1
    <2>4. \A y \in n.MKSKIPPED : x.dh # y.dh \/ x.n # y.key.n
      BY <1>1, <1>6, <1>8, <1>10, <2>1, <2>2, <2>3
    <2>5. Len(x.key.chain) < Len(n.RK)
      BY <1>3, <1>4, <2>1, <2>2
    <2> QED
      BY <1>2, <2>3, <2>4, <2>5 DEF Gone, IsSkipped
  <1> QED
    BY <1>3, <1>4, <1>14, <1>15, <1>16 DEF Read

-------------------------------------------------------------------------------
(* Each step keeps KeysInv.                                                *)

\* A state nobody has sent or received with: nothing tells one from another.
LEMMA BlankReceiving ==
  ASSUME NEW u \in Users, NEW k \in RatchetKeys
  PROVE  /\ ReceivingInv(u, Blank(u, k)) /\ ChainOf(u, Blank(u, k)) = FirstChain(u, k)
         /\ \A j \in RatchetKeys : \A m : Receives(u, Blank(u, k), m) <=> Receives(u, Blank(u, j), m)
         /\ \A m : Receives(u, Blank(u, k), m) /\ m.dh \in RatchetKeys
              => ~ IsSkipped(Blank(u, k), m) /\ m.dh # Blank(u, k).DHr
  <1>1. ReceivingInv(u, Blank(u, k)) /\ ChainOf(u, Blank(u, k)) = FirstChain(u, k)
    BY BlankState DEF ReceivingInv, ChainOf
  <1>2. ASSUME NEW j \in RatchetKeys, NEW m
        PROVE  /\ ~ IsSkipped(Blank(u, j), m)
               /\ Receives(u, Blank(u, j), m) <=>
                    IF m.dh = None THEN FALSE
                    ELSE m.n <= MaxSkip /\ m.key.chain = Append(Root(u), DH(IdentityKey(u), m.dh))
    BY BlankState DEF Receives, IsSkipped
  <1>3. \A j \in RatchetKeys : \A m : Receives(u, Blank(u, k), m) <=> Receives(u, Blank(u, j), m)
    BY <1>2
  <1>4. \A m : m.dh \in RatchetKeys => m.dh # Blank(u, k).DHr
    BY BlankState
  <1> QED
    BY <1>1, <1>2, <1>3, <1>4

\* What a step of u leaves of its peer.
Untouched(v) ==
  /\ ratchet'[v] = ratchet[v] /\ task'[v] = task[v] /\ opened'[v] = opened[v] /\ made'[v] = made[v]
  /\ sent \subseteq sent' /\ \A m \in sent' : m.from = v => m \in sent
  /\ v \in overwritten => v \in overwritten'

LEMMA PeerInv ==
  ASSUME NEW v \in Users, DeviceInv(v), Untouched(v)
  PROVE  DeviceInv(v)'
  <1>1. \A s : Has(v, s)' <=> Has(v, s)
    BY DEF Has, Untouched
  <1>2. \A k, c : Uses(v, k, c)' => Uses(v, k, c)
    BY <1>1 DEF Uses, Untouched
  <1>3. \A k, c : Rooted(v, k, c) => Rooted(v, k, c)'
    BY DEF Rooted, Untouched
  <1>4. SendingInv(v)'
    <2>1. SendingInv(v) /\ made'[v] = made[v]
      BY DEF DeviceInv, Untouched
    <2> QED
      BY <1>2, <1>3, <2>1 DEF SendingInv
  <1>5. JobsInv(v)'
    <2>1. JobsInv(v) /\ task'[v] = task[v] /\ Fresh(v)' = Fresh(v)
      BY DEF DeviceInv, Untouched, Fresh
    <2> QED
      BY <2>1 DEF JobsInv
  <1>6. \A k, c : Theirs(v, k, c) => Theirs(v, k, c)'
    BY DEF Theirs, Untouched
  <1>7. ASSUME NEW s \in States, Has(v, s)'
        PROVE  ReceivingInv(v, s)'
    <2>1. ReceivingInv(v, s)
      BY <1>1, <1>7 DEF DeviceInv
    <2> QED
      BY <1>6, <2>1 DEF ReceivingInv
  <1>8. ASSUME v \notin overwritten'
        PROVE  SentInv(v)' /\ OpenedInv(v)'
    <2>1. SentInv(v) /\ OpenedInv(v)
      BY <1>8 DEF DeviceInv, Untouched
    <2>2. SentInv(v)'
      BY <2>1 DEF SentInv, Untouched
    <2>3. OpenedInv(v)'
      BY <2>1 DEF OpenedInv, Untouched
    <2> QED
      BY <2>2, <2>3
  <1> QED
    BY <1>4, <1>5, <1>7, <1>8 DEF DeviceInv

\* A device that comes to send with one chain more.
LEMMA SendingKept ==
  ASSUME NEW u \in Users, SendingInv(u), made[u] \in Nat, made'[u] \in Nat, made'[u] >= made[u],
         sent \subseteq sent',
         \A k, c : Uses(u, k, c)' => Uses(u, k, c)
  PROVE  SendingInv(u)'
  <1>1. \A k, c : Rooted(u, k, c) => Rooted(u, k, c)'
    BY DEF Rooted
  <1>2. \A n \in 1 .. made[u] : n \in 1 .. made'[u]
    OBVIOUS
  <1> QED
    BY <1>1, <1>2 DEF SendingInv

LEMMA SendingNew ==
  ASSUME NEW u \in Users, SendingInv(u), made[u] \in Nat, made' [u] = made[u] + 1,
         sent \subseteq sent', NEW k0 \in RatchetKeys, NEW c0 \in ChainKeys,
         k0.owner = u, k0.n = made[u] + 1, Rooted(u, k0, c0)',
         \A k, c : Uses(u, k, c)' => Uses(u, k, c) \/ (k = k0 /\ c = c0)
  PROVE  SendingInv(u)'
  <1>1. \A k, c : Rooted(u, k, c) => Rooted(u, k, c)'
    BY DEF Rooted
  <1>2. \A n \in 1 .. made[u] : n \in 1 .. made'[u]
    OBVIOUS
  <1>3. made[u] + 1 \in 1 .. made'[u] /\ made[u] + 1 \notin 1 .. made[u]
    OBVIOUS
  <1>4. ASSUME NEW k \in RatchetKeys, NEW c \in ChainKeys, Uses(u, k, c)'
        PROVE  /\ k.owner = u /\ k.n \in 1 .. made'[u] /\ Rooted(u, k, c)'
               /\ \A d \in ChainKeys : Uses(u, k, d)' => d = c
    <2>1. CASE Uses(u, k, c)
      <3>1. k.owner = u /\ k.n \in 1 .. made[u] /\ Rooted(u, k, c)
        BY <2>1 DEF SendingInv
      <3>2. k # k0
        BY <1>3, <3>1
      <3>3. \A d \in ChainKeys : Uses(u, k, d)' => d = c
        BY <2>1, <3>2 DEF SendingInv
      <3> QED
        BY <1>1, <1>2, <3>1, <3>3
    <2>2. CASE ~ Uses(u, k, c)
      <3>1. k = k0 /\ c = c0
        BY <1>4, <2>2
      <3>2. \A d \in ChainKeys : ~ Uses(u, k0, d)
        BY <1>3 DEF SendingInv
      <3>3. \A d \in ChainKeys : Uses(u, k, d)' => d = c
        BY <3>1, <3>2
      <3> QED
        BY <1>3, <3>1, <3>3
    <2> QED
      BY <2>1, <2>2
  <1> QED
    BY <1>4 DEF SendingInv

LEMMA ReceivingKept ==
  ASSUME NEW u, NEW s, ReceivingInv(u, s), sent \subseteq sent'
  PROVE  ReceivingInv(u, s)'
  <1>1. \A k, c : Theirs(u, k, c) => Theirs(u, k, c)'
    BY DEF Theirs
  <1> QED
    BY <1>1 DEF ReceivingInv

\* A device whose chains do not change.
LEMMA StartKeeps ==
  ASSUME KeysInv, NEW u \in Users, NEW t \in Tasks, NEW job,
         job.kind # "idle" /\ job.state = ratchet[u],
         job.kind = "encrypt" => job.state = job.written,
         job.kind = "decrypt" =>
           job.message.from = Peer(u)
             /\ Receives(u, IF ratchet[u] = None THEN Blank(u, Fresh(u)) ELSE ratchet[u], job.message),
         job \in Jobs,
         task' = [task EXCEPT ![u][t] = job],
         UNCHANGED <<ratchet, sent, opened, made, overwritten>>
  PROVE  KeysInv'
  <1>1. DmTypeInv /\ DeviceInv(u) /\ Peer(u) \in Users /\ Peer(u) # u /\ DeviceInv(Peer(u))
    BY Peers DEF KeysInv
  <1>2. /\ task'[u] = [task[u] EXCEPT ![t] = job] /\ task'[Peer(u)] = task[Peer(u)]
        /\ task'[u][t] = job /\ \A x \in Tasks : x # t => task'[u][x] = task[u][x]
    BY <1>1 DEF DmTypeInv
  <1>3. DmTypeInv'
    <2>1. task' \in [Users -> [Tasks -> Jobs]] /\ Jobs' = Jobs
      BY <1>1 DEF DmTypeInv, Jobs
    <2> QED
      BY <1>1, <2>1 DEF DmTypeInv
  <1>4. \A s : Has(u, s)' => Has(u, s)
    BY <1>2 DEF Has
  <1>5. \A k, c : Uses(u, k, c)' => Uses(u, k, c)
    BY <1>4 DEF Uses
  <1>6. SendingInv(u)'
    <2>1. made[u] \in Nat
      BY <1>1 DEF DmTypeInv
    <2> QED
      BY <1>1, <1>5, <2>1, SendingKept DEF DeviceInv
  <1>7. JobsInv(u)'
    <2>1. JobsInv(u) /\ Fresh(u)' = Fresh(u)
      BY <1>1 DEF DeviceInv, Fresh
    <2> QED
      BY <1>2, <2>1 DEF JobsInv
  <1>8. ASSUME NEW s \in States, Has(u, s)'
        PROVE  ReceivingInv(u, s)'
    <2>1. ReceivingInv(u, s) /\ sent \subseteq sent'
      BY <1>1, <1>4, <1>8 DEF DeviceInv
    <2> QED
      BY <2>1, ReceivingKept
  <1>9. u \notin overwritten' => SentInv(u)' /\ OpenedInv(u)'
    BY <1>1 DEF DeviceInv, SentInv, OpenedInv
  <1>10. DeviceInv(u)'
    BY <1>6, <1>7, <1>8, <1>9 DEF DeviceInv
  <1>11. Untouched(Peer(u))
    BY <1>2 DEF Untouched
  <1>12. DeviceInv(Peer(u))'
    BY <1>1, <1>11, PeerInv
  <1> QED
    BY <1>3, <1>10, <1>12, Peers DEF KeysInv

LEMMA Overwriting ==
  ASSUME NEW u \in Users, NEW read, Overwrites(u, read), overwritten \subseteq Users
  PROVE  /\ overwritten \subseteq overwritten' /\ overwritten' \subseteq overwritten \union {u}
         /\ overwritten' \subseteq Users
         /\ u \notin overwritten' => u \notin overwritten /\ ratchet[u] = read
  BY DEF Overwrites

LEMMA ChainTypes ==
  ASSUME NEW u \in Users, NEW s \in States
  PROVE  ChainOf(u, s) \in ChainKeys /\ s.DHs \in RatchetKeys
  BY StateFields, Roots DEF ChainOf

\* A device that stores the state n.
LEMMA WriteKeeps ==
  ASSUME KeysInv, NEW u \in Users, NEW t \in Tasks, NEW n \in States, NEW job,
         job = Idle \/ job = Encryption(n, n),
         ratchet' = [ratchet EXCEPT ![u] = n], task' = [task EXCEPT ![u][t] = job],
         sent \subseteq sent',
         \A m \in sent' : m \in sent \/ (m.from = u /\ m.dh = n.DHs /\ m.key.chain = ChainOf(u, n)),
         opened'[Peer(u)] = opened[Peer(u)], made'[Peer(u)] = made[Peer(u)],
         overwritten \subseteq overwritten',
         ReceivingInv(u, n)',
         \/ made'[u] = made[u] /\ Uses(u, n.DHs, ChainOf(u, n))
         \/ made'[u] = made[u] + 1 /\ n.DHs = Fresh(u) /\ Rooted(u, Fresh(u), ChainOf(u, n)),
         DmTypeInv',
         u \notin overwritten' => SentInv(u)' /\ OpenedInv(u)'
  PROVE  KeysInv'
  <1>1. DmTypeInv /\ DeviceInv(u) /\ Peer(u) \in Users /\ Peer(u) # u /\ DeviceInv(Peer(u))
    BY Peers DEF KeysInv
  <1>2. /\ task'[u][t] = job /\ \A x \in Tasks : x # t => task'[u][x] = task[u][x]
        /\ task'[Peer(u)] = task[Peer(u)]
        /\ ratchet'[u] = n /\ ratchet'[Peer(u)] = ratchet[Peer(u)]
    BY <1>1 DEF DmTypeInv
  <1>3. made[u] \in Nat /\ made'[u] \in Nat
    BY <1>1 DEF DmTypeInv
  <1>4. \A s : Has(u, s)' => Has(u, s) \/ s = n
    BY <1>2 DEF Has, Idle, Encryption
  <1>5. PICK k0 \in RatchetKeys, c0 \in ChainKeys : k0 = n.DHs /\ c0 = ChainOf(u, n)
    BY ChainTypes
  <1>6. \A k, c : Uses(u, k, c)' => Uses(u, k, c) \/ (k = k0 /\ c = c0)
    BY <1>4, <1>5 DEF Uses
  <1>7. SendingInv(u)'
    <2>1. CASE made'[u] = made[u] /\ Uses(u, k0, c0)
      <3>1. \A k, c : Uses(u, k, c)' => Uses(u, k, c)
        BY <1>6, <2>1
      <3> QED
        BY <1>1, <1>3, <2>1, <3>1, SendingKept DEF DeviceInv
    <2>2. CASE made'[u] = made[u] + 1 /\ k0 = Fresh(u) /\ Rooted(u, k0, c0)
      <3>1. k0.owner = u /\ k0.n = made[u] + 1
        BY <1>3, <2>2, KeyTypes DEF Fresh
      <3>2. Rooted(u, k0, c0)'
        BY <2>2 DEF Rooted
      <3> QED
        BY <1>1, <1>3, <1>6, <2>2, <3>1, <3>2, SendingNew DEF DeviceInv
    <2> QED
      BY <1>5, <2>1, <2>2
  <1>8. JobsInv(u)'
    <2>1. JobsInv(u)
      BY <1>1 DEF DeviceInv
    <2>2. PICK old \in RatchetKeys, new \in RatchetKeys : old = Fresh(u) /\ new = Fresh(u)'
      BY <1>3, KeyTypes DEF Fresh
    <2>3. \A m : Receives(u, Blank(u, old), m) <=> Receives(u, Blank(u, new), m)
      BY BlankReceiving
    <2>4. ASSUME NEW x \in Tasks, x # t
          PROVE  /\ task'[u][x].kind = "encrypt" => task'[u][x].state = task'[u][x].written
                 /\ task'[u][x].kind = "decrypt" =>
                      /\ task'[u][x].message.from = Peer(u)
                      /\ IF task'[u][x].state = None
                         THEN Receives(u, Blank(u, new), task'[u][x].message)
                         ELSE Receives(u, task'[u][x].state, task'[u][x].message)
      BY <1>2, <2>1, <2>2, <2>3, <2>4 DEF JobsInv
    <2>5. job.kind # "decrypt" /\ (job.kind = "encrypt" => job.state = job.written)
      BY DEF Idle, Encryption
    <2> QED
      BY <1>2, <2>2, <2>4, <2>5 DEF JobsInv
  <1>9. ASSUME NEW s \in States, Has(u, s)'
        PROVE  ReceivingInv(u, s)'
    <2>1. CASE s = n
      BY <2>1
    <2>2. CASE Has(u, s)
      <3>1. ReceivingInv(u, s) /\ sent \subseteq sent'
        BY <1>1, <2>2 DEF DeviceInv
      <3> QED
        BY <3>1, ReceivingKept
    <2> QED
      BY <1>4, <1>9, <2>1, <2>2
  <1>10. DeviceInv(u)'
    BY <1>7, <1>8, <1>9 DEF DeviceInv
  <1>11. Untouched(Peer(u))
    BY <1>1, <1>2 DEF Untouched
  <1>12. DeviceInv(Peer(u))'
    BY <1>1, <1>11, PeerInv
  <1> QED
    BY <1>10, <1>12, Peers DEF KeysInv

LEMMA WriteTypes ==
  ASSUME DmTypeInv, NEW u \in Users, NEW t \in Tasks, NEW n \in States, NEW job,
         job = Idle \/ job = Encryption(n, n),
         ratchet' = [ratchet EXCEPT ![u] = n], task' = [task EXCEPT ![u][t] = job],
         sent \subseteq sent',
         \A m \in sent' : m \in sent \/ (/\ m.from \in Users /\ m.dh \in RatchetKeys
                                         /\ m.key \in MessageKeys /\ m.pn \in Nat /\ m.n = m.key.n),
         opened' \in [Users -> SUBSET sent'], made' \in [Users -> Nat], overwritten' \subseteq Users
  PROVE  DmTypeInv'
  <1>1. Jobs \subseteq Jobs'
    BY DEF Jobs
  <1>2. job \in Jobs'
    BY DEF Jobs, Idle, Encryption
  <1>3. task' \in [Users -> [Tasks -> Jobs']]
    BY <1>1, <1>2 DEF DmTypeInv
  <1>4. ratchet' \in [Users -> States \union {None}]
    BY DEF DmTypeInv
  <1>5. \A m \in sent' : /\ m.from \in Users /\ m.dh \in RatchetKeys /\ m.key \in MessageKeys
                         /\ m.pn \in Nat /\ m.n = m.key.n
    BY DEF DmTypeInv
  <1> QED
    BY <1>3, <1>4, <1>5 DEF DmTypeInv

LEMMA StartEncryptKeeps ==
  ASSUME KeysInv, NEW u \in Users, NEW t \in Tasks, StartEncrypt(u, t)
  PROVE  KeysInv'
  <1>1. PICK job : job = Encryption(ratchet[u], ratchet[u])
    OBVIOUS
  <1>2. job.kind = "encrypt" /\ job.state = ratchet[u] /\ job.written = ratchet[u]
    BY <1>1 DEF Encryption
  <1>3. job \in Jobs
    BY <1>1 DEF KeysInv, DmTypeInv, Jobs, Encryption
  <1>4. task' = [task EXCEPT ![u][t] = job] /\ UNCHANGED <<ratchet, sent, opened, made, overwritten>>
    BY <1>1 DEF StartEncrypt
  <1> QED
    BY <1>2, <1>3, <1>4, StartKeeps

LEMMA TracedHere ==
  ASSUME KeysInv
  PROVE  Traced
  BY DEF KeysInv, Traced, DeviceInv

\* Only what the peer wrote opens.
LEMMA LoadedReads ==
  ASSUME KeysInv, NEW u \in Users, NEW m \in sent, NEW fresh \in RatchetKeys, fresh.owner = u,
         NEW s, s = IF ratchet[u] = None THEN Blank(u, fresh) ELSE ratchet[u]
  PROVE  /\ s \in States /\ ReceivingInv(u, s) /\ s.DHs.owner = u
         /\ Opens(s, m, u, fresh) <=> Receives(u, s, m)
         /\ Receives(u, s, m) => m.from = Peer(u)
  <1>1. DmTypeInv /\ DeviceInv(u) /\ Traced
    BY TracedHere DEF KeysInv
  <1>2. s \in States /\ ReceivingInv(u, s) /\ s.DHs.owner = u
    <2>1. CASE ratchet[u] = None
      BY <2>1, BlankState, BlankReceiving
    <2>2. CASE ratchet[u] # None
      <3>1. s \in States /\ Has(u, s) /\ s.DHs \in RatchetKeys /\ ChainOf(u, s) \in ChainKeys
        BY <1>1, <2>2, ChainTypes DEF DmTypeInv, Has
      <3>2. Uses(u, s.DHs, ChainOf(u, s))
        BY <3>1 DEF Uses
      <3> QED
        BY <1>1, <3>1, <3>2 DEF DeviceInv, SendingInv
    <2> QED
      BY <2>1, <2>2
  <1>3. m.dh \in RatchetKeys /\ m.key \in MessageKeys /\ m.n = m.key.n /\ m.from \in Users
    BY <1>1, SentTypes
  <1>4. Opens(s, m, u, fresh) <=> Receives(u, s, m)
    BY <1>2, <1>3, OpensMeans
  <1>5. Receives(u, s, m) => m.from # u
    BY <1>1, <1>2, OwnUnreadable
  <1> QED
    BY <1>2, <1>3, <1>4, <1>5, Peers

LEMMA StartDecryptKeeps ==
  ASSUME KeysInv, NEW u \in Users, NEW t \in Tasks, NEW m \in sent, StartDecrypt(u, t, m)
  PROVE  KeysInv'
  <1>1. PICK job : job = Decryption(m, ratchet[u])
    OBVIOUS
  <1>2. job.kind = "decrypt" /\ job.state = ratchet[u] /\ job.message = m
    BY <1>1 DEF Decryption
  <1>3. job \in Jobs
    BY <1>1 DEF KeysInv, DmTypeInv, Jobs, Decryption
  <1>4. PICK fresh \in RatchetKeys : fresh = Fresh(u) /\ fresh.owner = u
    BY KeyTypes DEF KeysInv, DmTypeInv, Fresh
  <1>5. PICK s : s = IF ratchet[u] = None THEN Blank(u, fresh) ELSE ratchet[u]
    OBVIOUS
  <1>6. Opens(s, m, u, fresh)
    BY <1>4, <1>5 DEF StartDecrypt, Loaded
  <1>7. Receives(u, s, m) /\ m.from = Peer(u)
    BY <1>4, <1>5, <1>6, LoadedReads
  <1>8. Receives(u, IF ratchet[u] = None THEN Blank(u, Fresh(u)) ELSE ratchet[u], m)
    BY <1>4, <1>5, <1>7
  <1>9. task' = [task EXCEPT ![u][t] = job] /\ UNCHANGED <<ratchet, sent, opened, made, overwritten>>
    BY <1>1 DEF StartDecrypt
  <1> QED
    BY <1>2, <1>3, <1>7, <1>8, <1>9, StartKeeps

LEMMA InitialiseKeeps ==
  ASSUME KeysInv, NEW u \in Users, NEW t \in Tasks, Initialise(u, t)
  PROVE  KeysInv'
  <1>1. DmTypeInv /\ DeviceInv(u) /\ Peer(u) \in Users /\ Peer(u) # u
    BY Peers DEF KeysInv
  <1>2. PICK k \in RatchetKeys : k = Fresh(u)
    BY <1>1, KeyTypes DEF DmTypeInv, Fresh
  <1>3. PICK n \in States : n = Blank(u, k)
    BY BlankState
  <1>4. PICK job : job = Encryption(n, n)
    OBVIOUS
  <1>5. /\ ratchet' = [ratchet EXCEPT ![u] = n] /\ task' = [task EXCEPT ![u][t] = job]
        /\ made' = [made EXCEPT ![u] = made[u] + 1] /\ Overwrites(u, None) /\ UNCHANGED <<sent, opened>>
    BY <1>2, <1>3, <1>4 DEF Initialise, Fresh
  <1>6. /\ overwritten \subseteq overwritten' /\ overwritten' \subseteq Users
        /\ u \notin overwritten' => u \notin overwritten /\ ratchet[u] = None
    BY <1>1, <1>5, Overwriting DEF DmTypeInv
  <1>7. DmTypeInv'
    <2>1. opened' \in [Users -> SUBSET sent'] /\ made' \in [Users -> Nat]
      BY <1>1, <1>5 DEF DmTypeInv
    <2> QED
      BY <1>1, <1>4, <1>5, <1>6, <2>1, WriteTypes
  <1>8. ReceivingInv(u, n)'
    <2>1. ReceivingInv(u, n) /\ sent \subseteq sent'
      BY <1>3, <1>5, BlankReceiving
    <2> QED
      BY <2>1, ReceivingKept
  <1>9. n.DHs = Fresh(u) /\ ChainOf(u, n) = FirstChain(u, k)
    BY <1>2, <1>3, BlankState, BlankReceiving
  <1>10. Rooted(u, Fresh(u), ChainOf(u, n))
    BY <1>2, <1>9 DEF Rooted
  <1>11. u \notin overwritten' => SentInv(u)' /\ OpenedInv(u)'
    <2>1. u \notin overwritten' => \A m \in sent : m.from # u
      BY <1>1, <1>6 DEF DeviceInv, SentInv
    <2>2. u \notin overwritten' => \A m \in opened[u] : FALSE
      BY <1>1, <1>6 DEF DeviceInv, OpenedInv
    <2> QED
      BY <1>5, <2>1, <2>2 DEF SentInv, OpenedInv
  <1>12. made'[u] = made[u] + 1 /\ made'[Peer(u)] = made[Peer(u)]
    BY <1>1, <1>5 DEF DmTypeInv
  <1> QED
    BY <1>4, <1>5, <1>6, <1>7, <1>8, <1>9, <1>10, <1>11, <1>12, WriteKeeps

\* A state after sending with it.
LEMMA SentReceiving ==
  ASSUME NEW u \in Users, NEW s \in States, ReceivingInv(u, s),
         NEW n, n = AfterSending(SendChain(s, u))
  PROVE  /\ ReceivingInv(u, n) /\ n \in States
         /\ n.DHs = s.DHs /\ n.Ns = s.Ns + 1 /\ ChainOf(u, n) = ChainOf(u, s)
         /\ SendChain(s, u).CKs = ChainOf(u, s) /\ SendChain(s, u).Ns = s.Ns
         /\ SendChain(s, u).DHs = s.DHs /\ SendChain(s, u).PN = s.PN
         /\ n.CKs = ChainOf(u, s) /\ n.CKs # NoChain /\ n.PN = s.PN
         /\ s.CKs # NoChain =>
              /\ n.CKs = s.CKs /\ n.RK = s.RK /\ n.DHr = s.DHr /\ s.DHr # None
              /\ n.Nr = s.Nr /\ n.CKr = s.CKr /\ n.MKSKIPPED = s.MKSKIPPED
         /\ s.CKs = NoChain =>
              /\ s.DHr = None /\ n.DHr = IdentityKey(Peer(u)) /\ n.CKs = FirstChain(u, s.DHs)
              /\ s.MKSKIPPED = {} /\ n.CKr = NoChain /\ n.MKSKIPPED = {}
  <1>1. s.CKs = NoChain => s.RK = Root(u) /\ s.DHr = None
    BY DEF ReceivingInv
  <1>2. /\ n \in States /\ SendChain(s, u).CKs = ChainOf(u, s) /\ SendChain(s, u).Ns = s.Ns
        /\ SendChain(s, u).DHs = s.DHs /\ SendChain(s, u).PN = s.PN
        /\ n.DHs = s.DHs /\ n.CKs = ChainOf(u, s) /\ n.CKs # NoChain /\ n.CKs \in ChainKeys
        /\ n.RK = IF s.CKs = NoChain THEN n.CKs ELSE s.RK
        /\ n.DHr = IF s.CKs = NoChain THEN IdentityKey(Peer(u)) ELSE s.DHr
        /\ n.Ns = s.Ns + 1 /\ n.Nr = s.Nr /\ n.PN = s.PN /\ n.CKr = s.CKr /\ n.MKSKIPPED = s.MKSKIPPED
    BY <1>1, SendingMeans
  <1>3. ChainOf(u, n) = ChainOf(u, s)
    BY <1>2 DEF ChainOf
  <1>4. IdentityKey(Peer(u)) # None
    BY Peers, KeyTypes
  <1>5. CASE s.CKs = NoChain
    <2>1. /\ s.DHr = None /\ n.DHr = IdentityKey(Peer(u)) /\ n.CKs = FirstChain(u, s.DHs) /\ n.RK = n.CKs
          /\ s.MKSKIPPED = {} /\ n.CKr = NoChain /\ n.MKSKIPPED = {}
      BY <1>1, <1>2, <1>5 DEF ChainOf, ReceivingInv
    <2>2. ReceivingInv(u, n)
      BY <1>2, <1>4, <2>1 DEF ReceivingInv
    <2> QED
      BY <1>2, <1>3, <1>5, <2>1, <2>2
  <1>6. CASE s.CKs # NoChain
    <2>1. /\ n.CKs = s.CKs /\ n.RK = s.RK /\ n.DHr = s.DHr /\ s.DHr # None
          /\ n.Nr = s.Nr /\ n.CKr = s.CKr /\ n.MKSKIPPED = s.MKSKIPPED
      BY <1>2, <1>6 DEF ChainOf, ReceivingInv
    <2>2. ReceivingInv(u, n)
      BY <1>2, <2>1 DEF ReceivingInv
    <2> QED
      BY <1>2, <1>3, <1>6, <2>1, <2>2
  <1> QED
    BY <1>5, <1>6

\* The message FinishEncrypt sends from the state s.
MessageSent(u, s, i) ==
  [id |-> i, from |-> u, dh |-> s.DHs, pn |-> s.PN, n |-> s.Ns, key |-> MessageKey(ChainOf(u, s), s.Ns)]

LEMMA FinishEncryptMeans ==
  ASSUME KeysInv, NEW u \in Users, NEW t \in Tasks, FinishEncrypt(u, t),
         NEW s, s = task[u][t].state
  PROVE  /\ s \in States /\ Has(u, s) /\ ReceivingInv(u, s)
         /\ \E i : sent' = sent \union {MessageSent(u, s, i)}
         /\ ratchet' = [ratchet EXCEPT ![u] = AfterSending(SendChain(s, u))]
         /\ task' = [task EXCEPT ![u][t] = Idle] /\ UNCHANGED <<opened, made>>
         /\ overwritten \subseteq overwritten' /\ overwritten' \subseteq Users
         /\ u \notin overwritten' => u \notin overwritten /\ ratchet[u] = s
  <1>1. DmTypeInv /\ DeviceInv(u)
    BY DEF KeysInv
  <1>2. task[u][t] \in Jobs /\ task[u][t].kind = "encrypt" /\ task[u][t].state # None
    BY <1>1 DEF FinishEncrypt, DmTypeInv
  <1>3. s \in States
    BY <1>2 DEF Jobs
  <1>4. Has(u, s) /\ ReceivingInv(u, s)
    BY <1>1, <1>2, <1>3 DEF Has, DeviceInv
  <1>5. task[u][t].written = s
    BY <1>1, <1>2 DEF DeviceInv, JobsInv
  <1>6. PICK c : c = SendChain(s, u)
    OBVIOUS
  <1>7. c.CKs = ChainOf(u, s) /\ c.Ns = s.Ns /\ c.DHs = s.DHs /\ c.PN = s.PN
    <2>1. PICK n : n = AfterSending(SendChain(s, u))
      OBVIOUS
    <2> QED
      BY <1>3, <1>4, <1>6, <2>1, SentReceiving
  <1>8. /\ sent' = sent \union
             {[id |-> Cardinality(sent) + 1, from |-> u, dh |-> c.DHs,
               pn |-> c.PN, n |-> c.Ns, key |-> MessageKey(c.CKs, c.Ns)]}
        /\ ratchet' = [ratchet EXCEPT ![u] = AfterSending(c)]
        /\ Overwrites(u, s) /\ task' = [task EXCEPT ![u][t] = Idle] /\ UNCHANGED <<opened, made>>
    BY <1>5, <1>6 DEF FinishEncrypt
  <1>9. \E i : sent' = sent \union {MessageSent(u, s, i)}
    BY <1>7, <1>8 DEF MessageSent
  <1>10. /\ overwritten \subseteq overwritten' /\ overwritten' \subseteq Users
         /\ u \notin overwritten' => u \notin overwritten /\ ratchet[u] = s
    BY <1>1, <1>8, Overwriting DEF DmTypeInv
  <1> QED
    BY <1>3, <1>4, <1>6, <1>8, <1>9, <1>10

LEMMA FinishEncryptKeeps ==
  ASSUME KeysInv, NEW u \in Users, NEW t \in Tasks, FinishEncrypt(u, t)
  PROVE  KeysInv'
  <1>1. DmTypeInv /\ DeviceInv(u) /\ Peer(u) \in Users /\ Peer(u) # u /\ Traced
    BY Peers, TracedHere DEF KeysInv
  <1>2. PICK s : s = task[u][t].state
    OBVIOUS
  <1>3. PICK n : n = AfterSending(SendChain(s, u))
    OBVIOUS
  <1>4. PICK i :
        /\ s \in States /\ Has(u, s) /\ ReceivingInv(u, s)
        /\ sent' = sent \union {MessageSent(u, s, i)}
        /\ ratchet' = [ratchet EXCEPT ![u] = n]
        /\ task' = [task EXCEPT ![u][t] = Idle] /\ UNCHANGED <<opened, made>>
        /\ overwritten \subseteq overwritten' /\ overwritten' \subseteq Users
        /\ u \notin overwritten' => u \notin overwritten /\ ratchet[u] = s
    BY <1>2, <1>3, FinishEncryptMeans
  <1>5. /\ ReceivingInv(u, n) /\ n \in States
        /\ n.DHs = s.DHs /\ n.Ns = s.Ns + 1 /\ ChainOf(u, n) = ChainOf(u, s)
        /\ s.CKs # NoChain =>
              /\ n.RK = s.RK /\ n.DHr = s.DHr /\ n.Nr = s.Nr /\ n.MKSKIPPED = s.MKSKIPPED
    BY <1>3, <1>4, SentReceiving
  <1>6. /\ ChainOf(u, s) \in ChainKeys /\ s.DHs \in RatchetKeys /\ s.Ns \in Nat /\ s.PN \in Nat
    BY <1>4, ChainTypes, StateFields
  <1>7. PICK w : w = MessageSent(u, s, i)
    OBVIOUS
  <1>8. /\ w.from = u /\ w.dh = s.DHs /\ w.pn = s.PN /\ w.n = s.Ns /\ w.key = MessageKey(ChainOf(u, s), s.Ns)
        /\ w.key \in MessageKeys /\ w.key.chain = ChainOf(u, s) /\ w.key.n = s.Ns
    BY <1>6, <1>7 DEF MessageSent, MessageKey, MessageKeys
  <1>9. sent' = sent \union {w}
    BY <1>4, <1>7
  <1>10. DmTypeInv'
    <2>1. opened' \in [Users -> SUBSET sent'] /\ made' \in [Users -> Nat]
      BY <1>1, <1>4 DEF DmTypeInv
    <2>2. \A m \in sent' : m \in sent \/ (/\ m.from \in Users /\ m.dh \in RatchetKeys
                                         /\ m.key \in MessageKeys /\ m.pn \in Nat /\ m.n = m.key.n)
      BY <1>6, <1>8, <1>9
    <2>3. sent \subseteq sent'
      BY <1>9
    <2> QED
      BY <1>1, <1>4, <1>5, <2>1, <2>2, <2>3, WriteTypes
  <1>11. ReceivingInv(u, n)'
    BY <1>5, <1>9, ReceivingKept
  <1>12. Uses(u, n.DHs, ChainOf(u, n))
    BY <1>4, <1>5 DEF Uses
  <1>13. u \notin overwritten' => SentInv(u)' /\ OpenedInv(u)'
    <2> SUFFICES ASSUME u \notin overwritten'
                 PROVE  SentInv(u)' /\ OpenedInv(u)'
      OBVIOUS
    <2>1. ratchet[u] = s /\ SentInv(u) /\ OpenedInv(u) /\ s # None
      BY <1>1, <1>4 DEF DeviceInv
    <2>2. ratchet'[u] = n /\ n # None
      BY <1>1, <1>4, <1>5 DEF DmTypeInv
    <2>3. \A m \in sent : m.from = u /\ m.dh = s.DHs => m.n < s.Ns
      BY <2>1 DEF SentInv
    <2>4. \A m \in sent : m.n \in Nat
      BY <1>1, SentTypes
    <2>5. SentInv(u)'
      <3>1. \A m, x \in sent' : m.from = u /\ x.from = u /\ m.dh = x.dh /\ m.n = x.n => m = x
        BY <1>6, <1>8, <1>9, <2>1, <2>3, <2>4 DEF SentInv
      <3>2. \A m \in sent' : m.from = u /\ m.dh = n.DHs => m.n < n.Ns
        BY <1>5, <1>6, <1>8, <1>9, <2>3, <2>4
      <3> QED
        BY <2>2, <3>1, <3>2 DEF SentInv
    <2>6. ASSUME NEW m \in opened[u]
          PROVE  Gone(n, m)
      <3>1. m \in sent /\ m.from = Peer(u) /\ Gone(s, m)
        BY <1>1, <2>1 DEF OpenedInv, DmTypeInv
      <3>2. CASE s.CKs # NoChain
        BY <1>5, <3>1, <3>2 DEF Gone, IsSkipped
      <3>3. CASE s.CKs = NoChain
        <4>0. s.RK = Root(u)
          BY <1>4, <3>3 DEF ReceivingInv
        <4>1. PICK r \in ChainKeys : r = s.RK /\ Len(r) = 1
          BY <1>6, <4>0, Roots
        <4>2. Len(m.key.chain) < 1 /\ Len(m.key.chain) >= 2 /\ Len(m.key.chain) \in Nat
          BY <1>1, <3>1, <4>1, SentKeys, SentTypes DEF Gone
        <4> QED
          BY <4>2
      <3> QED
        BY <3>2, <3>3
    <2>7. OpenedInv(u)'
      BY <1>4, <2>1, <2>2, <2>6 DEF OpenedInv, Gone
    <2> QED
      BY <2>5, <2>7
  <1>14. \A m \in sent' : m \in sent \/ (m.from = u /\ m.dh = n.DHs /\ m.key.chain = ChainOf(u, n))
    BY <1>5, <1>8, <1>9
  <1>15. sent \subseteq sent' /\ made'[u] = made[u] /\ made'[Peer(u)] = made[Peer(u)]
         /\ opened'[Peer(u)] = opened[Peer(u)]
    BY <1>4, <1>9
  <1>16. PICK job : job = Idle
    OBVIOUS
  <1>17. task' = [task EXCEPT ![u][t] = job]
    BY <1>4, <1>16
  <1> HIDE DEF Idle
  <1> QED
    BY <1>4, <1>5, <1>10, <1>11, <1>12, <1>13, <1>14, <1>15, <1>16, <1>17, WriteKeeps

\* Reading m: from the state s, which is a blank one if none was stored, to n.
Reading(u, s, m, n) ==
  /\ s \in States /\ ReceivingInv(u, s) /\ s.DHs.owner = u
  /\ m \in sent /\ m.from = Peer(u) /\ n \in States
  /\ Read(u, s, m, n)
  /\ \/ TakesKept(s, m, n)
     \/ ~ IsSkipped(s, m) /\ TakesNext(s, m, n)
     \/ ~ IsSkipped(s, m) /\ Ratchets(u, s, m, Fresh(u), n)

LEMMA FinishDecryptMeans ==
  ASSUME KeysInv, NEW u \in Users, NEW t \in Tasks, FinishDecrypt(u, t),
         NEW m, m = task[u][t].message, NEW read, read = task[u][t].state,
         NEW s, s = IF read = None THEN Blank(u, Fresh(u)) ELSE read
  PROVE  \E n \in States :
           /\ Reading(u, s, m, n)
           /\ read # None => Has(u, s)
           /\ read = None => ~ TakesKept(s, m, n) /\ ~ TakesNext(s, m, n)
           /\ ratchet' = [ratchet EXCEPT ![u] = n]
           /\ opened' = [opened EXCEPT ![u] = @ \union {m}]
           /\ made' = IF n.DHs = Fresh(u) THEN [made EXCEPT ![u] = @ + 1] ELSE made
           /\ task' = [task EXCEPT ![u][t] = Idle] /\ UNCHANGED sent
           /\ overwritten \subseteq overwritten' /\ overwritten' \subseteq Users
           /\ u \notin overwritten' => u \notin overwritten /\ ratchet[u] = read
  <1>1. DmTypeInv /\ DeviceInv(u) /\ Traced
    BY TracedHere DEF KeysInv
  <1>2. task[u][t] \in Jobs /\ task[u][t].kind = "decrypt"
    BY <1>1 DEF FinishDecrypt, DmTypeInv
  <1>3. m \in sent /\ read \in States \union {None}
    BY <1>2 DEF Jobs
  <1>4. m.from = Peer(u) /\ Receives(u, s, m)
    BY <1>1, <1>2 DEF DeviceInv, JobsInv
  <1>5. PICK fresh \in RatchetKeys : fresh = Fresh(u) /\ fresh.owner = u
    BY <1>1, KeyTypes DEF DmTypeInv, Fresh
  <1>6. m.dh \in RatchetKeys /\ m.key \in MessageKeys /\ m.n = m.key.n /\ m.pn \in Nat
    BY <1>1, <1>3, SentTypes
  <1>7. /\ s \in States /\ ReceivingInv(u, s) /\ s.DHs.owner = u /\ (read # None => Has(u, s))
    <2>1. CASE read = None
      BY <1>5, <2>1, BlankState, BlankReceiving
    <2>2. CASE read # None
      <3>1. s \in States /\ Has(u, s)
        BY <1>2, <1>3, <2>2 DEF Has
      <3>2. s.DHs \in RatchetKeys /\ ChainOf(u, s) \in ChainKeys
        BY <3>1, ChainTypes
      <3>3. Uses(u, s.DHs, ChainOf(u, s))
        BY <3>1 DEF Uses
      <3> QED
        BY <1>1, <3>1, <3>2, <3>3 DEF DeviceInv, SendingInv
    <2> QED
      BY <2>1, <2>2
  <1>8. PICK n : n = AfterOpening(s, m, u, fresh)
    OBVIOUS
  <1>9. s.DHr = None => s.CKr = NoChain
    BY <1>7 DEF ReceivingInv
  <1>10. /\ n \in States
         /\ \/ TakesKept(s, m, n)
            \/ ~ IsSkipped(s, m) /\ TakesNext(s, m, n)
            \/ ~ IsSkipped(s, m) /\ Ratchets(u, s, m, fresh, n)
    BY <1>4, <1>6, <1>7, <1>8, <1>9, OpeningMeans
  <1>11. Read(u, s, m, n)
    <2>1. CASE TakesKept(s, m, n)
      BY <1>1, <1>3, <1>4, <1>7, <1>10, <2>1, ReadKept
    <2>2. CASE ~ IsSkipped(s, m) /\ TakesNext(s, m, n)
      BY <1>1, <1>3, <1>4, <1>7, <1>10, <2>2, ReadNext
    <2>3. CASE ~ IsSkipped(s, m) /\ Ratchets(u, s, m, fresh, n)
      BY <1>1, <1>3, <1>4, <1>7, <1>10, <2>3, ReadRatchets
    <2> QED
      BY <1>10, <2>1, <2>2, <2>3
  <1>12. Reading(u, s, m, n)
    BY <1>3, <1>4, <1>5, <1>7, <1>10, <1>11 DEF Reading
  <1>13. ASSUME read = None
         PROVE  ~ TakesKept(s, m, n) /\ ~ TakesNext(s, m, n)
    <2>1. s = Blank(u, fresh)
      BY <1>5, <1>13
    <2>2. s.MKSKIPPED = {} /\ s.DHr = None /\ m.dh # None
      BY <1>6, <2>1, BlankState
    <2> QED
      BY <2>2 DEF TakesKept, TakesNext
  <1>14. /\ ratchet' = [ratchet EXCEPT ![u] = n]
         /\ opened' = [opened EXCEPT ![u] = @ \union {m}]
         /\ made' = IF n.DHs = Fresh(u) THEN [made EXCEPT ![u] = @ + 1] ELSE made
         /\ task' = [task EXCEPT ![u][t] = Idle] /\ UNCHANGED sent /\ Overwrites(u, read)
    BY <1>5, <1>8 DEF FinishDecrypt
  <1>15. /\ overwritten \subseteq overwritten' /\ overwritten' \subseteq Users
         /\ u \notin overwritten' => u \notin overwritten /\ ratchet[u] = read
    BY <1>1, <1>14, Overwriting DEF DmTypeInv
  <1> QED
    BY <1>7, <1>10, <1>12, <1>13, <1>14, <1>15

\* The key a device sends with after reading: the same, or a new one.
LEMMA ReadingSends ==
  ASSUME KeysInv, NEW u \in Users, NEW s, NEW m, NEW n, Reading(u, s, m, n), made[u] \in Nat
  PROVE  /\ n.DHs = Fresh(u) \/ (n.DHs = s.DHs /\ ChainOf(u, n) = ChainOf(u, s) /\ n.Ns = s.Ns)
         /\ n.DHs = Fresh(u) /\ (Has(u, s) \/ (~ TakesKept(s, m, n) /\ ~ TakesNext(s, m, n))) =>
              Rooted(u, Fresh(u), ChainOf(u, n))
  <1>1. DmTypeInv /\ DeviceInv(u) /\ Traced
    BY TracedHere DEF KeysInv
  <1>2. CASE TakesKept(s, m, n) \/ TakesNext(s, m, n)
    <2>1. n.DHs = s.DHs /\ n.CKs = s.CKs /\ n.Ns = s.Ns
      BY <1>2 DEF TakesKept, TakesNext, SameChains
    <2>2. ChainOf(u, n) = ChainOf(u, s)
      BY <2>1 DEF ChainOf
    <2>3. Has(u, s) => s.DHs # Fresh(u)
      <3>1. ASSUME Has(u, s)
            PROVE  s.DHs # Fresh(u)
        <4>1. s \in States /\ ChainOf(u, s) \in ChainKeys /\ s.DHs \in RatchetKeys
          BY ChainTypes DEF Reading
        <4>2. Uses(u, s.DHs, ChainOf(u, s))
          BY <3>1, <4>1 DEF Uses
        <4>3. s.DHs.n \in 1 .. made[u]
          BY <1>1, <4>1, <4>2 DEF DeviceInv, SendingInv
        <4>4. Fresh(u).n = made[u] + 1
          BY KeyTypes DEF Fresh
        <4> QED
          BY <4>3, <4>4
      <3> QED
        BY <3>1
    <2> QED
      BY <1>2, <2>1, <2>2, <2>3
  <1>3. CASE ~ IsSkipped(s, m) /\ Ratchets(u, s, m, Fresh(u), n)
    <2>1. n.DHs = Fresh(u) /\ n.CKs = n.RK /\ n.RK = Append(m.key.chain, DH(Fresh(u), m.dh))
      BY <1>3 DEF Ratchets
    <2>2. PICK fresh \in RatchetKeys : fresh = Fresh(u)
      BY KeyTypes DEF Fresh
    <2>3. n.CKs # NoChain
      <3>1. s \in States /\ ReceivingInv(u, s) /\ m \in sent /\ m.from = Peer(u) /\ n \in States
        BY DEF Reading
      <3>2. Ratchets(u, s, m, fresh, n)
        BY <1>3, <2>2
      <3> QED
        BY <1>1, <1>3, <3>1, <3>2, ReadRatchets
    <2>4. ChainOf(u, n) = Append(m.key.chain, DH(Fresh(u), m.dh))
      BY <2>1, <2>3 DEF ChainOf
    <2>5. Rooted(u, Fresh(u), ChainOf(u, n))
      BY <2>4 DEF Rooted, Reading
    <2> QED
      BY <2>1, <2>5
  <1> QED
    BY <1>2, <1>3 DEF Reading

LEMMA FinishDecryptKeeps ==
  ASSUME KeysInv, NEW u \in Users, NEW t \in Tasks, FinishDecrypt(u, t)
  PROVE  KeysInv'
  <1>1. DmTypeInv /\ DeviceInv(u) /\ Peer(u) \in Users /\ Peer(u) # u /\ Traced
    BY Peers, TracedHere DEF KeysInv
  <1>2. PICK m, read : m = task[u][t].message /\ read = task[u][t].state
    OBVIOUS
  <1>3. PICK s : s = IF read = None THEN Blank(u, Fresh(u)) ELSE read
    OBVIOUS
  <1>4. PICK n \in States :
           /\ Reading(u, s, m, n)
           /\ read # None => Has(u, s)
           /\ read = None => ~ TakesKept(s, m, n) /\ ~ TakesNext(s, m, n)
           /\ ratchet' = [ratchet EXCEPT ![u] = n]
           /\ opened' = [opened EXCEPT ![u] = @ \union {m}]
           /\ made' = IF n.DHs = Fresh(u) THEN [made EXCEPT ![u] = @ + 1] ELSE made
           /\ task' = [task EXCEPT ![u][t] = Idle] /\ UNCHANGED sent
           /\ overwritten \subseteq overwritten' /\ overwritten' \subseteq Users
           /\ u \notin overwritten' => u \notin overwritten /\ ratchet[u] = read
    BY <1>2, <1>3, FinishDecryptMeans
  <1>5. made[u] \in Nat /\ m \in sent /\ m.from = Peer(u) /\ s \in States
    BY <1>1, <1>4 DEF DmTypeInv, Reading
  <1>6. PICK job : job = Idle
    OBVIOUS
  <1>7. task' = [task EXCEPT ![u][t] = job]
    BY <1>4, <1>6
  <1>8. /\ made'[Peer(u)] = made[Peer(u)] /\ opened'[Peer(u)] = opened[Peer(u)]
        /\ ratchet'[u] = n /\ opened'[u] = opened[u] \union {m}
        /\ made'[u] = IF n.DHs = Fresh(u) THEN made[u] + 1 ELSE made[u]
    BY <1>1, <1>4 DEF DmTypeInv
  <1>9. DmTypeInv'
    <2>1. opened' \in [Users -> SUBSET sent'] /\ made' \in [Users -> Nat]
      BY <1>1, <1>4, <1>5 DEF DmTypeInv
    <2>2. sent' = sent
      BY <1>4
    <2> HIDE DEF Idle
    <2> QED
      BY <1>1, <1>4, <1>6, <1>7, <2>1, <2>2, WriteTypes
  <1>10. ReceivingInv(u, n)'
    <2>1. ReceivingInv(u, n) /\ sent \subseteq sent'
      BY <1>4 DEF Reading, Read
    <2> QED
      BY <2>1, ReceivingKept
  <1>11. \/ made'[u] = made[u] /\ Uses(u, n.DHs, ChainOf(u, n))
         \/ made'[u] = made[u] + 1 /\ n.DHs = Fresh(u) /\ Rooted(u, Fresh(u), ChainOf(u, n))
    <2>1. CASE n.DHs = Fresh(u)
      <3>1. Reading(u, s, m, n) /\ (Has(u, s) \/ (~ TakesKept(s, m, n) /\ ~ TakesNext(s, m, n)))
        BY <1>4
      <3>2. Rooted(u, Fresh(u), ChainOf(u, n))
        BY <1>5, <2>1, <3>1, ReadingSends
      <3> QED
        BY <1>8, <2>1, <3>2
    <2>2. CASE n.DHs # Fresh(u)
      <3>1. n.DHs = s.DHs /\ ChainOf(u, n) = ChainOf(u, s)
        BY <1>4, <1>5, <2>2, ReadingSends
      <3>2. TakesKept(s, m, n) \/ TakesNext(s, m, n)
        BY <1>4, <2>2 DEF Reading, Ratchets
      <3>3. Has(u, s)
        BY <1>4, <3>2
      <3>4. Uses(u, n.DHs, ChainOf(u, n))
        BY <1>5, <3>1, <3>3 DEF Uses
      <3> QED
        BY <1>8, <2>2, <3>4
    <2> QED
      BY <2>1, <2>2
  <1>12. u \notin overwritten' => SentInv(u)' /\ OpenedInv(u)'
    <2> SUFFICES ASSUME u \notin overwritten'
                 PROVE  SentInv(u)' /\ OpenedInv(u)'
      OBVIOUS
    <2>1. ratchet[u] = read /\ SentInv(u) /\ OpenedInv(u) /\ n # None
      BY <1>1, <1>4 DEF DeviceInv
    <2>2. ASSUME NEW x \in sent, x.from = u, x.dh = n.DHs
          PROVE  x.n < n.Ns
      <3>1. x.dh.n \in 1 .. made[u] /\ Fresh(u).n = made[u] + 1
        BY <1>1, <1>5, <2>2, SentKeys, KeyTypes DEF Fresh
      <3>2. n.DHs # Fresh(u)
        BY <1>5, <2>2, <3>1
      <3>3. n.DHs = s.DHs /\ n.Ns = s.Ns
        BY <1>4, <1>5, <3>2, ReadingSends
      <3>4. read # None
        BY <2>1, <2>2 DEF SentInv
      <3> QED
        BY <1>3, <2>1, <2>2, <3>3, <3>4 DEF SentInv
    <2>3. SentInv(u)'
      BY <1>4, <1>8, <2>1, <2>2 DEF SentInv
    <2>4. Gone(n, m) /\ \A x \in sent : x.from = Peer(u) /\ Gone(s, x) => Gone(n, x)
      BY <1>4 DEF Reading, Read
    <2>5. ASSUME NEW x \in opened[u]
          PROVE  x.from = Peer(u) /\ Gone(n, x)
      <3>1. x \in sent /\ x.from = Peer(u) /\ read # None /\ Gone(read, x)
        BY <1>1, <2>1 DEF OpenedInv, DmTypeInv
      <3> QED
        BY <1>3, <2>4, <3>1
    <2>6. OpenedInv(u)'
      <3>1. \A x \in opened'[u] : x.from = Peer(u) /\ Gone(n, x)
        BY <1>5, <1>8, <2>4, <2>5
      <3> QED
        BY <1>8, <2>1, <3>1 DEF OpenedInv, Gone
    <2> QED
      BY <2>3, <2>6
  <1>13. sent \subseteq sent'
         /\ \A x \in sent' : x \in sent \/ (x.from = u /\ x.dh = n.DHs /\ x.key.chain = ChainOf(u, n))
    BY <1>4
  <1> HIDE DEF Idle
  <1> QED
    BY <1>4, <1>6, <1>7, <1>8, <1>9, <1>10, <1>11, <1>12, <1>13, WriteKeeps

LEMMA KeysInitially ==
  DmInit => KeysInv
  <1> SUFFICES ASSUME DmInit PROVE KeysInv
    OBVIOUS
  <1>1. DmTypeInv
    BY DEF DmInit, DmTypeInv, Jobs, Idle
  <1>2. ASSUME NEW u \in Users
        PROVE  DeviceInv(u)
    <2>1. \A s : Has(u, s) => s = None
      BY DEF DmInit, Has, Idle
    <2>2. \A k, c : ~ Uses(u, k, c)
      BY <2>1 DEF Uses, DmInit
    <2>3. JobsInv(u)
      BY DEF JobsInv, DmInit, Idle
    <2>4. SentInv(u) /\ OpenedInv(u)
      BY DEF DmInit, SentInv, OpenedInv
    <2> QED
      BY <2>1, <2>2, <2>3, <2>4 DEF DeviceInv, SendingInv
  <1> QED
    BY <1>1, <1>2 DEF KeysInv

LEMMA KeysKept ==
  KeysInv /\ [DmNext]_dmVars => KeysInv'
  <1> SUFFICES ASSUME KeysInv, [DmNext]_dmVars PROVE KeysInv'
    OBVIOUS
  <1>1. ASSUME NEW u \in Users, NEW t \in Tasks, StartEncrypt(u, t)
        PROVE  KeysInv'
    BY <1>1, StartEncryptKeeps
  <1>2. ASSUME NEW u \in Users, NEW t \in Tasks, Initialise(u, t)
        PROVE  KeysInv'
    BY <1>2, InitialiseKeeps
  <1>3. ASSUME NEW u \in Users, NEW t \in Tasks, FinishEncrypt(u, t)
        PROVE  KeysInv'
    BY <1>3, FinishEncryptKeeps
  <1>4. ASSUME NEW u \in Users, NEW t \in Tasks, NEW m \in sent, StartDecrypt(u, t, m)
        PROVE  KeysInv'
    BY <1>4, StartDecryptKeeps
  <1>5. ASSUME NEW u \in Users, NEW t \in Tasks, FinishDecrypt(u, t)
        PROVE  KeysInv'
    BY <1>5, FinishDecryptKeeps
  <1>6. CASE UNCHANGED dmVars
    BY <1>6 DEF dmVars, KeysInv, DmTypeInv, Jobs, DeviceInv, SendingInv, Uses, Has, Rooted, ReceivingInv,
                Theirs, JobsInv, Fresh, SentInv, OpenedInv
  <1> QED
    BY <1>1, <1>2, <1>3, <1>4, <1>5, <1>6 DEF DmNext

\* The last output mixed into a chain tells whose it is and what it answers.
LEMMA ChainEnds ==
  ASSUME Traced, NEW m \in sent
  PROVE  \E c \in ChainKeys, j \in RatchetKeys :
           /\ m.key.chain = Append(c, DH(m.dh, j)) /\ j.owner = Peer(m.from)
           /\ j.n = 0 \/ \E y \in sent : y.from = Peer(m.from) /\ y.dh = j /\ y.key.chain = c
  <1>1. m.from \in Users /\ Rooted(m.from, m.dh, m.key.chain) /\ m.dh \in RatchetKeys
    BY SentTypes, SentKeys DEF Traced
  <1>2. CASE m.key.chain = FirstChain(m.from, m.dh)
    <2>1. PICK j \in RatchetKeys : j = IdentityKey(Peer(m.from)) /\ j.owner = Peer(m.from) /\ j.n = 0
      BY <1>1, Peers, KeyTypes
    <2>2. Root(m.from) \in ChainKeys
      BY <1>1, Roots
    <2>3. m.key.chain = Append(Root(m.from), DH(m.dh, j))
      BY <1>2, <2>1 DEF FirstChain
    <2> QED
      BY <2>1, <2>2, <2>3
  <1>3. ASSUME NEW x \in sent, x.from = Peer(m.from), m.key.chain = Append(x.key.chain, DH(m.dh, x.dh))
        PROVE  \E c \in ChainKeys, j \in RatchetKeys :
                 /\ m.key.chain = Append(c, DH(m.dh, j)) /\ j.owner = Peer(m.from)
                 /\ j.n = 0 \/ \E y \in sent : y.from = Peer(m.from) /\ y.dh = j /\ y.key.chain = c
    <2>1. x.key.chain \in ChainKeys /\ x.dh \in RatchetKeys
      BY SentTypes DEF Traced
    <2>2. x.dh.owner = x.from
      BY SentKeys
    <2> QED
      BY <1>3, <2>1, <2>2
  <1> QED
    BY <1>1, <1>2, <1>3 DEF Rooted

\* One chain, one author, one ratchet key.
LEMMA ChainTells ==
  ASSUME Traced, NEW m \in sent, NEW x \in sent, m.key.chain = x.key.chain
  PROVE  m.from = x.from /\ m.dh = x.dh
  <1>1. /\ m.from \in Users /\ m.dh \in RatchetKeys /\ x.from \in Users /\ x.dh \in RatchetKeys
        /\ m.dh.owner = m.from /\ x.dh.owner = x.from /\ m.dh.n \in Nat /\ m.dh.n >= 1 /\ x.dh.n \in Nat /\ x.dh.n >= 1
    <2>1. m.from \in Users /\ m.dh \in RatchetKeys /\ x.from \in Users /\ x.dh \in RatchetKeys
      BY SentTypes DEF Traced
    <2>2. m.dh.owner = m.from /\ x.dh.owner = x.from /\ m.dh.n \in 1 .. made[m.from] /\ x.dh.n \in 1 .. made[x.from]
      BY SentKeys
    <2> QED
      BY <2>1, <2>2
  <1>2. PICK c \in ChainKeys, j \in RatchetKeys :
           /\ m.key.chain = Append(c, DH(m.dh, j)) /\ j.owner = Peer(m.from)
           /\ j.n = 0 \/ \E y \in sent : y.from = Peer(m.from) /\ y.dh = j /\ y.key.chain = c
    BY ChainEnds
  <1>3. PICK d \in ChainKeys, i \in RatchetKeys :
           /\ x.key.chain = Append(d, DH(x.dh, i)) /\ i.owner = Peer(x.from)
           /\ i.n = 0 \/ \E y \in sent : y.from = Peer(x.from) /\ y.dh = i /\ y.key.chain = d
    BY ChainEnds
  <1>4. c = d /\ DH(m.dh, j) = DH(x.dh, i)
    <2>1. PICK k \in RatchetKeys, l \in RatchetKeys : k = m.dh /\ l = x.dh
      BY <1>1
    <2>2. Append(c, DH(k, j)) = Append(d, DH(l, i))
      BY <1>2, <1>3, <2>1
    <2> QED
      BY <2>1, <2>2, MixedAlike
  <1>5. m.from = x.from
    <2> SUFFICES ASSUME m.from # x.from
                 PROVE  FALSE
      OBVIOUS
    <2>1. Peer(m.from) = x.from /\ Peer(x.from) = m.from
      BY <1>1, Peers
    <2>2. DH(x.dh, i) = DH(i, x.dh)
      BY DEF DH
    <2>3. m.dh = i /\ j = x.dh
      BY <1>1, <1>2, <1>3, <1>4, <2>1, <2>2, Ends
    <2>4. PICK y \in sent : y.from = m.from /\ y.dh = m.dh /\ y.key.chain = c
      BY <1>1, <1>3, <1>4, <2>1, <2>3
    <2>5. m.key.chain = c
      BY <2>4, OneChain
    <2>6. Len(m.key.chain) = Len(c) + 1 /\ Len(c) \in Nat
      BY <1>1, <1>2, Mixed
    <2> QED
      BY <2>5, <2>6
  <1>6. m.dh = x.dh
    BY <1>1, <1>2, <1>3, <1>4, <1>5, Ends, Peers
  <1> QED
    BY <1>5, <1>6

LEMMA KeysApart ==
  ASSUME KeysInv
  PROVE  KeysUsedOnce
  <1>1. DmTypeInv /\ Traced
    BY TracedHere DEF KeysInv
  <1>2. ASSUME NEW m \in sent, NEW x \in sent, m # x, m.key = x.key
        PROVE  m.from = x.from /\ m.from \in overwritten
    <2>1. m.from = x.from /\ m.dh = x.dh
      BY <1>1, <1>2, ChainTells
    <2>2. m.n = x.n /\ m.from \in Users
      BY <1>1, <1>2 DEF DmTypeInv
    <2>3. m.from \notin overwritten => SentInv(m.from)
      BY <2>2 DEF KeysInv, DeviceInv
    <2> QED
      BY <1>2, <2>1, <2>2, <2>3 DEF SentInv
  <1>3. ASSUME NEW u \in Users, NEW m \in sent,
               m.from = u \/ (m \in opened[u] /\ u \notin overwritten)
        PROVE  ~ Readable(u, m)
    <2>1. PICK fresh \in RatchetKeys : fresh = Fresh(u) /\ fresh.owner = u
      BY <1>1, KeyTypes DEF DmTypeInv, Fresh
    <2>2. PICK s : s = IF ratchet[u] = None THEN Blank(u, fresh) ELSE ratchet[u]
      OBVIOUS
    <2>3. /\ s \in States /\ (Readable(u, m) <=> Receives(u, s, m))
          /\ Receives(u, s, m) => m.from = Peer(u)
      <3>1. /\ s \in States
            /\ Opens(s, m, u, fresh) <=> Receives(u, s, m)
            /\ Receives(u, s, m) => m.from = Peer(u)
        BY <2>1, <2>2, LoadedReads
      <3>2. Readable(u, m) <=> Opens(s, m, u, fresh)
        BY <2>1, <2>2 DEF Readable, Loaded
      <3> QED
        BY <3>1, <3>2
    <2>4. CASE m.from = u
      <3>1. Peer(u) # u
        BY Peers
      <3> QED
        BY <2>3, <2>4, <3>1
    <2>5. CASE m \in opened[u] /\ u \notin overwritten
      <3>1. ratchet[u] # None /\ Gone(ratchet[u], m)
        BY <2>5 DEF KeysInv, DeviceInv, OpenedInv
      <3>2. Gone(s, m)
        BY <2>2, <3>1
      <3> QED
        BY <1>1, <2>3, <3>2, GoneUnreadable
    <2> QED
      BY <1>3, <2>4, <2>5
  <1> QED
    BY <1>2, <1>3 DEF KeysUsedOnce, OneMessagePerKey, UsedKeysGone

\* A message key is used once: for one message, and not again after its reading.
THEOREM MessageKeysOnce == DmSpec => []KeysUsedOnce
  <1>1. KeysInv => KeysUsedOnce
    BY KeysApart
  <1> QED
    BY <1>1, KeysInitially, KeysKept, PTL DEF DmSpec

-------------------------------------------------------------------------------
(* In step.                                                                *)

LEMMA Stored ==
  ASSUME KeysInv, NEW u \in Users, NEW s, s = ratchet[u], s # None
  PROVE  /\ s \in States /\ ReceivingInv(u, s) /\ made[u] \in Nat
         /\ s.DHs \in RatchetKeys /\ s.DHs # Fresh(u) /\ ChainOf(u, s) \in ChainKeys
         /\ \A m \in sent : m.from = u /\ m.dh = s.DHs => m.key.chain = ChainOf(u, s)
  <1>1. DmTypeInv /\ DeviceInv(u)
    BY DEF KeysInv
  <1>2. s \in States /\ Has(u, s) /\ made[u] \in Nat
    BY <1>1 DEF DmTypeInv, Has
  <1>3. s.DHs \in RatchetKeys /\ ChainOf(u, s) \in ChainKeys
    BY <1>2, ChainTypes
  <1>4. Uses(u, s.DHs, ChainOf(u, s))
    BY <1>2 DEF Uses
  <1>5. s.DHs.n \in 1 .. made[u]
    BY <1>1, <1>3, <1>4 DEF DeviceInv, SendingInv
  <1>6. s.DHs # Fresh(u)
    <2>1. Fresh(u).n = made[u] + 1
      BY <1>2, KeyTypes DEF Fresh
    <2> QED
      BY <1>2, <1>5, <2>1
  <1>7. ASSUME NEW m \in sent, m.from = u, m.dh = s.DHs
        PROVE  m.key.chain = ChainOf(u, s)
    <2>1. Uses(u, s.DHs, m.key.chain) /\ m.key.chain \in ChainKeys
      BY <1>1, <1>7, SentTypes DEF Uses
    <2> QED
      BY <1>1, <1>3, <1>4, <2>1 DEF DeviceInv, SendingInv
  <1>8. ReceivingInv(u, s)
    BY <1>1, <1>2 DEF DeviceInv
  <1> QED
    BY <1>2, <1>3, <1>6, <1>7, <1>8

LEMMA SentFresh ==
  ASSUME KeysInv, NEW u \in Users, NEW m \in sent
  PROVE  /\ m.from = u => m.dh # Fresh(u)
         /\ \A v \in Users : m.dh # IdentityKey(v)
         /\ m.dh # None
  <1>1. DmTypeInv /\ Traced
    BY TracedHere DEF KeysInv
  <1>2. m.dh \in RatchetKeys /\ m.from \in Users /\ m.dh.n \in 1 .. made[m.from] /\ made[m.from] \in Nat
    BY <1>1, SentTypes, SentKeys DEF DmTypeInv
  <1>3. m.from = u => Fresh(u).n = made[u] + 1
    BY <1>2, KeyTypes DEF Fresh
  <1>4. \A v \in Users : IdentityKey(v).n = 0
    BY KeyTypes
  <1> QED
    BY <1>2, <1>3, <1>4

\* A device that has only written.
LEMMA AheadMeans ==
  ASSUME KeysInv, NEW u \in Users, Ahead(u), NEW s, s = ratchet[u]
  PROVE  /\ s.CKr = NoChain /\ s.CKs = FirstChain(u, s.DHs) /\ s.RK = s.CKs /\ s.MKSKIPPED = {}
         /\ s.CKs # NoChain /\ Len(s.CKs) = 2 /\ ChainOf(u, s) = s.CKs
  <1>1. s \in States /\ ReceivingInv(u, s) /\ s.DHs \in RatchetKeys /\ s.DHr = IdentityKey(Peer(u))
    BY Stored DEF Ahead
  <1>2. Traced /\ Peer(u) \in Users /\ s.DHr # None /\ s.DHr.n = 0
    BY <1>1, TracedHere, Peers, KeyTypes
  <1>3. s.CKr = NoChain
    <2>1. \A c : ~ Theirs(u, s.DHr, c)
      BY <1>2, TheirsKeys
    <2> QED
      BY <1>1, <2>1 DEF ReceivingInv
  <1>4. s.CKs = FirstChain(u, s.DHs)
    BY <1>1, <1>2, <1>3 DEF ReceivingInv
  <1>5. s.CKs # NoChain /\ Len(s.CKs) = 2
    <2>1. PICK c : c = s.CKs
      OBVIOUS
    <2> QED
      BY <1>1, <1>4, <2>1, FirstLong
  <1>6. s.RK = s.CKs /\ ChainOf(u, s) = s.CKs
    BY <1>1, <1>5 DEF ReceivingInv, ChainOf
  <1>7. s.MKSKIPPED = {}
    <2>1. ASSUME NEW x \in s.MKSKIPPED
          PROVE  FALSE
      <3>1. Theirs(u, x.dh, x.key.chain) /\ Len(x.key.chain) < 2
        BY <1>1, <1>5, <1>6, <2>1 DEF ReceivingInv
      <3>2. Len(x.key.chain) >= 2 /\ x.key.chain \in ChainKeys
        BY <1>2, <3>1, TheirsKeys
      <3>3. Len(x.key.chain) \in Nat
        BY <3>2 DEF ChainKeys
      <3> QED
        BY <3>1, <3>2, <3>3
    <2> QED
      BY <2>1
  <1> QED
    BY <1>3, <1>4, <1>5, <1>6, <1>7

LEMMA FollowMeans ==
  ASSUME KeysInv, NEW l \in Users, NEW L, NEW F, L = ratchet[l], F = ratchet[Peer(l)],
         L # None, F # None, Follows(L, F)
  PROVE  /\ L \in States /\ F \in States /\ ReceivingInv(l, L) /\ ReceivingInv(Peer(l), F)
         /\ L.CKs # NoChain /\ F.CKs # NoChain /\ L.RK = L.CKs /\ F.RK = F.CKs
         /\ ChainOf(l, L) = L.CKs /\ ChainOf(Peer(l), F) = F.CKs /\ F.DHr # None /\ L.DHr # None
         /\ F.CKs \in ChainKeys /\ L.CKs \in ChainKeys
         /\ Len(F.CKs) \in Nat /\ Len(L.CKs) = Len(F.CKs) + 1
  <1>1. Peer(l) \in Users
    BY Peers
  <1>2. /\ L \in States /\ F \in States /\ ReceivingInv(l, L) /\ ReceivingInv(Peer(l), F)
        /\ L.DHs \in RatchetKeys /\ F.DHs \in RatchetKeys
    BY <1>1, Stored
  <1>3. F.CKs # NoChain /\ F.CKs \in ChainKeys
    <2>1. F.CKs = L.CKr /\ L.CKr # NoChain
      BY DEF Follows
    <2>2. F.CKs \in ChainKeys
      BY <1>2, StateFields
    <2> QED
      BY <2>1, <2>2
  <1>4. L.CKs # NoChain /\ L.CKs \in ChainKeys /\ Len(F.CKs) \in Nat /\ Len(L.CKs) = Len(F.CKs) + 1
    <2>0. PICK d : d = L.CKs
      OBVIOUS
    <2>1. PICK c \in ChainKeys, k \in RatchetKeys, j \in RatchetKeys :
            c = F.CKs /\ k = L.DHs /\ j = F.DHs
      BY <1>2, <1>3
    <2>2. d = Append(c, DH(k, j))
      BY <2>0, <2>1 DEF Follows
    <2>3. d \in ChainKeys /\ d # NoChain /\ Len(d) = Len(c) + 1 /\ Len(c) \in Nat
      BY <2>2, Mixed
    <2> QED
      BY <2>0, <2>1, <2>3
  <1>5. L.RK = L.CKs /\ F.RK = F.CKs /\ ChainOf(l, L) = L.CKs /\ ChainOf(Peer(l), F) = F.CKs
        /\ F.DHr # None /\ L.DHr # None
    BY <1>2, <1>3, <1>4 DEF ReceivingInv, ChainOf
  <1> QED
    BY <1>2, <1>3, <1>4, <1>5

\* A step of u, and its peer's state, which stays.
LEMMA StateAfter ==
  ASSUME DmTypeInv, NEW u \in Users, NEW n, ratchet' = [ratchet EXCEPT ![u] = n]
  PROVE  /\ ratchet'[u] = n /\ ratchet'[Peer(u)] = ratchet[Peer(u)]
         /\ Peer(u) \in Users /\ Peer(u) # u /\ Peer(Peer(u)) = u
  BY Peers DEF DmTypeInv

\* Writing: the first message of one, of the other as well, or one more.
LEMMA FirstWritten ==
  ASSUME DmTypeInv, NEW u \in Users, NEW n, ratchet' = [ratchet EXCEPT ![u] = n],
         n # None, n.DHr = IdentityKey(Peer(u)),
         NEW w, sent' = sent \union {w}, w.from = u, w.dh = n.DHs,
         Before \/ OneWrote(Peer(u)),
         \A m \in sent : m.from = u => Before
  PROVE  OneWrote(u)' \/ BothWrote'
  <1>1. /\ ratchet'[u] = n /\ ratchet'[Peer(u)] = ratchet[Peer(u)]
        /\ Peer(u) \in Users /\ Peer(u) # u /\ Peer(Peer(u)) = u
        /\ \A v \in Users : v = u \/ v = Peer(u)
    <2>1. /\ Peer(u) \in Users /\ Peer(u) # u /\ Peer(Peer(u)) = u
          /\ \A v \in Users : v = u \/ v = Peer(u)
      BY Peers
    <2>2. ratchet'[u] = n /\ ratchet'[Peer(u)] = ratchet[Peer(u)]
      BY <2>1 DEF DmTypeInv
    <2> QED
      BY <2>1, <2>2
  <1>2. Ahead(u)'
    BY <1>1 DEF Ahead
  <1>3. CASE Before
    <2>1. Beginning(Peer(u))'
      BY <1>1, <1>3 DEF Before, Beginning
    <2>2. \A m \in sent' : m.from = u /\ m.dh = n.DHs
      BY <1>3 DEF Before
    <2>3. OneWrote(u)'
      BY <1>1, <1>2, <2>1, <2>2 DEF OneWrote
    <2> QED
      BY <2>3
  <1>4. CASE OneWrote(Peer(u)) /\ ~ Before
    <2>1. Ahead(Peer(u))'
      BY <1>1, <1>4 DEF OneWrote, Ahead
    <2>2. \A m \in sent' : m.from = u => m.dh = n.DHs
      BY <1>4
    <2>3. \A m \in sent' : m.from = Peer(u) => m.dh = ratchet[Peer(u)].DHs
      BY <1>1, <1>4 DEF OneWrote
    <2>4. \A v \in Users : Ahead(v)' /\ \A m \in sent' : m.from = v => m.dh = ratchet'[v].DHs
      BY <1>1, <1>2, <2>1, <2>2, <2>3
    <2> QED
      BY <2>4 DEF BothWrote
  <1> QED
    BY <1>3, <1>4

LEMMA MoreWritten ==
  ASSUME DmTypeInv, NEW u \in Users, NEW n, ratchet' = [ratchet EXCEPT ![u] = n],
         n # None, n.DHr = ratchet[u].DHr, n.DHs = ratchet[u].DHs,
         NEW w, sent' = sent \union {w}, w.from = u, w.dh = n.DHs,
         OneWrote(u) \/ BothWrote
  PROVE  OneWrote(u)' \/ BothWrote'
  <1>1. /\ ratchet'[u] = n /\ ratchet'[Peer(u)] = ratchet[Peer(u)]
        /\ Peer(u) \in Users /\ Peer(u) # u /\ Peer(Peer(u)) = u
        /\ \A v \in Users : v = u \/ v = Peer(u)
    <2>1. /\ Peer(u) \in Users /\ Peer(u) # u /\ Peer(Peer(u)) = u
          /\ \A v \in Users : v = u \/ v = Peer(u)
      BY Peers
    <2>2. ratchet'[u] = n /\ ratchet'[Peer(u)] = ratchet[Peer(u)]
      BY <2>1 DEF DmTypeInv
    <2> QED
      BY <2>1, <2>2
  <1>2. Ahead(u)'
    BY <1>1 DEF Ahead, OneWrote, BothWrote
  <1>3. CASE OneWrote(u)
    <2>1. Beginning(Peer(u))'
      BY <1>1, <1>3 DEF OneWrote, Beginning
    <2>2. \A m \in sent' : m.from = u /\ m.dh = n.DHs
      BY <1>3 DEF OneWrote
    <2>3. OneWrote(u)'
      BY <1>1, <1>2, <2>1, <2>2 DEF OneWrote
    <2> QED
      BY <2>3
  <1>4. CASE BothWrote
    <2>1. Ahead(Peer(u))'
      BY <1>1, <1>4 DEF BothWrote, Ahead
    <2>2. \A m \in sent' : m.from = u => m.dh = n.DHs
      BY <1>4 DEF BothWrote
    <2>3. \A m \in sent' : m.from = Peer(u) => m.dh = ratchet[Peer(u)].DHs
      BY <1>1, <1>4 DEF BothWrote
    <2>4. \A v \in Users : Ahead(v)' /\ \A m \in sent' : m.from = v => m.dh = ratchet'[v].DHs
      BY <1>1, <1>2, <2>1, <2>2, <2>3
    <2> QED
      BY <2>4 DEF BothWrote
  <1> QED
    BY <1>3, <1>4

\* One message more of the leader, or of the other.
LEMMA LeaderWrites ==
  ASSUME NEW l \in Users, NEW L, NEW F, NEW n, LeadsWith(l, L, F),
         n.DHs = L.DHs /\ n.DHr = L.DHr /\ n.CKs = L.CKs /\ n.CKr = L.CKr /\ n.Nr = L.Nr /\ n.PN = L.PN
           /\ n.MKSKIPPED = L.MKSKIPPED,
         NEW w, sent' = sent \union {w}, opened' = opened,
         w.from = l, w.dh = L.DHs, w.pn = L.PN
  PROVE  LeadsWith(l, n, F)'
  <1>1. \A m : TooLong(m) => TooLong(m)'
    BY DEF TooLong
  <1>2. Follows(n, F)'
    BY DEF LeadsWith, Follows
  <1>3. LeaderSent(l, n, F)'
    BY DEF LeadsWith, LeaderSent, Follows
  <1>4. OtherSent(l, F)'
    BY Peers DEF LeadsWith, OtherSent
  <1>5. LeaderOwes(l, n, F)'
    BY <1>1 DEF LeadsWith, LeaderOwes, AtHand
  <1>6. OtherOwes(l, n)'
    BY <1>1, Peers DEF LeadsWith, OtherOwes, AtHand
  <1> QED
    BY <1>2, <1>3, <1>4, <1>5, <1>6 DEF LeadsWith

LEMMA OtherWrites ==
  ASSUME NEW l \in Users, NEW L, NEW F, NEW n, LeadsWith(l, L, F),
         L.Nr \in Nat, F.Ns \in Nat, Len(F.CKs) \in Nat,
         n.DHs = F.DHs /\ n.DHr = F.DHr /\ n.CKs = F.CKs /\ n.CKr = F.CKr /\ n.Nr = F.Nr /\ n.PN = F.PN
           /\ n.MKSKIPPED = F.MKSKIPPED /\ n.Ns = F.Ns + 1,
         NEW w, sent' = sent \union {w}, opened' = opened,
         w.from = Peer(l), w.dh = F.DHs, w.n = F.Ns, w.key.chain = F.CKs
  PROVE  LeadsWith(l, L, n)'
  <1>1. \A m : TooLong(m) => TooLong(m)'
    BY DEF TooLong
  <1>2. Follows(L, n)'
    BY DEF LeadsWith, Follows
  <1>3. LeaderSent(l, L, n)'
    BY Peers DEF LeadsWith, LeaderSent
  <1>4. OtherSent(l, n)'
    <2>1. Len(w.key.chain) <= Len(n.CKs)
      OBVIOUS
    <2> QED
      BY <2>1 DEF LeadsWith, OtherSent
  <1>5. LeaderOwes(l, L, n)'
    BY <1>1, Peers DEF LeadsWith, LeaderOwes, AtHand
  <1>6. OtherOwes(l, L)'
    <2>1. w.n >= L.Nr /\ w.dh = L.DHr
      BY DEF LeadsWith, Follows
    <2> QED
      BY <1>1, <2>1 DEF LeadsWith, OtherOwes, AtHand
  <1> QED
    BY <1>2, <1>3, <1>4, <1>5, <1>6 DEF LeadsWith

LEMMA WritingInStep ==
  ASSUME KeysInv, InStep, NEW u \in Users, NEW t \in Tasks, FinishEncrypt(u, t)
  PROVE  InStep'
  <1>1. DmTypeInv /\ DeviceInv(u) /\ Peer(u) \in Users /\ Peer(u) # u /\ Peer(Peer(u)) = u
        /\ \A v \in Users : v = u \/ v = Peer(u)
    BY Peers DEF KeysInv
  <1> SUFFICES ASSUME overwritten' = {}
               PROVE  \/ (\E v \in Users : OneWrote(v)') \/ BothWrote' \/ \E l \in Users : Leads(l)'
    BY DEF InStep
  <1>2. PICK s : s = task[u][t].state
    OBVIOUS
  <1>3. PICK n : n = AfterSending(SendChain(s, u))
    OBVIOUS
  <1>4. PICK i :
        /\ s \in States /\ ReceivingInv(u, s)
        /\ sent' = sent \union {MessageSent(u, s, i)}
        /\ ratchet' = [ratchet EXCEPT ![u] = n] /\ opened' = opened
        /\ overwritten = {} /\ ratchet[u] = s
    BY <1>2, <1>3, FinishEncryptMeans
  <1>5. PICK w : w = MessageSent(u, s, i)
    OBVIOUS
  <1>6. /\ w.from = u /\ w.dh = s.DHs /\ w.pn = s.PN /\ w.n = s.Ns /\ w.key.chain = ChainOf(u, s)
        /\ sent' = sent \union {w}
    BY <1>4, <1>5 DEF MessageSent, MessageKey
  <1>7. /\ n \in States /\ n # None /\ n.DHs = s.DHs /\ n.Ns = s.Ns + 1 /\ n.PN = s.PN
        /\ s.CKs # NoChain =>
              /\ n.CKs = s.CKs /\ n.RK = s.RK /\ n.DHr = s.DHr /\ s.DHr # None
              /\ n.Nr = s.Nr /\ n.CKr = s.CKr /\ n.MKSKIPPED = s.MKSKIPPED
        /\ s.CKs = NoChain => s.DHr = None /\ n.DHr = IdentityKey(Peer(u))
    BY <1>3, <1>4, SentReceiving
  <1>8. ratchet'[u] = n /\ ratchet'[Peer(u)] = ratchet[Peer(u)] /\ s # None
    BY <1>1, <1>4, StateAfter
  <1>9. IdentityKey(Peer(u)) # None
    BY <1>1, KeyTypes
  <1>10. CASE Before \/ OneWrote(Peer(u))
    <2>1. Beginning(u)
      BY <1>1, <1>10 DEF Before, OneWrote
    <2>2. n.DHr = IdentityKey(Peer(u))
      BY <1>4, <1>7, <1>8, <2>1 DEF Beginning
    <2>3. \A m \in sent : m.from = u => Before
      BY <1>1, <1>10 DEF OneWrote
    <2>4. DmTypeInv /\ ratchet' = [ratchet EXCEPT ![u] = n] /\ n # None
          /\ sent' = sent \union {w} /\ w.from = u /\ w.dh = n.DHs
      BY <1>1, <1>4, <1>6, <1>7
    <2>5. OneWrote(u)' \/ BothWrote'
      BY <1>10, <2>2, <2>3, <2>4, FirstWritten
    <2> QED
      BY <2>5
  <1>11. CASE OneWrote(u) \/ BothWrote
    <2>1. s.DHr # None
      BY <1>4, <1>9, <1>11 DEF OneWrote, BothWrote, Ahead
    <2>2. n.DHr = s.DHr
      BY <1>7, <2>1
    <2>3. DmTypeInv /\ ratchet' = [ratchet EXCEPT ![u] = n] /\ n # None
          /\ n.DHr = ratchet[u].DHr /\ n.DHs = ratchet[u].DHs
          /\ sent' = sent \union {w} /\ w.from = u /\ w.dh = n.DHs
      BY <1>1, <1>4, <1>6, <1>7, <2>2
    <2>4. OneWrote(u)' \/ BothWrote'
      BY <1>11, <2>3, MoreWritten
    <2> QED
      BY <2>4
  <1>12. CASE Leads(u)
    <2>1. PICK F : F = ratchet[Peer(u)] /\ F # None
      BY <1>12 DEF Leads
    <2>2. LeadsWith(u, s, F) /\ Follows(s, F)
      BY <1>4, <1>12, <2>1 DEF Leads, LeadsWith
    <2>3. s.CKs # NoChain
      BY <1>4, <1>8, <2>1, <2>2, FollowMeans
    <2>4. LeadsWith(u, n, F)'
      BY <1>4, <1>6, <1>7, <2>2, <2>3, LeaderWrites
    <2>5. Leads(u)'
      BY <1>7, <1>8, <2>1, <2>4 DEF Leads
    <2> QED
      BY <2>5
  <1>13. CASE Leads(Peer(u))
    <2>0. PICK l \in Users : l = Peer(u)
      BY <1>1
    <2>1. PICK L : l = Peer(u) /\ L = ratchet[l] /\ L # None
      BY <1>1, <1>13, <2>0 DEF Leads
    <2>2. LeadsWith(l, L, s) /\ Follows(L, s) /\ Peer(l) = u
      BY <1>1, <1>4, <1>13, <2>1 DEF Leads, LeadsWith
    <2>3. s.CKs # NoChain /\ L \in States /\ Len(s.CKs) \in Nat /\ ChainOf(u, s) = s.CKs
      BY <1>4, <1>8, <2>1, <2>2, FollowMeans
    <2>4. L.Nr \in Nat /\ s.Ns \in Nat
      BY <1>4, <2>3, StateFields
    <2>5. LeadsWith(l, L, n)'
      BY <1>4, <1>6, <1>7, <2>2, <2>3, <2>4, OtherWrites
    <2>6. Leads(l)'
      BY <1>7, <1>8, <2>1, <2>2, <2>5 DEF Leads
    <2> QED
      BY <2>6
  <1> QED
    BY <1>1, <1>4, <1>10, <1>11, <1>12, <1>13 DEF InStep

\* What is at hand stays so when another message is read.
LEMMA EntryFields ==
  ASSUME DmTypeInv, NEW x \in sent
  PROVE  /\ Entry(x).dh = x.dh /\ Entry(x).key.n = x.n /\ x.n \in Nat
         /\ Entry(x) = [dh |-> x.dh, key |-> [chain |-> x.key.chain, n |-> x.n]]
  BY SentTypes DEF Entry

LEMMA AtHandKept ==
  ASSUME KeysInv, NEW u \in Users, NEW s, NEW m, NEW n, Reading(u, s, m, n), SentInv(Peer(u)),
         NEW x \in sent, x.from = Peer(u), x # m, AtHand(s, x),
         TakesKept(s, m, n) \/ TakesNext(s, m, n)
  PROVE  AtHand(n, x)
  <1>1. DmTypeInv /\ Traced /\ m \in sent /\ m.from = Peer(u) /\ s \in States
    BY TracedHere DEF KeysInv, Reading
  <1>2. /\ Entry(x).dh = x.dh /\ Entry(x).key.n = x.n /\ x.n \in Nat /\ m.n \in Nat
        /\ Entry(x) = [dh |-> x.dh, key |-> [chain |-> x.key.chain, n |-> x.n]]
        /\ s.Nr \in Nat /\ m.dh \in RatchetKeys /\ s.CKr \in ChainKeys
    BY <1>1, EntryFields, SentTypes, StateFields
  <1>3. x.dh # m.dh \/ x.n # m.n
    BY <1>1 DEF SentInv
  <1>4. CASE TakesKept(s, m, n)
    <2>1. Entry(x) \in s.MKSKIPPED => Entry(x) \in n.MKSKIPPED
      BY <1>2, <1>3, <1>4 DEF TakesKept, DropUsed
    <2>2. n.DHr = s.DHr /\ n.Nr = s.Nr
      BY <1>4 DEF TakesKept, SameChains
    <2> QED
      BY <2>1, <2>2 DEF AtHand
  <1>5. CASE TakesNext(s, m, n)
    <2>1. PICK S : S = Skipped(m.dh, s.CKr, s.Nr, m.n)
      OBVIOUS
    <2>2. /\ n.DHr = s.DHr /\ n.Nr = m.n + 1 /\ m.dh = s.DHr /\ m.key.chain = s.CKr
          /\ n.MKSKIPPED = Put(S, s.MKSKIPPED)
      BY <1>5, <2>1 DEF TakesNext, SameChains
    <2>3. /\ \A y \in S : y.dh = m.dh /\ y.key.n \in Nat /\ y.key.n >= s.Nr /\ y.key.n < m.n
          /\ \A i \in Nat : i >= s.Nr /\ i < m.n =>
                [dh |-> m.dh, key |-> [chain |-> s.CKr, n |-> i]] \in S
      BY <1>2, <2>1, SkippedKeys
    <2>4. S \subseteq n.MKSKIPPED
          /\ \A y \in s.MKSKIPPED : y \in n.MKSKIPPED \/ \E z \in S : y.dh = z.dh /\ y.key.n = z.key.n
      BY <2>2, Places
    <2>5. x.dh = m.dh /\ x.n >= s.Nr /\ x.n < m.n => Entry(x) \in n.MKSKIPPED
      <3>1. x.dh = m.dh => x.key.chain = s.CKr
        BY <1>1, <2>2, OneChain
      <3> QED
        BY <1>2, <2>3, <2>4, <3>1
    <2>6. CASE x.dh = s.DHr /\ x.n >= s.Nr
      BY <1>2, <1>3, <2>2, <2>5, <2>6 DEF AtHand
    <2>7. CASE Entry(x) \in s.MKSKIPPED
      <3>1. CASE Entry(x) \in n.MKSKIPPED
        BY <3>1 DEF AtHand
      <3>2. CASE Entry(x) \notin n.MKSKIPPED
        <4>1. PICK z \in S : x.dh = z.dh /\ x.n = z.key.n
          BY <1>2, <2>4, <2>7, <3>2
        <4> QED
          BY <2>3, <2>5, <3>2, <4>1
      <3> QED
        BY <3>1, <3>2
    <2> QED
      BY <2>6, <2>7 DEF AtHand
  <1> QED
    BY <1>4, <1>5

LEMMA AtHandBegun ==
  ASSUME KeysInv, NEW u \in Users, NEW s, NEW m, NEW n, Reading(u, s, m, n), SentInv(Peer(u)),
         Ratchets(u, s, m, Fresh(u), n),
         NEW x \in sent, x.from = Peer(u), x # m,
         \/ x.dh = m.dh
         \/ AtHand(s, x) /\ x.n <= MaxSkip /\ (x.dh = s.DHr => x.n < m.pn)
  PROVE  AtHand(n, x)
  <1>1. DmTypeInv /\ Traced /\ m \in sent /\ m.from = Peer(u) /\ s \in States /\ ReceivingInv(u, s)
        /\ Peer(u) \in Users
    BY TracedHere, Peers DEF KeysInv, Reading
  <1>2. /\ Entry(x).dh = x.dh /\ Entry(x).key.n = x.n /\ x.n \in Nat /\ m.n \in Nat /\ m.pn \in Nat
        /\ Entry(x) = [dh |-> x.dh, key |-> [chain |-> x.key.chain, n |-> x.n]]
        /\ s.Nr \in Nat /\ m.dh \in RatchetKeys /\ m.key.chain \in ChainKeys
    BY <1>1, EntryFields, SentTypes, StateFields
  <1>3. x.dh # m.dh \/ x.n # m.n
    BY <1>1 DEF SentInv
  <1>4. PICK S, old : S = Skipped(m.dh, m.key.chain, 0, m.n) /\ old = KeepOldChain(s, m.pn)
    OBVIOUS
  <1>5. n.DHr = m.dh /\ n.Nr = m.n + 1 /\ n.MKSKIPPED = Put(S, old)
    BY <1>4 DEF Ratchets
  <1>6. /\ \A y \in S : y.dh = m.dh
        /\ \A i \in Nat : i < m.n => [dh |-> m.dh, key |-> [chain |-> m.key.chain, n |-> i]] \in S
    <2>1. PICK z \in Nat : z = 0
      OBVIOUS
    <2>2. S = Skipped(m.dh, m.key.chain, z, m.n)
      BY <1>4, <2>1
    <2>3. /\ \A y \in S : y.dh = m.dh
          /\ \A i \in Nat : i >= z /\ i < m.n => [dh |-> m.dh, key |-> [chain |-> m.key.chain, n |-> i]] \in S
      BY <1>2, <2>2, SkippedKeys
    <2> QED
      BY <2>1, <2>3
  <1>7. S \subseteq n.MKSKIPPED
        /\ \A y \in old : y \in n.MKSKIPPED \/ \E z \in S : y.dh = z.dh /\ y.key.n = z.key.n
    BY <1>5, Places
  <1>8. CASE x.dh = m.dh
    <2>1. x.key.chain = m.key.chain
      BY <1>1, <1>8, OneChain
    <2>2. CASE x.n < m.n
      <3>1. Entry(x) \in S
        BY <1>2, <1>6, <1>8, <2>1, <2>2
      <3> QED
        BY <1>7, <3>1 DEF AtHand
    <2>3. CASE x.n >= m.n + 1
      BY <1>5, <1>8, <2>3 DEF AtHand
    <2> QED
      BY <1>2, <1>3, <1>8, <2>2, <2>3
  <1>9. CASE x.dh # m.dh
    <2>1. AtHand(s, x) /\ x.n <= MaxSkip /\ (x.dh = s.DHr => x.n < m.pn)
      BY <1>9
    <2>2. s.DHr = None => s.CKr = NoChain
      BY <1>1 DEF ReceivingInv
    <2>3. Entry(x) \in old
      <3>1. CASE Entry(x) \in s.MKSKIPPED
        <4>1. x.dh = s.DHr => x.n < s.Nr
          BY <1>1, <1>2, <3>1 DEF ReceivingInv
        <4>2. Entry(x) \in old \/ (x.dh = s.DHr /\ x.n >= s.Nr)
          BY <1>1, <1>2, <1>4, <2>2, <3>1, OldChainKept
        <4> QED
          BY <1>2, <4>1, <4>2
      <3>2. CASE x.dh = s.DHr /\ x.n >= s.Nr
        <4>1. s.CKr # NoChain
          <5>1. x.dh # IdentityKey(Peer(u)) /\ x.dh # None
            BY <1>1, SentFresh
          <5> QED
            BY <1>1, <3>2, <5>1 DEF ReceivingInv
        <4>2. s.Nr >= 1 /\ Theirs(u, s.DHr, s.CKr)
          BY <1>1, <4>1 DEF ReceivingInv
        <4>3. x.key.chain = s.CKr
          BY <1>1, <3>2, <4>2, TheirsKeys
        <4>4. x.n < m.pn /\ x.n < s.Nr + MaxSkip
          BY <1>2, <2>1, <3>2, <4>2
        <4>5. [dh |-> s.DHr, key |-> [chain |-> s.CKr, n |-> x.n]] \in old
          BY <1>1, <1>2, <1>4, <2>2, <3>2, <4>1, <4>4, OldChainKept
        <4> QED
          BY <1>2, <3>2, <4>3, <4>5
      <3> QED
        BY <2>1, <3>1, <3>2 DEF AtHand
    <2>4. Entry(x) \in n.MKSKIPPED
      BY <1>2, <1>6, <1>7, <1>9, <2>3
    <2> QED
      BY <2>4 DEF AtHand
  <1> QED
    BY <1>8, <1>9

\* Reading the peer's first message: the reader leads.
LEMMA FirstRead ==
  ASSUME KeysInv, NEW u \in Users, NEW s, NEW m, NEW n, Reading(u, s, m, n), SentInv(Peer(u)),
         OneWrote(Peer(u)), s.DHr = None, NEW F, F = ratchet[Peer(u)],
         sent' = sent, opened'[u] = opened[u] \union {m}, opened'[Peer(u)] = opened[Peer(u)]
  PROVE  LeadsWith(u, n, F)'
  <1>1. /\ Traced /\ m \in sent /\ m.from = Peer(u) /\ s \in States /\ ReceivingInv(u, s)
        /\ Peer(u) \in Users /\ Peer(u) # u /\ Peer(Peer(u)) = u /\ made[u] \in Nat
    BY TracedHere, Peers DEF KeysInv, Reading, DmTypeInv
  <1>2. /\ F # None /\ F.DHr = IdentityKey(u) /\ \A x \in sent : x.from = Peer(u) /\ x.dh = F.DHs
    BY <1>1 DEF OneWrote, Ahead
  <1>3. F.CKs # NoChain /\ ChainOf(Peer(u), F) = F.CKs /\ Len(F.CKs) = 2
    BY <1>1, AheadMeans DEF OneWrote
  <1>4. F \in States /\ \A x \in sent : x.key.chain = F.CKs
    BY <1>1, <1>2, <1>3, Stored
  <1>5. Ratchets(u, s, m, Fresh(u), n)
    <2>1. s.MKSKIPPED = {} /\ m.dh # None
      BY <1>1, SentFresh DEF ReceivingInv
    <2> QED
      BY <2>1 DEF Reading, TakesKept, TakesNext
  <1>6. /\ n.CKr = F.CKs /\ n.DHr = F.DHs /\ n.DHs = Fresh(u) /\ n.Nr = m.n + 1
        /\ n.CKs = Append(F.CKs, DH(n.DHs, F.DHs))
    <2>1. m.key.chain = F.CKs /\ m.dh = F.DHs
      BY <1>1, <1>2, <1>4
    <2>2. /\ n.CKr = m.key.chain /\ n.DHr = m.dh /\ n.DHs = Fresh(u) /\ n.Nr = m.n + 1 /\ n.CKs = n.RK
          /\ n.RK = Append(m.key.chain, DH(Fresh(u), m.dh))
      BY <1>5 DEF Ratchets
    <2> QED
      BY <2>1, <2>2
  <1>7. Follows(n, F)'
    <2>1. m.n < F.Ns /\ m.n \in Nat /\ F.Ns \in Nat
      <3>1. m.n < F.Ns
        BY <1>1, <1>2 DEF SentInv
      <3>2. m.n \in Nat
        BY <1>1, SentTypes DEF Traced
      <3>3. F.Ns \in Nat
        BY <1>4, StateFields
      <3> QED
        BY <3>1, <3>2, <3>3
    <2>2. F.DHr # n.DHs
      <3>1. IdentityKey(u).n = 0 /\ Fresh(u).n = made[u] + 1
        BY <1>1, KeyTypes DEF Fresh
      <3> QED
        BY <1>1, <1>2, <1>6, <3>1
    <2> QED
      BY <1>3, <1>6, <2>1, <2>2 DEF Follows
  <1>8. LeaderSent(u, n, F)'
    BY <1>1, <1>2 DEF LeaderSent
  <1>9. OtherSent(u, F)'
    <2>1. \A x \in sent : Len(x.key.chain) <= Len(F.CKs)
      <3>1. PICK c : c = F.CKs
        OBVIOUS
      <3>2. \A x \in sent : x.key.chain = c
        BY <1>4, <3>1
      <3>3. Len(c) = 2
        BY <1>3, <3>1
      <3>4. ASSUME NEW x \in sent
            PROVE  Len(x.key.chain) <= Len(F.CKs)
        <4>1. x.key.chain = c
          BY <3>2
        <4>2. Len(c) <= Len(c)
          BY <3>3
        <4> QED
          BY <3>1, <4>1, <4>2
      <3> QED
        BY <3>4
    <2> QED
      BY <2>1 DEF OtherSent
  <1>10. LeaderOwes(u, n, F)'
    BY <1>1, <1>2 DEF LeaderOwes
  <1>11. OtherOwes(u, n)'
    <2>1. ASSUME NEW x \in sent, x \notin opened'[u]
          PROVE  AtHand(n, x)
      <3>1. x # m /\ x.from = Peer(u) /\ x.dh = m.dh
        BY <1>1, <1>2, <2>1
      <3> QED
        BY <1>5, <3>1, AtHandBegun
    <2> QED
      BY <2>1 DEF OtherOwes, AtHand
  <1> QED
    BY <1>7, <1>8, <1>9, <1>10, <1>11 DEF LeadsWith

\* Neither side can read the other's first messages when they crossed.
LEMMA CrossedUnread ==
  ASSUME KeysInv, NEW u \in Users, NEW s, NEW m, NEW n, Reading(u, s, m, n), s = ratchet[u], BothWrote
  PROVE  FALSE
  <1>1. /\ Traced /\ m \in sent /\ m.from = Peer(u) /\ s \in States /\ ReceivingInv(u, s) /\ n \in States
        /\ Peer(u) \in Users /\ made[u] \in Nat
    BY TracedHere, Peers DEF KeysInv, Reading, DmTypeInv
  <1>2. Ahead(u) /\ Ahead(Peer(u)) /\ m.dh = ratchet[Peer(u)].DHs /\ ratchet[Peer(u)] # None
    BY <1>1 DEF BothWrote, Ahead
  <1>3. s.CKr = NoChain /\ s.RK = s.CKs /\ s.MKSKIPPED = {} /\ Len(s.CKs) = 2
    BY <1>2, AheadMeans
  <1>4. PICK fresh \in RatchetKeys : fresh = Fresh(u)
    BY <1>1, KeyTypes DEF Fresh
  <1>5. ~ IsSkipped(s, m) /\ Ratchets(u, s, m, fresh, n)
    BY <1>3, <1>4 DEF Reading, TakesKept, TakesNext
  <1>6. Len(m.key.chain) = 3
    <2>1. /\ Traced /\ m \in sent /\ m.from = Peer(u) /\ s \in States /\ ReceivingInv(u, s)
          /\ n \in States /\ ~ IsSkipped(s, m) /\ Ratchets(u, s, m, fresh, n)
      BY <1>1, <1>5
    <2>2. Len(m.key.chain) = Len(s.RK) + 1
      BY <2>1, ReadRatchets
    <2>3. PICK r : r = s.RK /\ Len(r) = 2
      BY <1>3
    <2> QED
      BY <2>2, <2>3
  <1>7. PICK F : F = ratchet[Peer(u)]
    OBVIOUS
  <1>8. m.key.chain = F.CKs /\ Len(F.CKs) = 2
    <2>1. ChainOf(Peer(u), F) = F.CKs /\ Len(F.CKs) = 2
      BY <1>1, <1>2, <1>7, AheadMeans
    <2>2. m.key.chain = ChainOf(Peer(u), F)
      BY <1>1, <1>2, <1>7, Stored
    <2> QED
      BY <2>1, <2>2
  <1> QED
    BY <1>6, <1>8

\* The leader reads on: the other has not answered, so there is no new chain to begin.
LEMMA LeaderReads ==
  ASSUME KeysInv, NEW l \in Users, NEW L, NEW F, L = ratchet[l], F = ratchet[Peer(l)], F # None, L # None,
         LeadsWith(l, L, F), NEW m, NEW n, Reading(l, L, m, n), SentInv(Peer(l)),
         sent' = sent, opened'[l] = opened[l] \union {m}, opened'[Peer(l)] = opened[Peer(l)]
  PROVE  LeadsWith(l, n, F)'
  <1>1. /\ Traced /\ m \in sent /\ m.from = Peer(l) /\ L \in States /\ ReceivingInv(l, L) /\ n \in States
        /\ Peer(l) \in Users /\ made[l] \in Nat
    BY TracedHere, Peers DEF KeysInv, Reading, DmTypeInv
  <1>2. /\ L.RK = L.CKs /\ Len(F.CKs) \in Nat /\ Len(L.CKs) = Len(F.CKs) + 1 /\ F \in States
    BY FollowMeans DEF LeadsWith
  <1>3. TakesKept(L, m, n) \/ TakesNext(L, m, n)
    <2> SUFFICES ASSUME ~ IsSkipped(L, m), Ratchets(l, L, m, Fresh(l), n)
                 PROVE  FALSE
      BY DEF Reading
    <2>1. PICK fresh \in RatchetKeys : fresh = Fresh(l)
      BY <1>1, KeyTypes DEF Fresh
    <2>2. Len(m.key.chain) = Len(L.RK) + 1
      BY <1>1, <2>1, ReadRatchets
    <2>3. Len(m.key.chain) <= Len(F.CKs)
      BY <1>1 DEF LeadsWith, OtherSent
    <2> QED
      BY <1>2, <2>2, <2>3
  <1>4. SameChains(L, n)
    BY <1>3 DEF TakesKept, TakesNext
  <1>5. Follows(n, F)'
    <2>1. n.Nr <= F.Ns
      <3>1. CASE TakesKept(L, m, n)
        BY <3>1 DEF TakesKept, LeadsWith, Follows
      <3>2. CASE TakesNext(L, m, n)
        <4>1. m.dh = F.DHs /\ n.Nr = m.n + 1
          BY <3>2 DEF TakesNext, LeadsWith, Follows
        <4>2. m.n < F.Ns
          BY <1>1, <4>1 DEF SentInv
        <4>3. m.n \in Nat
          BY <1>1, SentTypes DEF Traced
        <4>4. F.Ns \in Nat
          BY <1>2, StateFields
        <4> QED
          BY <4>1, <4>2, <4>3, <4>4
      <3> QED
        BY <1>3, <3>1, <3>2
    <2> QED
      BY <1>4, <2>1 DEF LeadsWith, Follows, SameChains
  <1>6. LeaderSent(l, n, F)' /\ OtherSent(l, F)' /\ LeaderOwes(l, n, F)'
    BY <1>4 DEF LeadsWith, SameChains, LeaderSent, OtherSent, LeaderOwes, AtHand, TooLong
  <1>7. OtherOwes(l, n)'
    <2>1. ASSUME NEW x \in sent, x \notin opened'[l], x.from = Peer(l), ~ TooLong(x)
          PROVE  AtHand(n, x)
      <3>1. x # m /\ AtHand(L, x)
        BY <2>1 DEF LeadsWith, OtherOwes
      <3> QED
        BY <1>3, <2>1, <3>1, AtHandKept
    <2> QED
      BY <2>1 DEF OtherOwes, AtHand, TooLong
  <1> QED
    BY <1>5, <1>6, <1>7 DEF LeadsWith

\* The other reads on in what it has begun to receive with.
LEMMA OtherReads ==
  ASSUME KeysInv, NEW l \in Users, NEW f \in Users, f = Peer(l), l = Peer(f),
         NEW L, NEW F, LeadsWith(l, L, F), NEW m, NEW n, Reading(f, F, m, n), SentInv(l),
         TakesKept(F, m, n) \/ TakesNext(F, m, n),
         sent' = sent, opened'[f] = opened[f] \union {m}, opened'[l] = opened[l]
  PROVE  LeadsWith(l, L, n)'
  <1>1. SameChains(F, n)
    BY DEF TakesKept, TakesNext
  <1>2. Follows(L, n)' /\ LeaderSent(l, L, n)' /\ OtherSent(l, n)' /\ OtherOwes(l, L)'
    BY <1>1 DEF LeadsWith, SameChains, Follows, LeaderSent, OtherSent, OtherOwes, AtHand, TooLong
  <1>3. LeaderOwes(l, L, n)'
    <2>1. ASSUME NEW x \in sent, x \notin opened'[f], x.from = l, ~ TooLong(x)
          PROVE  x.dh = L.DHs \/ AtHand(n, x)
      <3>1. x # m /\ (x.dh = L.DHs \/ AtHand(F, x))
        BY <2>1 DEF LeadsWith, LeaderOwes
      <3>2. AtHand(F, x) => AtHand(n, x)
        BY <2>1, <3>1, AtHandKept
      <3> QED
        BY <3>1, <3>2
    <2> QED
      BY <2>1 DEF LeaderOwes, AtHand, TooLong
  <1> QED
    BY <1>2, <1>3 DEF LeadsWith

\* The other begins the leader's new chain, and leads in its turn.
LEMMA LeadPasses ==
  ASSUME KeysInv, NEW l \in Users, NEW f \in Users, f = Peer(l), l = Peer(f),
         NEW L, NEW F, L = ratchet[l], F = ratchet[f], L # None, F # None,
         LeadsWith(l, L, F), NEW m, NEW n, Reading(f, F, m, n), SentInv(l), SentInv(f),
         ~ IsSkipped(F, m), Ratchets(f, F, m, Fresh(f), n),
         sent' = sent, opened'[f] = opened[f] \union {m}, opened'[l] = opened[l]
  PROVE  LeadsWith(f, n, L)'
  <1>1. /\ Traced /\ m \in sent /\ m.from = l /\ n \in States /\ made[f] \in Nat
    BY TracedHere DEF KeysInv, Reading, DmTypeInv
  <1>2. /\ L \in States /\ F \in States /\ ReceivingInv(f, F) /\ F.RK = F.CKs /\ L.CKs # NoChain
        /\ ChainOf(l, L) = L.CKs /\ Len(F.CKs) \in Nat /\ Len(L.CKs) = Len(F.CKs) + 1
    <2>1. F = ratchet[Peer(l)] /\ Follows(L, F)
      BY DEF LeadsWith
    <2>2. /\ L \in States /\ F \in States /\ ReceivingInv(Peer(l), F) /\ F.RK = F.CKs /\ L.CKs # NoChain
          /\ ChainOf(l, L) = L.CKs /\ Len(F.CKs) \in Nat /\ Len(L.CKs) = Len(F.CKs) + 1
      BY <2>1, FollowMeans
    <2> QED
      BY <2>2
  <1>3. PICK fresh \in RatchetKeys : fresh = Fresh(f)
    BY <1>1, KeyTypes DEF Fresh
  <1>4. Len(m.key.chain) = Len(F.CKs) + 1 /\ Len(n.CKs) = Len(m.key.chain) + 1
    <2>1. Ratchets(f, F, m, fresh, n) /\ m.from = Peer(f)
      BY <1>1, <1>3
    <2>2. Len(m.key.chain) = Len(F.RK) + 1 /\ Len(n.RK) = Len(m.key.chain) + 1
      BY <1>1, <1>2, <2>1, ReadRatchets
    <2>3. n.CKs = n.RK
      BY DEF Ratchets
    <2> QED
      BY <1>2, <2>2, <2>3
  <1>5. m.dh = L.DHs
    <2>1. m.dh # L.DHs => Len(m.key.chain) < Len(L.CKs)
      BY <1>1 DEF LeadsWith, LeaderSent
    <2> QED
      BY <1>2, <1>4, <2>1
  <1>6. \A x \in sent : x.from = l /\ x.dh = L.DHs => x.key.chain = L.CKs
    BY <1>2, Stored
  <1>7. m.pn = L.PN
    BY <1>1, <1>5 DEF LeadsWith, LeaderSent
  <1>8. /\ n.CKr = L.CKs /\ n.DHr = L.DHs /\ n.DHs = Fresh(f) /\ n.Nr = m.n + 1 /\ n.PN = F.Ns
        /\ n.CKs = Append(L.CKs, DH(n.DHs, L.DHs))
    <2>1. m.key.chain = L.CKs
      BY <1>1, <1>5, <1>6
    <2>2. /\ n.CKr = m.key.chain /\ n.DHr = m.dh /\ n.DHs = Fresh(f) /\ n.Nr = m.n + 1 /\ n.PN = F.Ns
          /\ n.CKs = n.RK /\ n.RK = Append(m.key.chain, DH(Fresh(f), m.dh))
      BY DEF Ratchets
    <2> QED
      BY <1>5, <2>1, <2>2
  <1>9. L.DHr = F.DHs /\ F.DHs # Fresh(f)
    <2>1. F.DHs # Fresh(f)
      BY Stored
    <2> QED
      BY <2>1 DEF LeadsWith, Follows
  <1>10. Follows(n, L)'
    <2>1. n.Nr <= L.Ns
      <3>1. m.n < L.Ns
        BY <1>1, <1>5 DEF SentInv
      <3>2. m.n \in Nat
        BY <1>1, SentTypes DEF Traced
      <3>3. L.Ns \in Nat
        BY <1>2, StateFields
      <3> QED
        BY <1>8, <3>1, <3>2, <3>3
    <2> QED
      BY <1>2, <1>8, <1>9, <2>1 DEF Follows
  <1>11. LeaderSent(f, n, L)'
    <2>1. ASSUME NEW x \in sent, x.from = f
          PROVE  /\ x.dh # n.DHs
                 /\ x.dh = L.DHr => x.n < n.PN
                 /\ Len(x.key.chain) < Len(n.CKs)
      <3>1. x.dh # n.DHs
        BY <1>8, <2>1, SentFresh
      <3>2. x.dh = L.DHr => x.n < n.PN
        BY <1>8, <1>9, <2>1 DEF SentInv
      <3>3. Len(x.key.chain) <= Len(F.CKs)
        BY <2>1 DEF LeadsWith, OtherSent
      <3>4. Len(x.key.chain) \in Nat
        BY SentTypes, <1>1 DEF Traced
      <3> QED
        BY <1>2, <1>4, <3>1, <3>2, <3>3, <3>4
    <2> QED
      BY <2>1 DEF LeaderSent
  <1>12. OtherSent(f, L)'
    <2>1. ASSUME NEW x \in sent, x.from = l
          PROVE  Len(x.key.chain) <= Len(L.CKs)
      <3>1. CASE x.dh = L.DHs
        BY <1>2, <1>6, <2>1, <3>1
      <3>2. CASE x.dh # L.DHs
        <4>1. Len(x.key.chain) < Len(L.CKs) /\ Len(x.key.chain) \in Nat
          BY <1>1, <2>1, <3>2, SentTypes DEF LeadsWith, LeaderSent, Traced
        <4> QED
          BY <1>2, <4>1
      <3> QED
        BY <3>1, <3>2
    <2> QED
      BY <2>1 DEF OtherSent
  <1>13. LeaderOwes(f, n, L)'
    <2>1. ASSUME NEW x \in sent, x \notin opened'[l], x.from = f, ~ TooLong(x)
          PROVE  AtHand(L, x)
      BY <2>1 DEF LeadsWith, OtherOwes
    <2> QED
      BY <2>1 DEF LeaderOwes, AtHand, TooLong
  <1>14. OtherOwes(f, n)'
    <2>1. ASSUME NEW x \in sent, x \notin opened'[f], x.from = l, ~ TooLong(x)
          PROVE  AtHand(n, x)
      <3>1. x # m /\ (x.dh = m.dh \/ AtHand(F, x))
        BY <1>5, <2>1 DEF LeadsWith, LeaderOwes
      <3>2. x.dh = F.DHr => x.n < m.pn
        BY <1>7, <2>1 DEF LeadsWith, LeaderSent
      <3>3. x.n <= MaxSkip
        <4>1. x.n \in Nat
          BY SentTypes, <1>1 DEF Traced
        <4> QED
          BY <2>1, <4>1 DEF TooLong
      <3> QED
        BY <2>1, <3>1, <3>2, <3>3, AtHandBegun
    <2> QED
      BY <2>1 DEF OtherOwes, AtHand, TooLong
  <1> QED
    BY <1>10, <1>11, <1>12, <1>13, <1>14 DEF LeadsWith

LEMMA ReadingInStep ==
  ASSUME KeysInv, InStep, NEW u \in Users, NEW t \in Tasks, FinishDecrypt(u, t)
  PROVE  InStep'
  <1>1. DmTypeInv /\ Peer(u) \in Users /\ Peer(u) # u /\ Peer(Peer(u)) = u
        /\ \A v \in Users : v = u \/ v = Peer(u)
    BY Peers DEF KeysInv
  <1> SUFFICES ASSUME overwritten' = {}
               PROVE  \E l \in Users : Leads(l)'
    BY DEF InStep
  <1>2. PICK m, read : m = task[u][t].message /\ read = task[u][t].state
    OBVIOUS
  <1>3. PICK s : s = IF read = None THEN Blank(u, Fresh(u)) ELSE read
    OBVIOUS
  <1>4. PICK n \in States :
           /\ Reading(u, s, m, n)
           /\ ratchet' = [ratchet EXCEPT ![u] = n]
           /\ opened' = [opened EXCEPT ![u] = @ \union {m}]
           /\ sent' = sent /\ overwritten = {} /\ ratchet[u] = read
    BY <1>2, <1>3, FinishDecryptMeans
  <1>5. /\ ratchet'[u] = n /\ ratchet'[Peer(u)] = ratchet[Peer(u)] /\ n # None
        /\ opened'[u] = opened[u] \union {m} /\ opened'[Peer(u)] = opened[Peer(u)]
        /\ m \in sent /\ m.from = Peer(u)
    BY <1>1, <1>4 DEF DmTypeInv, Reading
  <1>6. SentInv(u) /\ SentInv(Peer(u))
    BY <1>1, <1>4 DEF KeysInv, DeviceInv
  <1>7. ~ Before /\ ~ OneWrote(u)
    BY <1>1, <1>5 DEF Before, OneWrote
  <1>8. CASE OneWrote(Peer(u))
    <2>1. s.DHr = None
      <3>1. PICK fresh \in RatchetKeys : fresh = Fresh(u)
        BY <1>1, KeyTypes DEF Fresh, DmTypeInv
      <3>2. Beginning(u)
        BY <1>1, <1>8 DEF OneWrote
      <3>3. Blank(u, fresh).DHr = None
        BY BlankState
      <3> QED
        BY <1>3, <1>4, <3>1, <3>2, <3>3 DEF Beginning
    <2>2. PICK F : F = ratchet[Peer(u)]
      OBVIOUS
    <2>3. LeadsWith(u, n, F)'
      BY <1>4, <1>5, <1>6, <1>8, <2>1, <2>2, FirstRead
    <2>4. F # None
      BY <1>8, <2>2 DEF OneWrote, Ahead
    <2> QED
      BY <1>5, <2>2, <2>3, <2>4 DEF Leads
  <1>9. CASE BothWrote
    <2>1. s = ratchet[u]
      BY <1>3, <1>4, <1>9 DEF BothWrote, Ahead
    <2> QED
      BY <1>4, <1>9, <2>1, CrossedUnread
  <1>10. CASE Leads(u)
    <2>1. PICK F : F = ratchet[Peer(u)]
      OBVIOUS
    <2>2. s = ratchet[u] /\ s # None /\ F # None /\ LeadsWith(u, s, F)
      BY <1>3, <1>4, <1>10, <2>1 DEF Leads
    <2>3. LeadsWith(u, n, F)'
      BY <1>4, <1>5, <1>6, <2>1, <2>2, LeaderReads
    <2> QED
      BY <1>5, <2>1, <2>2, <2>3 DEF Leads
  <1>11. CASE Leads(Peer(u))
    <2>1. PICK l \in Users : l = Peer(u) /\ u = Peer(l)
      BY <1>1
    <2>2. PICK L : L = ratchet[l]
      OBVIOUS
    <2>3. s = ratchet[u] /\ s # None /\ L # None /\ LeadsWith(l, L, s)
      BY <1>3, <1>4, <1>11, <2>1, <2>2 DEF Leads
    <2>4. opened'[l] = opened[l] /\ SentInv(l) /\ ratchet'[l] = L
      BY <1>5, <1>6, <2>1, <2>2
    <2>5. CASE TakesKept(s, m, n) \/ TakesNext(s, m, n)
      <3>1. LeadsWith(l, L, n)'
        BY <1>4, <1>5, <2>1, <2>3, <2>4, <2>5, OtherReads
      <3> QED
        BY <1>5, <2>1, <2>3, <2>4, <3>1 DEF Leads
    <2>6. CASE ~ IsSkipped(s, m) /\ Ratchets(u, s, m, Fresh(u), n)
      <3>1. LeadsWith(u, n, L)'
        BY <1>4, <1>5, <1>6, <2>1, <2>2, <2>3, <2>4, <2>6, LeadPasses
      <3> QED
        BY <1>5, <2>1, <2>3, <2>4, <3>1 DEF Leads
    <2> QED
      BY <1>4, <2>5, <2>6 DEF Reading
  <1> QED
    BY <1>1, <1>4, <1>7, <1>8, <1>9, <1>10, <1>11 DEF InStep

LEMMA InitialisingInStep ==
  ASSUME KeysInv, InStep, NEW u \in Users, NEW t \in Tasks, Initialise(u, t)
  PROVE  InStep'
  <1>1. DmTypeInv /\ Peer(u) \in Users /\ Peer(u) # u /\ Peer(Peer(u)) = u
        /\ \A v \in Users : v = u \/ v = Peer(u)
    BY Peers DEF KeysInv
  <1> SUFFICES ASSUME overwritten' = {}
               PROVE  Before' \/ \E v \in Users : OneWrote(v)'
    BY DEF InStep
  <1>2. PICK n : n = Blank(u, Fresh(u)) /\ n.DHr = None
    <2>1. PICK fresh \in RatchetKeys : fresh = Fresh(u)
      BY <1>1, KeyTypes DEF Fresh, DmTypeInv
    <2> QED
      BY <2>1, BlankState
  <1>3. /\ ratchet' = [ratchet EXCEPT ![u] = n] /\ sent' = sent /\ Overwrites(u, None)
    BY <1>2 DEF Initialise, Fresh
  <1>4. overwritten = {} /\ ratchet[u] = None
    BY <1>1, <1>3, Overwriting DEF DmTypeInv
  <1>5. ratchet'[u] = n /\ ratchet'[Peer(u)] = ratchet[Peer(u)] /\ Beginning(u)'
    BY <1>1, <1>2, <1>3 DEF DmTypeInv, Beginning
  <1>6. CASE Before
    <2>1. Beginning(Peer(u))'
      BY <1>1, <1>5, <1>6 DEF Before, Beginning
    <2>2. Before'
      BY <1>1, <1>3, <1>5, <1>6, <2>1 DEF Before
    <2> QED
      BY <2>2
  <1>7. CASE OneWrote(Peer(u))
    <2>1. Ahead(Peer(u))'
      BY <1>1, <1>5, <1>7 DEF OneWrote, Ahead
    <2>2. OneWrote(Peer(u))'
      BY <1>1, <1>3, <1>5, <1>7, <2>1 DEF OneWrote
    <2> QED
      BY <1>1, <2>2
  <1>8. ~ OneWrote(u) /\ ~ BothWrote /\ ~ Leads(u) /\ ~ Leads(Peer(u))
    BY <1>1, <1>4 DEF OneWrote, BothWrote, Ahead, Leads
  <1> QED
    BY <1>1, <1>4, <1>6, <1>7, <1>8 DEF InStep

LEMMA InStepInitially ==
  DmInit => InStep
  BY DEF DmInit, InStep, Before, Beginning

LEMMA InStepKept ==
  KeysInv /\ InStep /\ [DmNext]_dmVars => InStep'
  <1> SUFFICES ASSUME KeysInv, InStep, [DmNext]_dmVars PROVE InStep'
    OBVIOUS
  <1>1. ASSUME UNCHANGED <<ratchet, sent, opened, overwritten>>
        PROVE  InStep'
    <2>1. Before' = Before /\ BothWrote' = BothWrote /\ \A u : OneWrote(u)' = OneWrote(u)
      BY <1>1 DEF Before, Beginning, OneWrote, Ahead, BothWrote
    <2>2. \A l, L, F : /\ Follows(L, F)' = Follows(L, F) /\ LeaderSent(l, L, F)' = LeaderSent(l, L, F)
                       /\ OtherSent(l, F)' = OtherSent(l, F)
      BY <1>1 DEF Follows, LeaderSent, OtherSent
    <2>3. \A l, L, F : LeaderOwes(l, L, F)' = LeaderOwes(l, L, F)
      BY <1>1 DEF LeaderOwes, AtHand, TooLong
    <2>4. \A l, L : OtherOwes(l, L)' = OtherOwes(l, L)
      BY <1>1 DEF OtherOwes, AtHand, TooLong
    <2>5. \A l : Leads(l)' = Leads(l)
      BY <1>1, <2>2, <2>3, <2>4 DEF Leads, LeadsWith
    <2> QED
      BY <1>1, <2>1, <2>5 DEF InStep
  <1>2. ASSUME NEW u \in Users, NEW t \in Tasks, StartEncrypt(u, t)
        PROVE  InStep'
    BY <1>1, <1>2 DEF StartEncrypt
  <1>3. ASSUME NEW u \in Users, NEW t \in Tasks, Initialise(u, t)
        PROVE  InStep'
    BY <1>3, InitialisingInStep
  <1>4. ASSUME NEW u \in Users, NEW t \in Tasks, FinishEncrypt(u, t)
        PROVE  InStep'
    BY <1>4, WritingInStep
  <1>5. ASSUME NEW u \in Users, NEW t \in Tasks, NEW m \in sent, StartDecrypt(u, t, m)
        PROVE  InStep'
    BY <1>1, <1>5 DEF StartDecrypt
  <1>6. ASSUME NEW u \in Users, NEW t \in Tasks, FinishDecrypt(u, t)
        PROVE  InStep'
    BY <1>6, ReadingInStep
  <1>7. CASE UNCHANGED dmVars
    BY <1>1, <1>7 DEF dmVars
  <1> QED
    BY <1>2, <1>3, <1>4, <1>5, <1>6, <1>7 DEF DmNext

\* What is at hand opens.
LEMMA AtHandReads ==
  ASSUME KeysInv, NEW u \in Users, NEW s \in States, ReceivingInv(u, s),
         NEW m \in sent, m.from = Peer(u), m.n <= MaxSkip, AtHand(s, m)
  PROVE  Receives(u, s, m)
  <1>1. DmTypeInv /\ Traced /\ Peer(u) \in Users
    BY TracedHere, Peers DEF KeysInv
  <1>2. /\ Entry(m).dh = m.dh /\ Entry(m).key.n = m.n /\ m.n \in Nat /\ m.n = m.key.n /\ s.Nr \in Nat
    BY <1>1, EntryFields, SentTypes, StateFields
  <1>3. CASE Entry(m) \in s.MKSKIPPED
    <2>1. IsSkipped(s, m)
      BY <1>2, <1>3 DEF IsSkipped
    <2> QED
      BY <1>3, <2>1 DEF Receives, Entry
  <1>4. CASE m.dh = s.DHr /\ m.n >= s.Nr
    <2>1. ~ IsSkipped(s, m)
      BY <1>2, <1>4 DEF ReceivingInv, IsSkipped
    <2>2. s.CKr # NoChain
      <3>1. m.dh # IdentityKey(Peer(u)) /\ m.dh # None
        BY <1>1, SentFresh
      <3> QED
        BY <1>4, <3>1 DEF ReceivingInv
    <2>3. m.key.chain = s.CKr
      <3>1. Theirs(u, s.DHr, s.CKr)
        BY <2>2 DEF ReceivingInv
      <3> QED
        BY <1>1, <1>4, <3>1, TheirsKeys
    <2>4. m.n \in s.Nr .. s.Nr + MaxSkip
      BY <1>2, <1>4
    <2> QED
      BY <1>4, <2>1, <2>2, <2>3, <2>4 DEF Receives
  <1> QED
    BY <1>3, <1>4 DEF AtHand

LEMMA ReadsAnyOrder ==
  ASSUME KeysInv, InStep
  PROVE  AnyOrder
  <1> SUFFICES ASSUME NEW u \in Users, NEW m \in sent, m \notin opened[u], m.from # u,
                      ~ Crossed, overwritten = {}, ~ TooLong(m)
               PROVE  Readable(u, m)
    BY DEF AnyOrder
  <1>1. DmTypeInv /\ Traced /\ Peer(u) \in Users /\ Peer(u) # u /\ Peer(Peer(u)) = u
        /\ \A v \in Users : v = u \/ v = Peer(u)
    BY TracedHere, Peers DEF KeysInv
  <1>2. m.from = Peer(u) /\ m.n \in Nat /\ m.n <= MaxSkip /\ m.dh \in RatchetKeys
    <2>1. m.from \in Users /\ m.n \in Nat /\ m.dh \in RatchetKeys
      BY <1>1, SentTypes
    <2> QED
      BY <1>1, <2>1 DEF TooLong
  <1>3. PICK fresh \in RatchetKeys : fresh = Fresh(u) /\ fresh.owner = u
    BY <1>1, KeyTypes DEF DmTypeInv, Fresh
  <1>4. PICK s : s = IF ratchet[u] = None THEN Blank(u, fresh) ELSE ratchet[u]
    OBVIOUS
  <1>5. s \in States /\ ReceivingInv(u, s) /\ (Readable(u, m) <=> Receives(u, s, m))
    <2>1. /\ s \in States /\ ReceivingInv(u, s)
          /\ Opens(s, m, u, fresh) <=> Receives(u, s, m)
      BY <1>3, <1>4, LoadedReads
    <2>2. Readable(u, m) <=> Opens(s, m, u, fresh)
      BY <1>3, <1>4 DEF Readable, Loaded
    <2> QED
      BY <2>1, <2>2
  <1>6. PICK v \in Users : v = Peer(u) /\ u = Peer(v)
    BY <1>1
  <1>7. ~ Before /\ ~ OneWrote(u)
    BY <1>1, <1>2 DEF Before, OneWrote
  <1>8. ~ BothWrote
    BY DEF BothWrote, Ahead, Crossed
  <1>9. CASE OneWrote(v)
    <2>1. s.DHr = None /\ Beginning(u)
      <3>1. Blank(u, fresh).DHr = None
        BY BlankState
      <3>2. Beginning(u)
        BY <1>6, <1>9 DEF OneWrote
      <3> QED
        BY <1>4, <3>1, <3>2 DEF Beginning
    <2>2. s.MKSKIPPED = {} /\ s.RK = Root(u)
      BY <1>5, <2>1 DEF ReceivingInv
    <2>3. PICK F : F = ratchet[v] /\ F # None /\ m.dh = F.DHs
      BY <1>9 DEF OneWrote, Ahead
    <2>4. ChainOf(v, F) = FirstChain(v, F.DHs)
      BY <1>9, <2>3, AheadMeans DEF OneWrote
    <2>5. m.key.chain = FirstChain(v, m.dh)
      <3>1. \A x \in sent : x.from = v /\ x.dh = F.DHs => x.key.chain = ChainOf(v, F)
        BY <2>3, Stored
      <3> QED
        BY <1>2, <1>6, <2>3, <2>4, <3>1
    <2>6. FirstChain(Peer(u), m.dh) = Append(Root(u), DH(IdentityKey(u), m.dh))
      BY <1>2, Roots
    <2>7. m.key.chain = Append(s.RK, DH(IdentityKey(u), m.dh))
      BY <1>6, <2>2, <2>5, <2>6
    <2>8. ~ IsSkipped(s, m) /\ m.dh # s.DHr
      BY <1>2, <2>1, <2>2 DEF IsSkipped
    <2> QED
      BY <1>2, <1>5, <2>1, <2>7, <2>8 DEF Receives
  <1>10. CASE Leads(u)
    <2>1. s = ratchet[u] /\ LeadsWith(u, s, ratchet[Peer(u)])
      BY <1>4, <1>10 DEF Leads
    <2>2. AtHand(s, m)
      BY <1>2, <2>1 DEF LeadsWith, OtherOwes
    <2> QED
      BY <1>2, <1>5, <2>2, AtHandReads
  <1>11. CASE Leads(v)
    <2>1. PICK L : L = ratchet[v] /\ L # None
      BY <1>11 DEF Leads
    <2>2. s = ratchet[u] /\ s # None /\ LeadsWith(v, L, s) /\ Follows(L, s)
      BY <1>4, <1>6, <1>11, <2>1 DEF Leads, LeadsWith
    <2>3. m.dh = L.DHs \/ AtHand(s, m)
      BY <1>2, <1>6, <2>2 DEF LeadsWith, LeaderOwes
    <2>4. CASE AtHand(s, m)
      BY <1>2, <1>5, <2>4, AtHandReads
    <2>5. CASE m.dh = L.DHs
      <3>1. /\ s.RK = s.CKs /\ ChainOf(v, L) = L.CKs /\ Len(s.CKs) \in Nat
            /\ Len(L.CKs) = Len(s.CKs) + 1 /\ s.DHr # None
        <4>1. s = ratchet[Peer(v)]
          BY <1>6, <2>2
        <4> QED
          BY <2>1, <2>2, <4>1, FollowMeans
      <3>2. m.key.chain = L.CKs
        <4>1. \A x \in sent : x.from = v /\ x.dh = L.DHs => x.key.chain = ChainOf(v, L)
          BY <2>1, Stored
        <4> QED
          BY <1>2, <1>6, <2>5, <3>1, <4>1
      <3>3. m.dh # s.DHr /\ L.CKs = Append(s.CKs, DH(L.DHs, s.DHs))
        BY <2>2, <2>5 DEF Follows
      <3>4. m.key.chain = Append(s.RK, DH(s.DHs, m.dh))
        <4>1. DH(L.DHs, s.DHs) = DH(s.DHs, m.dh)
          BY <2>5 DEF DH
        <4> QED
          BY <3>1, <3>2, <3>3, <4>1
      <3>5. ~ IsSkipped(s, m)
        <4> SUFFICES ASSUME NEW x \in s.MKSKIPPED, x.dh = m.dh
                     PROVE  FALSE
          BY DEF IsSkipped
        <4>1. Theirs(u, x.dh, x.key.chain) /\ Len(x.key.chain) < Len(s.RK)
          BY <1>5 DEF ReceivingInv
        <4>2. m.key.chain = x.key.chain
          BY <1>1, <1>2, <4>1, TheirsKeys
        <4> QED
          BY <3>1, <3>2, <4>1, <4>2
      <3> QED
        BY <1>2, <1>5, <3>1, <3>3, <3>4, <3>5 DEF Receives
    <2> QED
      BY <2>3, <2>4, <2>5
  <1> QED
    BY <1>1, <1>6, <1>7, <1>8, <1>9, <1>10, <1>11 DEF InStep

\* A message its receiver has not decrypted can be decrypted, whatever was read before.
THEOREM MessagesInAnyOrder == DmSpec => []AnyOrder
  <1>1. DmInit => KeysInv /\ InStep
    BY KeysInitially, InStepInitially
  <1>2. KeysInv /\ InStep /\ [DmNext]_dmVars => (KeysInv /\ InStep)'
    BY KeysKept, InStepKept
  <1>3. KeysInv /\ InStep => AnyOrder
    BY ReadsAnyOrder
  <1> QED
    BY <1>1, <1>2, <1>3, PTL DEF DmSpec

-------------------------------------------------------------------------------
(* The three together.                                                     *)

LEMMA EncryptionParts == Spec => DmSpec /\ GroupSpec /\ MediaSpec
  <1>1. Init => DmInit /\ GroupInit /\ MediaInit
    BY DEF Init
  <1>2. [Next]_vars => [DmNext]_dmVars /\ [GroupNext]_groupVars /\ [MediaNext]_mediaVars
    BY DEF Next, DirectMessage, GroupMessage, MediaMessage, vars
  <1> QED
    BY <1>1, <1>2, PTL DEF Spec, DmSpec, GroupSpec, MediaSpec

\* All of it holds of a client that sends messages of each kind.
THEOREM EncryptionHolds ==
  Spec => [](/\ AnyOrder /\ KeysUsedOnce /\ ChainsAdvance
             /\ MediaReadable /\ UploadFailsForReason /\ RowShowsItsMessage)
  BY EncryptionParts, MessagesInAnyOrder, MessageKeysOnce, SenderKeysAdvance, FilesReadable,
     FailsForReason, RowsShowTheirs, PTL
===============================================================================
