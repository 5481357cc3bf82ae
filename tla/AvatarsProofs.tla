---------------------------- MODULE AvatarsProofs ----------------------------
(***************************************************************************)
(* Theorems about Avatars, for any number of uploads, users, file names,    *)
(* sizes and workers.                                                      *)
(***************************************************************************)
EXTENDS Avatars, TLAPS

\* avatars and its types.
MapInv == avatars = [x \in Users |-> avatars[x]]

\* What is being stored belongs to a job that stores, or has failed meanwhile; who
\* cleans up has saved its user's avatars.
JobInv == \A u \in Uploads :
    /\ inflight[u] # {} => upload[u].pc \in {"store", "failed"}
    /\ upload[u].pc \in {"clean", "complete", "done"} => upload[u].saved

\* A variant is in the store from the moment it was put there.
PutInv == \A u \in Uploads : \A v \in Variants :
    upload[u].pc = "store" /\ v \notin inflight[u] => objects[FileKey(u, v)] # Nobody

\* Whoever stored an object has its user and its file name.
KeyInv == \A x \in Users, n \in Names, v \in Variants :
    LET u == objects[<<x, n, v>>] IN
    u # Nobody => upload[u].user = x /\ upload[u].name = n

\* The URLs of a user are keys of the upload that was saved last.
SavedInv == \A x \in Users :
    /\ ~dotted => DOMAIN avatars[x] \in {{}, Variants}
    /\ \A s \in DOMAIN avatars[x] :
          /\ saved[x] \in Uploads
          /\ upload[saved[x]].user = x
          /\ \E v \in Variants : avatars[x][s] = <<x, upload[saved[x]].name, v>>
          /\ objects[avatars[x][s]] # Nobody

AvatarInv == AvatarTypeOK /\ MapInv /\ JobInv /\ PutInv /\ KeyInv /\ SavedInv /\ TempFilesMatch

----------------------------------------------------------------------------
LEMMA AvatarInitInv == AvatarInit => AvatarInv
<1> USE VariantsAssumption, NobodyAssumption
<1> SUFFICES ASSUME AvatarInit PROVE AvatarInv
  OBVIOUS
<1>1. upload \in [Uploads -> UploadStates]
  BY DEF AvatarInit, UploadStates
<1>2. \A x \in Users : DOMAIN avatars[x] = {}
  BY DEF AvatarInit
<1>3. AvatarTypeOK
  BY <1>1, <1>2 DEF AvatarInit, AvatarTypeOK, Keys
<1>4. MapInv /\ JobInv /\ PutInv /\ TempFilesMatch
  BY DEF AvatarInit, MapInv, JobInv, PutInv, TempFilesMatch
<1>5. KeyInv
  BY DEF AvatarInit, KeyInv, Keys
<1>6. SavedInv
  BY <1>2 DEF SavedInv
<1> QED BY <1>3, <1>4, <1>5, <1>6 DEF AvatarInv

\* The keys of an upload, and the URLs that it writes.
LEMMA UserType ==
    ASSUME AvatarTypeOK, NEW u \in Uploads
    PROVE  upload[u].user \in Users /\ upload[u].name \in Names
BY DEF AvatarTypeOK, UploadStates

LEMMA KeyType ==
    ASSUME AvatarTypeOK, NEW u \in Uploads, NEW v \in Variants
    PROVE  FileKey(u, v) \in Keys
BY UserType DEF FileKey, Keys

LEMMA ImagesType ==
    ASSUME AvatarTypeOK, NEW u \in Uploads
    PROVE  /\ DOMAIN UploadedImages(u) \subseteq Variants \cup {""}
           /\ ~dotted => DOMAIN UploadedImages(u) = Variants
           /\ \A s \in DOMAIN UploadedImages(u) :
                 \E v \in Variants : UploadedImages(u)[s] = FileKey(u, v)
<1> USE VariantsAssumption
<1>1. DOMAIN UploadedImages(u) = {Suffix(v) : v \in Variants}
  BY DEF UploadedImages
<1>2. \A s \in {Suffix(v) : v \in Variants} :
         UploadedImages(u)[s] = FileKey(u, IF dotted THEN Last ELSE s)
  BY DEF UploadedImages
<1>3. CASE dotted
  BY <1>1, <1>2, <1>3 DEF Suffix
<1>4. CASE ~dotted
  <2>1. {Suffix(v) : v \in Variants} = Variants
    BY <1>4 DEF Suffix
  <2> QED BY <1>1, <1>2, <1>4, <2>1
<1> QED BY <1>3, <1>4

----------------------------------------------------------------------------
PCs == {"idle", "file", "queued", "resize", "store", "clean", "complete", "done", "failed"}

\* u goes to p, and nothing else of any upload changes but its two flags.
Moved(u, p, stalled, saves) ==
    /\ upload' \in [Uploads -> UploadStates]
    /\ \A w \in Uploads :
          /\ upload'[w].user = upload[w].user /\ upload'[w].name = upload[w].name
          /\ upload'[w].pc = IF w = u THEN p ELSE upload[w].pc
          /\ upload'[w].stalled = IF w = u THEN stalled ELSE upload[w].stalled
          /\ upload'[w].saved = IF w = u THEN saves ELSE upload[w].saved

LEMMA GotoMoves ==
    ASSUME AvatarTypeOK, NEW u \in Uploads, NEW p \in PCs, Goto(u, p)
    PROVE  Moved(u, p, upload[u].stalled, upload[u].saved)
<1>1. upload[u] \in UploadStates
  BY DEF AvatarTypeOK
<1>2. [upload[u] EXCEPT !.pc = p] \in UploadStates
  BY <1>1 DEF UploadStates, PCs
<1>3. upload' = [w \in Uploads |-> IF w = u THEN [upload[u] EXCEPT !.pc = p] ELSE upload[w]]
  BY DEF Goto, AvatarTypeOK
<1>4. upload' \in [Uploads -> UploadStates]
  BY <1>2, <1>3 DEF AvatarTypeOK
<1> QED BY <1>1, <1>3, <1>4 DEF Moved, UploadStates

LEMMA SaveMoves ==
    ASSUME AvatarTypeOK, NEW u \in Uploads, SaveAvatars(u)
    PROVE  Moved(u, "clean", upload[u].stalled, TRUE)
<1> DEFINE to == [upload[u] EXCEPT !.pc = "clean", !.saved = TRUE]
<1>1. upload[u] \in UploadStates
  BY DEF AvatarTypeOK
<1>2. to \in UploadStates
  BY <1>1 DEF UploadStates
<1>3. upload' = [w \in Uploads |-> IF w = u THEN to ELSE upload[w]]
  BY DEF SaveAvatars, AvatarTypeOK
<1>4. upload' \in [Uploads -> UploadStates]
  BY <1>2, <1>3 DEF AvatarTypeOK
<1> QED BY <1>1, <1>3, <1>4 DEF Moved, UploadStates

LEMMA StallMoves ==
    ASSUME AvatarTypeOK, NEW u \in Uploads, Stall(u)
    PROVE  Moved(u, IF upload[u].stalled THEN "failed" ELSE "queued", TRUE, upload[u].saved)
<1> DEFINE p == IF upload[u].stalled THEN "failed" ELSE "queued"
           to == [upload[u] EXCEPT !.stalled = TRUE, !.pc = p]
<1>1. upload[u] \in UploadStates
  BY DEF AvatarTypeOK
<1>2. to \in UploadStates
  BY <1>1 DEF UploadStates
<1>3. upload' = [w \in Uploads |-> IF w = u THEN to ELSE upload[w]]
  BY DEF Stall, AvatarTypeOK
<1>4. upload' \in [Uploads -> UploadStates]
  BY <1>2, <1>3 DEF AvatarTypeOK
<1> QED BY <1>1, <1>3, <1>4 DEF Moved, UploadStates

\* Where a step leads.
Goes(u, p) == Moved(u, p, upload[u].stalled, upload[u].saved)

LEMMA WhereTo ==
    ASSUME AvatarTypeOK, NEW u \in Uploads
    PROVE  /\ WriteTempFile(u) => Goes(u, "file")
           /\ AddAvatarJob(u) => Goes(u, "queued")
           /\ Take(u) => Goes(u, "resize")
           /\ Resize(u) => Goes(u, "store")
           /\ \A v \in Variants : PutFails(u, v) => Goes(u, "failed")
           /\ CleanupTempFile(u) => Goes(u, "complete")
           /\ Complete(u) => Goes(u, "done")
           /\ FailUpload(u) => Goes(u, "failed")
<1>1. \A p \in PCs : Goto(u, p) => Goes(u, p)
  BY GotoMoves DEF Goes
<1> QED BY <1>1 DEF PCs, WriteTempFile, AddAvatarJob, Take, Resize, PutFails, CleanupTempFile,
                    Complete, FailUpload

----------------------------------------------------------------------------
LEMMA AvatarTypeStep ==
    ASSUME AvatarTypeOK, MapInv, [AvatarNext]_avatarVars
    PROVE  AvatarTypeOK' /\ MapInv'
<1> DEFINE Uploaded == upload' \in [Uploads -> UploadStates]
           Shown == avatars' = avatars
<1>0. ASSUME Uploaded, Shown, temp' \subseteq {<<u>> : u \in Uploads},
             inflight' \in [Uploads -> SUBSET Variants],
             objects' \in [Keys -> Uploads \cup {Nobody}], saved' = saved, dotted' = dotted
      PROVE  AvatarTypeOK' /\ MapInv'
  BY <1>0 DEF AvatarTypeOK, MapInv
<1>1. ASSUME NEW u \in Uploads, WriteTempFile(u) PROVE AvatarTypeOK' /\ MapInv'
  <2>1. Uploaded
    BY <1>1, WhereTo DEF Goes, Moved
  <2> QED BY <1>0, <1>1, <2>1 DEF WriteTempFile, TempFile, AvatarTypeOK
<1>2. ASSUME NEW u \in Uploads, AddAvatarJob(u) \/ Take(u) \/ CleanupTempFile(u)
                                   \/ Complete(u) \/ FailUpload(u)
      PROVE  AvatarTypeOK' /\ MapInv'
  <2>1. Uploaded
    BY <1>2, WhereTo DEF Goes, Moved
  <2> QED BY <1>0, <1>2, <2>1 DEF AddAvatarJob, Take, CleanupTempFile, Complete, FailUpload,
                                  AvatarTypeOK
<1>3. ASSUME NEW u \in Uploads, Resize(u) PROVE AvatarTypeOK' /\ MapInv'
  <2>1. Uploaded
    BY <1>3, WhereTo DEF Goes, Moved
  <2> QED BY <1>0, <1>3, <2>1 DEF Resize, AvatarTypeOK
<1>4. ASSUME NEW u \in Uploads, NEW v \in Variants, PutFails(u, v)
      PROVE  AvatarTypeOK' /\ MapInv'
  <2>1. Uploaded
    BY <1>4, WhereTo DEF Goes, Moved
  <2> QED BY <1>0, <1>4, <2>1 DEF PutFails, AvatarTypeOK
<1>5. ASSUME NEW u \in Uploads, NEW v \in Variants, Put(u, v)
      PROVE  AvatarTypeOK' /\ MapInv'
  <2>1. FileKey(u, v) \in Keys
    BY KeyType
  <2> QED BY <1>0, <1>5, <2>1 DEF Put, AvatarTypeOK
<1>6. ASSUME NEW u \in Uploads, Stall(u) PROVE AvatarTypeOK' /\ MapInv'
  <2>1. Uploaded
    BY <1>6, StallMoves DEF Moved
  <2> QED BY <1>0, <1>6, <2>1 DEF Stall, AvatarTypeOK
<1>7. ASSUME NEW u \in Uploads, SaveAvatars(u) PROVE AvatarTypeOK' /\ MapInv'
  <2> DEFINE x == upload[u].user
             I == UploadedImages(u)
  <2>1. x \in Users
    BY UserType
  <2>2. avatars' = [y \in Users |-> IF y = x THEN I ELSE avatars[y]]
    BY <1>7, <2>1 DEF SaveAvatars, MapInv
  <2>3. DOMAIN I \subseteq Variants \cup {""} /\ \A s \in DOMAIN I : I[s] \in Keys
    <3>1. \A v \in Variants : FileKey(u, v) \in Keys
      BY KeyType
    <3> QED BY <3>1, ImagesType
  <2>4. ASSUME NEW y \in Users
        PROVE  /\ DOMAIN avatars'[y] \subseteq Variants \cup {""}
               /\ \A s \in DOMAIN avatars'[y] : avatars'[y][s] \in Keys
    <3> HIDE DEF I, x
    <3>1. CASE y = x
      BY <3>1, <2>2, <2>3
    <3>2. CASE y # x
      BY <3>2, <2>2 DEF AvatarTypeOK
    <3> QED BY <3>1, <3>2
  <2>5. Uploaded
    BY <1>7, SaveMoves DEF Moved
  <2>6. saved' \in [Users -> Uploads \cup {Nobody}]
    BY <1>7, <2>1 DEF SaveAvatars, AvatarTypeOK
  <2>7. MapInv'
    BY <2>2 DEF MapInv
  <2>8. UNCHANGED <<dotted, temp, inflight, objects>>
    BY <1>7 DEF SaveAvatars
  <2> QED BY <2>4, <2>5, <2>6, <2>7, <2>8 DEF AvatarTypeOK
<1>8. CASE UNCHANGED avatarVars
  BY <1>0, <1>8 DEF avatarVars, AvatarTypeOK
<1> QED BY <1>1, <1>2, <1>3, <1>4, <1>5, <1>6, <1>7, <1>8 DEF AvatarNext, Process

----------------------------------------------------------------------------
\* A file is removed only by its own job, after its avatars were saved.
LEMMA TempStep ==
    ASSUME AvatarTypeOK, JobInv, TempFilesMatch, [AvatarNext]_avatarVars
    PROVE  JobInv' /\ TempFilesMatch'
<1> USE DEF JobInv, TempFilesMatch, TempFile
<1> DEFINE Inv == JobInv /\ TempFilesMatch
<1>0. \A u \in Uploads : inflight[u] \subseteq Variants
  BY DEF AvatarTypeOK
<1>1. ASSUME NEW u \in Uploads, WriteTempFile(u) PROVE Inv'
  <2>1. Goes(u, "file")
    BY <1>1, WhereTo
  <2> QED BY <1>1, <2>1 DEF WriteTempFile, Goes, Moved
<1>2. ASSUME NEW u \in Uploads, AddAvatarJob(u) PROVE Inv'
  <2>1. Goes(u, "queued")
    BY <1>2, WhereTo
  <2> QED BY <1>2, <2>1 DEF AddAvatarJob, Goes, Moved
<1>3. ASSUME NEW u \in Uploads, Take(u) PROVE Inv'
  <2>1. Goes(u, "resize")
    BY <1>3, WhereTo
  <2> QED BY <1>3, <2>1 DEF Take, Goes, Moved
<1>4. ASSUME NEW u \in Uploads, Resize(u) PROVE Inv'
  <2>1. Goes(u, "store")
    BY <1>4, WhereTo
  <2>2. \A w \in Uploads : inflight'[w] = IF w = u THEN Variants ELSE inflight[w]
    BY <1>4 DEF Resize, AvatarTypeOK
  <2> QED BY <1>4, <2>1, <2>2 DEF Resize, Goes, Moved
<1>5. ASSUME NEW u \in Uploads, NEW v \in Variants, Put(u, v) \/ PutFails(u, v) PROVE Inv'
  <2>1. \A w \in Uploads : inflight'[w] \subseteq inflight[w]
    BY <1>5 DEF Put, PutFails, AvatarTypeOK
  <2>2. CASE Put(u, v)
    BY <2>1, <2>2 DEF Put
  <2>3. CASE PutFails(u, v)
    <3>1. Goes(u, "failed")
      BY <2>3, WhereTo
    <3> QED BY <2>1, <2>3, <3>1 DEF PutFails, Goes, Moved
  <2> QED BY <1>5, <2>2, <2>3
<1>6. ASSUME NEW u \in Uploads, SaveAvatars(u) PROVE Inv'
  <2>1. Moved(u, "clean", upload[u].stalled, TRUE)
    BY <1>6, SaveMoves
  <2> QED BY <1>6, <2>1 DEF SaveAvatars, Stored, Moved
<1>7. ASSUME NEW u \in Uploads, CleanupTempFile(u) PROVE Inv'
  <2>1. Goes(u, "complete")
    BY <1>7, WhereTo
  <2> QED BY <1>7, <2>1 DEF CleanupTempFile, Goes, Moved
<1>8. ASSUME NEW u \in Uploads, Complete(u) PROVE Inv'
  <2>1. Goes(u, "done")
    BY <1>8, WhereTo
  <2> QED BY <1>8, <2>1 DEF Complete, Goes, Moved
<1>9. ASSUME NEW u \in Uploads, FailUpload(u) PROVE Inv'
  <2>1. Goes(u, "failed")
    BY <1>9, WhereTo
  <2> QED BY <1>9, <2>1 DEF FailUpload, Goes, Moved
<1>10. ASSUME NEW u \in Uploads, Stall(u) PROVE Inv'
  <2>1. Moved(u, IF upload[u].stalled THEN "failed" ELSE "queued", TRUE, upload[u].saved)
    BY <1>10, StallMoves
  <2>2. \A w \in Uploads : inflight'[w] = IF w = u THEN {} ELSE inflight[w]
    BY <1>10 DEF Stall, AvatarTypeOK
  <2>3. upload[u].pc \in {"resize", "store", "clean", "complete"} /\ temp' = temp
    BY <1>10 DEF Stall, Working
  <2> QED BY <2>1, <2>2, <2>3 DEF Moved
<1>11. CASE UNCHANGED avatarVars
  BY <1>11 DEF avatarVars
<1> QED BY <1>1, <1>2, <1>3, <1>4, <1>5, <1>6, <1>7, <1>8, <1>9, <1>10, <1>11
        DEF AvatarNext, Process

----------------------------------------------------------------------------
\* The user and the file name of an upload stay; what was stored is only replaced
\* by an upload of the same user and name.
LEMMA ObjectStep ==
    ASSUME AvatarTypeOK, MapInv, JobInv, PutInv, KeyInv, SavedInv, [AvatarNext]_avatarVars
    PROVE  PutInv' /\ KeyInv' /\ SavedInv'
<1> USE NobodyAssumption
<1> DEFINE Kept == \A w \in Uploads : upload'[w].user = upload[w].user
                                      /\ upload'[w].name = upload[w].name
           Still == objects' = objects /\ avatars' = avatars /\ saved' = saved
                    /\ dotted' = dotted
           Inv == PutInv /\ KeyInv /\ SavedInv
<1>0. ASSUME NEW x \in Users, NEW n \in Names, NEW v \in Variants
      PROVE  <<x, n, v>> \in Keys /\ objects[<<x, n, v>>] \in Uploads \cup {Nobody}
  <2>1. <<x, n, v>> \in Keys
    BY DEF Keys
  <2> QED BY <2>1 DEF AvatarTypeOK
<1>1. ASSUME Kept, Still, PutInv' PROVE Inv'
  <2>1. KeyInv'
    BY <1>0, <1>1 DEF KeyInv
  <2>2. SavedInv'
    BY <1>1 DEF SavedInv
  <2> QED BY <1>1, <2>1, <2>2
<1>2. ASSUME NEW u \in Uploads, NEW p \in PCs \ {"store"}, Goes(u, p), Still,
             \A w \in Uploads : w # u => inflight'[w] = inflight[w]
      PROVE  Inv'
  <2>1. Kept
    BY <1>2 DEF Goes, Moved
  <2>2. PutInv'
    BY <1>2 DEF Goes, Moved, PutInv, FileKey
  <2> QED BY <1>1, <1>2, <2>1, <2>2
<1>3. ASSUME NEW u \in Uploads,
             WriteTempFile(u) \/ AddAvatarJob(u) \/ Take(u) \/ CleanupTempFile(u)
               \/ Complete(u) \/ FailUpload(u)
      PROVE  Inv'
  <2>1. PICK p \in PCs \ {"store"} : Goes(u, p)
    BY <1>3, WhereTo DEF PCs
  <2>2. Still /\ inflight' = inflight
    BY <1>3 DEF WriteTempFile, AddAvatarJob, Take, CleanupTempFile, Complete, FailUpload
  <2> QED BY <1>2, <2>1, <2>2
<1>4. ASSUME NEW u \in Uploads, Resize(u) \/ (\E v \in Variants : PutFails(u, v)) \/ Stall(u)
      PROVE  Inv'
  <2>1. CASE Resize(u)
    <3>1. Goes(u, "store") /\ Kept /\ Still
      BY <2>1, WhereTo DEF Resize, Goes, Moved
    <3>2. \A w \in Uploads : inflight'[w] = IF w = u THEN Variants ELSE inflight[w]
      BY <2>1 DEF Resize, AvatarTypeOK
    <3>3. PutInv'
      BY <3>1, <3>2 DEF Goes, Moved, PutInv, FileKey
    <3> QED BY <1>1, <3>1, <3>3
  <2>2. ASSUME NEW v \in Variants, PutFails(u, v) PROVE Inv'
    <3>1. Goes(u, "failed") /\ Still /\ \A w \in Uploads : w # u => inflight'[w] = inflight[w]
      BY <2>2, WhereTo DEF PutFails, AvatarTypeOK
    <3> QED BY <1>2, <3>1 DEF PCs
  <2>3. CASE Stall(u)
    <3>1. Moved(u, IF upload[u].stalled THEN "failed" ELSE "queued", TRUE, upload[u].saved)
      BY <2>3, StallMoves
    <3>2. Still /\ \A w \in Uploads : w # u => inflight'[w] = inflight[w]
      BY <2>3 DEF Stall, AvatarTypeOK
    <3>3. Kept /\ PutInv'
      BY <3>1, <3>2 DEF Moved, PutInv, FileKey
    <3> QED BY <1>1, <3>2, <3>3
  <2> QED BY <1>4, <2>1, <2>2, <2>3
<1>5. ASSUME NEW u \in Uploads, NEW v \in Variants, Put(u, v) PROVE Inv'
  <2> DEFINE k == FileKey(u, v)
  <2>1. k \in Keys /\ k = <<upload[u].user, upload[u].name, v>>
    BY KeyType DEF FileKey
  <2>2. \A j \in Keys : objects'[j] = IF j = k THEN u ELSE objects[j]
    BY <1>5, <2>1 DEF Put, AvatarTypeOK
  <2>3. upload' = upload /\ avatars' = avatars /\ saved' = saved /\ dotted' = dotted
        /\ inflight' = [inflight EXCEPT ![u] = @ \ {v}]
    BY <1>5 DEF Put
  <2> HIDE DEF k
  <2>4. PutInv'
    <3> SUFFICES ASSUME NEW w \in Uploads, NEW z \in Variants,
                        upload[w].pc = "store", z \notin inflight'[w]
                 PROVE  objects'[FileKey(w, z)] # Nobody
      BY <2>3 DEF PutInv, FileKey
    <3>1. FileKey(w, z) \in Keys
      BY KeyType
    <3>2. CASE w = u /\ z = v
      BY <3>1, <3>2, <2>2 DEF k
    <3>3. CASE ~(w = u /\ z = v)
      <4>1. z \notin inflight[w]
        BY <3>3, <2>3 DEF AvatarTypeOK
      <4>2. objects[FileKey(w, z)] # Nobody
        BY <4>1 DEF PutInv
      <4> QED BY <4>2, <3>1, <2>2
    <3> QED BY <3>2, <3>3
  <2>5. KeyInv'
    <3> SUFFICES ASSUME NEW x \in Users, NEW n \in Names, NEW z \in Variants,
                        objects'[<<x, n, z>>] # Nobody
                 PROVE  /\ upload[objects'[<<x, n, z>>]].user = x
                        /\ upload[objects'[<<x, n, z>>]].name = n
      BY <2>3 DEF KeyInv
    <3>1. <<x, n, z>> \in Keys
      BY DEF Keys
    <3>2. CASE <<x, n, z>> = k
      BY <3>1, <3>2, <2>1, <2>2
    <3>3. CASE <<x, n, z>> # k
      BY <3>1, <3>3, <2>2 DEF KeyInv
    <3> QED BY <3>2, <3>3
  <2>6. SavedInv'
    <3>1. ASSUME NEW x \in Users, NEW s \in DOMAIN avatars[x]
          PROVE  objects'[avatars[x][s]] # Nobody
      <4>1. avatars[x][s] \in Keys /\ objects[avatars[x][s]] # Nobody
        BY DEF SavedInv, AvatarTypeOK
      <4> QED BY <4>1, <2>2
    <3> QED BY <2>3, <3>1 DEF SavedInv
  <2> QED BY <2>4, <2>5, <2>6
<1>6. ASSUME NEW u \in Uploads, SaveAvatars(u) PROVE Inv'
  <2> DEFINE x == upload[u].user
             I == UploadedImages(u)
  <2>1. x \in Users
    BY UserType
  <2>2. /\ objects' = objects /\ dotted' = dotted /\ inflight' = inflight
        /\ inflight[u] = {} /\ upload[u].pc = "store"
        /\ saved' = [saved EXCEPT ![x] = u]
        /\ avatars' = [avatars EXCEPT ![x] = I]
    BY <1>6 DEF SaveAvatars, Stored
  <2>9. Moved(u, "clean", upload[u].stalled, TRUE) /\ Kept
    BY <1>6, SaveMoves DEF Moved
  <2>3. PutInv'
    BY <2>2, <2>9 DEF Moved, PutInv, FileKey
  <2>4. KeyInv'
    BY <1>0, <2>2, <2>9 DEF KeyInv
  <2>5. ASSUME NEW y \in Users
        PROVE  /\ ~dotted => DOMAIN avatars'[y] \in {{}, Variants}
               /\ \A s \in DOMAIN avatars'[y] :
                     /\ saved'[y] \in Uploads
                     /\ upload[saved'[y]].user = y
                     /\ \E v \in Variants :
                           avatars'[y][s] = <<y, upload[saved'[y]].name, v>>
                     /\ objects[avatars'[y][s]] # Nobody
    <3>1. CASE y = x
      <4>1. avatars'[y] = I /\ saved'[y] = u
        BY <3>1, <2>1, <2>2 DEF AvatarTypeOK, MapInv
      <4>2. \A v \in Variants : objects[FileKey(u, v)] # Nobody
                                /\ FileKey(u, v) = <<x, upload[u].name, v>>
        BY <2>2 DEF PutInv, FileKey
      <4>3. /\ ~dotted => DOMAIN I = Variants
            /\ \A s \in DOMAIN I : \E v \in Variants : I[s] = FileKey(u, v)
        BY ImagesType
      <4> HIDE DEF I
      <4> QED BY <3>1, <4>1, <4>2, <4>3
    <3>2. CASE y # x
      <4>1. avatars'[y] = avatars[y] /\ saved'[y] = saved[y]
        BY <3>2, <2>2 DEF AvatarTypeOK, MapInv
      <4> QED BY <4>1 DEF SavedInv
    <3> QED BY <3>1, <3>2
  <2>6. SavedInv'
    BY <2>2, <2>5, <2>9 DEF SavedInv
  <2> QED BY <2>3, <2>4, <2>6
<1>7. CASE UNCHANGED avatarVars
  BY <1>7 DEF avatarVars, PutInv, KeyInv, SavedInv, FileKey
<1> QED BY <1>2, <1>3, <1>4, <1>5, <1>6, <1>7 DEF AvatarNext, Process

----------------------------------------------------------------------------
LEMMA AvatarStep == AvatarInv /\ [AvatarNext]_avatarVars => AvatarInv'
BY AvatarTypeStep, TempStep, ObjectStep DEF AvatarInv

LEMMA AvatarInvariance == AvatarSpec => []AvatarInv
BY AvatarInitInv, AvatarStep, PTL DEF AvatarSpec

\* The upload of an avatar keeps the type of every variable, whatever fails or is
\* done again.
THEOREM AvatarTypeCorrect == AvatarSpec => []AvatarTypeOK
<1>1. AvatarInv => AvatarTypeOK
  BY DEF AvatarInv
<1> QED BY <1>1, AvatarInvariance, PTL

\* Whatever a user's avatars point to was stored before, and all sizes are there or
\* none, however many uploads overlap and whichever of their puts fail.
THEOREM AvatarsServedThm == AvatarSpec => []AvatarsServed
<1>1. AvatarInv => AvatarsServed
  BY DEF AvatarInv, SavedInv, AvatarsServed
<1> QED BY <1>1, AvatarInvariance, PTL

\* No upload of another user or of another file gets into the avatars of a user.
THEOREM ShowsWhatWasSavedThm == AvatarSpec => []ShowsWhatWasSaved
<1>1. ASSUME AvatarInv PROVE ShowsWhatWasSaved
  <2> SUFFICES ASSUME NEW x \in Users, NEW s \in DOMAIN avatars[x],
                      objects[avatars[x][s]] # saved[x]
               PROVE  LET u == objects[avatars[x][s]] IN
                      u # Nobody /\ upload[u].user = x /\ upload[u].name = upload[saved[x]].name
    BY DEF ShowsWhatWasSaved
  <2>1. AvatarTypeOK /\ KeyInv /\ SavedInv
    BY <1>1 DEF AvatarInv
  <2>2. /\ saved[x] \in Uploads /\ upload[saved[x]].user = x
        /\ objects[avatars[x][s]] # Nobody
    BY <2>1 DEF SavedInv
  <2>3. PICK v \in Variants : avatars[x][s] = <<x, upload[saved[x]].name, v>>
    BY <2>1 DEF SavedInv
  <2>4. upload[saved[x]].name \in Names
    BY <2>1, <2>2, UserType
  <2> QED BY <2>1, <2>2, <2>3, <2>4 DEF KeyInv
<1> QED BY <1>1, AvatarInvariance, PTL

\* However many uploads there are, a temporary file is removed by its own job only,
\* and not before the avatars made of it were saved.
THEOREM TempFilesMatchThm == AvatarSpec => []TempFilesMatch
<1>1. AvatarInv => TempFilesMatch
  BY DEF AvatarInv
<1> QED BY <1>1, AvatarInvariance, PTL
=============================================================================
