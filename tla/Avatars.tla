------------------------------ MODULE Avatars ------------------------------
(***************************************************************************)
(* Uploading an avatar: the request writes the file to the temporary disk  *)
(* and queues a job; a worker makes a variant of each size, stores all of  *)
(* them at once in the object store, writes their URLs to the user and     *)
(* removes the temporary file.                                             *)
(*                                                                         *)
(* An object's content is the upload it comes from.  A job is tried once;  *)
(* when its worker dies, BullMQ gives it to another one, once.  Processes  *)
(* share one temporary disk.                                               *)
(***************************************************************************)
EXTENDS Integers, FiniteSets

CONSTANTS
    Uploads,
    Users,
    Names,     \* original file names
    Variants,  \* suffixes of the sizes
    Last,      \* the last of the sizes
    Workers,   \* number of workers, each with one job at a time
    Nobody     \* no upload

ASSUME VariantsAssumption == Last \in Variants
ASSUME WorkersAssumption == Workers \in Nat
ASSUME NobodyAssumption == Nobody \notin Uploads

VARIABLES
    dotted,    \* the public URL of the store contains a dot
    upload,    \* upload[u]: what u uploads and how far it got
    temp,      \* temporary files
    inflight,  \* inflight[u]: variants that are being stored
    objects,   \* objects[k]: the upload stored under key k
    avatars,   \* avatars[x]: from suffix to key, the Map avatars.upload of user x
    saved      \* saved[x]: the upload that wrote it last

avatarVars == <<dotted, upload, temp, inflight, objects, avatars, saved>>

\* stalled: its worker died once; saved: it has written its user's avatars.
UploadStates ==
    [pc : {"idle", "file", "queued", "resize", "store", "clean", "complete",
           "done", "failed"},
     user : Users, name : Names, stalled : BOOLEAN, saved : BOOLEAN]

\* Mutant of TempFile: generateUniqueTempFilename without the uuid.
TempFileByName(u) == <<upload[u].user, upload[u].name>>

\* generateUniqueTempFilename
TempFile(u) == <<u>>

\* Mutant of FileKey: the hash of the user alone.
FileKeyOfUser(u, v) == <<upload[u].user, CHOOSE n \in Names : TRUE, v>>

\* Mutant of FileKey: without the suffix.
FileKeyWithoutSuffix(u, v) == <<upload[u].user, upload[u].name>>

\* generateFileKey, generateStorageKey: md5 of user and original file name, with
\* the suffix of the size.
FileKey(u, v) == <<upload[u].user, upload[u].name, v>>

Keys == Users \X Names \X Variants

\* The URL is parsed from its first _ to its first dot: if that is one of the
\* host's, nothing is left.
Suffix(v) == IF dotted THEN "" ELSE v

\* Object.assign of {suffix: url}, in the order of the sizes.
UploadedImages(u) ==
    [s \in {Suffix(v) : v \in Variants} |-> FileKey(u, IF dotted THEN Last ELSE s)]

AvatarTypeOK ==
    /\ dotted \in BOOLEAN
    /\ upload \in [Uploads -> UploadStates]
    /\ temp \subseteq {<<u>> : u \in Uploads}
    /\ inflight \in [Uploads -> SUBSET Variants]
    /\ objects \in [Keys -> Uploads \cup {Nobody}]
    /\ \A x \in Users : /\ DOMAIN avatars[x] \subseteq Variants \cup {""}
                        /\ \A s \in DOMAIN avatars[x] : avatars[x][s] \in Keys
    /\ saved \in [Users -> Uploads \cup {Nobody}]

AvatarInit ==
    /\ dotted \in BOOLEAN
    /\ upload \in [Uploads -> [pc : {"idle"}, user : Users, name : Names,
                                stalled : {FALSE}, saved : {FALSE}]]
    /\ temp = {}
    /\ inflight = [u \in Uploads |-> {}]
    /\ objects = [k \in Keys |-> Nobody]
    /\ avatars = [x \in Users |-> <<>>]
    /\ saved = [x \in Users |-> Nobody]

Goto(u, p) == upload' = [upload EXCEPT ![u].pc = p]

----------------------------------------------------------------------------
(* The request *)

\* uploadFileToTemporarilyDisk
WriteTempFile(u) ==
    /\ upload[u].pc = "idle"
    /\ Goto(u, "file")
    /\ temp' = temp \cup {TempFile(u)}
    /\ UNCHANGED <<dotted, inflight, objects, avatars, saved>>

\* The size is read and the job added: 202.
AddAvatarJob(u) ==
    /\ upload[u].pc = "file"
    /\ Goto(u, "queued")
    /\ UNCHANGED <<dotted, temp, inflight, objects, avatars, saved>>

----------------------------------------------------------------------------
(* The job *)

Working == {u \in Uploads : upload[u].pc \in {"resize", "store", "clean", "complete"}}

Take(u) ==
    /\ upload[u].pc = "queued"
    /\ Cardinality(Working) < Workers
    /\ Goto(u, "resize")
    /\ UNCHANGED <<dotted, temp, inflight, objects, avatars, saved>>

\* generateWebpVariantImages of every size, then all uploads are started.
Resize(u) ==
    /\ upload[u].pc = "resize"
    /\ TempFile(u) \in temp
    /\ Goto(u, "store")
    /\ inflight' = [inflight EXCEPT ![u] = Variants]
    /\ UNCHANGED <<dotted, temp, objects, avatars, saved>>

\* putObject: also when another one of its job has failed already.
Put(u, v) ==
    /\ v \in inflight[u]
    /\ inflight' = [inflight EXCEPT ![u] = @ \ {v}]
    /\ objects' = [objects EXCEPT ![FileKey(u, v)] = u]
    /\ UNCHANGED <<dotted, upload, temp, avatars, saved>>

PutFails(u, v) ==
    /\ v \in inflight[u]
    /\ inflight' = [inflight EXCEPT ![u] = @ \ {v}]
    /\ Goto(u, "failed")
    /\ UNCHANGED <<dotted, temp, objects, avatars, saved>>

\* Mutant of Stored: Promise.any, which waits for one.
StoredOne(u) == inflight[u] # Variants

\* Promise.all
Stored(u) == inflight[u] = {}

\* updateOne({$set: {'avatars.upload': ..}})
SaveAvatars(u) ==
    LET x == upload[u].user IN
    /\ upload[u].pc = "store"
    /\ Stored(u)
    /\ avatars' = [avatars EXCEPT ![x] = UploadedImages(u)]
    /\ saved' = [saved EXCEPT ![x] = u]
    /\ upload' = [upload EXCEPT ![u].pc = "clean", ![u].saved = TRUE]
    /\ UNCHANGED <<dotted, temp, inflight, objects>>

\* cleanupTempFile: unlink may fail, which the job does not notice.
CleanupTempFile(u) ==
    /\ upload[u].pc = "clean"
    /\ temp' \in {temp \ {TempFile(u)}, temp}
    /\ Goto(u, "complete")
    /\ UNCHANGED <<dotted, inflight, objects, avatars, saved>>

Complete(u) ==
    /\ upload[u].pc = "complete"
    /\ Goto(u, "done")
    /\ UNCHANGED <<dotted, temp, inflight, objects, avatars, saved>>

\* Disk, sharp, Redis or MongoDB refuse: nothing is tried again or taken back.
FailUpload(u) ==
    /\ \/ upload[u].pc \in {"file", "resize"}
       \/ upload[u].pc = "store" /\ inflight[u] = {}
    /\ Goto(u, "failed")
    /\ UNCHANGED <<dotted, temp, inflight, objects, avatars, saved>>

\* The worker dies, and with it what it was storing.  The second time the job
\* fails.
Stall(u) ==
    /\ u \in Working
    /\ inflight' = [inflight EXCEPT ![u] = {}]
    /\ upload' = [upload EXCEPT ![u].stalled = TRUE,
                                ![u].pc = IF upload[u].stalled THEN "failed" ELSE "queued"]
    /\ UNCHANGED <<dotted, temp, objects, avatars, saved>>

----------------------------------------------------------------------------
Process(u) ==
    \/ Take(u) \/ Resize(u) \/ SaveAvatars(u) \/ CleanupTempFile(u) \/ Complete(u)
    \/ \E v \in Variants : Put(u, v) \/ PutFails(u, v)

AvatarNext ==
    \E u \in Uploads : \/ WriteTempFile(u) \/ AddAvatarJob(u)
                       \/ Process(u) \/ FailUpload(u) \/ Stall(u)

AvatarSpec == AvatarInit /\ [][AvatarNext]_avatarVars

----------------------------------------------------------------------------
(* Properties *)

\* What a user is shown is there: every URL was stored before it was written to
\* the user; and, unless the store's URL has a dot, all sizes are there or none.
AvatarsServed ==
    \A x \in Users : /\ \A s \in DOMAIN avatars[x] : objects[avatars[x][s]] # Nobody
                     /\ ~dotted => DOMAIN avatars[x] \in {{}, Variants}

\* Whatever overlaps, fails halfway or is done again: a user's URLs show what was
\* saved last, or an upload of the user with the same file name, which has the
\* same keys and may have replaced some sizes of it.
ShowsWhatWasSaved ==
    \A x \in Users : \A s \in DOMAIN avatars[x] :
        LET u == objects[avatars[x][s]] IN
        \/ u = saved[x]
        \/ u # Nobody /\ upload[u].user = x /\ upload[u].name = upload[saved[x]].name

\* Whatever other uploads do, a temporary file is there until its own job has
\* saved the avatars made of it; a job misses its file only if it is done again
\* after that.
TempFilesMatch ==
    \A u \in Uploads : upload[u].pc # "idle" /\ TempFile(u) \notin temp =>
        /\ upload[u].saved
        /\ upload[u].pc \in {"file", "queued", "resize", "store", "clean"}
             => upload[u].stalled
============================================================================
