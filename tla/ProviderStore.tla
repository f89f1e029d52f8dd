----------------------------- MODULE ProviderStore -----------------------------
(***************************************************************************)
(* The content-addressed store of a deployment: the acquisition of pinned  *)
(* artifacts from an ordered list of mirrors under limits of attempts,     *)
(* bytes and time, the publication of blobs and of build records, the      *)
(* verification stamps that save hashing Debian archives, and the removal  *)
(* of what no retained build reaches.  The process may die between any two *)
(* steps, and a blob may be changed on disk.                               *)
(*                                                                         *)
(* Source: acquisition*.go, store.go, artifact_verification.go and         *)
(* reachability.go of internal/providerstore, build_lock_reachability.go   *)
(* of internal/deploy.  Every call holds the operation lock of the         *)
(* deployment, so one runs at a time.  A blob is known by its digest: its  *)
(* file holds those bytes ("good") or not ("bad", or "slipped" when they   *)
(* were changed between the link of the file and its stamp).  The          *)
(* manifests and the validation record of a build are one record.          *)
(***************************************************************************)
EXTENDS Naturals, FiniteSets

CONSTANTS
    Blobs,              \* artifacts, by digest
    Debs,               \* those with verification stamps
    Builds,             \* build locks
    Closure,            \* the blobs the record of a build names
    MirrorCount,        \* mirrors of a source
    AttemptsPerMirror,
    CoreMaxAttempts,    \* the highest limit of attempts a policy may set
    ArtifactSize,       \* the declared size
    MaxBytesTotal,      \* the limit of all bytes read
    MaxCalls,           \* calls of a behaviour
    MaxTampering        \* blobs changed on disk, crashes

ASSUME StoreBounds ==
    /\ Debs \subseteq Blobs /\ Closure \in [Builds -> SUBSET Blobs]
    /\ {MirrorCount, AttemptsPerMirror, CoreMaxAttempts} \subseteq Nat \ {0}
    /\ {ArtifactSize, MaxBytesTotal, MaxCalls, MaxTampering} \subseteq Nat
    /\ ArtifactSize < MaxBytesTotal

VARIABLES
    blob,        \* per blob, its file and the modification time of it
    stamp,       \* per blob, the modification time a stamp vouches for, or 0
    records,     \* the builds whose records are stored
    roots,       \* the builds the deployment retains
    scratch,     \* something lies in the temporary directory
    call,        \* the running call
    ticks,       \* modification times handed out
    calls,
    tampering

storeVars == <<blob, stamp, records, roots, scratch, call, ticks, calls, tampering>>

-----------------------------------------------------------------------------
(* State                                                                    *)

Absent == [file |-> "absent", mtime |-> 0]
File(content) == [file |-> content, mtime |-> ticks + 1]
Changed == {"bad", "slipped"}

NoCall == [op |-> "none"]
Returned == {"none", "acquired", "published", "exhausted", "attempts", "bytes", "time", "failed",
             "trusted", "verified", "pruned"}

\* BuildLockStoreClosure: the record is there and every artifact hashes right.
ClosureComplete(b) == b \in records /\ \A o \in Closure[b] : blob[o].file = "good"

StoreInit ==
    /\ blob = [o \in Blobs |-> Absent] /\ stamp = [o \in Blobs |-> 0]
    /\ records = {} /\ roots = {} /\ scratch = FALSE
    /\ call = NoCall /\ ticks = 0 /\ calls = 0 /\ tampering = 0

BeginCall == call.op \in Returned /\ calls < MaxCalls /\ calls' = calls + 1
GoOn(c) == call' = c /\ UNCHANGED <<calls, tampering>>

-----------------------------------------------------------------------------
(* Publication                                                              *)

\* publishArtifact: the bytes are written, hashed and synced beside the store.
WriteTemporary(o, onward) ==
    /\ scratch' = TRUE
    /\ call' = [op |-> "link", of |-> o, done |-> onward]
    /\ UNCHANGED <<blob, stamp, records, roots, ticks>>

PublishBlob ==
    /\ BeginCall
    /\ \E o \in Blobs : WriteTemporary(o, "published")
    /\ UNCHANGED tampering

\* The link never replaces; a blob that exists is hashed.  A temporary file
\* is removed on every return.
LinkBlob ==
    /\ call.op = "link"
    /\ LET o == call.of IN
       /\ blob' = IF blob[o].file = "absent" THEN [blob EXCEPT ![o] = File("good")] ELSE blob
       /\ ticks' = ticks + 1
       /\ scratch' = FALSE
       /\ GoOn(IF blob[o].file \in Changed THEN [op |-> "failed"]
             ELSE IF o \in Debs THEN [op |-> "stamp", of |-> o, done |-> call.done]
             ELSE [op |-> call.done, of |-> o])
    /\ UNCHANGED <<stamp, records, roots>>

\* recordArtifactVerification
StampPublished ==
    /\ call.op = "stamp"
    /\ stamp' = [stamp EXCEPT ![call.of] = blob[call.of].mtime]
    /\ GoOn([op |-> call.done, of |-> call.of])
    /\ UNCHANGED <<blob, records, roots, scratch, ticks>>

\* publishRecord: the records of a build are written after its artifacts.
PublishRecord ==
    /\ BeginCall
    /\ \E b \in Builds :
         /\ \A o \in Closure[b] : blob[o].file # "absent"
         /\ records' = records \cup {b}
    /\ call' = [op |-> "published"]
    /\ UNCHANGED <<blob, stamp, roots, scratch, ticks, tampering>>

-----------------------------------------------------------------------------
(* Acquisition                                                              *)

\* What a mirror serves: its size, and whether it starts with the artifact.
Bodies == {d \in [size : 0..(ArtifactSize + 2), right : BOOLEAN] :
              d.right => d.size >= ArtifactSize}

Least(a, b) == IF a < b THEN a ELSE b

\* A bug: the last attempt may have no room for the byte that shows that a
\* body is too long.
EnoughForBody(bytes) == MaxBytesTotal - bytes >= ArtifactSize

EnoughLeft(bytes) == MaxBytesTotal - bytes >= ArtifactSize + 1

ReadLimit(bytes) == Least(ArtifactSize + 1, MaxBytesTotal - bytes)

\* lookupCachedArtifact, then the attempts under the request's policy
AcquireArtifact ==
    /\ BeginCall
    /\ \E o \in Blobs, limit \in 1..CoreMaxAttempts :
         call' = CASE blob[o].file = "good" -> [op |-> "acquired", of |-> o]
                   [] blob[o].file \in Changed -> [op |-> "failed"]
                   [] OTHER -> [op |-> "attempt", of |-> o, mirror |-> 1, attempt |-> 1,
                                limit |-> limit, total |-> 0, bytes |-> 0, tried |-> {}]
    /\ UNCHANGED <<blob, stamp, records, roots, scratch, ticks, tampering>>

\* A bug: the limit of all attempts is looked at between mirrors only.
MayAttemptMirror == TRUE

MayAttempt == call.total < call.limit

\* The loops over mirrors and attempts are done, or a limit ends them.  The
\* last attempt of the last mirror may also be the last the policy allows: then
\* the limit is what is reported.
StopAcquiring ==
    /\ call.op = "attempt"
    /\ \/ call.mirror > MirrorCount /\ MayAttempt /\ call' = [call EXCEPT !.op = "exhausted"]
       \/ ~MayAttempt /\ call' = [call EXCEPT !.op = "attempts"]
       \/ /\ call.mirror <= MirrorCount /\ MayAttempt /\ ~EnoughLeft(call.bytes)
          /\ call' = [call EXCEPT !.op = "bytes"]
       \/ call.mirror <= MirrorCount /\ MayAttempt /\ call' = [call EXCEPT !.op = "time"]
    /\ UNCHANGED <<blob, stamp, records, roots, scratch, ticks, calls, tampering>>

\* A bug: the attempts of the next mirror continue the count of this one.
TriedOnce(read) ==
    [call EXCEPT !.total = @ + 1, !.bytes = @ + read,
                 !.tried = @ \cup {<<call.mirror, call.attempt>>},
                 !.attempt = @ + 1,
                 !.mirror = IF call.attempt >= AttemptsPerMirror THEN @ + 1 ELSE @]

\* The failed attempt is recorded; then the next attempt of this mirror or the
\* first of the next one.
TriedAgain(read) ==
    [call EXCEPT !.total = @ + 1, !.bytes = @ + read,
                 !.tried = @ \cup {<<call.mirror, call.attempt>>},
                 !.attempt = IF @ = AttemptsPerMirror THEN 1 ELSE @ + 1,
                 !.mirror = IF call.attempt = AttemptsPerMirror THEN @ + 1 ELSE @]

\* A failed attempt that cannot be recorded ends the acquisition.
AttemptFailed(read) == call' \in {TriedAgain(read), [op |-> "failed"]}

CanAttempt == call.mirror <= MirrorCount /\ MayAttempt /\ EnoughLeft(call.bytes)

\* The request is refused or fails on the way: a destination or a redirect out
\* of bounds, no connection, a status, a broken or late transfer.
TransportFails ==
    /\ call.op = "attempt" /\ CanAttempt
    /\ \E read \in 0..ReadLimit(call.bytes) : AttemptFailed(read)
    /\ UNCHANGED <<blob, stamp, records, roots, scratch, ticks, calls, tampering>>

\* acquireAttempt reads a body of the wrong size or of the wrong bytes ...
BodyRefused ==
    /\ call.op = "attempt" /\ CanAttempt
    /\ \E body \in Bodies :
         /\ Least(body.size, ReadLimit(call.bytes)) # ArtifactSize \/ ~body.right
         /\ AttemptFailed(Least(body.size, ReadLimit(call.bytes)))
    /\ UNCHANGED <<blob, stamp, records, roots, scratch, ticks, calls, tampering>>

\* ... or reads the declared size, with the declared digest; the staged bytes
\* are published, or the store fails.
AttemptSucceeds ==
    /\ call.op = "attempt" /\ CanAttempt
    /\ \E body \in Bodies :
         /\ Least(body.size, ReadLimit(call.bytes)) = ArtifactSize /\ body.right
         /\ \/ /\ scratch' = TRUE
               /\ call' = [op |-> "link", of |-> call.of, done |-> "acquired", size |-> body.size]
            \/ call' = [op |-> "failed"] /\ UNCHANGED scratch
    /\ UNCHANGED <<blob, stamp, records, roots, ticks, calls, tampering>>

-----------------------------------------------------------------------------
(* Cached verification                                                      *)

\* VerifyCachedDeb: a stamp with the modification time of the file is enough.
VerifyCachedDeb ==
    /\ BeginCall
    /\ \E o \in Debs :
         /\ blob[o].file # "absent"
         /\ call' = IF stamp[o] = blob[o].mtime THEN [op |-> "trusted", of |-> o]
                    ELSE [op |-> "hash", of |-> o, seen |-> blob[o].mtime]
    /\ UNCHANGED <<blob, stamp, records, roots, scratch, ticks, tampering>>

\* A bug: an archive that is not what it should be is waited for.
HashGoodDeb ==
    /\ call.op = "hash" /\ blob[call.of].file = "good"
    /\ GoOn([call EXCEPT !.op = "look"])
    /\ UNCHANGED <<blob, stamp, records, roots, scratch, ticks>>

HashDeb ==
    /\ call.op = "hash"
    /\ GoOn(IF blob[call.of].file = "good" THEN [call EXCEPT !.op = "look"] ELSE [op |-> "failed"])
    /\ UNCHANGED <<blob, stamp, records, roots, scratch, ticks>>

\* A bug: the stamp takes the time of the file as it is after hashing.
LookAgainOnly ==
    /\ call.op = "look"
    /\ GoOn([call EXCEPT !.op = "unstamp", !.seen = blob[call.of].mtime])
    /\ UNCHANGED <<blob, stamp, records, roots, scratch, ticks>>

\* The file must be the one that was looked at before hashing.
LookAgain ==
    /\ call.op = "look"
    /\ GoOn(IF blob[call.of].mtime = call.seen THEN [call EXCEPT !.op = "unstamp"]
          ELSE [op |-> "failed"])
    /\ UNCHANGED <<blob, stamp, records, roots, scratch, ticks>>

\* writeArtifactVerification: the old stamp is removed, the new one renamed in.
RemoveStamp ==
    /\ call.op = "unstamp"
    /\ stamp' = [stamp EXCEPT ![call.of] = 0]
    /\ scratch' = TRUE
    /\ GoOn([call EXCEPT !.op = "restamp"])
    /\ UNCHANGED <<blob, records, roots, ticks>>

RenameStamp ==
    /\ call.op = "restamp"
    /\ stamp' = [stamp EXCEPT ![call.of] = call.seen]
    /\ scratch' = FALSE
    /\ GoOn([op |-> "verified", of |-> call.of])
    /\ UNCHANGED <<blob, records, roots, ticks>>

-----------------------------------------------------------------------------
(* Retention and removal                                                    *)

\* A build is retained once its closure was verified; any may be given up.
\* The deployment decides this between two calls of the store.
RetainBuilds ==
    /\ call.op \in Returned /\ UNCHANGED calls
    /\ \E kept \in SUBSET Builds : (\A b \in kept \ roots : ClosureComplete(b)) /\ roots' = kept
    /\ call' = NoCall
    /\ UNCHANGED <<blob, stamp, records, scratch, ticks, tampering>>

\* A bug: the closure of one retained build hides that of another.
ReachableOfLast == IF roots = {} THEN {} ELSE Closure[CHOOSE b \in roots : TRUE]

Reachable == UNION {Closure[b] : b \in roots}

\* RemoveUnreachableBuildObjectsForBuilds: every closure is verified, and
\* nothing is removed if one is not whole.
RemoveUnreachable ==
    /\ BeginCall
    /\ call' = IF \A b \in roots : ClosureComplete(b)
               THEN [op |-> "prune", keep |-> Reachable]
               ELSE [op |-> "failed"]
    /\ UNCHANGED <<blob, stamp, records, roots, scratch, ticks, tampering>>

\* Blobs go before records, records before stamps, one at a time.
RemoveOne ==
    /\ call.op = "prune"
    /\ LET dead == {o \in Blobs \ call.keep : blob[o].file # "absent"}
           stale == {o \in Blobs \ call.keep : stamp[o] # 0} IN
       \/ \E o \in dead : blob' = [blob EXCEPT ![o] = Absent] /\ UNCHANGED <<records, stamp, call>>
       \/ /\ dead = {}
          /\ \E b \in records \ roots : records' = records \ {b}
          /\ UNCHANGED <<blob, stamp, call>>
       \/ /\ dead = {} /\ records \subseteq roots
          /\ \E o \in stale : stamp' = [stamp EXCEPT ![o] = 0]
          /\ UNCHANGED <<blob, records, call>>
       \/ /\ dead = {} /\ records \subseteq roots /\ stale = {}
          /\ call' = [op |-> "pruned"] /\ UNCHANGED <<blob, records, stamp>>
    /\ UNCHANGED <<roots, scratch, ticks, calls, tampering>>

\* RemoveTemporaryEntries, at the start of every build
RemoveTemporaryEntries ==
    /\ BeginCall /\ scratch
    /\ scratch' = FALSE /\ call' = NoCall
    /\ UNCHANGED <<blob, stamp, records, roots, ticks, tampering>>

-----------------------------------------------------------------------------
(* Around it                                                                *)

Trouble == tampering < MaxTampering /\ tampering' = tampering + 1

\* recordArtifactVerification stamps the time it finds, so a change between the
\* link of a blob and its stamp slips through.
Unguarded(o) == call.op = "stamp" /\ call.of = o

\* A file is changed on disk, and so is its modification time.
Tamper ==
    /\ Trouble
    /\ \E o \in Blobs :
         /\ blob[o].file = "good"
         /\ blob' = [blob EXCEPT ![o] = File(IF Unguarded(o) THEN "slipped" ELSE "bad")]
    /\ ticks' = ticks + 1
    /\ UNCHANGED <<stamp, records, roots, scratch, call, calls>>

StoreCrash ==
    /\ call.op \notin Returned /\ Trouble
    /\ call' = NoCall
    /\ UNCHANGED <<blob, stamp, records, roots, scratch, ticks, calls>>

CallSteps ==
    \/ LinkBlob \/ StampPublished \/ StopAcquiring \/ TransportFails \/ BodyRefused \/ AttemptSucceeds
    \/ HashDeb \/ LookAgain \/ RemoveStamp \/ RenameStamp \/ RemoveOne

StoreNext ==
    \/ CallSteps
    \/ PublishBlob \/ PublishRecord \/ AcquireArtifact \/ VerifyCachedDeb
    \/ RetainBuilds \/ RemoveUnreachable \/ RemoveTemporaryEntries
    \/ Tamper \/ StoreCrash

StoreSpec == StoreInit /\ [][StoreNext]_storeVars /\ WF_storeVars(CallSteps)

-----------------------------------------------------------------------------
(* Properties                                                               *)

\* The types, and the limits of an acquisition.
StoreTypeOK ==
    /\ blob \in [Blobs -> [file : {"absent", "good", "bad", "slipped"}, mtime : 0..ticks]]
    /\ stamp \in [Blobs -> 0..ticks] /\ records \subseteq Builds /\ roots \subseteq Builds
    /\ scratch \in BOOLEAN
    /\ "total" \in DOMAIN call => call.total <= call.limit /\ call.bytes <= MaxBytesTotal

\* What acquisition accepts is exactly the artifact: a longer body is noticed
\* even when the bytes it may still read run out.
AcquiredExactly == "size" \in DOMAIN call => call.size = ArtifactSize

\* A stamp vouches for a changed file only when the change slipped in between
\* the link of the file and its first stamp: whatever order verification,
\* publication, removal, any other change on disk and a crash come in, a stamp
\* that matches the file was taken of these bytes.
StampHonest ==
    \A o \in Debs : stamp[o] # 0 /\ stamp[o] = blob[o].mtime => blob[o].file \in {"good", "slipped"}

\* Everything a retained build names stays in the store, also what it shares
\* with a build that is given up, and while a removal dies half way.
RetainedWhole == \A b \in roots : b \in records /\ \A o \in Closure[b] : blob[o].file # "absent"

\* "All mirrors exhausted" is said only when every mirror had every attempt the
\* policy gives it.
EveryMirrorTried ==
    call.op = "exhausted" => call.tried = (1..MirrorCount) \X (1..AttemptsPerMirror)

\* What is acquired is the artifact, every mirror gets its attempts, stamps vouch
\* for the bytes on disk, and pruning spares what a retained build names.
StoreSound ==
    StoreTypeOK /\ AcquiredExactly /\ StampHonest /\ RetainedWhole /\ EveryMirrorTried

\* A call ends.
CallsEnd == []<>(call.op \in Returned)

================================================================================
