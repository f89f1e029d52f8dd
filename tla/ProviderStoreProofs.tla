-------------------------- MODULE ProviderStoreProofs --------------------------
(***************************************************************************)
(* StoreSound of ProviderStore holds for every number of artifacts, builds *)
(* and mirrors and for every limit.  It is not inductive: whether a stamp  *)
(* may be written, a blob removed or a body accepted rests on what the     *)
(* running call has seen, and CallFits says what that is at every step of  *)
(* a call.                                                                 *)
(*                                                                         *)
(* ArchiveSound of ArchiveMaterialization, the installation of one of the  *)
(* store's archives, is proved in the second half.  Its tree is one only   *)
(* because the reserved names are exactly the nodes (TreeInv), and what    *)
(* the name shows is complete because of where the workspace and the       *)
(* quarantine are at each step (PlaceInv).                                 *)
(***************************************************************************)
EXTENDS ProviderStore, ArchiveMaterialization, SequenceTheorems, TLAPS

-----------------------------------------------------------------------------
(* The inductive invariant                                                  *)

\* The attempts that come before attempt a of mirror m.
Before(m, a) ==
    {p \in (1..MirrorCount) \X (1..AttemptsPerMirror) :
        p[1] < m \/ (p[1] = m /\ p[2] < a)}

PlainCalls ==
    [op : {"none", "published", "failed", "pruned"}]
      \cup [op : {"acquired", "published", "trusted", "verified"}, of : Blobs]

LinkCalls ==
    [op : {"link"}, of : Blobs, done : {"published"}]
      \cup [op : {"link"}, of : Blobs, done : {"acquired"}, size : {ArtifactSize}]

StampCalls == [op : {"stamp"}, of : Debs, done : {"published", "acquired"}]

AcquireCalls ==
    [op : {"attempt", "exhausted", "attempts", "bytes", "time"}, of : Blobs,
     mirror : 1..(MirrorCount + 1), attempt : 1..AttemptsPerMirror, limit : Nat, total : Nat,
     bytes : Nat, tried : SUBSET (Nat \X Nat)]

VerifyCalls == [op : {"hash", "look", "unstamp", "restamp"}, of : Debs, seen : Nat]

PruneCalls == [op : {"prune"}, keep : SUBSET Blobs]

\* A published blob that is about to get its stamp is the artifact, or was
\* changed since it was linked.
StampFits(c) == c \in StampCalls /\ blob[c.of].file \in {"good", "slipped"}

\* The mirrors and attempts so far are those in order, and within the limits.
AcquireFits(c) ==
    /\ c \in AcquireCalls
    /\ c.total <= c.limit /\ c.bytes <= MaxBytesTotal
    /\ c.op = "attempt" =>
          /\ c.tried = Before(c.mirror, c.attempt)
          /\ c.mirror = MirrorCount + 1 => c.attempt = 1
    /\ c.op = "exhausted" => c.tried = (1..MirrorCount) \X (1..AttemptsPerMirror)

\* Once the file was hashed, one that still has the time seen before is good.
VerifyFits(c) ==
    /\ c \in VerifyCalls
    /\ c.seen <= ticks
    /\ c.op # "hash" /\ c.seen # 0 /\ blob[c.of].mtime = c.seen => blob[c.of].file = "good"

\* A removal keeps what the retained builds name.
PruneFits(c) == c \in PruneCalls /\ \A b \in roots : Closure[b] \subseteq c.keep

CallFits ==
    \/ call \in PlainCalls
    \/ call \in LinkCalls
    \/ StampFits(call)
    \/ AcquireFits(call)
    \/ VerifyFits(call)
    \/ PruneFits(call)

StoreTypes ==
    /\ ticks \in Nat
    /\ blob \in [Blobs -> [file : {"absent", "good", "bad", "slipped"}, mtime : 0..ticks]]
    /\ stamp \in [Blobs -> 0..ticks] /\ records \subseteq Builds /\ roots \subseteq Builds
    /\ scratch \in BOOLEAN

StoreInv == StoreTypes /\ StampHonest /\ RetainedWhole /\ CallFits

-----------------------------------------------------------------------------
(* Shapes                                                                   *)

\* The operation says which kind of call it is.
LEMMA CallShapes ==
    ASSUME CallFits
    PROVE  /\ call.op = "link" => call \in LinkCalls
           /\ call.op = "stamp" => StampFits(call)
           /\ call.op = "attempt" => AcquireFits(call)
           /\ call.op \in {"hash", "look", "unstamp", "restamp"} => VerifyFits(call)
           /\ call.op = "prune" => PruneFits(call)
BY DEF CallFits, PlainCalls, LinkCalls, StampFits, StampCalls, AcquireFits, AcquireCalls,
       VerifyFits, VerifyCalls, PruneFits, PruneCalls, Returned

-----------------------------------------------------------------------------
(* Init                                                                     *)

LEMMA StoreInitInv == StoreInit => StoreInv
<1> SUFFICES ASSUME StoreInit PROVE StoreInv
  OBVIOUS
<1> USE DEF StoreInit
<1>1. StoreTypes
  <2>1. ticks \in Nat /\ 0 \in 0..ticks
    OBVIOUS
  <2>2. Absent \in [file : {"absent", "good", "bad", "slipped"}, mtime : 0..ticks]
    BY <2>1 DEF Absent
  <2>3. blob \in [Blobs -> [file : {"absent", "good", "bad", "slipped"}, mtime : 0..ticks]]
    BY <2>2
  <2>4. stamp \in [Blobs -> 0..ticks]
    BY <2>1
  <2> QED
    BY <2>1, <2>3, <2>4 DEF StoreTypes
<1>2. StampHonest /\ RetainedWhole
  BY StoreBounds DEF StampHonest, RetainedWhole
<1>3. CallFits
  BY DEF CallFits, PlainCalls, Returned, NoCall
<1> QED
  BY <1>1, <1>2, <1>3 DEF StoreInv

-----------------------------------------------------------------------------
(* The steps                                                                *)

\* A step that moves the call and leaves the store as it is.
LEMMA CallMoves ==
    ASSUME StoreInv, UNCHANGED <<blob, stamp, records, roots, ticks>>,
           scratch' \in BOOLEAN, CallFits'
    PROVE  StoreInv'
BY DEF StoreInv, StoreTypes, StampHonest, RetainedWhole

\* What the limits leave an attempt to read stays within them, and shows a body
\* that is longer than the artifact.
LEMMA ReadsStayWithin ==
    ASSUME NEW bytes \in Nat, bytes <= MaxBytesTotal, EnoughLeft(bytes)
    PROVE  /\ ReadLimit(bytes) = ArtifactSize + 1
           /\ \A read \in Nat : Least(read, ReadLimit(bytes)) \in 0..ReadLimit(bytes)
           /\ \A read \in 0..ReadLimit(bytes) : bytes + read \in Nat /\ bytes + read <= MaxBytesTotal
BY StoreBounds DEF EnoughLeft, ReadLimit, Least

\* A failed attempt is the next one in order, and leaves the call within its limits.
LEMMA NextAttempt ==
    ASSUME StoreInv, call.op = "attempt", CanAttempt,
           NEW read \in 0..ReadLimit(call.bytes), call' = TriedAgain(read)
    PROVE  CallFits'
<1> DEFINE c == call
           d == TriedAgain(read)
<1>1. AcquireFits(c) /\ c.op = "attempt"
  BY CallShapes DEF StoreInv
<1>2. /\ c.mirror \in 1..MirrorCount /\ c.attempt \in 1..AttemptsPerMirror
      /\ c.total \in Nat /\ c.limit \in Nat /\ c.bytes \in Nat
      /\ c.total + 1 <= c.limit /\ c.bytes <= MaxBytesTotal /\ EnoughLeft(c.bytes)
      /\ c.tried = Before(c.mirror, c.attempt) /\ c.of \in Blobs
  BY <1>1 DEF AcquireFits, AcquireCalls, CanAttempt, MayAttempt
<1>3. MirrorCount \in Nat /\ AttemptsPerMirror \in Nat
  BY StoreBounds
<1> DEFINE a == IF c.attempt = AttemptsPerMirror THEN 1 ELSE c.attempt + 1
           m == IF c.attempt = AttemptsPerMirror THEN c.mirror + 1 ELSE c.mirror
           t == c.tried \cup {<<c.mirror, c.attempt>>}
<1>4. d = [c EXCEPT !.total = c.total + 1, !.bytes = c.bytes + read, !.tried = t,
                    !.attempt = a, !.mirror = m]
  BY DEF TriedAgain
<1>5. m \in 1..(MirrorCount + 1) /\ a \in 1..AttemptsPerMirror /\ (m = MirrorCount + 1 => a = 1)
  BY <1>2, <1>3
<1>6. t = Before(m, a)
  <2>1. ASSUME NEW p \in (1..MirrorCount) \X (1..AttemptsPerMirror)
        PROVE  (p[1] < m \/ (p[1] = m /\ p[2] < a)) <=>
               ((p[1] < c.mirror \/ (p[1] = c.mirror /\ p[2] < c.attempt))
                  \/ (p[1] = c.mirror /\ p[2] = c.attempt))
    BY <1>2, <1>3
  <2>2. <<c.mirror, c.attempt>> \in (1..MirrorCount) \X (1..AttemptsPerMirror)
    BY <1>2
  <2>3. \A p \in (1..MirrorCount) \X (1..AttemptsPerMirror) :
            p = <<c.mirror, c.attempt>> <=> p[1] = c.mirror /\ p[2] = c.attempt
    OBVIOUS
  <2> HIDE DEF m, a
  <2> QED
    BY <1>2, <2>1, <2>2, <2>3 DEF Before
<1>7. c.bytes + read \in Nat /\ c.bytes + read <= MaxBytesTotal
  BY <1>2, ReadsStayWithin
<1>8. t \in SUBSET (Nat \X Nat)
  BY <1>6, <1>3 DEF Before
<1>9. AcquireFits(d)
  <2>0. c \in AcquireCalls
    BY <1>1 DEF AcquireFits
  <2> HIDE DEF m, a, t, d, c
  <2> DEFINE e1 == [c EXCEPT !.total = c.total + 1]
             e2 == [e1 EXCEPT !.bytes = c.bytes + read]
             e3 == [e2 EXCEPT !.tried = t]
             e4 == [e3 EXCEPT !.attempt = a]
  <2>2. d = [e4 EXCEPT !.mirror = m]
    BY <1>4
  <2>3. /\ e1 \in AcquireCalls
        /\ e1.total = c.total + 1 /\ e1.op = c.op /\ e1.limit = c.limit
    BY <2>0, <1>2 DEF AcquireCalls
  <2> HIDE DEF e1
  <2>4. /\ e2 \in AcquireCalls /\ e2.bytes = c.bytes + read
        /\ e2.total = e1.total /\ e2.op = e1.op /\ e2.limit = e1.limit
    BY <2>3, <1>7 DEF AcquireCalls
  <2> HIDE DEF e2
  <2>5. /\ e3 \in AcquireCalls /\ e3.bytes = e2.bytes /\ e3.tried = t
        /\ e3.total = e2.total /\ e3.op = e2.op /\ e3.limit = e2.limit
    BY <2>4, <1>8 DEF AcquireCalls
  <2> HIDE DEF e3
  <2>6. /\ e4 \in AcquireCalls /\ e4.bytes = e3.bytes /\ e4.tried = e3.tried /\ e4.attempt = a
        /\ e4.total = e3.total /\ e4.op = e3.op /\ e4.limit = e3.limit
    BY <2>5, <1>5 DEF AcquireCalls
  <2> HIDE DEF e4
  <2>7. /\ d \in AcquireCalls /\ d.bytes = e4.bytes /\ d.tried = e4.tried /\ d.mirror = m
        /\ d.attempt = e4.attempt /\ d.total = e4.total /\ d.op = e4.op /\ d.limit = e4.limit
    BY <2>2, <2>6, <1>5 DEF AcquireCalls
  <2>1. /\ d \in AcquireCalls
        /\ d.op = c.op /\ d.total = c.total + 1 /\ d.limit = c.limit /\ d.bytes = c.bytes + read
        /\ d.mirror = m /\ d.attempt = a /\ d.tried = t
    BY <2>3, <2>4, <2>5, <2>6, <2>7
  <2> QED
    BY <2>1, <1>1, <1>2, <1>5, <1>6, <1>7 DEF AcquireFits
<1> QED
  BY <1>9 DEF CallFits, AcquireFits

\* An attempt that cannot be recorded ends the call.
LEMMA RecordFails == call' = [op |-> "failed"] => CallFits'
BY DEF CallFits, PlainCalls

\* Every step of a call and of the world around it keeps the invariant.
LEMMA StoreStep == StoreInv /\ [StoreNext]_storeVars => StoreInv'
<1> SUFFICES ASSUME StoreInv, [StoreNext]_storeVars PROVE StoreInv'
  OBVIOUS
<1>t. /\ ticks \in Nat /\ ticks + 1 \in Nat
      /\ \A o \in Blobs : /\ blob[o] \in [file : {"absent", "good", "bad", "slipped"}, mtime : 0..ticks]
                          /\ stamp[o] \in 0..ticks
      /\ Debs \subseteq Blobs /\ \A b \in Builds : Closure[b] \subseteq Blobs
  BY StoreBounds DEF StoreInv, StoreTypes
<1>1. CASE PublishBlob
  <2> PICK o \in Blobs : WriteTemporary(o, "published")
    BY <1>1 DEF PublishBlob
  <2>1. call' \in LinkCalls
    BY DEF WriteTemporary, LinkCalls
  <2> QED
    BY <2>1, CallMoves DEF WriteTemporary, CallFits
<1>2. CASE LinkBlob
  <2> DEFINE o == call.of
  <2>0. call \in LinkCalls /\ o \in Blobs /\ call.done \in {"published", "acquired"}
    BY <1>2, CallShapes DEF LinkBlob, LinkCalls, StoreInv
  <2>1. /\ blob' = IF blob[o].file = "absent" THEN [blob EXCEPT ![o] = File("good")] ELSE blob
        /\ ticks' = ticks + 1 /\ scratch' = FALSE /\ UNCHANGED <<stamp, records, roots>>
        /\ call' = IF blob[o].file \in Changed THEN [op |-> "failed"]
                   ELSE IF o \in Debs THEN [op |-> "stamp", of |-> o, done |-> call.done]
                   ELSE [op |-> call.done, of |-> o]
    BY <1>2 DEF LinkBlob, GoOn
  <2> HIDE DEF o
  <2>2. /\ DOMAIN blob = Blobs
        /\ \A x \in Blobs : /\ blob'[x].file # "absent" => blob'[x].file = IF blob[x].file = "absent" THEN "good" ELSE blob[x].file
                            /\ blob'[x] = blob[x] \/ (x = o /\ blob'[x] = File("good"))
                            /\ blob[x].file # "absent" => blob'[x].file # "absent"
        /\ blob'[o].file # "absent"
    BY <1>t, <2>0, <2>1 DEF StoreInv, StoreTypes, File
  <2>3. StoreTypes'
    <3>1. File("good") \in [file : {"absent", "good", "bad", "slipped"}, mtime : 0..ticks']
      BY <1>t, <2>1 DEF File
    <3>2. \A x \in Blobs : blob[x] \in [file : {"absent", "good", "bad", "slipped"}, mtime : 0..ticks']
      BY <1>t, <2>1
    <3>3. \A x \in Blobs : stamp[x] \in 0..ticks'
      BY <1>t, <2>1
    <3>4. blob' \in [Blobs -> [file : {"absent", "good", "bad", "slipped"}, mtime : 0..ticks']]
      BY <2>0, <2>1, <3>1, <3>2 DEF StoreInv, StoreTypes
    <3>5. stamp' \in [Blobs -> 0..ticks']
      BY <2>1, <3>3 DEF StoreInv, StoreTypes
    <3> QED
      BY <1>t, <2>1, <3>4, <3>5 DEF StoreInv, StoreTypes
  <2>4. StampHonest'
    <3> SUFFICES ASSUME NEW x \in Debs, stamp[x] # 0, stamp[x] = blob'[x].mtime
                 PROVE  blob'[x].file \in {"good", "slipped"}
      BY <2>1 DEF StampHonest
    <3>1. CASE blob'[x] = blob[x]
      BY <3>1 DEF StoreInv, StampHonest
    <3>2. CASE blob'[x] = File("good")
      BY <3>2 DEF File
    <3> QED
      BY <1>t, <2>2, <3>1, <3>2
  <2>5. RetainedWhole'
    BY <1>t, <2>1, <2>2 DEF StoreInv, StoreTypes, RetainedWhole
  <2>6. CallFits'
    <3>1. CASE blob[o].file \in Changed
      BY <3>1, <2>1 DEF CallFits, PlainCalls, Returned
    <3>2. CASE blob[o].file \notin Changed /\ o \in Debs
      <4>1. blob'[o].file = "good"
        BY <1>t, <2>0, <2>2, <3>2 DEF Changed
      <4>2. call' \in StampCalls /\ call'.of = o
        BY <2>0, <2>1, <3>2 DEF StampCalls
      <4> QED
        BY <4>1, <4>2 DEF CallFits, StampFits
    <3>3. CASE blob[o].file \notin Changed /\ o \notin Debs
      <4>1. call' \in PlainCalls
        BY <2>0, <2>1, <3>3 DEF PlainCalls
      <4> QED
        BY <4>1 DEF CallFits, PlainCalls
    <3> QED
      BY <3>1, <3>2, <3>3
  <2> QED
    BY <2>3, <2>4, <2>5, <2>6 DEF StoreInv
<1>3. CASE StampPublished
  <2> DEFINE o == call.of
  <2>0. call \in StampCalls /\ o \in Debs /\ o \in Blobs /\ blob[o].file \in {"good", "slipped"}
    BY <1>3, <1>t, CallShapes DEF StampPublished, StampFits, StampCalls, StoreInv
  <2>1. /\ stamp' = [stamp EXCEPT ![o] = blob[o].mtime]
        /\ call' = [op |-> call.done, of |-> o] /\ UNCHANGED <<blob, records, roots, scratch, ticks>>
    BY <1>3 DEF StampPublished, GoOn
  <2>2. CallFits'
    <3>1. call' \in PlainCalls
      BY <2>0, <2>1 DEF PlainCalls, StampCalls
    <3> QED
      BY <3>1 DEF CallFits, PlainCalls
  <2> HIDE DEF o
  <2>3. stamp' \in [Blobs -> 0..ticks]
    BY <1>t, <2>0, <2>1 DEF StoreInv, StoreTypes
  <2>4. StampHonest'
    BY <1>t, <2>0, <2>1 DEF StoreInv, StoreTypes, StampHonest
  <2> QED
    BY <2>1, <2>2, <2>3, <2>4 DEF StoreInv, StoreTypes, RetainedWhole
<1>4. CASE PublishRecord
  <2>1. call' \in PlainCalls
    BY <1>4 DEF PublishRecord, PlainCalls, Returned
  <2> QED
    BY <1>4, <2>1 DEF PublishRecord, StoreInv, StoreTypes, StampHonest, RetainedWhole, CallFits, PlainCalls
<1>5. CASE AcquireArtifact
  <2> PICK o \in Blobs, limit \in 1..CoreMaxAttempts :
         call' = CASE blob[o].file = "good" -> [op |-> "acquired", of |-> o]
                   [] blob[o].file \in Changed -> [op |-> "failed"]
                   [] OTHER -> [op |-> "attempt", of |-> o, mirror |-> 1, attempt |-> 1,
                                limit |-> limit, total |-> 0, bytes |-> 0, tried |-> {}]
    BY <1>5 DEF AcquireArtifact
  <2>1. CASE blob[o].file \in {"good"} \cup Changed
    <3>1. call' \in PlainCalls
      BY <2>1 DEF PlainCalls, Returned
    <3> QED
      BY <1>5, <3>1, CallMoves DEF AcquireArtifact, CallFits, PlainCalls, StoreInv, StoreTypes
  <2>2. CASE blob[o].file \notin {"good"} \cup Changed
    <3> DEFINE d == [op |-> "attempt", of |-> o, mirror |-> 1, attempt |-> 1,
                     limit |-> limit, total |-> 0, bytes |-> 0, tried |-> {}]
    <3>1. call' = d
      BY <2>2
    <3>2. Before(1, 1) = {}
      BY StoreBounds DEF Before
    <3>3. d \in AcquireCalls /\ limit >= 1
      BY StoreBounds DEF AcquireCalls
    <3>4. AcquireFits(d)
      BY <3>2, <3>3, StoreBounds DEF AcquireFits
    <3>5. CallFits'
      BY <3>1, <3>4 DEF CallFits, AcquireFits
    <3> QED
      BY <1>5, <3>5, CallMoves DEF AcquireArtifact, StoreInv, StoreTypes
  <2> QED
    BY <2>1, <2>2
<1>6. CASE StopAcquiring
  <2>0. AcquireFits(call) /\ call.op = "attempt"
    BY <1>6, CallShapes DEF StopAcquiring, StoreInv
  <2>1. \/ call.mirror > MirrorCount /\ call' = [call EXCEPT !.op = "exhausted"]
        \/ \E result \in {"attempts", "bytes", "time"} : call' = [call EXCEPT !.op = result]
    BY <1>6 DEF StopAcquiring
  <2>2. PICK result \in {"exhausted", "attempts", "bytes", "time"} :
              /\ call' = [call EXCEPT !.op = result]
              /\ result = "exhausted" => call.mirror > MirrorCount
    BY <2>1
  <2>3. /\ call' \in AcquireCalls /\ call'.op = result /\ call'.tried = call.tried
        /\ call'.total = call.total /\ call'.limit = call.limit /\ call'.bytes = call.bytes
    BY <2>0, <2>2 DEF AcquireFits, AcquireCalls
  <2>4. call.mirror > MirrorCount => call.tried = (1..MirrorCount) \X (1..AttemptsPerMirror)
    <3>1. call.mirror > MirrorCount => call.tried = Before(MirrorCount + 1, 1)
      BY <2>0, StoreBounds DEF AcquireFits, AcquireCalls
    <3>2. Before(MirrorCount + 1, 1) = (1..MirrorCount) \X (1..AttemptsPerMirror)
      BY StoreBounds DEF Before
    <3> QED
      BY <3>1, <3>2
  <2>5. AcquireFits(call)'
    BY <2>0, <2>2, <2>3, <2>4 DEF AcquireFits
  <2> QED
    BY <1>6, <2>5, CallMoves DEF StopAcquiring, CallFits, StoreInv, StoreTypes
<1>7. CASE TransportFails
  <2>1. CallFits'
    BY <1>7, NextAttempt, RecordFails DEF TransportFails, AttemptFailed
  <2> QED
    BY <1>7, <2>1, CallMoves DEF TransportFails, StoreInv, StoreTypes
<1>b. ASSUME call.op = "attempt", CanAttempt
      PROVE  /\ call.bytes \in Nat /\ call.of \in Blobs
             /\ ReadLimit(call.bytes) = ArtifactSize + 1
             /\ \A read \in Nat : Least(read, ReadLimit(call.bytes)) \in 0..ReadLimit(call.bytes)
  <2>1. AcquireFits(call) /\ EnoughLeft(call.bytes)
    BY <1>b, CallShapes DEF StoreInv, CanAttempt
  <2> QED
    BY <2>1, ReadsStayWithin DEF AcquireFits, AcquireCalls
<1>8. CASE BodyRefused
  <2> PICK body \in Bodies : AttemptFailed(Least(body.size, ReadLimit(call.bytes)))
    BY <1>8 DEF BodyRefused
  <2>1. call.op = "attempt" /\ CanAttempt
    BY <1>8 DEF BodyRefused
  <2>2. body.size \in Nat
    BY StoreBounds DEF Bodies
  <2>3. CallFits'
    BY <1>b, <2>1, <2>2, NextAttempt, RecordFails DEF AttemptFailed
  <2> QED
    BY <1>8, <2>3, CallMoves DEF BodyRefused, StoreInv, StoreTypes
<1>9. CASE AttemptSucceeds
  <2>0. call.op = "attempt" /\ CanAttempt
    BY <1>9 DEF AttemptSucceeds
  <2>1. PICK body \in Bodies :
          /\ Least(body.size, ReadLimit(call.bytes)) = ArtifactSize /\ body.right
          /\ \/ /\ scratch' = TRUE
                /\ call' = [op |-> "link", of |-> call.of, done |-> "acquired", size |-> body.size]
             \/ call' = [op |-> "failed"] /\ UNCHANGED scratch
    BY <1>9 DEF AttemptSucceeds
  <2>2. body.size = ArtifactSize
    BY <1>b, <2>0, <2>1, StoreBounds DEF Bodies, Least
  <2>3. call' \in LinkCalls \/ call' \in PlainCalls
    BY <1>b, <2>0, <2>1, <2>2 DEF LinkCalls, PlainCalls, Returned
  <2>4. CallFits'
    BY <2>3 DEF CallFits, LinkCalls, PlainCalls
  <2> QED
    BY <1>9, <2>1, <2>4, CallMoves DEF AttemptSucceeds, StoreInv, StoreTypes
<1>10. CASE VerifyCachedDeb
  <2>1. PICK o \in Debs :
           call' = IF stamp[o] = blob[o].mtime THEN [op |-> "trusted", of |-> o]
                   ELSE [op |-> "hash", of |-> o, seen |-> blob[o].mtime]
    BY <1>10 DEF VerifyCachedDeb
  <2>2. blob[o].mtime \in 0..ticks /\ UNCHANGED <<blob, ticks>>
    BY <1>t, <1>10 DEF VerifyCachedDeb
  <2>3. CASE stamp[o] = blob[o].mtime
    <3>1. call' \in PlainCalls
      BY <1>t, <2>1, <2>3 DEF PlainCalls
    <3> QED
      BY <1>10, <3>1, CallMoves DEF VerifyCachedDeb, CallFits, PlainCalls, StoreInv, StoreTypes
  <2>4. CASE stamp[o] # blob[o].mtime
    <3>1. call' \in VerifyCalls /\ call'.op = "hash" /\ call'.seen <= ticks
      BY <1>t, <2>1, <2>2, <2>4 DEF VerifyCalls
    <3>2. VerifyFits(call)'
      BY <2>2, <3>1 DEF VerifyFits
    <3> QED
      BY <1>10, <3>2, CallMoves DEF VerifyCachedDeb, CallFits, StoreInv, StoreTypes
  <2> QED
    BY <2>3, <2>4
<1>v. ASSUME call.op \in {"hash", "look", "unstamp", "restamp"}
      PROVE  /\ VerifyFits(call) /\ call \in VerifyCalls
             /\ call.of \in Debs /\ call.of \in Blobs /\ call.seen \in 0..ticks
  <2>1. VerifyFits(call)
    BY <1>v, CallShapes DEF StoreInv
  <2> QED
    BY <2>1, <1>t DEF VerifyFits, VerifyCalls
\* A verification that goes on, its file unchanged.
<1>w. ASSUME VerifyFits(call), UNCHANGED <<blob, ticks>>,
             NEW next \in {"look", "unstamp", "restamp"}, call' = [call EXCEPT !.op = next],
             call.op = "hash" => blob[call.of].file = "good"
      PROVE  CallFits'
  <2>1. call' \in VerifyCalls /\ call'.of = call.of /\ call'.seen = call.seen
    BY <1>w DEF VerifyFits, VerifyCalls
  <2>2. VerifyFits(call)'
    BY <1>w, <2>1 DEF VerifyFits
  <2> QED
    BY <2>2 DEF CallFits
<1>11. CASE HashDeb
  <2>0. call.op = "hash" /\ UNCHANGED <<blob, stamp, records, roots, scratch, ticks>>
        /\ call' = IF blob[call.of].file = "good" THEN [call EXCEPT !.op = "look"] ELSE [op |-> "failed"]
    BY <1>11 DEF HashDeb, GoOn
  <2>1. CASE blob[call.of].file = "good"
    <3>1. CallFits'
      BY <1>v, <1>w, <2>0, <2>1
    <3> QED
      BY <2>0, <3>1, CallMoves DEF StoreInv, StoreTypes
  <2>2. CASE blob[call.of].file # "good"
    BY <2>0, <2>2, CallMoves DEF CallFits, PlainCalls, Returned, StoreInv, StoreTypes
  <2> QED
    BY <2>1, <2>2
<1>12. CASE LookAgain
  <2>0. call.op = "look" /\ UNCHANGED <<blob, stamp, records, roots, scratch, ticks>>
        /\ call' = IF blob[call.of].mtime = call.seen THEN [call EXCEPT !.op = "unstamp"] ELSE [op |-> "failed"]
    BY <1>12 DEF LookAgain, GoOn
  <2>1. CASE blob[call.of].mtime = call.seen
    <3>1. CallFits'
      BY <1>v, <1>w, <2>0, <2>1
    <3> QED
      BY <2>0, <3>1, CallMoves DEF StoreInv, StoreTypes
  <2>2. CASE blob[call.of].mtime # call.seen
    BY <2>0, <2>2, CallMoves DEF CallFits, PlainCalls, Returned, StoreInv, StoreTypes
  <2> QED
    BY <2>1, <2>2
<1>13. CASE RemoveStamp
  <2>0. call.op = "unstamp" /\ scratch' = TRUE /\ UNCHANGED <<blob, records, roots, ticks>>
        /\ stamp' = [stamp EXCEPT ![call.of] = 0] /\ call' = [call EXCEPT !.op = "restamp"]
    BY <1>13 DEF RemoveStamp, GoOn
  <2>1. CallFits'
    BY <1>v, <1>w, <2>0
  <2>2. stamp' \in [Blobs -> 0..ticks]
    <3>1. 0 \in 0..ticks
      BY <1>t
    <3> QED
      BY <2>0, <3>1 DEF StoreInv, StoreTypes
  <2>3. StampHonest'
    <3> SUFFICES ASSUME NEW x \in Debs, stamp'[x] # 0, stamp'[x] = blob[x].mtime
                 PROVE  blob[x].file \in {"good", "slipped"}
      BY <2>0 DEF StampHonest
    <3>1. x \in Blobs /\ stamp'[x] = stamp[x]
      BY <1>t, <2>0 DEF StoreInv, StoreTypes
    <3> QED
      BY <3>1 DEF StoreInv, StampHonest
  <2> QED
    BY <2>0, <2>1, <2>2, <2>3 DEF StoreInv, StoreTypes, RetainedWhole
<1>14. CASE RenameStamp
  <2> DEFINE o == call.of
  <2>0. call.op = "restamp" /\ scratch' = FALSE /\ UNCHANGED <<blob, records, roots, ticks>>
        /\ stamp' = [stamp EXCEPT ![o] = call.seen] /\ call' = [op |-> "verified", of |-> o]
    BY <1>14 DEF RenameStamp, GoOn
  <2>1. /\ o \in Debs /\ o \in Blobs /\ call.seen \in 0..ticks
        /\ call.seen # 0 /\ blob[o].mtime = call.seen => blob[o].file = "good"
    BY <1>v, <2>0 DEF VerifyFits
  <2>2. CallFits'
    <3>1. call' \in PlainCalls
      BY <2>0, <2>1 DEF PlainCalls
    <3> QED
      BY <3>1 DEF CallFits, PlainCalls
  <2> HIDE DEF o
  <2>3. stamp' \in [Blobs -> 0..ticks]
    BY <1>t, <2>0, <2>1 DEF StoreInv, StoreTypes
  <2>4. StampHonest'
    BY <1>t, <2>0, <2>1 DEF StoreInv, StoreTypes, StampHonest
  <2> QED
    BY <2>0, <2>2, <2>3, <2>4 DEF StoreInv, StoreTypes, RetainedWhole
<1>15. CASE RetainBuilds
  <2>1. CallFits'
    BY <1>15 DEF RetainBuilds, NoCall, CallFits, PlainCalls, Returned
  <2>2. RetainedWhole' /\ roots' \subseteq Builds
    BY <1>15 DEF RetainBuilds, ClosureComplete, StoreInv, RetainedWhole
  <2> QED
    BY <1>15, <2>1, <2>2 DEF RetainBuilds, StoreInv, StoreTypes, StampHonest
<1>16. CASE RemoveUnreachable
  <2>1. CASE call' = [op |-> "failed"]
    BY <1>16, <2>1, CallMoves DEF RemoveUnreachable, CallFits, PlainCalls, Returned, StoreInv, StoreTypes
  <2>2. CASE call' = [op |-> "prune", keep |-> Reachable]
    <3>1. Reachable \in SUBSET Blobs /\ \A b \in roots : Closure[b] \subseteq Reachable
      BY <1>t DEF Reachable, StoreInv, StoreTypes
    <3>2. PruneFits(call)'
      BY <1>16, <2>2, <3>1 DEF RemoveUnreachable, PruneFits, PruneCalls
    <3> QED
      BY <1>16, <3>2, CallMoves DEF RemoveUnreachable, CallFits, StoreInv, StoreTypes
  <2> QED
    BY <1>16, <2>1, <2>2 DEF RemoveUnreachable
<1>17. CASE RemoveOne
  <2>0. PruneFits(call) /\ UNCHANGED <<roots, scratch, ticks>>
    BY <1>17, CallShapes DEF RemoveOne, StoreInv
  <2>1. ASSUME NEW o \in Blobs \ call.keep, blob' = [blob EXCEPT ![o] = Absent],
               UNCHANGED <<records, stamp, call>>
        PROVE  StoreInv'
    <3>1. Absent \in [file : {"absent", "good", "bad", "slipped"}, mtime : 0..ticks] /\ Absent.mtime = 0
      BY <1>t DEF Absent
    <3>2. /\ blob' \in [Blobs -> [file : {"absent", "good", "bad", "slipped"}, mtime : 0..ticks]]
          /\ \A x \in Blobs : x # o => blob'[x] = blob[x]
          /\ blob'[o] = Absent
      BY <2>1, <3>1 DEF StoreInv, StoreTypes
    <3>3. StoreTypes'
      BY <2>0, <2>1, <3>2 DEF StoreInv, StoreTypes
    <3>4. StampHonest'
      <4> SUFFICES ASSUME NEW x \in Debs, stamp[x] # 0, stamp[x] = blob'[x].mtime
                   PROVE  blob'[x].file \in {"good", "slipped"}
        BY <2>1 DEF StampHonest
      <4>1. x \in Blobs /\ x # o
        BY <1>t, <3>1, <3>2
      <4> QED
        BY <3>2, <4>1 DEF StoreInv, StampHonest
    <3>5. RetainedWhole'
      BY <1>t, <2>0, <2>1, <3>2 DEF PruneFits, StoreInv, StoreTypes, RetainedWhole
    <3>6. CallFits'
      BY <2>0, <2>1 DEF CallFits, PruneFits
    <3> QED
      BY <3>3, <3>4, <3>5, <3>6 DEF StoreInv
  <2>2. ASSUME NEW b \in records \ roots, records' = records \ {b}, UNCHANGED <<blob, stamp, call>>
        PROVE  StoreInv'
    <3>1. CallFits'
      BY <2>0, <2>2 DEF CallFits, PruneFits
    <3> QED
      BY <2>0, <2>2, <3>1 DEF StoreInv, StoreTypes, StampHonest, RetainedWhole
  <2>3. ASSUME NEW o \in Blobs, stamp' = [stamp EXCEPT ![o] = 0], UNCHANGED <<blob, records, call>>
        PROVE  StoreInv'
    <3>1. CallFits'
      BY <2>0, <2>3 DEF CallFits, PruneFits
    <3>2. stamp' \in [Blobs -> 0..ticks]
      BY <1>t, <2>3 DEF StoreInv, StoreTypes
    <3>3. StampHonest'
      BY <1>t, <2>3 DEF StoreInv, StoreTypes, StampHonest
    <3> QED
      BY <2>0, <2>3, <3>1, <3>2, <3>3 DEF StoreInv, StoreTypes, RetainedWhole
  <2>4. ASSUME call' = [op |-> "pruned"], UNCHANGED <<blob, records, stamp>>
        PROVE  StoreInv'
    BY <2>0, <2>4, CallMoves DEF CallFits, PlainCalls, Returned, StoreInv, StoreTypes
  <2> QED
    BY <1>17, <2>1, <2>2, <2>3, <2>4 DEF RemoveOne
<1>18. CASE RemoveTemporaryEntries
  BY <1>18, CallMoves DEF RemoveTemporaryEntries, NoCall, CallFits, PlainCalls, Returned
<1>19. CASE Tamper
  <2>1. PICK o \in Blobs, content \in {"bad", "slipped"} :
            /\ blob' = [blob EXCEPT ![o] = File(content)] /\ blob[o].file = "good"
            /\ call.op = "stamp" /\ call.of = o => content = "slipped"
    BY <1>19 DEF Tamper, Unguarded
  <2>2. ticks' = ticks + 1 /\ UNCHANGED <<stamp, records, roots, scratch, call>>
    BY <1>19 DEF Tamper
  <2>3. /\ \A x \in Blobs : x # o => blob'[x] = blob[x]
        /\ blob'[o].mtime = ticks + 1 /\ blob'[o].file = content
        /\ blob' \in [Blobs -> [file : {"absent", "good", "bad", "slipped"}, mtime : 0..ticks']]
        /\ stamp' \in [Blobs -> 0..ticks']
    <3>1. File(content) \in [file : {"absent", "good", "bad", "slipped"}, mtime : 0..ticks']
      BY <1>t, <2>2 DEF File
    <3>2. \A x \in Blobs : /\ blob[x] \in [file : {"absent", "good", "bad", "slipped"}, mtime : 0..ticks']
                          /\ stamp[x] \in 0..ticks'
      BY <1>t, <2>2
    <3> QED
      BY <2>1, <2>2, <3>1, <3>2 DEF StoreInv, StoreTypes, File
  <2>4. StoreTypes'
    BY <1>t, <2>2, <2>3 DEF StoreInv, StoreTypes
  <2>5. StampHonest'
    <3> SUFFICES ASSUME NEW x \in Debs, stamp[x] # 0, stamp[x] = blob'[x].mtime
                 PROVE  blob'[x].file \in {"good", "slipped"}
      BY <2>2 DEF StampHonest
    <3>1. x # o
      BY <1>t, <2>3
    <3> QED
      BY <1>t, <2>3, <3>1 DEF StoreInv, StampHonest
  <2>6. RetainedWhole'
    BY <1>t, <2>1, <2>2, <2>3 DEF StoreInv, StoreTypes, RetainedWhole
  <2>7. CallFits'
    <3>1. CASE VerifyFits(call)
      <4>1. call.of \in Blobs /\ call.seen \in 0..ticks
        BY <1>t, <3>1 DEF VerifyFits, VerifyCalls
      <4>2. VerifyFits(call)'
        BY <1>t, <2>2, <2>3, <3>1, <4>1 DEF VerifyFits
      <4> QED
        BY <4>2 DEF CallFits
    <3>2. CASE StampFits(call)
      <4>1. call \in StampCalls /\ call.op = "stamp" /\ call.of \in Blobs
        BY <1>t, <3>2 DEF StampFits, StampCalls
      <4>2. StampFits(call)'
        BY <2>1, <2>2, <2>3, <3>2, <4>1 DEF StampFits
      <4> QED
        BY <4>2 DEF CallFits
    <3>3. CASE call \in PlainCalls \/ call \in LinkCalls
      BY <2>2, <3>3 DEF CallFits, PlainCalls, LinkCalls
    <3>4. CASE AcquireFits(call)
      BY <2>2, <3>4 DEF CallFits, AcquireFits
    <3>5. CASE PruneFits(call)
      BY <2>2, <3>5 DEF CallFits, PruneFits
    <3> QED
      BY <3>1, <3>2, <3>3, <3>4, <3>5 DEF StoreInv, CallFits
  <2> QED
    BY <2>4, <2>5, <2>6, <2>7 DEF StoreInv
<1>20. CASE StoreCrash
  BY <1>20, CallMoves DEF StoreCrash, NoCall, CallFits, PlainCalls, Returned, StoreInv, StoreTypes
<1>21. CASE UNCHANGED storeVars
  BY <1>21, CallMoves DEF storeVars, StoreInv, StoreTypes, CallFits, StampFits, VerifyFits, PruneFits,
     AcquireFits, PlainCalls, LinkCalls
<1> QED
  BY <1>1, <1>2, <1>3, <1>4, <1>5, <1>6, <1>7, <1>8, <1>9, <1>10, <1>11, <1>12, <1>13, <1>14,
     <1>15, <1>16, <1>17, <1>18, <1>19, <1>20, <1>21 DEF StoreNext, CallSteps

-----------------------------------------------------------------------------
(* The theorems                                                             *)

\* The store and the running call fit each other in every reachable state,
\* however calls, changes on disk and crashes follow one another.
THEOREM StoreInvariant == StoreSpec => []StoreInv
<1>1. StoreInit => StoreInv
  BY StoreInitInv
<1>2. StoreInv /\ [StoreNext]_storeVars => StoreInv'
  BY StoreStep
<1> QED
  BY <1>1, <1>2, PTL DEF StoreSpec

\* What acquisition accepts is the artifact, every mirror gets its attempts
\* before the mirrors count as exhausted, a stamp vouches for the bytes on disk
\* and pruning spares what a retained build names (providerstore), for every
\* set of artifacts, builds and mirrors and every limit.
THEOREM StoreStaysSound == StoreSpec => []StoreSound
<1>1. StoreInv => StoreSound
  <2> SUFFICES ASSUME StoreInv PROVE StoreSound
    OBVIOUS
  <2>1. "total" \in DOMAIN call => AcquireFits(call)
    BY DEF StoreInv, CallFits, PlainCalls, LinkCalls, StampFits, StampCalls, VerifyFits,
           VerifyCalls, PruneFits, PruneCalls
  <2>2. StoreTypeOK
    BY <2>1 DEF StoreInv, StoreTypes, StoreTypeOK, AcquireFits
  <2>3. AcquiredExactly
    BY DEF AcquiredExactly, StoreInv, CallFits, PlainCalls, LinkCalls, StampFits, StampCalls,
           AcquireFits, AcquireCalls, VerifyFits, VerifyCalls, PruneFits, PruneCalls
  <2>4. EveryMirrorTried
    <3>1. call.op = "exhausted" => AcquireFits(call)
      BY DEF StoreInv, CallFits, PlainCalls, LinkCalls, StampFits, StampCalls, VerifyFits,
             VerifyCalls, PruneFits, PruneCalls
    <3> QED
      BY <3>1 DEF EveryMirrorTried, AcquireFits
  <2> QED
    BY <2>2, <2>3, <2>4 DEF StoreInv, StoreSound
<1> QED
  BY <1>1, StoreInvariant, PTL

-----------------------------------------------------------------------------
(* The materialization of an archive: its inductive invariant               *)

\* What a node of the tree may be, and where the call may stand.
Kinds == {"none", "directory", "regular", "link"}
UnpackStages ==
    {"open", "members", "links", "publish", "validate", "rollback", "quarantine", "discard",
     "cleanup", "returned", "failed", "crashed"}

\* A link that waits for its target to be copied.
PendingLinks == [at : Tree, of : Tree, run : BOOLEAN]

UnpackRecords ==
    [seen : SUBSET ArchiveNames, kind : [Tree -> Kinds], explicit : SUBSET Tree,
     reserved : SUBSET Tree, pending : Seq(PendingLinks), count : Nat, unpacked : Nat,
     written : Nat, executable : BOOLEAN]

PlaceRecords ==
    [name : {"absent", "ours", "other"}, workspace : BOOLEAN,
     quarantine : {"none", "ours", "other"}, current : BOOLEAN,
     refused : SUBSET {"workspace", "rollback"}]

ArchiveTypes ==
    /\ want \in Requests /\ ValidRequest(want)
    /\ unpack \in UnpackRecords
    /\ unpackStep \in UnpackStages
    /\ place \in PlaceRecords
    /\ intact \in BOOLEAN /\ meddled \in Nat

\* The room the code computes as a difference never goes below zero.
WithinLimits ==
    /\ unpack.unpacked <= want.size /\ unpack.written <= CoreLimit
    /\ unpack.count <= want.entries

\* The reserved names are the nodes; above each there are only directories, and
\* no two are spelled alike.
NodesReserved(kind, reserved) == \A p \in Tree : kind[p] # "none" <=> p \in reserved

ParentsPlaced(kind, reserved) ==
    \A p \in reserved : \A q \in Prefixes(p) : kind[q] = "directory"

SpellingsUnique(reserved) ==
    \A p, q \in reserved : PortableKey(p) = PortableKey(q) => p = q

TreeInv(kind, reserved) ==
    /\ NodesReserved(kind, reserved) /\ ParentsPlaced(kind, reserved)
    /\ SpellingsUnique(reserved)

\* The declared executable was seen and is a file or the copy of one; a copy that
\* is still pending, or done, only claims to be it when it is.
ExecutablePlaced ==
    /\ want.executable \in unpack.seen
    /\ unpack.kind[DestinationPath(want.drop, want.executable)] \in {"regular", "link"}

ExecutableKept ==
    /\ unpack.executable => ExecutablePlaced
    /\ \A i \in 1..Len(unpack.pending) : unpack.pending[i].run => ExecutablePlaced

\* The inventory agrees and no copy is pending: what PublishUnpacked renames.
Complete == InventoryAgrees /\ unpack.pending = <<>>

\* Where the installation, the workspace and the quarantine may be at a step, and
\* what the file system refused when one of them is left at the end.
PlaceAt(p, step, complete) ==
    /\ step \in {"publish", "validate"} => complete
    /\ p.name = "ours" =>
          complete /\ step \in {"validate", "rollback", "quarantine", "returned", "failed", "crashed"}
    /\ p.workspace => step \in {"members", "links", "publish", "cleanup", "failed", "crashed"}
    /\ p.quarantine # "none" => step \in {"discard", "failed", "crashed"}
    /\ p.workspace => "ours" \notin {p.name, p.quarantine}
    /\ step = "failed" =>
          /\ p.workspace => "workspace" \in p.refused
          /\ "ours" \in {p.name, p.quarantine} => "rollback" \in p.refused

PlaceInv == PlaceAt(place, unpackStep, Complete)

ArchiveInv ==
    /\ ArchiveTypes /\ WithinLimits /\ TreeInv(unpack.kind, unpack.reserved)
    /\ ExecutableKept /\ PlaceInv

-----------------------------------------------------------------------------
\* A directory above p is a shorter, nonempty path that p begins with.
LEMMA PrefixOf ==
    ASSUME NEW S, NEW p \in Seq(S), NEW q \in Prefixes(p)
    PROVE  /\ q \in Seq(S) /\ Len(q) \in 1..(Len(p) - 1)
           /\ q = SubSeq(p, 1, Len(q))
<1>1. PICK n \in 1..(Len(p) - 1) : q = SubSeq(p, 1, n)
    BY DEF Prefixes
<1>2. Len(p) \in Nat
    BY LenProperties
<1>4. q \in Seq(S) /\ Len(q) = n
    <2>1. \A i \in 1..n : p[i] \in S
        BY <1>2, LenProperties
    <2>2. n \in Int /\ 1 \in Int /\ 1 <= n /\ n - 1 + 1 = n
        BY <1>2
    <2> QED BY <1>1, <2>1, <2>2, SubSeqProperties
<1> QED BY <1>1, <1>4

\* The directories above a directory above p are above p.
LEMMA PrefixTransitive ==
    ASSUME NEW S, NEW p \in Seq(S), NEW q \in Prefixes(p), NEW r \in Prefixes(q)
    PROVE  r \in Prefixes(p)
<1>0. Len(p) \in Nat
    BY LenProperties
<1>1. /\ q \in Seq(S) /\ Len(q) \in 1..(Len(p) - 1) /\ q = SubSeq(p, 1, Len(q))
    BY PrefixOf
<1>2. /\ r \in Seq(S) /\ Len(r) \in 1..(Len(q) - 1) /\ r = SubSeq(q, 1, Len(r))
    BY <1>1, PrefixOf
<1>3. Len(r) \in 1..(Len(p) - 1)
    BY <1>0, <1>1, <1>2
<1>4. SubSeq(SubSeq(p, 1, Len(q)), 1, Len(r)) = SubSeq(p, 1, Len(r))
    <2>1. /\ 1 \in 1..Len(p) /\ Len(q) \in 1..Len(p)
          /\ 1 \in 1..(Len(q) - 1 + 1) /\ Len(r) \in 1..(Len(q) - 1 + 1)
        BY <1>0, <1>1, <1>2
    <2>2. SubSeq(SubSeq(p, 1, Len(q)), 1, Len(r)) = SubSeq(p, 1 + 1 - 1, 1 + Len(r) - 1)
        BY <2>1, SubSeqOfSubSeq
    <2>3. 1 + 1 - 1 = 1 /\ 1 + Len(r) - 1 = Len(r)
        BY <1>1, <1>2
    <2> QED BY <2>2, <2>3
<1> QED BY <1>1, <1>2, <1>3, <1>4 DEF Prefixes

\* Names that fold to the same key have as many components.
LEMMA KeyLength ==
    ASSUME NEW S, NEW T, NEW p \in Seq(S), NEW q \in Seq(T), PortableKey(p) = PortableKey(q)
    PROVE  Len(p) = Len(q)
<1>1. Len(p) \in Nat /\ Len(q) \in Nat
    BY LenProperties
<1>2. 1..Len(p) = 1..Len(q)
    BY DEF PortableKey
<1> QED BY <1>1, <1>2

LEMMA SuffixIsPath ==
    ASSUME NEW p \in ArchiveNames, NEW n \in 1..2
    PROVE  SubSeq(p, n, Len(p)) \in Seq(DOMAIN Lower)
<1>1. p \in Seq(DOMAIN Lower)
    BY ArchiveBounds
<1>2. Len(p) \in Nat /\ \A i \in n..Len(p) : p[i] \in DOMAIN Lower
    BY <1>1, LenProperties
<1> QED BY <1>2, SubSeqProperties

\* Every node of the tree is a path, and the directories above it are nodes.
LEMMA TreePaths == Tree \subseteq Seq(DOMAIN Lower)
<1>1. Destinations \subseteq Seq(DOMAIN Lower)
    <2>1. <<>> \in Seq(DOMAIN Lower)
        BY EmptySeq
    <2>2. ASSUME NEW x \in Destinations PROVE x \in Seq(DOMAIN Lower)
        <3>1. x = <<>> \/ \E p \in ArchiveNames, n \in 1..2 : x = SubSeq(p, n, Len(p))
            BY DEF Destinations
        <3> QED BY <2>1, <3>1, SuffixIsPath
    <2> QED BY <2>2
<1>2. ASSUME NEW p \in Destinations, NEW q \in Prefixes(p) PROVE q \in Seq(DOMAIN Lower)
    BY <1>1, <1>2, PrefixOf
<1> QED BY <1>1, <1>2 DEF Tree

LEMMA TreeClosed ==
    ASSUME NEW p \in Tree, NEW q \in Prefixes(p)
    PROVE  q \in Tree
<1>1. CASE p \in Destinations
    BY <1>1 DEF Tree
<1>2. CASE p \notin Destinations
    <2>1. PICK d \in Destinations : p \in Prefixes(d)
        BY <1>2 DEF Tree
    <2>2. d \in Seq(DOMAIN Lower)
        BY TreePaths DEF Tree
    <2>3. q \in Prefixes(d)
        BY <2>1, <2>2, PrefixTransitive
    <2> QED BY <2>3 DEF Tree
<1> QED BY <1>1, <1>2

\* A member's destination, with the root dropped, is a node of the tree.
LEMMA DestinationInTree ==
    ASSUME NEW r \in Requests, NEW p \in ArchiveNames
    PROVE  DestinationPath(r.drop, p) \in Tree
<1>1. r.drop = <<>> \/ \E q \in ArchiveNames : r.drop = SubSeq(q, 1, 1)
    BY DEF Requests
<1>2. ASSUME NEW q \in ArchiveNames PROVE Len(SubSeq(q, 1, 1)) = 1
    <2>1. q \in Seq(DOMAIN Lower) /\ q # <<>>
        BY ArchiveBounds
    <2>2. Len(q) \in Nat /\ Len(q) # 0 /\ \A i \in 1..Len(q) : q[i] \in DOMAIN Lower
        BY <2>1, LenProperties, EmptySeq
    <2>3. \A i \in 1..1 : q[i] \in DOMAIN Lower
        BY <2>2
    <2> QED BY <2>3, SubSeqProperties
<1>3. Len(r.drop) = 0 \/ Len(r.drop) = 1
    <2>1. CASE r.drop = <<>>
        <3>1. Len(<<>>) = 0
            BY EmptySeq
        <3> QED BY <2>1, <3>1
    <2>2. CASE \E q \in ArchiveNames : r.drop = SubSeq(q, 1, 1)
        BY <1>2, <2>2
    <2> QED BY <1>1, <2>1, <2>2
<1>4. PICK n \in 1..2 : n = Len(r.drop) + 1
    <2>1. CASE Len(r.drop) = 0
        <3>1. 1 \in 1..2 /\ 1 = Len(r.drop) + 1
            BY <2>1
        <3> QED BY <3>1
    <2>2. CASE Len(r.drop) = 1
        <3>1. 2 \in 1..2 /\ 2 = Len(r.drop) + 1
            BY <2>2
        <3> QED BY <3>1
    <2> QED BY <1>3, <2>1, <2>2
<1>5. SubSeq(p, n, Len(p)) \in Destinations
    BY DEF Destinations
<1> QED BY <1>4, <1>5 DEF DestinationPath, Tree

\* The kinds of the nodes after a member is placed
KindsWith(d, k) ==
    [q \in Tree |-> IF q = d THEN k ELSE IF q \in Prefixes(d) THEN "directory" ELSE unpack.kind[q]]

LEMMA PlacedFields ==
    ASSUME unpack \in UnpackRecords, NEW d \in Tree, NEW k \in Kinds, NEW p \in ArchiveNames,
           NEW u, u = Counted(Placed(d, k), p)
    PROVE  /\ u \in UnpackRecords
           /\ u.kind = KindsWith(d, k)
           /\ u.reserved = unpack.reserved \cup Prefixes(d) \cup {d}
           /\ u.seen = unpack.seen \cup {p} /\ u.count = unpack.count + 1
           /\ u.pending = unpack.pending /\ u.unpacked = unpack.unpacked
           /\ u.written = unpack.written /\ u.executable = unpack.executable
<1>1. KindsWith(d, k) \in [Tree -> Kinds]
    BY DEF KindsWith, UnpackRecords, Kinds
<1>2. unpack.reserved \cup Prefixes(d) \cup {d} \in SUBSET Tree
    BY TreeClosed DEF UnpackRecords
<1> DEFINE a == [unpack EXCEPT !.kind = KindsWith(d, k)]
           b == [a EXCEPT !.explicit = unpack.explicit \cup {d}]
           c == [b EXCEPT !.reserved = unpack.reserved \cup Prefixes(d) \cup {d}]
           e == [c EXCEPT !.seen = unpack.seen \cup {p}]
<1>3. u = [e EXCEPT !.count = unpack.count + 1]
    BY DEF Counted, Placed, KindsWith, UnpackRecords
<1>4. /\ a \in UnpackRecords /\ a.kind = KindsWith(d, k)
      /\ a.seen = unpack.seen /\ a.count = unpack.count
      /\ a.pending = unpack.pending /\ a.unpacked = unpack.unpacked
      /\ a.written = unpack.written /\ a.executable = unpack.executable
    BY <1>1 DEF UnpackRecords
<1> HIDE DEF a
<1>5. /\ b \in UnpackRecords /\ b.kind = a.kind
      /\ b.seen = a.seen /\ b.count = a.count /\ b.pending = a.pending
      /\ b.unpacked = a.unpacked /\ b.written = a.written /\ b.executable = a.executable
    BY <1>4 DEF UnpackRecords
<1> HIDE DEF b
<1>6. /\ c \in UnpackRecords /\ c.kind = b.kind
      /\ c.reserved = unpack.reserved \cup Prefixes(d) \cup {d}
      /\ c.seen = b.seen /\ c.count = b.count /\ c.pending = b.pending
      /\ c.unpacked = b.unpacked /\ c.written = b.written /\ c.executable = b.executable
    BY <1>2, <1>5 DEF UnpackRecords
<1> HIDE DEF c
<1>7. /\ e \in UnpackRecords /\ e.kind = c.kind /\ e.reserved = c.reserved
      /\ e.seen = unpack.seen \cup {p} /\ e.count = c.count /\ e.pending = c.pending
      /\ e.unpacked = c.unpacked /\ e.written = c.written /\ e.executable = c.executable
    BY <1>6 DEF UnpackRecords
<1> HIDE DEF e
<1>8. unpack.count + 1 \in Nat
    <2>1. unpack.count \in Nat
        BY DEF UnpackRecords
    <2> QED BY <2>1
<1>9. /\ u \in UnpackRecords /\ u.kind = e.kind /\ u.reserved = e.reserved
      /\ u.seen = e.seen /\ u.count = unpack.count + 1 /\ u.pending = e.pending
      /\ u.unpacked = e.unpacked /\ u.written = e.written /\ u.executable = e.executable
    <2> DEFINE n == unpack.count + 1
    <2>1. n \in Nat /\ u = [e EXCEPT !.count = n]
        BY <1>3, <1>8
    <2>2. n = unpack.count + 1
        OBVIOUS
    <2> HIDE DEF n
    <2>3. /\ u \in UnpackRecords /\ u.kind = e.kind /\ u.reserved = e.reserved
          /\ u.seen = e.seen /\ u.count = n /\ u.pending = e.pending
          /\ u.unpacked = e.unpacked /\ u.written = e.written /\ u.executable = e.executable
        BY <1>7, <2>1 DEF UnpackRecords
    <2> QED BY <2>2, <2>3
<1> QED BY <1>4, <1>5, <1>6, <1>7, <1>9

\* What a member's place must be: a new node, or a directory that is implied already
PlaceFits(d, k) ==
    \/ unpack.kind[d] = "none" /\ Reservable(d) /\ ParentsFit(d)
    \/ unpack.kind[d] = "directory" /\ k = "directory"

\* Placing a member never turns a file or a link into something else.
LEMMA KindsKept ==
    ASSUME unpack \in UnpackRecords, TreeInv(unpack.kind, unpack.reserved),
           NEW d \in Tree, NEW k \in Kinds, PlaceFits(d, k),
           NEW q \in Tree, unpack.kind[q] \in {"regular", "link"}
    PROVE  KindsWith(d, k)[q] = unpack.kind[q]
<1>1. q # d
    BY DEF PlaceFits
<1>2. q \notin Prefixes(d)
    BY DEF PlaceFits, ParentsFit, TreeInv, NodesReserved, ParentsPlaced
<1> QED BY <1>1, <1>2 DEF KindsWith

\* Placing a member where it fits keeps the tree a tree.
LEMMA PlacedTree ==
    ASSUME unpack \in UnpackRecords, TreeInv(unpack.kind, unpack.reserved),
           NEW d \in Tree, NEW k \in Kinds \ {"none"}, PlaceFits(d, k)
    PROVE  TreeInv(KindsWith(d, k), unpack.reserved \cup Prefixes(d) \cup {d})
<1> DEFINE kind == KindsWith(d, k)
           reserved == unpack.reserved \cup Prefixes(d) \cup {d}
<1>1. CASE unpack.kind[d] = "directory" /\ k = "directory"
    <2>1. d \in unpack.reserved /\ \A q \in Prefixes(d) : unpack.kind[q] = "directory"
        BY <1>1 DEF TreeInv, NodesReserved, ParentsPlaced
    <2>2. Prefixes(d) \subseteq unpack.reserved
        BY <2>1, TreeClosed DEF TreeInv, NodesReserved
    <2>3. kind = unpack.kind
        BY <1>1, <2>1 DEF KindsWith, UnpackRecords
    <2>4. reserved = unpack.reserved
        BY <2>1, <2>2
    <2> QED BY <2>3, <2>4
<1>2. CASE unpack.kind[d] = "none" /\ Reservable(d) /\ ParentsFit(d)
    <2>0. d \in Seq(DOMAIN Lower) /\ d \notin Prefixes(d)
        <3>1. d \in Seq(DOMAIN Lower)
            BY TreePaths
        <3>2. ASSUME d \in Prefixes(d) PROVE FALSE
            <4>1. Len(d) \in 1..(Len(d) - 1) /\ Len(d) \in Nat
                BY <3>1, <3>2, PrefixOf, LenProperties
            <4> QED BY <4>1
        <3> QED BY <3>1, <3>2
    <2>1. NodesReserved(kind, reserved)
        <3>1. ASSUME NEW p \in Tree PROVE kind[p] # "none" <=> p \in reserved
            BY DEF KindsWith, TreeInv, NodesReserved
        <3> QED BY <3>1 DEF NodesReserved
    <2>2. ParentsPlaced(kind, reserved)
        <3>1. ASSUME NEW p \in reserved, NEW q \in Prefixes(p) PROVE kind[q] = "directory"
            <4>1. CASE p = d
                <5>1. q \in Tree /\ q # d
                    BY <2>0, <4>1, TreeClosed
                <5> QED BY <5>1, <4>1 DEF KindsWith
            <4>2. CASE p \in Prefixes(d)
                <5>1. q \in Prefixes(d)
                    BY <2>0, <4>2, PrefixTransitive
                <5>2. q \in Tree /\ q # d
                    BY <2>0, <5>1, TreeClosed
                <5> QED BY <5>1, <5>2 DEF KindsWith
            <4>3. CASE p \in unpack.reserved
                <5>1. unpack.kind[q] = "directory" /\ p \in Tree
                    BY <4>3 DEF TreeInv, ParentsPlaced, UnpackRecords
                <5>2. q \in Tree /\ q # d
                    BY <5>1, <1>2, TreeClosed
                <5> QED BY <5>1, <5>2 DEF KindsWith
            <4> QED BY <4>1, <4>2, <4>3
        <3> QED BY <3>1 DEF ParentsPlaced
    <2>3. SpellingsUnique(reserved)
        <3> SUFFICES ASSUME NEW p \in reserved, NEW q \in reserved, PortableKey(p) = PortableKey(q)
                     PROVE  p = q
            BY DEF SpellingsUnique
        <3>1. CASE p \in unpack.reserved /\ q \in unpack.reserved
            BY <3>1 DEF TreeInv, SpellingsUnique
        <3>2. CASE p \in unpack.reserved /\ q \in Prefixes(d) \cup {d}
            BY <1>2, <3>2 DEF Reservable
        <3>3. CASE q \in unpack.reserved /\ p \in Prefixes(d) \cup {d}
            BY <1>2, <3>3 DEF Reservable
        <3>4. CASE p \in Prefixes(d) \cup {d} /\ q \in Prefixes(d) \cup {d}
            <4>1. \A x \in Prefixes(d) \cup {d} : x \in Seq(DOMAIN Lower) /\ x = SubSeq(d, 1, Len(x))
                BY <2>0, PrefixOf, SubSeqFull
            <4>2. Len(p) = Len(q)
                BY <3>4, <4>1, KeyLength
            <4> QED BY <3>4, <4>1, <4>2
        <3> QED BY <3>1, <3>2, <3>3, <3>4
    <2> QED BY <2>1, <2>2, <2>3 DEF TreeInv
<1> QED BY <1>1, <1>2 DEF PlaceFits

LEMMA ExecutableInTree ==
    ASSUME ArchiveInv, ExecutablePlaced
    PROVE  DestinationPath(want.drop, want.executable) \in Tree
<1>1. want.executable \in ArchiveNames /\ want \in Requests
    BY DEF ArchiveInv, ArchiveTypes, UnpackRecords, ExecutablePlaced
<1> QED BY <1>1, DestinationInTree

LEMMA UnpackUntouched ==
    ASSUME ArchiveInv, UNCHANGED <<want, unpack>>
    PROVE  /\ WithinLimits' /\ TreeInv(unpack.kind, unpack.reserved)' /\ ExecutableKept'
           /\ want' \in Requests /\ ValidRequest(want)' /\ unpack' \in UnpackRecords
           /\ Complete' <=> Complete
<1>1. WithinLimits' /\ want' \in Requests /\ ValidRequest(want)' /\ unpack' \in UnpackRecords
    BY DEF ArchiveInv, ArchiveTypes, WithinLimits
<1>2. TreeInv(unpack.kind, unpack.reserved)'
    BY DEF ArchiveInv
<1>3. ExecutableKept'
    BY DEF ArchiveInv, ExecutableKept, ExecutablePlaced
<1>4. Complete' <=> Complete
    BY DEF Complete, InventoryAgrees
<1> QED BY <1>1, <1>2, <1>3, <1>4

\* A refusal before publication leaves at most the workspace to be removed.
LEMMA RefuseKeeps ==
    ASSUME ArchiveInv, Refuse, unpackStep \in {"open", "members", "links", "publish"},
           want' = want, intact' \in BOOLEAN, meddled' \in Nat
    PROVE  ArchiveInv'
<1>1. UNCHANGED <<want, unpack, place>> /\ unpackStep' = "cleanup"
    BY DEF Refuse
<1>2. place \in PlaceRecords
    BY DEF ArchiveInv, ArchiveTypes
<1>3. PlaceInv'
    BY <1>1 DEF ArchiveInv, PlaceInv, PlaceAt
<1>4. ArchiveTypes'
    BY <1>1, <1>2, UnpackUntouched DEF ArchiveTypes, UnpackStages
<1> QED BY <1>1, <1>3, <1>4, UnpackUntouched DEF ArchiveInv

\* A step that leaves what was unpacked alone keeps the invariant when it keeps
\* what the invariant says of the destination.
LEMMA PlaceStepKeeps ==
    ASSUME ArchiveInv, UNCHANGED <<want, unpack>>, unpackStep' \in UnpackStages,
           place' \in PlaceRecords,
           intact' \in BOOLEAN, meddled' \in Nat,
           PlaceAt(place', unpackStep', Complete)
    PROVE  ArchiveInv'
<1>1. PlaceInv'
    BY UnpackUntouched DEF PlaceInv, PlaceAt
<1>2. ArchiveTypes'
    BY UnpackUntouched DEF ArchiveTypes
<1> QED BY <1>1, <1>2, UnpackUntouched DEF ArchiveInv

\* What accepting a member does to the tree, the count and the executable.
LEMMA MemberPlaced ==
    ASSUME ArchiveInv, NEW p \in ArchiveNames, NEW k \in Kinds \ {"none"}, NEW d \in Tree,
           d = DestinationPath(want.drop, p),
           PathAccepted(p), PlaceFits(d, k), want' = want,
           unpack'.kind = KindsWith(d, k),
           unpack'.reserved = unpack.reserved \cup Prefixes(d) \cup {d},
           unpack'.seen = unpack.seen \cup {p}, unpack'.count = unpack.count + 1
    PROVE  /\ TreeInv(unpack.kind, unpack.reserved)'
           /\ unpack'.count <= want.entries
           /\ ExecutablePlaced => ExecutablePlaced'
           /\ p = want.executable /\ k \in {"regular", "link"} => ExecutablePlaced'
<1>0. unpack \in UnpackRecords /\ TreeInv(unpack.kind, unpack.reserved) /\ want \in Requests
    BY DEF ArchiveInv, ArchiveTypes
<1>1. TreeInv(unpack'.kind, unpack'.reserved)
    BY <1>0, PlacedTree
<1>2. unpack'.count <= want.entries
    <2>1. unpack.count < want.entries /\ unpack.count \in Nat /\ want.entries \in Nat
        BY <1>0, ArchiveBounds DEF PathAccepted, Requests, UnpackRecords
    <2> QED BY <2>1
<1>3. ASSUME ExecutablePlaced PROVE ExecutablePlaced'
    <2>1. DestinationPath(want.drop, want.executable) \in Tree
        BY <1>3, ExecutableInTree
    <2>2. unpack'.kind[DestinationPath(want.drop, want.executable)]
            = unpack.kind[DestinationPath(want.drop, want.executable)]
        BY <1>0, <1>3, <2>1, KindsKept DEF ExecutablePlaced
    <2> QED BY <1>3, <2>2 DEF ExecutablePlaced, DestinationPath
<1>4. ASSUME p = want.executable, k \in {"regular", "link"} PROVE ExecutablePlaced'
    <2>1. unpack'.kind[d] = k
        BY DEF KindsWith
    <2> QED BY <1>4, <2>1 DEF ExecutablePlaced, DestinationPath
<1> QED BY <1>1, <1>2, <1>3, <1>4

LEMMA PlaceTyped ==
    ArchiveInv => /\ place \in PlaceRecords /\ intact \in BOOLEAN /\ meddled \in Nat
                  /\ unpackStep \in UnpackStages
BY DEF ArchiveInv, ArchiveTypes

\* A member is accepted: the rest of the state is left alone.
LEMMA MemberKeeps ==
    ASSUME ArchiveInv, unpackStep = "members", UNCHANGED <<want, unpackStep, place, intact, meddled>>,
           unpack' \in UnpackRecords, WithinLimits', TreeInv(unpack.kind, unpack.reserved)',
           ExecutableKept'
    PROVE  ArchiveInv'
<1>1. ArchiveTypes'
    BY DEF ArchiveInv, ArchiveTypes
<1>2. PlaceInv'
    BY DEF ArchiveInv, PlaceInv, PlaceAt
<1> QED BY <1>1, <1>2 DEF ArchiveInv

LEMMA DirectoryMemberKeeps ==
    ASSUME ArchiveInv, unpackStep = "members", UNCHANGED <<want, intact, meddled>>,
           NEW p \in ArchiveNames, DirectoryMember(p)
    PROVE  ArchiveInv'
<1> DEFINE d == DestinationPath(want.drop, p)
<1>0. unpack \in UnpackRecords /\ want \in Requests /\ d \in Tree
    BY DestinationInTree DEF ArchiveInv, ArchiveTypes
<1> HIDE DEF d
<1>1. CASE PathAccepted(p) /\ DirectoryFits(d)
    <2>1. unpack' = Counted(Placed(d, "directory"), p) /\ UNCHANGED <<unpackStep, place>>
        BY <1>1 DEF DirectoryMember, d
    <2>2. "directory" \in Kinds \ {"none"} /\ PlaceFits(d, "directory")
        BY <1>1 DEF DirectoryFits, PlaceFits, Kinds
    <2>3. /\ unpack' \in UnpackRecords
          /\ unpack'.kind = KindsWith(d, "directory")
          /\ unpack'.reserved = unpack.reserved \cup Prefixes(d) \cup {d}
          /\ unpack'.seen = unpack.seen \cup {p} /\ unpack'.count = unpack.count + 1
          /\ unpack'.pending = unpack.pending /\ unpack'.unpacked = unpack.unpacked
          /\ unpack'.written = unpack.written /\ unpack'.executable = unpack.executable
        BY <1>0, <2>1, <2>2, PlacedFields
    <2>4. /\ TreeInv(unpack.kind, unpack.reserved)' /\ unpack'.count <= want.entries
          /\ ExecutablePlaced => ExecutablePlaced'
        BY <1>0, <1>1, <2>2, <2>3, MemberPlaced DEF d
    <2>5. WithinLimits'
        BY <2>3, <2>4 DEF ArchiveInv, WithinLimits
    <2>6. ExecutableKept'
        BY <2>3, <2>4 DEF ArchiveInv, ExecutableKept
    <2> QED BY <2>1, <2>3, <2>4, <2>5, <2>6, MemberKeeps
<1>2. CASE ~(PathAccepted(p) /\ DirectoryFits(d))
    <2>1. Refuse
        BY <1>2 DEF DirectoryMember, d
    <2> QED BY <2>1, RefuseKeeps, PlaceTyped
<1> QED BY <1>1, <1>2

LEMMA RegularMemberKeeps ==
    ASSUME ArchiveInv, unpackStep = "members", UNCHANGED <<want, intact, meddled>>,
           NEW p \in ArchiveNames, NEW size \in MemberSizes, RegularMember(p, size)
    PROVE  ArchiveInv'
<1> DEFINE d == DestinationPath(want.drop, p)
           u == Counted(Placed(d, "regular"), p)
<1>0. unpack \in UnpackRecords /\ want \in Requests /\ d \in Tree
    BY DestinationInTree DEF ArchiveInv, ArchiveTypes
<1>1. CASE PathAccepted(p) /\ SizeFits(size) /\ FileFits(d)
    <2>1. /\ unpack' = [u EXCEPT !.unpacked = @ + size, !.written = @ + size,
                                 !.executable = @ \/ p = want.executable]
          /\ UNCHANGED <<unpackStep, place>>
        BY <1>1 DEF RegularMember
    <2> HIDE DEF d
    <2>2. "regular" \in Kinds \ {"none"} /\ PlaceFits(d, "regular")
        BY <1>1 DEF FileFits, PlaceFits, Kinds
    <2>3. /\ u \in UnpackRecords
          /\ u.kind = KindsWith(d, "regular")
          /\ u.reserved = unpack.reserved \cup Prefixes(d) \cup {d}
          /\ u.seen = unpack.seen \cup {p} /\ u.count = unpack.count + 1
          /\ u.pending = unpack.pending /\ u.unpacked = unpack.unpacked
          /\ u.written = unpack.written /\ u.executable = unpack.executable
        BY <1>0, <2>2, PlacedFields
    <2> HIDE DEF u
    <2> DEFINE a == [u EXCEPT !.unpacked = u.unpacked + size]
               b == [a EXCEPT !.written = u.written + size]
               run == u.executable \/ p = want.executable
    <2>4. unpack' = [b EXCEPT !.executable = run] /\ run \in BOOLEAN
        BY <2>1, <2>3 DEF UnpackRecords
    <2>5. run => u.executable \/ p = want.executable
        OBVIOUS
    <2> HIDE DEF run
    <2>6. size \in Nat /\ u.unpacked + size \in Nat /\ u.written + size \in Nat
        <3>1. size \in Nat
            BY ArchiveBounds
        <3>2. u.unpacked \in Nat /\ u.written \in Nat
            BY <2>3 DEF UnpackRecords
        <3> QED BY <3>1, <3>2
    <2>7. /\ a \in UnpackRecords /\ a.unpacked = u.unpacked + size
          /\ a.kind = u.kind /\ a.reserved = u.reserved /\ a.seen = u.seen /\ a.count = u.count
          /\ a.pending = u.pending /\ a.written = u.written
        BY <2>3, <2>6 DEF UnpackRecords
    <2> HIDE DEF a
    <2>8. /\ b \in UnpackRecords /\ b.unpacked = a.unpacked /\ b.written = u.written + size
          /\ b.kind = a.kind /\ b.reserved = a.reserved /\ b.seen = a.seen /\ b.count = a.count
          /\ b.pending = a.pending
        BY <2>3, <2>6, <2>7 DEF UnpackRecords
    <2> HIDE DEF b
    <2>9. /\ unpack' \in UnpackRecords /\ unpack'.unpacked = b.unpacked /\ unpack'.written = b.written
          /\ unpack'.kind = b.kind /\ unpack'.reserved = b.reserved /\ unpack'.seen = b.seen
          /\ unpack'.count = b.count /\ unpack'.pending = b.pending /\ unpack'.executable = run
        BY <2>4, <2>8 DEF UnpackRecords
    <2>10. /\ TreeInv(unpack.kind, unpack.reserved)' /\ unpack'.count <= want.entries
           /\ ExecutablePlaced => ExecutablePlaced'
           /\ p = want.executable => ExecutablePlaced'
        <3>1. d = DestinationPath(want.drop, p)
            BY DEF d
        <3>2. /\ unpack'.kind = KindsWith(d, "regular")
              /\ unpack'.reserved = unpack.reserved \cup Prefixes(d) \cup {d}
              /\ unpack'.seen = unpack.seen \cup {p} /\ unpack'.count = unpack.count + 1
            BY <2>3, <2>7, <2>8, <2>9
        <3> QED BY <1>0, <1>1, <2>2, <3>1, <3>2, MemberPlaced
    <2>11. WithinLimits'
        <3>1. /\ unpack'.unpacked = unpack.unpacked + size /\ unpack'.written = unpack.written + size
            BY <2>3, <2>7, <2>8, <2>9
        <3>2. /\ unpack.unpacked \in Nat /\ unpack.written \in Nat /\ want.size \in Nat
              /\ CoreLimit \in Nat
            BY <1>0, ArchiveBounds DEF UnpackRecords, Requests
        <3>3. size <= want.size - unpack.unpacked /\ size <= CoreLimit - unpack.written
            BY <1>1 DEF SizeFits
        <3>4. unpack'.unpacked <= want.size /\ unpack'.written <= CoreLimit
            BY <2>6, <3>1, <3>2, <3>3
        <3> QED BY <2>10, <3>4 DEF WithinLimits
    <2>12. ExecutableKept'
        <3>1. unpack'.executable => ExecutablePlaced'
            BY <2>3, <2>5, <2>9, <2>10 DEF ArchiveInv, ExecutableKept
        <3>2. unpack'.pending = unpack.pending
            BY <2>3, <2>7, <2>8, <2>9
        <3> QED BY <2>10, <3>1, <3>2 DEF ArchiveInv, ExecutableKept
    <2> QED BY <2>1, <2>9, <2>10, <2>11, <2>12, MemberKeeps
<1>2. CASE ~(PathAccepted(p) /\ SizeFits(size) /\ FileFits(d))
    <2>1. Refuse
        BY <1>2 DEF RegularMember
    <2> QED BY <2>1, RefuseKeeps, PlaceTyped
<1> QED BY <1>1, <1>2

LEMMA LinkMemberKeeps ==
    ASSUME ArchiveInv, unpackStep = "members", UNCHANGED <<want, intact, meddled>>,
           NEW p \in ArchiveNames, NEW target \in ArchiveNames, LinkMember(p, target)
    PROVE  ArchiveInv'
<1> DEFINE d == DestinationPath(want.drop, p)
           t == DestinationPath(want.drop, target)
           u == Counted(Placed(d, "link"), p)
           run == p = want.executable
           link == [at |-> d, of |-> t, run |-> run]
<1>0. unpack \in UnpackRecords /\ want \in Requests /\ d \in Tree /\ t \in Tree
    BY DestinationInTree DEF ArchiveInv, ArchiveTypes
<1> DEFINE fits == want.links /\ PathAccepted(p) /\ Within(want.root, target) /\ FileFits(d)
<1>1. CASE fits
    <2>1. /\ unpack' = [u EXCEPT !.pending = Append(@, link)]
          /\ UNCHANGED <<unpackStep, place>>
        BY <1>1 DEF LinkMember
    <2>2. PathAccepted(p) /\ "link" \in Kinds \ {"none"} /\ PlaceFits(d, "link")
        BY <1>1 DEF FileFits, PlaceFits, Kinds
    <2> HIDE DEF d, t, fits
    <2>3. /\ u \in UnpackRecords
          /\ u.kind = KindsWith(d, "link")
          /\ u.reserved = unpack.reserved \cup Prefixes(d) \cup {d}
          /\ u.seen = unpack.seen \cup {p} /\ u.count = unpack.count + 1
          /\ u.pending = unpack.pending /\ u.unpacked = unpack.unpacked
          /\ u.written = unpack.written /\ u.executable = unpack.executable
        BY <1>0, <2>2, PlacedFields
    <2> HIDE DEF u
    <2>4. run \in BOOLEAN /\ (run => p = want.executable)
        OBVIOUS
    <2> HIDE DEF run
    <2>5. link \in PendingLinks /\ link.run = run
        BY <1>0, <2>4 DEF PendingLinks
    <2> HIDE DEF link
    <2>6. unpack.pending \in Seq(PendingLinks)
        BY <1>0 DEF UnpackRecords
    <2> DEFINE links == Append(unpack.pending, link)
    <2>7. /\ links \in Seq(PendingLinks) /\ Len(links) = Len(unpack.pending) + 1
          /\ \A i \in 1..Len(unpack.pending) : links[i] = unpack.pending[i]
          /\ links[Len(unpack.pending) + 1] = link
        BY <2>5, <2>6, AppendProperties
    <2>8. unpack' = [u EXCEPT !.pending = links]
        BY <2>1, <2>3
    <2> HIDE DEF links
    <2>9. /\ unpack' \in UnpackRecords /\ unpack'.unpacked = u.unpacked /\ unpack'.written = u.written
          /\ unpack'.kind = u.kind /\ unpack'.reserved = u.reserved /\ unpack'.seen = u.seen
          /\ unpack'.count = u.count /\ unpack'.pending = links /\ unpack'.executable = u.executable
        BY <2>3, <2>7, <2>8 DEF UnpackRecords
    <2>10. /\ TreeInv(unpack.kind, unpack.reserved)' /\ unpack'.count <= want.entries
           /\ ExecutablePlaced => ExecutablePlaced'
           /\ p = want.executable => ExecutablePlaced'
        <3>1. d = DestinationPath(want.drop, p)
            BY DEF d
        <3> QED BY <1>0, <2>2, <2>3, <2>9, <3>1, MemberPlaced
    <2>11. WithinLimits'
        BY <2>3, <2>9, <2>10 DEF ArchiveInv, WithinLimits
    <2>12. ExecutableKept'
        <3>1. unpack'.executable => ExecutablePlaced'
            BY <2>3, <2>9, <2>10 DEF ArchiveInv, ExecutableKept
        <3>2. ASSUME NEW i \in 1..Len(links), links[i].run PROVE ExecutablePlaced'
            <4>0. Len(unpack.pending) \in Nat
                BY <2>6, LenProperties
            <4>1. CASE i \in 1..Len(unpack.pending)
                BY <2>7, <2>10, <3>2, <4>1 DEF ArchiveInv, ExecutableKept
            <4>2. CASE i = Len(unpack.pending) + 1
                BY <2>4, <2>5, <2>7, <2>10, <3>2, <4>2
            <4>3. i \in 1..Len(unpack.pending) \/ i = Len(unpack.pending) + 1
                BY <2>7, <4>0
            <4> QED BY <4>1, <4>2, <4>3
        <3> QED BY <2>9, <3>1, <3>2 DEF ExecutableKept
    <2> QED BY <2>1, <2>9, <2>10, <2>11, <2>12, MemberKeeps
<1>2. CASE ~fits
    <2>1. Refuse
        BY <1>2 DEF LinkMember
    <2> QED BY <2>1, RefuseKeeps, PlaceTyped
<1> QED BY <1>1, <1>2

LEMMA MaterializeLinkKeeps ==
    ASSUME ArchiveInv, MaterializeLink
    PROVE  ArchiveInv'
<1> DEFINE link == Head(unpack.pending)
           rest == Tail(unpack.pending)
<1>0. /\ unpackStep = "links" /\ unpack.pending # <<>> /\ unpack \in UnpackRecords /\ want \in Requests
      /\ unpack.pending \in Seq(PendingLinks)
    BY DEF MaterializeLink, ArchiveInv, ArchiveTypes, UnpackRecords
<1>1. CASE Abandon /\ UNCHANGED meddled
    BY <1>0, <1>1, RefuseKeeps, PlaceTyped DEF Abandon
<1>2. CASE \E size \in MemberSizes :
              /\ size <= CoreLimit - unpack.written
              /\ unpack' = [unpack EXCEPT !.pending = Tail(@), !.written = @ + size,
                                          !.executable = @ \/ link.run]
              /\ UNCHANGED <<unpackStep, place, want, intact, meddled>>
    <2>1. PICK size \in MemberSizes :
              /\ size <= CoreLimit - unpack.written
              /\ unpack' = [unpack EXCEPT !.pending = rest, !.written = unpack.written + size,
                                          !.executable = unpack.executable \/ link.run]
              /\ UNCHANGED <<unpackStep, place, want, intact, meddled>>
        BY <1>2, <1>0 DEF UnpackRecords
    <2>2. /\ link \in PendingLinks /\ rest \in Seq(PendingLinks) /\ Len(rest) = Len(unpack.pending) - 1
          /\ \A i \in 1..Len(rest) : rest[i] = unpack.pending[i + 1]
        BY <1>0, HeadTailProperties
    <2>3. link = unpack.pending[1] /\ Len(unpack.pending) \in Nat \ {0} /\ Len(rest) \in Nat
        BY <1>0, <2>2, EmptySeq, LenProperties
    <2> HIDE DEF link, rest
    <2> DEFINE run == unpack.executable \/ link.run
               total == unpack.written + size
               a == [unpack EXCEPT !.pending = rest]
               b == [a EXCEPT !.written = total]
    <2>4. run \in BOOLEAN /\ (run => unpack.executable \/ link.run)
        BY <1>0, <2>2 DEF UnpackRecords, PendingLinks
    <2>5. total \in Nat /\ total <= CoreLimit
        BY <1>0, <2>1, ArchiveBounds DEF UnpackRecords
    <2>6. unpack' = [b EXCEPT !.executable = run]
        BY <2>1
    <2> HIDE DEF run, total
    <2>7. /\ a \in UnpackRecords /\ a.unpacked = unpack.unpacked /\ a.kind = unpack.kind
          /\ a.reserved = unpack.reserved /\ a.seen = unpack.seen /\ a.count = unpack.count
          /\ a.pending = rest
        BY <1>0, <2>2 DEF UnpackRecords
    <2> HIDE DEF a
    <2>8. /\ b \in UnpackRecords /\ b.unpacked = a.unpacked /\ b.kind = a.kind
          /\ b.reserved = a.reserved /\ b.seen = a.seen /\ b.count = a.count
          /\ b.pending = a.pending /\ b.written = total
        BY <2>5, <2>7 DEF UnpackRecords
    <2> HIDE DEF b
    <2>9. /\ unpack' \in UnpackRecords /\ unpack'.unpacked = b.unpacked /\ unpack'.kind = b.kind
          /\ unpack'.reserved = b.reserved /\ unpack'.seen = b.seen /\ unpack'.count = b.count
          /\ unpack'.pending = b.pending /\ unpack'.written = total /\ unpack'.executable = run
        BY <2>4, <2>6, <2>8 DEF UnpackRecords
    <2>10. /\ unpack'.kind = unpack.kind /\ unpack'.reserved = unpack.reserved
           /\ unpack'.seen = unpack.seen /\ unpack'.count = unpack.count
           /\ unpack'.unpacked = unpack.unpacked /\ unpack'.pending = rest /\ want' = want
        BY <2>1, <2>7, <2>8, <2>9
    <2>11. TreeInv(unpack.kind, unpack.reserved)'
        BY <2>10 DEF ArchiveInv
    <2>12. WithinLimits'
        BY <2>5, <2>9, <2>10 DEF ArchiveInv, WithinLimits
    <2>13. ExecutableKept'
        <3>1. ExecutablePlaced => ExecutablePlaced'
            BY <2>10 DEF ExecutablePlaced, DestinationPath
        <3>2. link.run => ExecutablePlaced
            BY <2>3 DEF ArchiveInv, ExecutableKept
        <3>3. unpack'.executable => ExecutablePlaced'
            BY <2>4, <2>9, <3>1, <3>2 DEF ArchiveInv, ExecutableKept
        <3>4. ASSUME NEW i \in 1..Len(rest), rest[i].run PROVE ExecutablePlaced'
            <4>1. i + 1 \in 1..Len(unpack.pending)
                BY <2>2, <2>3
            <4> QED BY <2>2, <3>1, <3>4, <4>1 DEF ArchiveInv, ExecutableKept
        <3> QED BY <2>10, <3>3, <3>4 DEF ExecutableKept
    <2>14. ArchiveTypes'
        BY <2>1, <2>9 DEF ArchiveInv, ArchiveTypes
    <2>15. PlaceInv'
        BY <1>0, <2>1 DEF ArchiveInv, PlaceInv, PlaceAt
    <2> QED BY <2>11, <2>12, <2>13, <2>14, <2>15 DEF ArchiveInv
<1> QED BY <1>0, <1>1, <1>2 DEF MaterializeLink

LEMMA MeddleCounts == ASSUME ArchiveInv, Meddle PROVE meddled' \in Nat
BY PlaceTyped DEF Meddle

LEMMA OpenArchiveKeeps == ASSUME ArchiveInv, OpenArchive PROVE ArchiveInv'
<1>1. CASE Abandon /\ UNCHANGED meddled
    BY <1>1, RefuseKeeps, PlaceTyped DEF OpenArchive, Abandon
<1>2. CASE /\ place' = [place EXCEPT !.workspace = TRUE] /\ place.name = "absent"
           /\ UNCHANGED <<want, unpack, intact>>
           /\ unpackStep' \in {"members", "cleanup"} /\ (Meddle \/ UNCHANGED meddled)
    <2>1. /\ place' \in PlaceRecords /\ place'.name = "absent"
          /\ place'.quarantine = place.quarantine
        BY <1>2, PlaceTyped DEF PlaceRecords
    <2>2. place.quarantine = "none" /\ meddled' \in Nat
        BY <1>2, PlaceTyped, MeddleCounts DEF OpenArchive, ArchiveInv, PlaceInv, PlaceAt
    <2>3. PlaceAt(place', unpackStep', Complete)
        BY <1>2, <2>1, <2>2 DEF PlaceAt
    <2> QED BY <1>2, <2>1, <2>2, <2>3, PlaceTyped, PlaceStepKeeps DEF UnpackStages
<1> QED BY <1>1, <1>2 DEF OpenArchive, ProceedTo

\* What the workspace leaves when it cannot be removed is known.
LEMMA ClearWorkspaceKeeps == ASSUME ArchiveInv, ClearWorkspace PROVE ArchiveInv'
<1>1. /\ UNCHANGED <<want, unpack, intact>> /\ unpackStep = "cleanup" /\ unpackStep' = "failed"
      /\ meddled' \in Nat
    BY PlaceTyped, MeddleCounts DEF ClearWorkspace
<1>2. place.name # "ours" /\ place.quarantine = "none"
    BY <1>1 DEF ArchiveInv, PlaceInv, PlaceAt
<1>3. CASE place' = [place EXCEPT !.workspace = FALSE]
    <2>1. /\ place' \in PlaceRecords /\ place'.name = place.name
          /\ place'.quarantine = place.quarantine /\ ~place'.workspace
        BY <1>3, PlaceTyped DEF PlaceRecords
    <2>2. PlaceAt(place', unpackStep', Complete)
        BY <1>1, <1>2, <2>1 DEF PlaceAt
    <2> QED BY <1>1, <2>1, <2>2, PlaceTyped, PlaceStepKeeps DEF UnpackStages
<1>4. CASE place' = [place EXCEPT !.refused = @ \cup {"workspace"}]
    <2>1. /\ place' \in PlaceRecords /\ place'.name = place.name
          /\ place'.quarantine = place.quarantine /\ "workspace" \in place'.refused
        BY <1>4, PlaceTyped DEF PlaceRecords
    <2>2. PlaceAt(place', unpackStep', Complete)
        BY <1>1, <1>2, <2>1 DEF PlaceAt
    <2> QED BY <1>1, <2>1, <2>2, PlaceTyped, PlaceStepKeeps DEF UnpackStages
<1> QED BY <1>3, <1>4 DEF ClearWorkspace

LEMMA AcceptMemberKeeps == ASSUME ArchiveInv, AcceptMember PROVE ArchiveInv'
BY DirectoryMemberKeeps, RegularMemberKeeps, LinkMemberKeeps DEF AcceptMember

LEMMA EndMembersKeeps == ASSUME ArchiveInv, EndMembers PROVE ArchiveInv'
<1>1. CASE Meddle /\ Abandon
    BY <1>1, RefuseKeeps, PlaceTyped, MeddleCounts DEF EndMembers, Abandon
<1>2. CASE ProceedTo("links") /\ UNCHANGED <<unpack, place>>
    BY <1>2, PlaceTyped, PlaceStepKeeps
       DEF EndMembers, ProceedTo, UnpackStages, ArchiveInv, PlaceInv, PlaceAt
<1> QED BY <1>1, <1>2 DEF EndMembers

LEMMA CheckUnpackedKeeps == ASSUME ArchiveInv, CheckUnpacked PROVE ArchiveInv'
<1>1. CASE Abandon /\ UNCHANGED meddled
    BY <1>1, RefuseKeeps, PlaceTyped DEF CheckUnpacked, Abandon
<1>2. CASE InventoryAgrees /\ ProceedTo("publish") /\ UNCHANGED <<unpack, place>>
    <2>1. Complete /\ unpackStep = "links"
        BY <1>2 DEF CheckUnpacked, Complete
    <2> QED BY <1>2, <2>1, PlaceTyped, PlaceStepKeeps
            DEF ProceedTo, UnpackStages, ArchiveInv, PlaceInv, PlaceAt
<1> QED BY <1>1, <1>2 DEF CheckUnpacked

LEMMA PublishUnpackedKeeps == ASSUME ArchiveInv, PublishUnpacked PROVE ArchiveInv'
<1>1. CASE Abandon /\ (Meddle \/ UNCHANGED meddled)
    BY <1>1, RefuseKeeps, PlaceTyped, MeddleCounts DEF PublishUnpacked, Abandon
<1>2. CASE /\ place' = [place EXCEPT !.name = "ours", !.workspace = FALSE]
           /\ UNCHANGED <<want, unpack, intact>>
           /\ unpackStep' \in {"validate", "rollback"} /\ (Meddle \/ UNCHANGED meddled)
    <2>1. unpackStep = "publish" /\ Complete /\ place.quarantine = "none"
        BY DEF PublishUnpacked, ArchiveInv, PlaceInv, PlaceAt
    <2>2. /\ place' \in PlaceRecords /\ place'.name = "ours" /\ place'.workspace = FALSE
          /\ place'.quarantine = place.quarantine
        BY <1>2, PlaceTyped DEF PlaceRecords
    <2>3. PlaceAt(place', unpackStep', Complete)
        BY <1>2, <2>1, <2>2 DEF PlaceAt
    <2> QED BY <1>2, <2>2, <2>3, PlaceTyped, MeddleCounts, PlaceStepKeeps DEF UnpackStages
<1> QED BY <1>1, <1>2 DEF PublishUnpacked, ProceedTo

LEMMA ValidatePublishedKeeps == ASSUME ArchiveInv, ValidatePublished PROVE ArchiveInv'
BY PlaceTyped, PlaceStepKeeps
   DEF ValidatePublished, ProceedTo, UnpackStages, ArchiveInv, PlaceInv, PlaceAt

\* A rollback that is refused says so.
LEMMA RollbackRefusedKeeps ==
    ASSUME ArchiveInv, RollbackRefused, unpackStep \in {"rollback", "quarantine", "discard"}
    PROVE  ArchiveInv'
<1>1. /\ place' \in PlaceRecords /\ place'.name = place.name /\ place'.workspace = place.workspace
      /\ place'.quarantine = place.quarantine /\ "rollback" \in place'.refused
    BY PlaceTyped DEF RollbackRefused, PlaceRecords
<1>2. ~place.workspace /\ (place.name = "ours" => Complete)
    BY DEF ArchiveInv, PlaceInv, PlaceAt
<1>3. PlaceAt(place', unpackStep', Complete)
    BY <1>1, <1>2 DEF RollbackRefused, PlaceAt
<1> QED BY <1>1, <1>3, PlaceTyped, MeddleCounts, PlaceStepKeeps DEF RollbackRefused, UnpackStages

LEMMA RollbackLooksKeeps == ASSUME ArchiveInv, RollbackLooks PROVE ArchiveInv'
<1>1. CASE RollbackRefused
    BY <1>1, RollbackRefusedKeeps DEF RollbackLooks
<1>2. CASE ~RollbackRefused
    BY <1>2, PlaceTyped, PlaceStepKeeps
       DEF RollbackLooks, ProceedTo, UnpackStages, ArchiveInv, PlaceInv, PlaceAt
<1> QED BY <1>1, <1>2

LEMMA RollbackMovesKeeps == ASSUME ArchiveInv, RollbackMoves PROVE ArchiveInv'
<1> DEFINE taken == IF place.name = "absent" THEN "none" ELSE place.name
<1>0. CASE RollbackRefused
    BY <1>0, RollbackRefusedKeeps DEF RollbackMoves
<1>1. CASE /\ place' = [place EXCEPT !.quarantine = taken, !.name = "absent"]
           /\ ProceedTo("discard") /\ UNCHANGED unpack
    <2>1. taken \in {"none", "ours", "other"}
        BY PlaceTyped DEF PlaceRecords
    <2> HIDE DEF taken
    <2>2. place' \in PlaceRecords /\ place'.name = "absent" /\ place'.workspace = place.workspace
        BY <1>1, <2>1, PlaceTyped DEF PlaceRecords
    <2>3. /\ UNCHANGED <<want, unpack, intact, meddled>> /\ unpackStep = "quarantine"
          /\ unpackStep' = "discard" /\ ~place.workspace
        BY <1>1 DEF RollbackMoves, ProceedTo, ArchiveInv, PlaceInv, PlaceAt
    <2>4. PlaceAt(place', unpackStep', Complete)
        BY <2>2, <2>3 DEF PlaceAt
    <2> QED BY <2>2, <2>3, <2>4, PlaceTyped, PlaceStepKeeps DEF UnpackStages
<1> QED BY <1>0, <1>1 DEF RollbackMoves

LEMMA RollbackEndsKeeps == ASSUME ArchiveInv, RollbackEnds PROVE ArchiveInv'
<1>0. CASE RollbackRefused
    BY <1>0, RollbackRefusedKeeps DEF RollbackEnds
<1>1. CASE ~RollbackRefused
    <2>1. /\ UNCHANGED <<want, unpack, intact, meddled>> /\ unpackStep = "discard"
          /\ unpackStep' = "failed" /\ ~place.workspace /\ place.name # "ours"
        BY <1>1 DEF RollbackEnds, ProceedTo, ArchiveInv, PlaceInv, PlaceAt
    <2>2. /\ place' \in PlaceRecords /\ place'.name = place.name /\ place'.workspace = place.workspace
          /\ place'.quarantine # "ours"
        BY <1>1, PlaceTyped DEF RollbackEnds, PlaceRecords
    <2>3. PlaceAt(place', unpackStep', Complete)
        BY <2>1, <2>2 DEF PlaceAt
    <2> QED BY <2>1, <2>2, <2>3, PlaceTyped, PlaceStepKeeps DEF UnpackStages
<1> QED BY <1>0, <1>1

\* Another process takes the name, the destination or the archive, or the call dies.
LEMMA MeddlingKeeps ==
    ASSUME ArchiveInv, NameTaken \/ DestinationReplaced \/ ArchiveChanges \/ UnpackCrashes
    PROVE  ArchiveInv'
<1>0. unpackStep \notin {"returned", "failed", "crashed"} /\ meddled' \in Nat
    BY MeddleCounts DEF NameTaken, DestinationReplaced, ArchiveChanges, UnpackCrashes, Busy
<1>1. CASE NameTaken
    <2>1. /\ place' \in PlaceRecords /\ place'.name = "other" /\ place'.workspace = place.workspace
          /\ place'.quarantine = place.quarantine
        BY <1>1, PlaceTyped DEF NameTaken, PlaceRecords
    <2> QED BY <1>0, <1>1, <2>1, PlaceTyped, PlaceStepKeeps
            DEF NameTaken, UnpackStages, ArchiveInv, PlaceInv, PlaceAt
<1>2. CASE DestinationReplaced
    <2>1. /\ place' \in PlaceRecords /\ place'.name = place.name /\ place'.workspace = place.workspace
          /\ place'.quarantine = place.quarantine
        BY <1>2, PlaceTyped DEF DestinationReplaced, PlaceRecords
    <2> QED BY <1>0, <1>2, <2>1, PlaceTyped, PlaceStepKeeps
            DEF DestinationReplaced, UnpackStages, ArchiveInv, PlaceInv, PlaceAt
<1>3. CASE ArchiveChanges
    BY <1>0, <1>3, PlaceTyped, PlaceStepKeeps
       DEF ArchiveChanges, UnpackStages, ArchiveInv, PlaceInv, PlaceAt
<1>4. CASE UnpackCrashes
    BY <1>0, <1>4, PlaceTyped, PlaceStepKeeps
       DEF UnpackCrashes, UnpackStages, ArchiveInv, PlaceInv, PlaceAt
<1> QED BY <1>1, <1>2, <1>3, <1>4

LEMMA ArchiveStart == ArchiveInit => ArchiveInv
<1> SUFFICES ASSUME ArchiveInit PROVE ArchiveInv
    OBVIOUS
<1>0. /\ <<>> \in Tree /\ Prefixes(<<>>) = {}
    <2>1. Len(<<>>) = 0
        BY EmptySeq
    <2> QED BY <2>1 DEF Tree, Destinations, Prefixes
<1> DEFINE kind == [p \in Tree |-> IF p = <<>> THEN "directory" ELSE "none"]
<1>1. kind \in [Tree -> Kinds] /\ \A p \in Tree : kind[p] # "none" <=> p = <<>>
    BY DEF Kinds
<1>2. <<>> \in Seq(PendingLinks) /\ Len(<<>>) = 0
    BY EmptySeq
<1>3. unpack = NothingUnpacked
    BY DEF ArchiveInit
<1>4. /\ unpack.kind = kind /\ unpack.reserved = {<<>>} /\ unpack.pending = <<>> /\ unpack.count = 0
      /\ unpack.unpacked = 0 /\ unpack.written = 0 /\ unpack.executable = FALSE
    BY <1>3 DEF NothingUnpacked
<1>5. unpack \in UnpackRecords
    BY <1>0, <1>1, <1>2, <1>3 DEF NothingUnpacked, UnpackRecords
<1> HIDE DEF kind
<1>6. want \in Requests /\ ValidRequest(want)
    BY DEF ArchiveInit
<1>7. ArchiveTypes
    BY <1>5, <1>6 DEF ArchiveInit, ArchiveTypes, UnpackStages, PlaceRecords
<1>8. WithinLimits
    BY <1>4, <1>6, ArchiveBounds DEF WithinLimits, Requests
<1>9. TreeInv(unpack.kind, unpack.reserved)
    BY <1>0, <1>1, <1>4 DEF TreeInv, NodesReserved, ParentsPlaced, SpellingsUnique
<1>10. ExecutableKept
    BY <1>2, <1>4 DEF ExecutableKept
<1>11. PlaceInv
    BY DEF ArchiveInit, PlaceInv, PlaceAt
<1> QED BY <1>7, <1>8, <1>9, <1>10, <1>11 DEF ArchiveInv

LEMMA ArchiveStep == ArchiveInv /\ [ArchiveNext]_archiveVars => ArchiveInv'
<1> SUFFICES ASSUME ArchiveInv, [ArchiveNext]_archiveVars PROVE ArchiveInv'
    OBVIOUS
<1>1. CASE UNCHANGED archiveVars
    BY <1>1, PlaceTyped, PlaceStepKeeps DEF archiveVars, ArchiveInv, PlaceInv, PlaceAt
<1>2. CASE ArchiveNext
    BY <1>2, OpenArchiveKeeps, ClearWorkspaceKeeps, AcceptMemberKeeps, EndMembersKeeps, MaterializeLinkKeeps,
       CheckUnpackedKeeps, PublishUnpackedKeeps, ValidatePublishedKeeps, RollbackLooksKeeps,
       RollbackMovesKeeps, RollbackEndsKeeps, MeddlingKeeps
       DEF ArchiveNext, MaterializeSteps
<1> QED BY <1>1, <1>2

LEMMA ArchiveInvSound == ArchiveInv => ArchiveSound
<1> SUFFICES ASSUME ArchiveInv PROVE ArchiveSound
    OBVIOUS
<1>0. unpack \in UnpackRecords
    BY DEF ArchiveInv, ArchiveTypes
<1>1. ArchiveTypeOK
    BY PlaceTyped DEF ArchiveTypeOK, ArchiveInv, WithinLimits, PlaceRecords
<1>2. TreeSound
    BY DEF TreeSound, ArchiveInv, TreeInv, NodesReserved, ParentsPlaced, SpellingsUnique
<1>3. PublishedComplete
    BY DEF PublishedComplete, ArchiveInv, PlaceInv, PlaceAt, Complete, InventoryAgrees, ExecutableKept,
           ExecutablePlaced
<1>4. FailureLeavesNothing
    BY DEF FailureLeavesNothing, ArchiveInv, PlaceInv, PlaceAt
<1> QED BY <1>1, <1>2, <1>3, <1>4 DEF ArchiveSound

\* Whatever order the members come in and whatever happens around the call, what
\* was unpacked is a tree within the declared limits that every file system can
\* hold, the name shows a complete installation or nothing of it, and a call
\* that returns an error leaves nothing it was able to remove (internal/providerstore,
\* archive_materialization.go): for every set of names, sizes and limits.
THEOREM ArchiveSoundness == ArchiveSpec => []ArchiveSound
<1>1. ArchiveSpec => []ArchiveInv
    BY ArchiveStart, ArchiveStep, PTL DEF ArchiveSpec
<1> QED BY <1>1, ArchiveInvSound, PTL

\* The rollback moves what it finds at the name into the quarantine before it
\* looks at it: what another process put there is moved, never destroyed.
THEOREM OthersAreSpared == ArchiveSpec => OthersSpared
<1> DEFINE Spared == "other" \in {place.name, place.quarantine}
                       => "other" \in {place'.name, place'.quarantine}
<1>1. ArchiveInv /\ [ArchiveNext]_archiveVars => [Spared]_place
    <2> SUFFICES ASSUME ArchiveInv, ArchiveNext PROVE Spared
        BY DEF archiveVars
    <2>0. place \in PlaceRecords
        BY PlaceTyped
    <2> USE DEF PlaceRecords
    <2>1. ASSUME UNCHANGED place PROVE Spared
        BY <2>1
    <2>10. ASSUME RollbackRefused PROVE Spared
        BY <2>0, <2>10 DEF RollbackRefused
    <2>2. CASE OpenArchive \/ ClearWorkspace
        BY <2>0, <2>2 DEF OpenArchive, ClearWorkspace, Abandon, Refuse
    <2>3. CASE AcceptMember
        BY <2>1, <2>3 DEF AcceptMember, DirectoryMember, RegularMember, LinkMember, Refuse
    <2>4. CASE EndMembers \/ MaterializeLink \/ CheckUnpacked
        BY <2>1, <2>4 DEF EndMembers, MaterializeLink, CheckUnpacked, Abandon, Refuse
    <2>5. CASE PublishUnpacked
        BY <2>0, <2>5 DEF PublishUnpacked, Abandon, Refuse
    <2>6. CASE ValidatePublished \/ RollbackLooks
        BY <2>1, <2>6, <2>10 DEF ValidatePublished, RollbackLooks
    <2>7. CASE RollbackMoves
        BY <2>0, <2>7, <2>10 DEF RollbackMoves, ArchiveInv, PlaceInv, PlaceAt
    <2>8. CASE RollbackEnds
        BY <2>0, <2>8, <2>10 DEF RollbackEnds
    <2>9. CASE NameTaken \/ DestinationReplaced \/ ArchiveChanges \/ UnpackCrashes
        BY <2>0, <2>9 DEF NameTaken, DestinationReplaced, ArchiveChanges, UnpackCrashes
    <2> QED BY <2>2, <2>3, <2>4, <2>5, <2>6, <2>7, <2>8, <2>9 DEF ArchiveNext, MaterializeSteps
<1>2. ArchiveSpec => []ArchiveInv
    BY ArchiveStart, ArchiveStep, PTL DEF ArchiveSpec
<1> QED BY <1>1, <1>2, PTL DEF ArchiveSpec, OthersSpared

================================================================================
