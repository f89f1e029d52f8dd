----------------------- MODULE BuildPublicationProofs -----------------------
(***************************************************************************)
(* PublicationSound of BuildPublication holds for any number of builds,    *)
(* names and build locks, with failures and crashes between any two steps. *)
(*                                                                         *)
(* A command is what it still has to do, so where it stands is the set of  *)
(* the sequences that may be left of it.  PublicationInv says, for the     *)
(* first of these steps, what the command relies on: which file is         *)
(* pending and in which phase, which tags are there and which are gone,    *)
(* and that a name it has drawn is mentioned nowhere.  Builds that are     *)
(* kept side by side have different names, so a step that removes a tag of *)
(* one never takes a tag of another.                                       *)
(***************************************************************************)
EXTENDS BuildPublication, SequenceTheorems, TLAPS

-----------------------------------------------------------------------------
(* What a command may still have to do: the steps that are left of it, as    *)
(* sets of sequences, from the last to the first.                            *)

Steps ==
    { <<"recover trial">>, <<"retire">>, <<"recover">>, <<"sweep">>, <<"storage">>, <<"discard">>,
      <<"executed">>, <<"close">>, <<"close trial">>, <<"commit trial">>, <<"prune locks">>,
      <<"prune store">>, <<"settle">> }
    \cup ({"publish", "publish trial", "intend", "intend trial", "commit"} \X Generations)
    \cup ({"tag", "untag"} \X Tags)
    \cup ({"advance"} \X {"generation-created", "lock-published", "state-committed", "cleanup"})
    \cup ({"lock"} \X Digests)
    \cup ({"note"} \X SUBSET Tags)
    \cup ({"execute"} \X {"build", "validate"})

\* The programs that begin with a step of X and go on as one of K
Then(X, K) == {s \in Seq(Steps) : s # <<>> /\ Head(s) \in X /\ Tail(s) \in K}

Halted == {<<>>}

\* What follows a published, a reused and a validated build
Storing == Then({<<"storage">>}, Halted)
Retiring == Then({<<"retire">>}, Storing)
Discarding == Then({<<"discard">>}, Retiring)
TrialChecked == Then({<<"recover trial">>}, Discarding)
Superseding == Then({<<"executed">>}, TrialChecked)
Reusing == Then({<<"executed">>}, Retiring)
TrialClosing == Then({<<"close trial">>}, Retiring)
Validating == Then({<<"executed">>}, TrialClosing)

\* Preparation, and what it prepares
Sweeping == Then({<<"sweep">>}, Halted)
Executes == Then({"execute"} \X {"build", "validate"}, Halted)
Recovering == Then({<<"recover">>}, Sweeping \cup Executes)
Preparing == Then({<<"retire">>}, Recovering)

\* The names that are still free, and validations under one of them
Unmentioned == Generations \ Mentioned
Trying(G) == Then({"publish trial"} \X G, Validating)

\* What may follow the recovery of a validated build
Onward ==
    Preparing \cup Reusing \cup (IF pending = None THEN Discarding ELSE {})
    \cup Trying(Unmentioned)

\* The end of a publication and of its recovery
Closing == Then({<<"close">>}, Superseding \cup Sweeping \cup Executes)
PruningStore == Then({<<"prune store">>}, Closing)
PruningLocks == Then({<<"prune locks">>}, Closing \cup PruningStore)
Finishing(g) == Then({<<"untag", Temporary(g)>>}, PruningLocks)

\* The tags of x go, and those of g come
UntagCompanion(x, K) == Then({<<"untag", Companion(x)>>}, K)
Untag(x, K) ==
    Then({<<"untag", Generation(x)>>}, IF LockOf[x] \in Portable THEN UntagCompanion(x, K) ELSE K)
TagGeneration(g, K) == Then({<<"tag", Generation(g)>>}, K)
Create(g, K) ==
    IF LockOf[g] \in Portable THEN Then({<<"tag", Companion(g)>>}, TagGeneration(g, K))
    ELSE TagGeneration(g, K)

\* The publication of g over old
Replacing(g, old) == IF old = None THEN Finishing(g) ELSE Untag(old, Finishing(g))
Cleaning(g, old) == Then({<<"advance", "cleanup">>}, Replacing(g, old))
Committed(g, old) == Then({<<"advance", "state-committed">>}, Cleaning(g, old))
Committing(g, old) == Then({<<"commit", g>>}, Committed(g, old))
Locked(g, old) == Then({<<"advance", "lock-published">>}, Committing(g, old))
Locking(g, old) == Then({<<"lock", LockOf[g]>>}, Locked(g, old))
Created(g, old) == Then({<<"advance", "generation-created">>}, Locking(g, old))
Intended(g, old) == Then({<<"tag", Temporary(g)>>}, Create(g, Created(g, old)))

\* The publication of g as the validated build
TrialCommitting == Then({<<"commit trial">>}, Validating)
TrialIntending(g) == Then({<<"intend trial", g>>}, Create(g, TrialCommitting))

\* The recovery of a validated build, and the end of every cleanup
TrialUndone == Then({<<"close trial">>}, Onward)
Settling == Then({<<"settle">>}, Halted)
SweepingLocks == Then({<<"prune locks">>}, Settling \cup Halted)

-----------------------------------------------------------------------------
(* What holds on disk before each kind of step                              *)

\* Nothing is pending and nothing superseded is left.
Quiet == pending = None /\ PruningBoundary

\* A publication is under way that has not committed its state.
Underway(phase) ==
    /\ pending # None /\ pending.phase = phase
    /\ current = pending.old /\ LockOf[pending.candidate] \in objects

\* The builds a publication decides between, but for the current one
Losers == {pending.old, pending.candidate} \ {current, None}
LosersGone == \A x \in Losers : Owned(x) \cap tags = {}

\* The intent of a validated build that is not committed
TrialUnderway == pendingTrial # None /\ validated = pendingTrial.previous

\* The tags of g but for its first
Companions(g) == Owned(g) \ {Generation(g)}

BeforeRecoverTrial == Tail(todo) \in Onward
BeforeRetire == Tail(todo) \in Recovering \cup Storing
BeforeRecover == Tail(todo) \in Sweeping \cup Executes
BeforeSweep == Tail(todo) \in Halted /\ Quiet
BeforeStorage == Tail(todo) \in Halted
BeforeDiscard == Tail(todo) \in Retiring /\ pending = None
BeforeExecute == Argument \in {"build", "validate"} /\ Tail(todo) \in Halted /\ Quiet
BeforeExecuted ==
    \/ Tail(todo) \in Retiring
    \/ Tail(todo) \in TrialChecked /\ pending = None
    \/ Tail(todo) \in TrialClosing /\ pendingTrial # None /\ TrialCommitted
BeforePublish == Argument \in Unmentioned /\ Tail(todo) \in Superseding
BeforePublishTrial == Argument \in Unmentioned /\ Tail(todo) \in Validating

BeforeIntend ==
    /\ Argument \in Unmentioned /\ LockOf[Argument] \in objects /\ Quiet
    /\ Tail(todo) \in Intended(Argument, current)

BeforeTag ==
    \/ /\ Underway("validated")
       /\ LET g == pending.candidate
              K == Created(g, pending.old)
          IN  \/ Argument = Temporary(g) /\ Tail(todo) \in Create(g, K)
              \/ Argument = Companion(g) /\ LockOf[g] \in Portable /\ Tail(todo) \in TagGeneration(g, K)
              \/ Argument = Generation(g) /\ Tail(todo) \in K /\ Companions(g) \subseteq tags
    \/ /\ TrialUnderway
       /\ LET g == pendingTrial.candidate.owner
          IN  \/ /\ Argument = Companion(g) /\ LockOf[g] \in Portable
                 /\ Tail(todo) \in TagGeneration(g, TrialCommitting)
              \/ /\ Argument = Generation(g) /\ Tail(todo) \in TrialCommitting
                 /\ Companions(g) \subseteq tags

BeforeAdvance ==
    LET g == pending.candidate
        old == pending.old
    IN  /\ pending # None /\ Owned(g) \subseteq tags
        /\ \/ /\ Argument = "generation-created" /\ Tail(todo) \in Locking(g, old)
              /\ Underway("validated")
           \/ /\ Argument = "lock-published" /\ Tail(todo) \in Committing(g, old)
              /\ Underway("generation-created") /\ LockOf[g] \in locks
           \/ /\ Argument = "state-committed" /\ Tail(todo) \in Cleaning(g, old)
              /\ pending.phase = "lock-published" /\ current = g
           \/ /\ Argument = "cleanup" /\ Tail(todo) \in Replacing(g, old)
              /\ pending.phase = "state-committed" /\ current = g

BeforeLock ==
    \/ /\ Underway("generation-created") /\ Owned(pending.candidate) \subseteq tags
       /\ Argument = LockOf[pending.candidate]
       /\ Tail(todo) \in Locked(pending.candidate, pending.old)
    \/ /\ pending = None /\ pendingTrial = None
       /\ \E g \in Unmentioned :
             Argument = LockOf[g] /\ LockOf[g] \in objects /\ Tail(todo) \in TrialIntending(g)

BeforeCommit ==
    /\ Underway("lock-published") /\ Owned(pending.candidate) \subseteq tags
    /\ LockOf[pending.candidate] \in locks
    /\ Argument = pending.candidate /\ Tail(todo) \in Committed(pending.candidate, pending.old)

BeforeUntag ==
    \/ /\ pending # None
       /\ LET K == Finishing(pending.candidate)
          IN  \/ \E x \in Losers :
                    \/ /\ Argument = Generation(x)
                       /\ Tail(todo) \in IF LockOf[x] \in Portable THEN UntagCompanion(x, K) ELSE K
                    \/ Argument = Companion(x) /\ Generation(x) \notin tags /\ Tail(todo) \in K
              \/ Argument = Temporary(pending.candidate) /\ LosersGone /\ Tail(todo) \in PruningLocks
    \/ /\ pendingTrial # None /\ ~TrialCommitted
       /\ LET g == pendingTrial.candidate.owner
          IN  \/ /\ Argument = Generation(g)
                 /\ Tail(todo) \in IF LockOf[g] \in Portable THEN UntagCompanion(g, TrialUndone)
                                   ELSE TrialUndone
              \/ Argument = Companion(g) /\ Generation(g) \notin tags /\ Tail(todo) \in TrialUndone

\* Nothing is left that only the pending publication keeps.
PendingDone == pending # None /\ LosersGone /\ Temporary(pending.candidate) \notin tags

BeforeClose == Tail(todo) \in Superseding \cup Sweeping \cup Executes /\ PendingDone
BeforePruneLocks ==
    \/ Tail(todo) \in Closing \cup PruningStore /\ PendingDone
    \/ Tail(todo) \in Settling \cup Halted /\ Quiet
BeforePruneStore ==
    \/ Tail(todo) \in Closing /\ PendingDone
    \/ Tail(todo) \in SweepingLocks /\ Quiet
BeforeSettle == Tail(todo) \in Halted /\ Quiet

BeforeIntendTrial ==
    /\ Argument \in Unmentioned /\ Complete(Argument) /\ pending = None /\ pendingTrial = None
    /\ Tail(todo) \in Create(Argument, TrialCommitting)
BeforeCommitTrial ==
    /\ TrialUnderway /\ Owned(pendingTrial.candidate.owner) \subseteq tags
    /\ Tail(todo) \in Validating
BeforeCloseTrial ==
    /\ pendingTrial # None
    /\ TrialCommitted \/ Owned(pendingTrial.candidate.owner) \cap tags = {}
    /\ Tail(todo) \in Onward \cup Retiring

BeforeNote ==
    /\ pending = None /\ pendingTrial = None /\ validated # None
    /\ Argument \subseteq validated.cleanup /\ tags \cap validated.cleanup \subseteq Argument
    /\ Tail(todo) \in Recovering \cup Storing

ProgramFits ==
    \/ todo = <<>>
    \/ At("recover trial") /\ BeforeRecoverTrial
    \/ At("retire") /\ BeforeRetire
    \/ At("recover") /\ BeforeRecover
    \/ At("sweep") /\ BeforeSweep
    \/ At("storage") /\ BeforeStorage
    \/ At("discard") /\ BeforeDiscard
    \/ At("execute") /\ BeforeExecute
    \/ At("executed") /\ BeforeExecuted
    \/ At("publish") /\ BeforePublish
    \/ At("publish trial") /\ BeforePublishTrial
    \/ At("intend") /\ BeforeIntend
    \/ At("tag") /\ BeforeTag
    \/ At("advance") /\ BeforeAdvance
    \/ At("lock") /\ BeforeLock
    \/ At("commit") /\ BeforeCommit
    \/ At("untag") /\ BeforeUntag
    \/ At("close") /\ BeforeClose
    \/ At("prune locks") /\ BeforePruneLocks
    \/ At("prune store") /\ BeforePruneStore
    \/ At("settle") /\ BeforeSettle
    \/ At("intend trial") /\ BeforeIntendTrial
    \/ At("commit trial") /\ BeforeCommitTrial
    \/ At("close trial") /\ BeforeCloseTrial
    \/ At("note") /\ BeforeNote

-----------------------------------------------------------------------------
(* What always holds on disk                                                *)

PublicationTypes ==
    /\ current \in Generations \cup {None}
    /\ locks \subseteq Digests /\ objects \subseteq Digests /\ tags \subseteq Tags
    /\ pending \in PendingBuilds \cup {None}
    /\ validated \in ValidatedBuilds \cup {None}
    /\ pendingTrial \in PendingTrials \cup {None}
    /\ todo \in Seq(Steps) /\ faulty \in BOOLEAN

\* ValidateValidatedBuildV1
WellFormed(r) ==
    /\ r.discarded => r.storage
    /\ ~r.discarded => r.cleanup \cap Owned(r.owner) = {}

RecordsFit ==
    /\ validated # None => WellFormed(validated)
    /\ pendingTrial # None =>
          /\ WellFormed(pendingTrial.candidate) /\ ~pendingTrial.candidate.discarded
          /\ pendingTrial.previous # None => WellFormed(pendingTrial.previous)

\* Builds that are kept side by side have different names.
OwnersDiffer ==
    /\ Live(validated) => validated.owner # current
    /\ pending # None =>
          /\ pending.candidate # pending.old
          /\ Live(validated) => validated.owner \notin {pending.old, pending.candidate}
    /\ pendingTrial # None =>
          /\ pendingTrial.candidate.owner # current
          /\ ~TrialCommitted /\ Live(validated) => pendingTrial.candidate.owner # validated.owner

DiskFits ==
    /\ RecordsFit /\ OwnersDiffer /\ CurrentRunnable /\ TrialUsable /\ RecoveryAccepted
    /\ PhaseTruthful /\ NoLeakedTags

PublicationInv == PublicationTypes /\ DiskFits /\ ProgramFits

-----------------------------------------------------------------------------
(* Programs                                                                 *)

LEMMA FirstAndRest ==
    ASSUME NEW s \in Seq(Steps), NEW r \in Seq(Steps), s # <<>>
    PROVE  /\ s \o r \in Seq(Steps) /\ s \o r # <<>>
           /\ Head(s \o r) = Head(s) /\ Tail(s \o r) = Tail(s) \o r
<1>1. s \o r \in Seq(Steps) /\ Len(s \o r) = Len(s) + Len(r)
    BY ConcatProperties
<1>2. Len(s) \in Nat \ {0} /\ Len(r) \in Nat
    BY EmptySeq, LenProperties
<1>3. s \o r # <<>>
    BY <1>1, <1>2, EmptySeq
<1>4. Head(s \o r) = Head(s)
    BY <1>1, <1>2, <1>3
<1>5. Tail(s) \in Seq(Steps) /\ Len(Tail(s)) = Len(s) - 1
    BY <1>2, HeadTailProperties
<1>6. /\ Tail(s \o r) \in Seq(Steps) /\ Len(Tail(s \o r)) = Len(s) + Len(r) - 1
      /\ Tail(s) \o r \in Seq(Steps) /\ Len(Tail(s) \o r) = Len(s) - 1 + Len(r)
    <2>1. Tail(s \o r) \in Seq(Steps) /\ Len(Tail(s \o r)) = Len(s \o r) - 1
        BY <1>1, <1>3, HeadTailProperties
    <2>2. Tail(s) \o r \in Seq(Steps) /\ Len(Tail(s) \o r) = Len(Tail(s)) + Len(r)
        BY <1>5, ConcatProperties
    <2> QED BY <1>1, <1>5, <2>1, <2>2
<1>7. ASSUME NEW i \in 1 .. Len(Tail(s \o r)) PROVE Tail(s \o r)[i] = (Tail(s) \o r)[i]
    BY <1>1, <1>2, <1>3, <1>5, <1>6
<1>8. Len(Tail(s \o r)) = Len(Tail(s) \o r)
    BY <1>2, <1>6
<1> QED BY <1>1, <1>3, <1>4, <1>6, <1>7, <1>8, SeqEqual

LEMMA NothingFirst == ASSUME NEW r \in Seq(Steps) PROVE <<>> \o r = r
BY ConcatEmptySeq

LEMMA Apart ==
    ASSUME NEW s \in Seq(Steps), NEW t \in Seq(Steps), NEW r \in Seq(Steps)
    PROVE  (s \o t) \o r = s \o (t \o r) /\ t \o r \in Seq(Steps) /\ s \o t \in Seq(Steps)
BY ConcatAssociative, ConcatProperties

\* A program is one of Then(X, K) when its first step and its rest are.
LEMMA OneStep ==
    ASSUME NEW X, NEW K, NEW x \in Steps, NEW r \in Seq(Steps), x \in X, r \in K
    PROVE  <<x>> \o r \in Then(X, K)
<1>1. <<x>> \in Seq(Steps) /\ <<x>> # <<>> /\ Head(<<x>>) = x /\ Tail(<<x>>) = <<>>
    OBVIOUS
<1>2. /\ <<x>> \o r \in Seq(Steps) /\ <<x>> \o r # <<>>
      /\ Head(<<x>> \o r) = x /\ Tail(<<x>> \o r) = <<>> \o r
    BY <1>1, FirstAndRest
<1>3. <<>> \o r = r
    BY NothingFirst
<1> QED BY <1>2, <1>3 DEF Then

LEMMA ThenLeads ==
    ASSUME NEW X, NEW K, NEW s, s \in Then(X, K)
    PROVE  s \in Seq(Steps) /\ s # <<>> /\ Head(s) \in X /\ Tail(s) \in K
BY DEF Then

LEMMA ThenGrows ==
    ASSUME NEW X, NEW K, NEW L, NEW s \in Then(X, K), K \subseteq L
    PROVE  s \in Then(X, L)
BY DEF Then

LEMMA PlainSteps ==
    { <<"recover trial">>, <<"retire">>, <<"recover">>, <<"sweep">>, <<"storage">>, <<"discard">>,
      <<"executed">>, <<"close">>, <<"close trial">>, <<"commit trial">>, <<"prune locks">>,
      <<"prune store">>, <<"settle">> } \subseteq Steps
BY DEF Steps

LEMMA OwnedTags ==
    ASSUME NEW g \in Generations
    PROVE  /\ {Temporary(g), Generation(g), Companion(g)} \subseteq Tags
           /\ Owned(g) \subseteq {Generation(g), Companion(g)} /\ Generation(g) \in Owned(g)
           /\ LockOf[g] \in Portable <=> Companion(g) \in Owned(g)
BY DEF Tags, Temporary, Generation, Companion, Owned

LEMMA TagsDiffer ==
    ASSUME NEW g, NEW h
    PROVE  /\ Temporary(g) # Generation(h) /\ Temporary(g) # Companion(h)
           /\ Generation(g) # Companion(h)
           /\ Temporary(g) = Temporary(h) => g = h
           /\ Generation(g) = Generation(h) => g = h
           /\ Companion(g) = Companion(h) => g = h
BY DEF Temporary, Generation, Companion

LEMMA GenerationSteps ==
    ASSUME NEW g \in Generations
    PROVE  /\ {<<"publish", g>>, <<"publish trial", g>>, <<"intend", g>>, <<"intend trial", g>>,
               <<"commit", g>>, <<"lock", LockOf[g]>>} \subseteq Steps
           /\ {<<"tag", Temporary(g)>>, <<"tag", Generation(g)>>, <<"tag", Companion(g)>>} \subseteq Steps
           /\ {<<"untag", Temporary(g)>>, <<"untag", Generation(g)>>, <<"untag", Companion(g)>>} \subseteq Steps
<1>1. LockOf[g] \in Digests
    BY PublicationAssumption
<1>2. {Temporary(g), Generation(g), Companion(g)} \subseteq Tags
    BY OwnedTags
<1>3. <<"lock", LockOf[g]>> \in Steps
    BY <1>1 DEF Steps
<1>4. ASSUME NEW op \in {"publish", "publish trial", "intend", "intend trial", "commit"}
      PROVE  <<op, g>> \in Steps
    BY DEF Steps
<1>5. ASSUME NEW t \in Tags PROVE <<"tag", t>> \in Steps /\ <<"untag", t>> \in Steps
    BY DEF Steps
<1> QED BY <1>2, <1>3, <1>4, <1>5

LEMMA PhaseSteps ==
    {<<"advance", "generation-created">>, <<"advance", "lock-published">>,
     <<"advance", "state-committed">>, <<"advance", "cleanup">>} \subseteq Steps
<1>1. ASSUME NEW phase \in {"generation-created", "lock-published", "state-committed", "cleanup"}
      PROVE  <<"advance", phase>> \in Steps
    BY DEF Steps
<1> QED BY <1>1

LEMMA ShortPrograms ==
    ASSUME NEW a \in Steps, NEW b \in Steps, NEW c \in Steps, NEW d \in Steps
    PROVE  /\ <<a>> \in Seq(Steps)
           /\ <<a, b>> \in Seq(Steps)
           /\ /\ <<a, b, c>> \in Seq(Steps) /\ <<a, b, c>> # <<>>
              /\ Head(<<a, b, c>>) = a /\ Tail(<<a, b, c>>) = <<b, c>>
           /\ /\ <<a, b, c, d>> \in Seq(Steps) /\ <<a, b, c, d>> # <<>>
              /\ Head(<<a, b, c, d>>) = a /\ Tail(<<a, b, c, d>>) = <<b, c, d>>
<1>1. <<a>> \in Seq(Steps) /\ <<a, b>> \in Seq(Steps)
    OBVIOUS
<1>2. /\ <<a, b, c>> \in Seq(Steps) /\ <<a, b, c>> # <<>>
      /\ Head(<<a, b, c>>) = a /\ Tail(<<a, b, c>>) = <<b, c>>
    OBVIOUS
<1>3. /\ <<a, b, c, d>> \in Seq(Steps) /\ <<a, b, c, d>> # <<>>
      /\ Head(<<a, b, c, d>>) = a
    OBVIOUS
<1>4. Tail(<<a, b, c, d>>) = <<b, c, d>>
    OBVIOUS
<1> QED BY <1>1, <1>2, <1>3, <1>4

\* Concatenation under a name of its own: longer chains need only what Joined says.
Join(s, t) == s \o t

LEMMA Joined ==
    ASSUME NEW s \in Seq(Steps), NEW t \in Seq(Steps)
    PROVE  /\ Join(s, t) \in Seq(Steps)
           /\ \A r \in Seq(Steps) : Join(Join(s, t), r) = Join(s, Join(t, r))
BY Apart DEF Join

LEMMA ThreeApart ==
    ASSUME NEW a \in Seq(Steps), NEW b \in Seq(Steps), NEW c \in Seq(Steps), NEW r \in Seq(Steps)
    PROVE  /\ Join(Join(Join(a, b), c), r) = Join(a, Join(b, Join(c, r)))
           /\ Join(Join(a, b), c) \in Seq(Steps)
<1>1. Join(a, b) \in Seq(Steps) /\ Join(c, r) \in Seq(Steps)
    BY Joined
<1>2. Join(Join(Join(a, b), c), r) = Join(Join(a, b), Join(c, r)) /\ Join(Join(a, b), c) \in Seq(Steps)
    BY <1>1, Joined
<1>3. Join(Join(a, b), Join(c, r)) = Join(a, Join(b, Join(c, r)))
    BY <1>1, Joined
<1> QED BY <1>2, <1>3

LEMMA FiveApart ==
    ASSUME NEW a \in Seq(Steps), NEW b \in Seq(Steps), NEW c \in Seq(Steps), NEW d \in Seq(Steps),
           NEW e \in Seq(Steps), NEW r \in Seq(Steps)
    PROVE  Join(Join(Join(Join(Join(a, b), c), d), e), r)
               = Join(a, Join(b, Join(c, Join(d, Join(e, r)))))
<1>1. Join(Join(a, b), c) \in Seq(Steps) /\ Join(d, Join(e, r)) \in Seq(Steps)
    BY Joined
<1>2. Join(Join(Join(Join(Join(a, b), c), d), e), r) = Join(Join(Join(a, b), c), Join(d, Join(e, r)))
    BY <1>1, ThreeApart
<1>3. Join(Join(Join(a, b), c), Join(d, Join(e, r))) = Join(a, Join(b, Join(c, Join(d, Join(e, r)))))
    BY <1>1, ThreeApart
<1> QED BY <1>2, <1>3

LEMMA MoreSteps ==
    ASSUME NEW X, NEW K, NEW s \in Seq(Steps), NEW r \in Seq(Steps), s # <<>>,
           Head(s) \in X, Tail(s) \o r \in K
    PROVE  s \o r \in Then(X, K)
BY FirstAndRest DEF Then

LEMMA TwoSteps ==
    ASSUME NEW K, NEW x \in Steps, NEW y \in Steps, NEW r \in Seq(Steps), r \in K
    PROVE  <<x, y>> \o r \in Then({x}, Then({y}, K))
<1>1. <<x, y>> \in Seq(Steps) /\ <<x, y>> # <<>> /\ Head(<<x, y>>) = x /\ Tail(<<x, y>>) = <<y>>
    OBVIOUS
<1>2. <<y>> \o r \in Then({y}, K)
    BY OneStep
<1> QED BY <1>1, <1>2, MoreSteps

LEMMA FourSteps ==
    ASSUME NEW K, NEW a \in Steps, NEW b \in Steps, NEW c \in Steps, NEW d \in Steps,
           NEW r \in Seq(Steps), r \in K
    PROVE  <<a, b, c, d>> \o r \in Then({a}, Then({b}, Then({c}, Then({d}, K))))
<1>1. <<c, d>> \o r \in Then({c}, Then({d}, K))
    BY TwoSteps
<1>2. <<b, c, d>> \o r \in Then({b}, Then({c}, Then({d}, K)))
    <2>1. /\ <<b, c, d>> \in Seq(Steps) /\ <<b, c, d>> # <<>>
          /\ Head(<<b, c, d>>) = b /\ Tail(<<b, c, d>>) = <<c, d>>
        BY ShortPrograms
    <2> QED BY <1>1, <2>1, MoreSteps
<1>3. /\ <<a, b, c, d>> \in Seq(Steps) /\ <<a, b, c, d>> # <<>>
      /\ Head(<<a, b, c, d>>) = a /\ Tail(<<a, b, c, d>>) = <<b, c, d>>
    BY ShortPrograms
<1> QED BY <1>2, <1>3, MoreSteps

LEMMA SixSteps ==
    ASSUME NEW K, NEW a \in Steps, NEW b \in Steps, NEW c \in Steps, NEW d \in Steps,
           NEW e \in Steps, NEW f \in Steps, NEW r \in Seq(Steps), r \in K
    PROVE  /\ <<a, b, c, d, e, f>> \in Seq(Steps)
           /\ <<a, b, c, d, e, f>> \o r
                 \in Then({a}, Then({b}, Then({c}, Then({d}, Then({e}, Then({f}, K))))))
<1>1. <<a, b, c, d, e, f>> = <<a, b, c, d>> \o <<e, f>>
    OBVIOUS
<1> DEFINE s == <<a, b, c, d>>
           t == <<e, f>>
<1>2. s \in Seq(Steps) /\ t \in Seq(Steps)
    BY ShortPrograms
<1>3. t \o r \in Then({e}, Then({f}, K)) /\ t \o r \in Seq(Steps)
    BY TwoSteps, ThenLeads
<1>4. ASSUME NEW q \in Seq(Steps), q \in Then({e}, Then({f}, K))
      PROVE  s \o q \in Then({a}, Then({b}, Then({c}, Then({d}, Then({e}, Then({f}, K))))))
    BY <1>4, FourSteps
<1>5. s \o (t \o r) \in Then({a}, Then({b}, Then({c}, Then({d}, Then({e}, Then({f}, K))))))
    BY <1>3, <1>4, Zenon
<1> HIDE DEF s, t
<1>6. (s \o t) \o r = s \o (t \o r) /\ s \o t \in Seq(Steps)
    BY <1>2, Apart
<1> QED BY <1>1, <1>5, <1>6 DEF s, t

LEMMA FourOnly ==
    ASSUME NEW a \in Steps, NEW b \in Steps, NEW c \in Steps, NEW d \in Steps
    PROVE  /\ <<a, b, c, d>> \in Then({a}, Then({b}, Then({c}, Then({d}, Halted))))
           /\ <<a, b, c, d>> \in Seq(Steps)
<1>1. <<a, b, c, d>> \in Seq(Steps) /\ <<>> \in Halted /\ <<>> \in Seq(Steps)
    BY ShortPrograms, EmptySeq DEF Halted
<1>2. <<a, b, c, d>> \o <<>> = <<a, b, c, d>>
    BY <1>1, ConcatEmptySeq
<1>3. <<a, b, c, d>> \o <<>> \in Then({a}, Then({b}, Then({c}, Then({d}, Halted))))
    <2>1. ASSUME NEW q, q \in Seq(Steps), q \in Halted
          PROVE  <<a, b, c, d>> \o q \in Then({a}, Then({b}, Then({c}, Then({d}, Halted))))
        BY <2>1, FourSteps
    <2> QED BY <1>1, <2>1
<1> QED BY <1>1, <1>2, <1>3

\* The sequences without parameters
LEMMA PlainPrograms ==
    /\ <<>> \in Seq(Steps)
    /\ << <<"sweep">> >> \in Sweeping
    /\ \A mode \in {"build", "validate"} : << <<"execute", mode>> >> \in Executes
    /\ << <<"retire">>, <<"storage">> >> \in Retiring
    /\ DiscardSteps \in TrialChecked
    /\ AfterTrial \in Validating
    /\ << <<"recover trial">>, <<"executed">>, <<"retire">>, <<"storage">> >>
           \in Then({<<"recover trial">>}, Reusing)
<1>1. <<>> \in Seq(Steps)
    BY EmptySeq
<1>2. << <<"sweep">> >> \in Sweeping
    <2>1. <<"sweep">> \in Steps
        BY PlainSteps
    <2> QED BY <2>1 DEF Sweeping, Halted, Then
<1>3. ASSUME NEW mode \in {"build", "validate"} PROVE << <<"execute", mode>> >> \in Executes
    <2>1. <<"execute", mode>> \in Steps /\ <<"execute", mode>> \in {"execute"} \X {"build", "validate"}
        BY DEF Steps
    <2> QED BY <2>1 DEF Executes, Halted, Then
<1>4. << <<"storage">> >> \in Storing
    <2>1. <<"storage">> \in Steps
        BY PlainSteps
    <2> QED BY <2>1 DEF Storing, Halted, Then
<1>5. << <<"retire">>, <<"storage">> >> \in Retiring
    <2>1. <<"storage">> \in Steps /\ <<"retire">> \in Steps
        BY PlainSteps
    <2> QED BY <1>4, <2>1 DEF Retiring, Then
<1>6. /\ <<"recover trial">> \in Steps /\ <<"storage">> \in Steps /\ <<"retire">> \in Steps
      /\ <<"discard">> \in Steps /\ <<"executed">> \in Steps /\ <<"close trial">> \in Steps
    BY PlainSteps
<1>7. DiscardSteps \in TrialChecked
    BY <1>6, FourOnly DEF DiscardSteps, TrialChecked, Discarding, Retiring, Storing
<1>8. AfterTrial \in Validating
    BY <1>6, FourOnly DEF AfterTrial, Validating, TrialClosing, Retiring, Storing
<1>9. << <<"recover trial">>, <<"executed">>, <<"retire">>, <<"storage">> >>
          \in Then({<<"recover trial">>}, Reusing)
    BY <1>6, FourOnly DEF Reusing, Retiring, Storing
<1> QED BY <1>1, <1>2, <1>3, <1>5, <1>7, <1>8, <1>9

LEMMA Prepares ==
    ASSUME NEW r \in Sweeping \cup Executes
    PROVE  PrepareSteps \o r \in Then({<<"recover trial">>}, Preparing)
<1>0. r \in Seq(Steps)
    BY DEF Sweeping, Executes, Then
<1>1. <<"recover trial">> \in Steps /\ <<"retire">> \in Steps /\ <<"recover">> \in Steps
    BY PlainSteps
<1>2. ASSUME NEW a \in Steps, NEW b \in Steps, NEW c \in Steps, NEW K, r \in K
      PROVE  <<a, b, c>> \o r \in Then({a}, Then({b}, Then({c}, K)))
    <2>1. <<b, c>> \o r \in Then({b}, Then({c}, K))
        BY <1>0, <1>2, TwoSteps
    <2>2. /\ <<a, b, c>> \in Seq(Steps) /\ <<a, b, c>> # <<>>
          /\ Head(<<a, b, c>>) = a /\ Tail(<<a, b, c>>) = <<b, c>>
        BY ShortPrograms
    <2> QED BY <1>0, <2>1, <2>2, MoreSteps
<1> QED BY <1>1, <1>2 DEF PrepareSteps, Preparing, Recovering

LEMMA PreparedBuild ==
    ASSUME NEW mode \in {"build", "validate"}
    PROVE  PrepareSteps \o << <<"execute", mode>> >> \in Then({<<"recover trial">>}, Preparing)
BY PlainPrograms, Prepares

LEMMA FailureCleans == FailureCleanup \in Then({<<"recover trial">>}, Preparing)
BY PlainPrograms, Prepares DEF FailureCleanup

LEMMA Executed1 ==
    ASSUME NEW K, NEW r \in K, r \in Seq(Steps)
    PROVE  << <<"executed">> >> \o r \in Then({<<"executed">>}, K)
BY PlainSteps, OneStep

LEMMA Publishes ==
    ASSUME NEW g \in Generations
    PROVE  << <<"publish", g>>, <<"executed">> >> \o DiscardSteps \in Then({<<"publish", g>>}, Superseding)
<1>1. <<"publish", g>> \in Steps /\ <<"executed">> \in Steps
    BY PlainSteps, GenerationSteps
<1>2. DiscardSteps \in TrialChecked /\ DiscardSteps \in Seq(Steps)
    BY PlainPrograms DEF TrialChecked, Then
<1> QED BY <1>1, <1>2, TwoSteps DEF Superseding

LEMMA TrialPublishes ==
    ASSUME NEW g \in Generations
    PROVE  << <<"recover trial">>, <<"publish trial", g>> >> \o AfterTrial
               \in Then({<<"recover trial">>}, Then({<<"publish trial", g>>}, Validating))
<1>1. <<"publish trial", g>> \in Steps /\ <<"recover trial">> \in Steps
    BY PlainSteps, GenerationSteps
<1>2. AfterTrial \in Validating /\ AfterTrial \in Seq(Steps)
    BY PlainPrograms DEF Validating, Then
<1> QED BY <1>1, <1>2, TwoSteps

LEMMA CreatesTags ==
    ASSUME NEW g \in Generations, NEW K, NEW r \in K, r \in Seq(Steps)
    PROVE  CreateOwned(g) \in Seq(Steps) /\ CreateOwned(g) \o r \in Create(g, K)
<1>0. <<"tag", Generation(g)>> \in Steps /\ <<"tag", Companion(g)>> \in Steps
    BY GenerationSteps
<1> DEFINE G == << <<"tag", Generation(g)>> >>
           C == << <<"tag", Companion(g)>> >>
<1>1. G \in Seq(Steps) /\ C \in Seq(Steps)
    BY <1>0
<1>2. G \o r \in TagGeneration(g, K)
    BY <1>0, OneStep DEF TagGeneration
<1>3. CASE LockOf[g] \in Portable
    <2>1. CreateOwned(g) = C \o G
        BY <1>3 DEF CreateOwned, WithCompanion
    <2>2. (C \o G) \o r = C \o (G \o r) /\ G \o r \in Seq(Steps) /\ C \o G \in Seq(Steps)
        BY <1>1, Apart
    <2>3. C \o (G \o r) \in Then({<<"tag", Companion(g)>>}, TagGeneration(g, K))
        BY <1>0, <1>2, <2>2, OneStep
    <2> QED BY <1>3, <2>1, <2>2, <2>3 DEF Create
<1>4. CASE LockOf[g] \notin Portable
    <2>1. CreateOwned(g) = G
        BY <1>1, <1>4, NothingFirst DEF CreateOwned, WithCompanion
    <2> QED BY <1>1, <1>2, <1>4, <2>1 DEF Create
<1> QED BY <1>3, <1>4

LEMMA RemovesTags ==
    ASSUME NEW x \in Generations, NEW K, NEW r \in K, r \in Seq(Steps)
    PROVE  RemoveOwned(x) \in Seq(Steps) /\ RemoveOwned(x) \o r \in Untag(x, K)
<1>0. <<"untag", Generation(x)>> \in Steps /\ <<"untag", Companion(x)>> \in Steps
    BY GenerationSteps
<1> DEFINE G == << <<"untag", Generation(x)>> >>
           C == << <<"untag", Companion(x)>> >>
<1>1. G \in Seq(Steps) /\ C \in Seq(Steps)
    BY <1>0
<1>3. CASE LockOf[x] \in Portable
    <2>1. RemoveOwned(x) = G \o C
        BY <1>3 DEF RemoveOwned, WithCompanion
    <2>2. (G \o C) \o r = G \o (C \o r) /\ C \o r \in Seq(Steps) /\ G \o C \in Seq(Steps)
        BY <1>1, Apart
    <2>3. C \o r \in UntagCompanion(x, K)
        BY <1>0, OneStep DEF UntagCompanion
    <2>4. G \o (C \o r) \in Then({<<"untag", Generation(x)>>}, UntagCompanion(x, K))
        BY <1>0, <2>2, <2>3, OneStep
    <2> QED BY <1>3, <2>1, <2>2, <2>4 DEF Untag
<1>4. CASE LockOf[x] \notin Portable
    <2>1. RemoveOwned(x) = G
        BY <1>1, <1>4, ConcatEmptySeq DEF RemoveOwned, WithCompanion
    <2>2. G \o r \in Then({<<"untag", Generation(x)>>}, K)
        BY <1>0, OneStep
    <2> QED BY <1>1, <1>4, <2>1, <2>2 DEF Untag
<1> QED BY <1>3, <1>4

\* The end of a publication
LEMMA Finishes ==
    ASSUME NEW g \in Generations, NEW r \in Superseding \cup Sweeping \cup Executes
    PROVE  FinishPublication(g) \in Seq(Steps) /\ FinishPublication(g) \o r \in Finishing(g)
<1>0. r \in Seq(Steps)
    BY DEF Superseding, Sweeping, Executes, Then
<1>1. /\ <<"untag", Temporary(g)>> \in Steps /\ <<"prune locks">> \in Steps
      /\ <<"prune store">> \in Steps /\ <<"close">> \in Steps
    BY PlainSteps, GenerationSteps
<1> DEFINE A == << <<"untag", Temporary(g)>>, <<"prune locks">> >>
           B == IF StorePruneSafe THEN << <<"prune store">> >> ELSE <<>>
           C == << <<"close">> >>
<1>2. A \in Seq(Steps) /\ B \in Seq(Steps) /\ C \in Seq(Steps)
    <2>1. A \in Seq(Steps) /\ C \in Seq(Steps) /\ << <<"prune store">> >> \in Seq(Steps)
        BY <1>1, ShortPrograms
    <2> QED BY <2>1, EmptySeq
<1>3. FinishPublication(g) = (A \o B) \o C
    BY DEF FinishPublication
<1>4. C \o r \in Closing /\ C \o r \in Seq(Steps)
    BY <1>0, <1>1, OneStep DEF Closing, Then
<1>5. B \o (C \o r) \in Closing \cup PruningStore
    <2>1. CASE StorePruneSafe
        BY <1>1, <1>4, <2>1, OneStep DEF PruningStore
    <2>2. CASE ~StorePruneSafe
        BY <1>4, <2>2, NothingFirst
    <2> QED BY <2>1, <2>2
<1> HIDE DEF B
<1>6. B \o (C \o r) \in Seq(Steps)
    BY <1>2, <1>4, Apart
<1>7. A \o (B \o (C \o r)) \in Finishing(g)
    <2> DEFINE q == B \o (C \o r)
    <2>1. q \in Seq(Steps) /\ q \in Closing \cup PruningStore
        BY <1>5, <1>6
    <2> HIDE DEF q
    <2>2. A \o q \in Then({<<"untag", Temporary(g)>>}, Then({<<"prune locks">>}, Closing \cup PruningStore))
        BY <1>1, <2>1, TwoSteps
    <2> QED BY <2>2 DEF Finishing, PruningLocks, q
<1> HIDE DEF A, C
<1>8. ((A \o B) \o C) \o r = A \o (B \o (C \o r)) /\ (A \o B) \o C \in Seq(Steps)
    <2>1. /\ Join(Join(Join(A, B), C), r) = Join(A, Join(B, Join(C, r)))
          /\ Join(Join(A, B), C) \in Seq(Steps)
        BY <1>0, <1>2, ThreeApart
    <2> QED BY <2>1 DEF Join
<1> QED BY <1>3, <1>7, <1>8

\* The middle of a publication
LEMMA Commits ==
    ASSUME NEW g \in Generations, NEW old, NEW r \in Replacing(g, old), r \in Seq(Steps),
           NEW s, s = << <<"advance", "generation-created">>, <<"lock", LockOf[g]>>,
                         <<"advance", "lock-published">>, <<"commit", g>>,
                         <<"advance", "state-committed">>, <<"advance", "cleanup">> >>
    PROVE  s \in Seq(Steps) /\ s \o r \in Created(g, old)
<1>1. /\ <<"lock", LockOf[g]>> \in Steps /\ <<"commit", g>> \in Steps
      /\ <<"advance", "generation-created">> \in Steps /\ <<"advance", "lock-published">> \in Steps
      /\ <<"advance", "state-committed">> \in Steps /\ <<"advance", "cleanup">> \in Steps
    BY GenerationSteps, PhaseSteps
<1> QED BY <1>1, SixSteps DEF Created, Locking, Locked, Committing, Committed, Cleaning

LEMMA PublicationProgram ==
    ASSUME NEW g \in Generations, NEW r \in Superseding, current \in Generations \cup {None}
    PROVE  PublishSteps(g) \o r \in Then({<<"intend", g>>}, Intended(g, current))
<1>0. r \in Seq(Steps) /\ r \in Superseding \cup Sweeping \cup Executes
    BY DEF Superseding, Then
<1> DEFINE A == << <<"intend", g>>, <<"tag", Temporary(g)>> >>
           B == CreateOwned(g)
           C == << <<"advance", "generation-created">>, <<"lock", LockOf[g]>>,
                   <<"advance", "lock-published">>, <<"commit", g>>,
                   <<"advance", "state-committed">>, <<"advance", "cleanup">> >>
           D == IF current = None THEN <<>> ELSE RemoveOwned(current)
           F == FinishPublication(g)
<1>1. PublishSteps(g) = (((A \o B) \o C) \o D) \o F
    BY DEF PublishSteps
<1>2. F \in Seq(Steps) /\ F \o r \in Finishing(g) /\ F \o r \in Seq(Steps)
    BY <1>0, Finishes DEF Finishing, Then
<1> HIDE DEF F
<1>3. D \in Seq(Steps) /\ D \o (F \o r) \in Replacing(g, current) /\ D \o (F \o r) \in Seq(Steps)
    <2>1. CASE current = None
        BY <1>2, <2>1, NothingFirst, EmptySeq DEF Replacing
    <2>2. CASE current # None
        <3>1. current \in Generations /\ D = RemoveOwned(current)
            BY <2>2
        <3>2. RemoveOwned(current) \in Seq(Steps)
              /\ RemoveOwned(current) \o (F \o r) \in Untag(current, Finishing(g))
            BY <1>2, <3>1, RemovesTags
        <3> QED BY <2>2, <3>1, <3>2 DEF Replacing, Untag, Then
    <2> QED BY <2>1, <2>2
<1> HIDE DEF D
<1>4. C \in Seq(Steps) /\ C \o (D \o (F \o r)) \in Created(g, current) /\ C \o (D \o (F \o r)) \in Seq(Steps)
    <2> DEFINE q == D \o (F \o r)
    <2>1. q \in Seq(Steps) /\ q \in Replacing(g, current)
        BY <1>3
    <2> HIDE DEF q
    <2>2. C \in Seq(Steps) /\ C \o q \in Created(g, current)
        BY <2>1, Commits
    <2>3. C \o q \in Seq(Steps)
        BY <2>2 DEF Created, Then
    <2> QED BY <2>2, <2>3 DEF q
<1> HIDE DEF C
<1>5. /\ B \in Seq(Steps) /\ B \o (C \o (D \o (F \o r))) \in Create(g, Created(g, current))
      /\ B \o (C \o (D \o (F \o r))) \in Seq(Steps)
    BY <1>4, CreatesTags, Apart
<1> HIDE DEF B
<1>6. /\ A \in Seq(Steps)
      /\ A \o (B \o (C \o (D \o (F \o r)))) \in Then({<<"intend", g>>}, Intended(g, current))
    <2> DEFINE q == B \o (C \o (D \o (F \o r)))
    <2>1. q \in Seq(Steps) /\ q \in Create(g, Created(g, current))
        BY <1>5
    <2> HIDE DEF q
    <2>2. <<"intend", g>> \in Steps /\ <<"tag", Temporary(g)>> \in Steps
        BY GenerationSteps
    <2>3. A \o q \in Then({<<"intend", g>>}, Then({<<"tag", Temporary(g)>>}, Create(g, Created(g, current))))
        BY <2>1, <2>2, TwoSteps
    <2> QED BY <2>2, <2>3 DEF Intended, q
<1> HIDE DEF A
<1>7. ((((A \o B) \o C) \o D) \o F) \o r = A \o (B \o (C \o (D \o (F \o r))))
    <2>1. /\ A \in Seq(Steps) /\ B \in Seq(Steps) /\ C \in Seq(Steps) /\ D \in Seq(Steps)
          /\ F \in Seq(Steps) /\ r \in Seq(Steps)
        BY <1>0, <1>2, <1>3, <1>4, <1>5, <1>6
    <2>2. Join(Join(Join(Join(Join(A, B), C), D), F), r) = Join(A, Join(B, Join(C, Join(D, Join(F, r)))))
        BY <2>1, FiveApart
    <2> QED BY <2>2 DEF Join
<1> QED BY <1>1, <1>6, <1>7

\* The recovery of a publication
LEMMA RecoveryProgram ==
    ASSUME NEW g \in Generations, NEW r \in Sweeping \cup Executes, NEW x \in Generations
    PROVE  /\ (RemoveOwned(x) \o FinishPublication(g)) \o r \in Untag(x, Finishing(g))
           /\ (<<>> \o FinishPublication(g)) \o r \in Finishing(g)
<1>1. r \in Seq(Steps)
    BY DEF Sweeping, Executes, Then
<1>2. /\ FinishPublication(g) \in Seq(Steps) /\ FinishPublication(g) \o r \in Finishing(g)
      /\ FinishPublication(g) \o r \in Seq(Steps)
    BY Finishes DEF Finishing, Then
<1>3. RemoveOwned(x) \in Seq(Steps) /\ RemoveOwned(x) \o (FinishPublication(g) \o r) \in Untag(x, Finishing(g))
    BY <1>2, RemovesTags
<1>4. (RemoveOwned(x) \o FinishPublication(g)) \o r = RemoveOwned(x) \o (FinishPublication(g) \o r)
    BY <1>1, <1>2, <1>3, Apart
<1>5. <<>> \o FinishPublication(g) = FinishPublication(g)
    BY <1>2, NothingFirst
<1> QED BY <1>2, <1>3, <1>4, <1>5

\* The publication of a validated build, and its recovery
LEMMA TrialProgram ==
    ASSUME NEW g \in Generations, NEW r \in Validating
    PROVE  TrialSteps(g) \o r \in Then({<<"lock", LockOf[g]>>}, TrialIntending(g))
<1>0. r \in Seq(Steps)
    BY DEF Validating, Then
<1>1. <<"lock", LockOf[g]>> \in Steps /\ <<"intend trial", g>> \in Steps /\ <<"commit trial">> \in Steps
    BY GenerationSteps, PlainSteps
<1> DEFINE A == << <<"lock", LockOf[g]>>, <<"intend trial", g>> >>
           B == CreateOwned(g)
           C == << <<"commit trial">> >>
<1>2. A \in Seq(Steps) /\ C \in Seq(Steps)
    BY <1>1, ShortPrograms
<1>3. C \o r \in TrialCommitting /\ C \o r \in Seq(Steps)
    BY <1>0, <1>1, OneStep DEF TrialCommitting, Then
<1>4. B \in Seq(Steps) /\ B \o (C \o r) \in Create(g, TrialCommitting) /\ B \o (C \o r) \in Seq(Steps)
    BY <1>3, CreatesTags, Apart
<1> HIDE DEF B
<1>5. A \o (B \o (C \o r)) \in Then({<<"lock", LockOf[g]>>}, TrialIntending(g))
    <2> DEFINE q == B \o (C \o r)
    <2>1. q \in Seq(Steps) /\ q \in Create(g, TrialCommitting)
        BY <1>4
    <2> HIDE DEF q
    <2>2. A \o q \in Then({<<"lock", LockOf[g]>>}, Then({<<"intend trial", g>>}, Create(g, TrialCommitting)))
        BY <1>1, <2>1, TwoSteps
    <2> QED BY <2>2 DEF TrialIntending, q
<1>6. TrialSteps(g) = (A \o B) \o C
    BY DEF TrialSteps, B
<1> HIDE DEF A, C
<1>7. ((A \o B) \o C) \o r = A \o (B \o (C \o r))
    <2>1. A \in Seq(Steps) /\ B \in Seq(Steps) /\ C \in Seq(Steps) /\ r \in Seq(Steps)
        BY <1>0, <1>2, <1>4
    <2>2. Join(Join(Join(A, B), C), r) = Join(A, Join(B, Join(C, r)))
        BY <2>1, ThreeApart
    <2> QED BY <2>2 DEF Join
<1> QED BY <1>5, <1>6, <1>7

LEMMA TrialRecoveryProgram ==
    ASSUME NEW g \in Generations, NEW r \in Onward, r \in Seq(Steps)
    PROVE  /\ (RemoveOwned(g) \o << <<"close trial">> >>) \o r \in Untag(g, TrialUndone)
           /\ (<<>> \o << <<"close trial">> >>) \o r \in TrialUndone
<1> DEFINE C == << <<"close trial">> >>
<1>0. <<"close trial">> \in Steps
    BY PlainSteps
<1>1. C \in Seq(Steps) /\ <<"close trial">> \in Steps
    BY <1>0, ShortPrograms
<1>2. C \o r \in TrialUndone /\ C \o r \in Seq(Steps)
    BY <1>1, OneStep DEF TrialUndone, Then
<1> HIDE DEF C
<1>3. RemoveOwned(g) \in Seq(Steps) /\ RemoveOwned(g) \o (C \o r) \in Untag(g, TrialUndone)
    BY <1>2, RemovesTags
<1>4. (RemoveOwned(g) \o C) \o r = RemoveOwned(g) \o (C \o r)
    <2> DEFINE R == RemoveOwned(g)
    <2>1. R \in Seq(Steps) /\ C \in Seq(Steps)
        BY <1>1, <1>3
    <2> HIDE DEF R
    <2>2. (R \o C) \o r = R \o (C \o r)
        BY <2>1, Apart
    <2> QED BY <2>2 DEF R
<1>5. <<>> \o C = C
    BY <1>1, NothingFirst
<1> QED BY <1>2, <1>3, <1>4, <1>5 DEF C

-----------------------------------------------------------------------------
(* Where a program stands                                                   *)

LEMMA SweepProgram ==
    ASSUME NEW r \in Halted
    PROVE  /\ << <<"prune locks">> >> \o r \in SweepingLocks
           /\ << <<"prune store">>, <<"prune locks">>, <<"settle">> >> \o r
                 \in Then({<<"prune store">>}, SweepingLocks)
<1>1. r = <<>> /\ r \in Seq(Steps)
    BY EmptySeq DEF Halted
<1>2. <<"prune store">> \in Steps /\ <<"prune locks">> \in Steps /\ <<"settle">> \in Steps
    BY PlainSteps
<1>3. << <<"prune locks">> >> \o r \in SweepingLocks
    BY <1>1, <1>2, OneStep DEF SweepingLocks
<1>4. << <<"prune locks">>, <<"settle">> >> \o r \in SweepingLocks
    <2>1. << <<"prune locks">>, <<"settle">> >> \o r \in Then({<<"prune locks">>}, Then({<<"settle">>}, Halted))
        BY <1>1, <1>2, TwoSteps
    <2>2. Then({<<"settle">>}, Halted) \subseteq Settling \cup Halted
        BY DEF Settling
    <2> QED BY <2>1, <2>2, ThenGrows DEF SweepingLocks
<1>5. ASSUME NEW a \in Steps, NEW b \in Steps, NEW c \in Steps, NEW K, <<b, c>> \o r \in K
      PROVE  <<a, b, c>> \o r \in Then({a}, K)
    <2>1. /\ <<a, b, c>> \in Seq(Steps) /\ <<a, b, c>> # <<>>
          /\ Head(<<a, b, c>>) = a /\ Tail(<<a, b, c>>) = <<b, c>>
        BY ShortPrograms
    <2> QED BY <1>1, <1>5, <2>1, MoreSteps
<1> QED BY <1>2, <1>3, <1>4, <1>5

\* What ProgramFits says when the kind of the next step is known
LEMMA Found ==
    ASSUME ProgramFits
    PROVE  /\ At("recover trial") => BeforeRecoverTrial
           /\ At("retire") => BeforeRetire
           /\ At("recover") => BeforeRecover
           /\ At("sweep") => BeforeSweep
           /\ At("storage") => BeforeStorage
           /\ At("discard") => BeforeDiscard
           /\ At("execute") => BeforeExecute
           /\ At("executed") => BeforeExecuted
           /\ At("publish") => BeforePublish
           /\ At("publish trial") => BeforePublishTrial
           /\ At("intend") => BeforeIntend
           /\ At("tag") => BeforeTag
           /\ At("advance") => BeforeAdvance
           /\ At("lock") => BeforeLock
           /\ At("commit") => BeforeCommit
           /\ At("untag") => BeforeUntag
           /\ At("close") => BeforeClose
           /\ At("prune locks") => BeforePruneLocks
           /\ At("prune store") => BeforePruneStore
           /\ At("settle") => BeforeSettle
           /\ At("intend trial") => BeforeIntendTrial
           /\ At("commit trial") => BeforeCommitTrial
           /\ At("close trial") => BeforeCloseTrial
           /\ At("note") => BeforeNote
BY DEF ProgramFits, At

\* A program whose first step is of kind op
Starts(s, op) == s \in Seq(Steps) /\ s # <<>> /\ Head(s)[1] = op

LEMMA PlainStart ==
    ASSUME NEW s, NEW op, NEW K, s \in Then({<<op>>}, K)
    PROVE  Starts(s, op) /\ Tail(s) \in K
<1>1. s \in Seq(Steps) /\ s # <<>> /\ Head(s) = <<op>> /\ Tail(s) \in K
    BY ThenLeads
<1> QED BY <1>1 DEF Starts

\* With an argument
LEMMA ArgumentStart ==
    ASSUME NEW s, NEW op, NEW x, NEW K, s \in Then({<<op, x>>}, K)
    PROVE  Starts(s, op) /\ Head(s)[2] = x /\ Tail(s) \in K
<1>1. s \in Seq(Steps) /\ s # <<>> /\ Head(s) = <<op, x>> /\ Tail(s) \in K
    BY ThenLeads
<1> QED BY <1>1 DEF Starts

LEMMA Begins ==
    ASSUME NEW s
    PROVE  /\ s \in Storing => Starts(s, "storage") /\ Tail(s) \in Halted
           /\ s \in Retiring => Starts(s, "retire") /\ Tail(s) \in Storing
           /\ s \in Discarding => Starts(s, "discard") /\ Tail(s) \in Retiring
           /\ s \in TrialChecked => Starts(s, "recover trial") /\ Tail(s) \in Discarding
           /\ s \in Superseding => Starts(s, "executed") /\ Tail(s) \in TrialChecked
           /\ s \in Reusing => Starts(s, "executed") /\ Tail(s) \in Retiring
           /\ s \in TrialClosing => Starts(s, "close trial") /\ Tail(s) \in Retiring
           /\ s \in Validating => Starts(s, "executed") /\ Tail(s) \in TrialClosing
           /\ s \in Sweeping => Starts(s, "sweep") /\ Tail(s) \in Halted
           /\ s \in Executes =>
                 Starts(s, "execute") /\ Tail(s) \in Halted /\ Head(s)[2] \in {"build", "validate"}
           /\ s \in Recovering => Starts(s, "recover") /\ Tail(s) \in Sweeping \cup Executes
           /\ s \in Preparing => Starts(s, "retire") /\ Tail(s) \in Recovering
           /\ s \in Closing => Starts(s, "close") /\ Tail(s) \in Superseding \cup Sweeping \cup Executes
           /\ s \in PruningStore => Starts(s, "prune store") /\ Tail(s) \in Closing
           /\ s \in PruningLocks => Starts(s, "prune locks") /\ Tail(s) \in Closing \cup PruningStore
           /\ s \in TrialCommitting => Starts(s, "commit trial") /\ Tail(s) \in Validating
           /\ s \in Settling => Starts(s, "settle") /\ Tail(s) \in Halted
           /\ s \in SweepingLocks => Starts(s, "prune locks") /\ Tail(s) \in Settling \cup Halted
           /\ s \in Halted => s = <<>> /\ s \in Seq(Steps)
           /\ \A G : s \in Trying(G) =>
                 Starts(s, "publish trial") /\ Tail(s) \in Validating /\ Head(s)[2] \in G
<1>2. s \in Storing => Starts(s, "storage") /\ Tail(s) \in Halted
    BY PlainStart DEF Storing
<1>3. s \in Retiring => Starts(s, "retire") /\ Tail(s) \in Storing
    BY PlainStart DEF Retiring
<1>4. s \in Discarding => Starts(s, "discard") /\ Tail(s) \in Retiring
    BY PlainStart DEF Discarding
<1>5. s \in TrialChecked => Starts(s, "recover trial") /\ Tail(s) \in Discarding
    BY PlainStart DEF TrialChecked
<1>6. s \in Superseding => Starts(s, "executed") /\ Tail(s) \in TrialChecked
    BY PlainStart DEF Superseding
<1>7. s \in Reusing => Starts(s, "executed") /\ Tail(s) \in Retiring
    BY PlainStart DEF Reusing
<1>8. s \in TrialClosing => Starts(s, "close trial") /\ Tail(s) \in Retiring
    BY PlainStart DEF TrialClosing
<1>9. s \in Validating => Starts(s, "executed") /\ Tail(s) \in TrialClosing
    BY PlainStart DEF Validating
<1>10. s \in Sweeping => Starts(s, "sweep") /\ Tail(s) \in Halted
    BY PlainStart DEF Sweeping
<1>11. s \in Recovering => Starts(s, "recover") /\ Tail(s) \in Sweeping \cup Executes
    BY PlainStart DEF Recovering
<1>12. s \in Preparing => Starts(s, "retire") /\ Tail(s) \in Recovering
    BY PlainStart DEF Preparing
<1>13. s \in Closing => Starts(s, "close") /\ Tail(s) \in Superseding \cup Sweeping \cup Executes
    BY PlainStart DEF Closing
<1>14. s \in PruningStore => Starts(s, "prune store") /\ Tail(s) \in Closing
    BY PlainStart DEF PruningStore
<1>15. s \in PruningLocks => Starts(s, "prune locks") /\ Tail(s) \in Closing \cup PruningStore
    BY PlainStart DEF PruningLocks
<1>16. s \in TrialCommitting => Starts(s, "commit trial") /\ Tail(s) \in Validating
    BY PlainStart DEF TrialCommitting
<1>17. s \in Settling => Starts(s, "settle") /\ Tail(s) \in Halted
    BY PlainStart DEF Settling
<1>18. s \in SweepingLocks => Starts(s, "prune locks") /\ Tail(s) \in Settling \cup Halted
    BY PlainStart DEF SweepingLocks
<1>19. s \in Executes =>
          Starts(s, "execute") /\ Tail(s) \in Halted /\ Head(s)[2] \in {"build", "validate"}
    BY DEF Executes, Then, Starts
<1>20. s \in Halted => s = <<>> /\ s \in Seq(Steps)
    BY EmptySeq DEF Halted
<1>21. ASSUME NEW G, s \in Trying(G)
      PROVE  Starts(s, "publish trial") /\ Tail(s) \in Validating /\ Head(s)[2] \in G
    <2>1. s \in Seq(Steps) /\ s # <<>> /\ Head(s) \in {"publish trial"} \X G /\ Tail(s) \in Validating
        BY <1>21, ThenLeads DEF Trying
    <2> QED BY <2>1 DEF Starts
<1> QED BY <1>19, <1>20, <1>21,
           <1>2, <1>3, <1>4, <1>5, <1>6, <1>7, <1>8, <1>9, <1>10, <1>11, <1>12, <1>13, <1>14, <1>15, <1>16, <1>17, <1>18

\* The next program
LEMMA OnToCalls ==
    ASSUME todo' \in Halted \cup Storing \cup Retiring \cup Recovering \cup Preparing \cup Reusing
    PROVE  ProgramFits' /\ todo' \in Seq(Steps)
<1>1. CASE todo' \in Halted
    BY <1>1, Begins DEF ProgramFits
<1>2. CASE todo' \in Storing
    <2>1. At("storage")' /\ BeforeStorage' /\ todo' \in Seq(Steps)
        BY <1>2, Begins DEF Starts, At, BeforeStorage
    <2> QED BY <2>1 DEF ProgramFits
<1>3. CASE todo' \in Retiring \cup Preparing
    <2>1. At("retire")' /\ BeforeRetire' /\ todo' \in Seq(Steps)
        BY <1>3, Begins DEF Starts, At, BeforeRetire
    <2> QED BY <2>1 DEF ProgramFits
<1>4. CASE todo' \in Recovering
    <2>1. At("recover")' /\ BeforeRecover' /\ todo' \in Seq(Steps)
        BY <1>4, Begins DEF Starts, At, BeforeRecover
    <2> QED BY <2>1 DEF ProgramFits
<1>5. CASE todo' \in Reusing
    <2>1. At("executed")' /\ BeforeExecuted' /\ todo' \in Seq(Steps)
        BY <1>5, Begins DEF Starts, At, BeforeExecuted
    <2> QED BY <2>1 DEF ProgramFits
<1> QED BY <1>1, <1>2, <1>3, <1>4, <1>5

LEMMA OnToRecoverTrial ==
    ASSUME NEW K, todo' \in Then({<<"recover trial">>}, K), K \subseteq Onward'
    PROVE  ProgramFits' /\ todo' \in Seq(Steps)
<1>1. Starts(todo', "recover trial") /\ Tail(todo') \in K
    BY PlainStart
<1>2. At("recover trial")' /\ BeforeRecoverTrial' /\ todo' \in Seq(Steps)
    BY <1>1 DEF Starts, At, BeforeRecoverTrial
<1> QED BY <1>2 DEF ProgramFits

LEMMA Failing ==
    ASSUME Fail
    PROVE  ProgramFits' /\ todo' \in Seq(Steps)
<1>1. CASE todo' = <<>>
    BY <1>1, EmptySeq DEF ProgramFits
<1>2. CASE todo' = FailureCleanup
    <2>1. todo' \in Then({<<"recover trial">>}, Preparing)
        BY <1>2, FailureCleans
    <2>2. Preparing \subseteq Onward'
        BY DEF Onward
    <2> QED BY <2>1, <2>2, OnToRecoverTrial
<1> QED BY <1>1, <1>2 DEF Fail

LEMMA OnFromPublication ==
    ASSUME todo' \in Superseding \cup Sweeping \cup Executes, Quiet'
    PROVE  ProgramFits' /\ todo' \in Seq(Steps)
<1>1. CASE todo' \in Superseding
    <2>1. At("executed")' /\ BeforeExecuted' /\ todo' \in Seq(Steps)
        BY <1>1, Begins DEF Starts, At, BeforeExecuted, Quiet
    <2> QED BY <2>1 DEF ProgramFits
<1>2. CASE todo' \in Sweeping
    <2>1. At("sweep")' /\ BeforeSweep' /\ todo' \in Seq(Steps)
        BY <1>2, Begins DEF Starts, At, BeforeSweep
    <2> QED BY <2>1 DEF ProgramFits
<1>3. CASE todo' \in Executes
    <2>1. At("execute")' /\ BeforeExecute' /\ todo' \in Seq(Steps)
        BY <1>3, Begins DEF Starts, At, BeforeExecute, Argument
    <2> QED BY <2>1 DEF ProgramFits
<1> QED BY <1>1, <1>2, <1>3

LEMMA OnFromTrial ==
    ASSUME todo' \in Onward'
    PROVE  ProgramFits' /\ todo' \in Seq(Steps)
<1>1. CASE todo' \in Preparing \cup Reusing
    BY <1>1, OnToCalls
<1>2. CASE pending' = None /\ todo' \in Discarding
    <2>1. At("discard")' /\ BeforeDiscard' /\ todo' \in Seq(Steps)
        BY <1>2, Begins DEF Starts, At, BeforeDiscard
    <2> QED BY <2>1 DEF ProgramFits
<1>3. CASE todo' \in Trying(Unmentioned')
    <2>1. Starts(todo', "publish trial") /\ Tail(todo') \in Validating /\ Head(todo')[2] \in Unmentioned'
        BY <1>3, Begins
    <2>2. At("publish trial")' /\ BeforePublishTrial' /\ todo' \in Seq(Steps)
        BY <2>1 DEF Starts, At, BeforePublishTrial, Argument
    <2> QED BY <2>2 DEF ProgramFits
<1> QED BY <1>1, <1>2, <1>3 DEF Onward

LEMMA OnwardKept ==
    ASSUME pending' = pending, Mentioned' \subseteq Mentioned
    PROVE  Onward \subseteq Onward'
<1>1. Unmentioned \subseteq Unmentioned'
    BY DEF Unmentioned
<1>2. ASSUME NEW s \in Trying(Unmentioned) PROVE s \in Trying(Unmentioned')
    BY <1>1, <1>2, ThenLeads DEF Trying, Then
<1> QED BY <1>2 DEF Onward

LEMMA DiskKept ==
    ASSUME DiskFits, UNCHANGED disk
    PROVE  DiskFits'
<1>1. UNCHANGED <<current, locks, objects, tags, pending, validated, pendingTrial>>
    BY DEF disk
<1>2. RecordsFit' /\ OwnersDiffer'
    BY <1>1 DEF DiskFits, RecordsFit, OwnersDiffer, WellFormed, Live, TrialCommitted
<1>3. CurrentRunnable' /\ TrialUsable' /\ PhaseTruthful'
    BY <1>1 DEF DiskFits, CurrentRunnable, TrialUsable, PhaseTruthful, Complete, Live
<1>4. RecoveryAccepted'
    BY <1>1 DEF DiskFits, RecoveryAccepted, Recoverable, PruningBoundary, TrialRecoverable, Complete,
                Live, TrialCommitted, DiscardsCandidate, KeepsCandidate, Inventory, Superseded
<1>5. NoLeakedTags'
    BY <1>1 DEF DiskFits, NoLeakedTags, Protected, Superseded, Live, Inventory
<1> QED BY <1>2, <1>3, <1>4, <1>5 DEF DiskFits

\* A step that leaves the disk alone
LEMMA CallKeeps ==
    ASSUME PublicationInv, UNCHANGED <<disk, faulty>>, ProgramFits', todo' \in Seq(Steps)
    PROVE  PublicationInv'
<1>1. DiskFits'
    BY DiskKept DEF PublicationInv
<1>2. PublicationTypes'
    BY DEF PublicationInv, PublicationTypes, disk
<1> QED BY <1>1, <1>2 DEF PublicationInv

LEMMA SameNames ==
    ASSUME UNCHANGED <<current, tags, pending, validated, pendingTrial>>
    PROVE  Mentioned' = Mentioned /\ Unmentioned' = Unmentioned
BY DEF Mentioned, Unmentioned, Inventory

-----------------------------------------------------------------------------
(* The steps that leave the disk alone                                      *)

LEMMA BeginKeeps == ASSUME PublicationInv, Begin PROVE PublicationInv'
<1>1. PICK mode \in {"build", "validate"} : todo' = PrepareSteps \o << <<"execute", mode>> >>
    BY DEF Begin
<1>2. todo' \in Then({<<"recover trial">>}, Preparing)
    BY <1>1, PreparedBuild
<1>3. Preparing \subseteq Onward'
    BY DEF Onward
<1>4. ProgramFits' /\ todo' \in Seq(Steps)
    BY <1>2, <1>3, OnToRecoverTrial
<1> QED BY <1>4, CallKeeps DEF Begin

LEMMA ReuseCurrentKeeps == ASSUME PublicationInv, ReuseCurrent PROVE PublicationInv'
<1>1. BeforeExecute
    BY Found DEF PublicationInv, ReuseCurrent
<1>2. todo' \in Superseding
    <2>1. DiscardSteps \in TrialChecked /\ DiscardSteps \in Seq(Steps)
        BY PlainPrograms DEF TrialChecked, Then
    <2> QED BY <2>1, Executed1 DEF ReuseCurrent, Superseding
<1>3. Quiet'
    BY <1>1 DEF ReuseCurrent, BeforeExecute, Quiet, PruningBoundary, Inventory, disk
<1>4. ProgramFits' /\ todo' \in Seq(Steps)
    BY <1>2, <1>3, OnFromPublication
<1> QED BY <1>4, CallKeeps DEF ReuseCurrent

LEMMA ReuseTrialKeeps == ASSUME PublicationInv, ReuseTrial PROVE PublicationInv'
<1>1. CASE todo' = <<>>
    <2>1. ProgramFits' /\ todo' \in Seq(Steps)
        BY <1>1, EmptySeq DEF ProgramFits
    <2> QED BY <2>1, CallKeeps DEF ReuseTrial
<1>2. CASE todo' = << <<"recover trial">>, <<"executed">>, <<"retire">>, <<"storage">> >>
    <2>1. todo' \in Then({<<"recover trial">>}, Reusing)
        BY <1>2, PlainPrograms
    <2>2. Reusing \subseteq Onward'
        BY DEF Onward
    <2>3. ProgramFits' /\ todo' \in Seq(Steps)
        BY <2>1, <2>2, OnToRecoverTrial
    <2> QED BY <2>3, CallKeeps DEF ReuseTrial
<1> QED BY <1>1, <1>2 DEF ReuseTrial

\* The store grows.
LEMMA ObjectsGrow ==
    ASSUME PublicationInv, NEW d \in Digests, objects' = objects \cup {d},
           UNCHANGED <<current, locks, tags, pending, validated, pendingTrial, faulty>>,
           ProgramFits', todo' \in Seq(Steps)
    PROVE  PublicationInv'
<1>1. PublicationTypes'
    BY DEF PublicationInv, PublicationTypes
<1>2. RecordsFit' /\ OwnersDiffer'
    BY DEF PublicationInv, DiskFits, RecordsFit, OwnersDiffer, WellFormed, Live, TrialCommitted
<1>3. CurrentRunnable' /\ TrialUsable' /\ PhaseTruthful'
    BY DEF PublicationInv, DiskFits, CurrentRunnable, TrialUsable, PhaseTruthful, Complete, Live
<1>4. RecoveryAccepted'
    BY DEF PublicationInv, DiskFits, RecoveryAccepted, Recoverable, PruningBoundary, TrialRecoverable,
           Complete, Live, TrialCommitted, DiscardsCandidate, KeepsCandidate, Inventory, Superseded
<1>5. NoLeakedTags'
    BY DEF PublicationInv, DiskFits, NoLeakedTags, Protected, Superseded, Live, Inventory
<1> QED BY <1>1, <1>2, <1>3, <1>4, <1>5 DEF PublicationInv, DiskFits

LEMMA FreshIsUnmentioned ==
    ASSUME NEW d, Unused(d) # {}
    PROVE  Fresh(d) \in Unmentioned /\ Fresh(d) \in Generations /\ LockOf[Fresh(d)] = d
<1>1. Fresh(d) \in Unused(d)
    BY DEF Fresh
<1> QED BY <1>1 DEF Unused, Unmentioned

LEMMA BuildOrPromoteKeeps == ASSUME PublicationInv, BuildOrPromote PROVE PublicationInv'
<1>1. PICK d \in Digests : /\ Unused(d) # {} /\ objects' = objects \cup {d}
                           /\ todo' = << <<"publish", Fresh(d)>>, <<"executed">> >> \o DiscardSteps
    BY DEF BuildOrPromote
<1>2. Fresh(d) \in Unmentioned /\ Fresh(d) \in Generations
    BY <1>1, FreshIsUnmentioned
<1>3. todo' \in Then({<<"publish", Fresh(d)>>}, Superseding)
    BY <1>1, <1>2, Publishes
<1>4. Starts(todo', "publish") /\ Head(todo')[2] = Fresh(d) /\ Tail(todo') \in Superseding
    BY <1>3, ArgumentStart
<1>5. Unmentioned' = Unmentioned
    BY SameNames DEF BuildOrPromote
<1>6. At("publish")' /\ BeforePublish' /\ todo' \in Seq(Steps)
    BY <1>2, <1>4, <1>5 DEF Starts, At, BeforePublish, Argument
<1>7. ProgramFits' /\ todo' \in Seq(Steps)
    BY <1>6 DEF ProgramFits
<1> QED BY <1>1, <1>7, ObjectsGrow DEF BuildOrPromote

LEMMA BuildTrialKeeps == ASSUME PublicationInv, BuildTrial PROVE PublicationInv'
<1>1. PICK d \in Digests :
          /\ Unused(d) # {} /\ objects' = objects \cup {d}
          /\ todo' = << <<"recover trial">>, <<"publish trial", Fresh(d)>> >> \o AfterTrial
    BY DEF BuildTrial
<1>2. Fresh(d) \in Unmentioned /\ Fresh(d) \in Generations
    BY <1>1, FreshIsUnmentioned
<1>3. todo' \in Then({<<"recover trial">>}, Then({<<"publish trial", Fresh(d)>>}, Validating))
    BY <1>1, <1>2, TrialPublishes
<1>4. Unmentioned' = Unmentioned
    BY SameNames DEF BuildTrial
<1>5. Then({<<"publish trial", Fresh(d)>>}, Validating) \subseteq Onward'
    <2>1. <<"publish trial", Fresh(d)>> \in {"publish trial"} \X Unmentioned'
        BY <1>2, <1>4
    <2> QED BY <2>1 DEF Then, Onward, Trying
<1>6. ProgramFits' /\ todo' \in Seq(Steps)
    BY <1>3, <1>5, OnToRecoverTrial
<1> QED BY <1>1, <1>6, ObjectsGrow DEF BuildTrial

LEMMA ExecutedKeeps == ASSUME PublicationInv, Executed PROVE PublicationInv'
<1>1. BeforeExecuted /\ todo' = Tail(todo) /\ UNCHANGED <<disk, faulty>>
    BY Found DEF PublicationInv, Executed, Advance
<1>2. UNCHANGED <<current, locks, objects, tags, pending, validated, pendingTrial>>
    BY <1>1 DEF disk
<1>3. CASE todo' \in Retiring
    BY <1>1, <1>3, OnToCalls, CallKeeps
<1>4. CASE todo' \in TrialChecked /\ pending = None
    <2>1. todo' \in Then({<<"recover trial">>}, Discarding)
        BY <1>4 DEF TrialChecked
    <2>2. Discarding \subseteq Onward'
        BY <1>2, <1>4 DEF Onward
    <2> QED BY <1>1, <2>1, <2>2, OnToRecoverTrial, CallKeeps
<1>5. CASE todo' \in TrialClosing /\ pendingTrial # None /\ TrialCommitted
    <2>1. At("close trial")' /\ BeforeCloseTrial' /\ todo' \in Seq(Steps)
        BY <1>2, <1>5, Begins DEF Starts, At, BeforeCloseTrial, TrialCommitted
    <2>2. ProgramFits'
        BY <2>1 DEF ProgramFits
    <2> QED BY <1>1, <2>1, <2>2, CallKeeps
<1> QED BY <1>1, <1>3, <1>4, <1>5 DEF BeforeExecuted

LEMMA StopKeeps == ASSUME PublicationInv, StepFails \/ Crash PROVE PublicationInv'
<1>1. CASE StepFails
    BY <1>1, Failing, CallKeeps DEF StepFails
<1>2. CASE Crash
    <2>1. ProgramFits' /\ todo' \in Seq(Steps)
        BY <1>2, EmptySeq DEF Crash, ProgramFits
    <2> QED BY <1>2, <2>1, CallKeeps DEF Crash
<1> QED BY <1>1, <1>2

LEMMA PublishKeeps == ASSUME PublicationInv, Publish PROVE PublicationInv'
<1>0. UNCHANGED <<disk, faulty>>
    BY DEF Publish
<1>1. BeforePublish
    BY Found DEF PublicationInv, Publish
<1>2. CASE Fail
    BY <1>0, <1>2, Failing, CallKeeps
<1>3. CASE /\ todo' = PublishSteps(Argument) \o Tail(todo)
           /\ PruningBoundary /\ pending = None /\ LockOf[Argument] \in objects
    <2> DEFINE g == Argument
    <2>1. g \in Unmentioned /\ g \in Generations /\ Tail(todo) \in Superseding
        BY <1>1 DEF BeforePublish, Unmentioned
    <2>2. current \in Generations \cup {None}
        BY DEF PublicationInv, PublicationTypes
    <2> HIDE DEF g
    <2>3. todo' \in Then({<<"intend", g>>}, Intended(g, current))
        BY <1>3, <2>1, <2>2, PublicationProgram DEF g
    <2>4. Starts(todo', "intend") /\ Head(todo')[2] = g /\ Tail(todo') \in Intended(g, current)
        BY <2>3, ArgumentStart
    <2>5. UNCHANGED <<current, locks, objects, tags, pending, validated, pendingTrial>>
        BY <1>0 DEF disk
    <2>6. Unmentioned' = Unmentioned
        BY <2>5, SameNames
    <2>7. Quiet' /\ LockOf[g] \in objects'
        BY <1>3, <2>5 DEF Quiet, PruningBoundary, Inventory, g
    <2>8. At("intend")' /\ BeforeIntend' /\ todo' \in Seq(Steps)
        <3>1. Argument' = g /\ todo' \in Seq(Steps) /\ At("intend")'
            BY <2>4 DEF Starts, At, Argument
        <3> QED BY <2>1, <2>4, <2>5, <2>6, <2>7, <3>1 DEF BeforeIntend
    <2>9. ProgramFits'
        BY <2>8 DEF ProgramFits
    <2> QED BY <1>0, <2>8, <2>9, CallKeeps
<1> QED BY <1>2, <1>3 DEF Publish, Checked, Expand

LEMMA PublishTrialKeeps == ASSUME PublicationInv, PublishTrial PROVE PublicationInv'
<1>0. UNCHANGED <<disk, faulty>>
    BY DEF PublishTrial
<1>1. BeforePublishTrial
    BY Found DEF PublicationInv, PublishTrial
<1>2. CASE Fail
    BY <1>0, <1>2, Failing, CallKeeps
<1>3. CASE /\ todo' = TrialSteps(Argument) \o Tail(todo)
           /\ pending = None /\ pendingTrial = None /\ LockOf[Argument] \in objects
    <2> DEFINE g == Argument
    <2>1. g \in Unmentioned /\ g \in Generations /\ Tail(todo) \in Validating
        BY <1>1 DEF BeforePublishTrial, Unmentioned
    <2> HIDE DEF g
    <2>2. todo' \in Then({<<"lock", LockOf[g]>>}, TrialIntending(g))
        BY <1>3, <2>1, TrialProgram DEF g
    <2>3. Starts(todo', "lock") /\ Head(todo')[2] = LockOf[g] /\ Tail(todo') \in TrialIntending(g)
        BY <2>2, ArgumentStart
    <2>4. UNCHANGED <<current, locks, objects, tags, pending, validated, pendingTrial>>
        BY <1>0 DEF disk
    <2>5. g \in Unmentioned'
        BY <2>1, <2>4, SameNames
    <2>6. LockOf[g] \in objects' /\ pending' = None /\ pendingTrial' = None
        BY <1>3, <2>4 DEF g
    <2>7. At("lock")' /\ BeforeLock' /\ todo' \in Seq(Steps)
        <3>1. Argument' = LockOf[g] /\ todo' \in Seq(Steps) /\ At("lock")'
            BY <2>3 DEF Starts, At, Argument
        <3> QED BY <2>3, <2>5, <2>6, <3>1 DEF BeforeLock
    <2>8. ProgramFits'
        BY <2>7 DEF ProgramFits
    <2> QED BY <1>0, <2>7, <2>8, CallKeeps
<1> QED BY <1>2, <1>3 DEF PublishTrial, Checked, Expand

LEMMA OnToUntag ==
    ASSUME pending' # None, NEW x \in Losers', todo' \in Untag(x, Finishing(pending'.candidate))
    PROVE  ProgramFits' /\ todo' \in Seq(Steps)
<1> DEFINE K == Finishing(pending'.candidate)
           L == IF LockOf[x] \in Portable THEN UntagCompanion(x, K) ELSE K
<1>1. todo' \in Then({<<"untag", Generation(x)>>}, L)
    BY DEF Untag
<1> HIDE DEF L
<1>2. Starts(todo', "untag") /\ Head(todo')[2] = Generation(x) /\ Tail(todo') \in L
    BY <1>1, ArgumentStart
<1>3. At("untag")' /\ Argument' = Generation(x) /\ todo' \in Seq(Steps)
    BY <1>2 DEF Starts, At, Argument
<1>4. BeforeUntag'
    BY <1>2, <1>3 DEF BeforeUntag, L
<1> QED BY <1>3, <1>4 DEF ProgramFits

LEMMA OnToUntagCompanion ==
    ASSUME pending' # None, NEW x \in Losers', Generation(x) \notin tags',
           todo' \in UntagCompanion(x, Finishing(pending'.candidate))
    PROVE  ProgramFits' /\ todo' \in Seq(Steps)
<1>1. Starts(todo', "untag") /\ Head(todo')[2] = Companion(x) /\ Tail(todo') \in Finishing(pending'.candidate)
    BY ArgumentStart DEF UntagCompanion
<1>2. At("untag")' /\ Argument' = Companion(x) /\ todo' \in Seq(Steps)
    BY <1>1 DEF Starts, At, Argument
<1>3. BeforeUntag'
    BY <1>1, <1>2 DEF BeforeUntag
<1> QED BY <1>2, <1>3 DEF ProgramFits

LEMMA OnToFinish ==
    ASSUME pending' # None, LosersGone', todo' \in Finishing(pending'.candidate)
    PROVE  ProgramFits' /\ todo' \in Seq(Steps)
<1>1. /\ Starts(todo', "untag") /\ Head(todo')[2] = Temporary(pending'.candidate)
      /\ Tail(todo') \in PruningLocks
    BY ArgumentStart DEF Finishing
<1>2. At("untag")' /\ Argument' = Temporary(pending'.candidate) /\ todo' \in Seq(Steps)
    BY <1>1 DEF Starts, At, Argument
<1>3. BeforeUntag'
    BY <1>1, <1>2 DEF BeforeUntag
<1> QED BY <1>2, <1>3 DEF ProgramFits

LEMMA OnToUndo ==
    ASSUME pendingTrial' # None, ~TrialCommitted',
           todo' \in Untag(pendingTrial'.candidate.owner, TrialUndone')
    PROVE  ProgramFits' /\ todo' \in Seq(Steps)
<1> DEFINE g == pendingTrial'.candidate.owner
           L == IF LockOf[g] \in Portable THEN UntagCompanion(g, TrialUndone') ELSE TrialUndone'
<1>1. todo' \in Then({<<"untag", Generation(g)>>}, L)
    BY DEF Untag
<1> HIDE DEF L
<1>2. Starts(todo', "untag") /\ Head(todo')[2] = Generation(g) /\ Tail(todo') \in L
    BY <1>1, ArgumentStart
<1>3. At("untag")' /\ Argument' = Generation(g) /\ todo' \in Seq(Steps)
    BY <1>2 DEF Starts, At, Argument
<1>4. BeforeUntag'
    BY <1>2, <1>3 DEF BeforeUntag, L
<1> QED BY <1>3, <1>4 DEF ProgramFits

LEMMA OnToUndoCompanion ==
    ASSUME pendingTrial' # None, ~TrialCommitted', Generation(pendingTrial'.candidate.owner) \notin tags',
           todo' \in UntagCompanion(pendingTrial'.candidate.owner, TrialUndone')
    PROVE  ProgramFits' /\ todo' \in Seq(Steps)
<1> DEFINE g == pendingTrial'.candidate.owner
<1>1. Starts(todo', "untag") /\ Head(todo')[2] = Companion(g) /\ Tail(todo') \in TrialUndone'
    BY ArgumentStart DEF UntagCompanion
<1>2. At("untag")' /\ Argument' = Companion(g) /\ todo' \in Seq(Steps)
    BY <1>1 DEF Starts, At, Argument
<1>3. BeforeUntag'
    BY <1>1, <1>2 DEF BeforeUntag
<1> QED BY <1>2, <1>3 DEF ProgramFits

LEMMA OnToCloseTrial ==
    ASSUME pendingTrial' # None,
           TrialCommitted' \/ Owned(pendingTrial'.candidate.owner) \cap tags' = {},
           todo' \in TrialUndone'
    PROVE  ProgramFits' /\ todo' \in Seq(Steps)
<1>1. Starts(todo', "close trial") /\ Tail(todo') \in Onward'
    BY PlainStart DEF TrialUndone
<1>2. At("close trial")' /\ BeforeCloseTrial' /\ todo' \in Seq(Steps)
    BY <1>1 DEF Starts, At, BeforeCloseTrial
<1> QED BY <1>2 DEF ProgramFits

LEMMA PendingTyped ==
    ASSUME PublicationInv, pending # None
    PROVE  /\ pending \in PendingBuilds /\ pending.candidate \in Generations
           /\ pending.old \in Generations \cup {None} /\ pending.candidate # None
           /\ pending.candidate # pending.old
           /\ pendingTrial = None /\ Inventory(validated) = {}
           /\ Recoverable
BY PublicationAssumption DEF PublicationInv, PublicationTypes, PendingBuilds, DiskFits, OwnersDiffer,
    RecoveryAccepted, PruningBoundary

LEMMA RecoverKeeps == ASSUME PublicationInv, Recover PROVE PublicationInv'
<1>0. UNCHANGED <<disk, faulty>> /\ UNCHANGED <<current, locks, objects, tags, pending, validated, pendingTrial>>
    BY DEF Recover, disk
<1>1. Tail(todo) \in Sweeping \cup Executes
    BY Found DEF PublicationInv, Recover, BeforeRecover
<1>2. CASE Fail
    BY <1>0, <1>2, Failing, CallKeeps
<1>3. CASE pending = None /\ PruningBoundary /\ Advance
    <2>1. Quiet'
        BY <1>0, <1>3 DEF Quiet, PruningBoundary, Inventory
    <2>2. todo' \in Superseding \cup Sweeping \cup Executes
        BY <1>1, <1>3 DEF Advance
    <2> QED BY <1>0, <2>1, <2>2, OnFromPublication, CallKeeps
<1>4. CASE /\ ~(pending = None /\ PruningBoundary) /\ PruningBoundary
           /\ Expand((IF DiscardsCandidate
                      THEN RemoveOwned(pending.candidate)
                      ELSE IF pending.old = None THEN <<>> ELSE RemoveOwned(pending.old))
                     \o FinishPublication(pending.candidate))
    <2> DEFINE g == pending.candidate
               r == Tail(todo)
    <2>1. /\ pending # None /\ g \in Generations /\ pending.old \in Generations \cup {None}
          /\ g # None /\ g # pending.old /\ Recoverable
        BY <1>4, PendingTyped
    <2>2. CASE DiscardsCandidate
        <3>1. todo' = (RemoveOwned(g) \o FinishPublication(g)) \o r
            BY <1>4, <2>2 DEF Expand
        <3>2. todo' \in Untag(g, Finishing(g))
            BY <1>1, <2>1, <3>1, RecoveryProgram
        <3>3. g \in Losers'
            BY <1>0, <2>1, <2>2 DEF Losers, DiscardsCandidate
        <3> QED BY <1>0, <2>1, <3>2, <3>3, OnToUntag, CallKeeps
    <2>3. CASE ~DiscardsCandidate /\ pending.old = None
        <3>1. todo' = (<<>> \o FinishPublication(g)) \o r
            BY <1>4, <2>3 DEF Expand
        <3>2. todo' \in Finishing(g)
            BY <1>1, <2>1, <3>1, RecoveryProgram
        <3>3. Losers' = {}
            BY <1>0, <2>1, <2>3 DEF Losers, Recoverable, KeepsCandidate
        <3>4. LosersGone'
            BY <3>3 DEF LosersGone
        <3> QED BY <1>0, <2>1, <3>2, <3>4, OnToFinish, CallKeeps
    <2>4. CASE ~DiscardsCandidate /\ pending.old # None
        <3>1. todo' = (RemoveOwned(pending.old) \o FinishPublication(g)) \o r
            BY <1>4, <2>4 DEF Expand
        <3>2. todo' \in Untag(pending.old, Finishing(g))
            BY <1>1, <2>1, <2>4, <3>1, RecoveryProgram
        <3>3. pending.old \in Losers'
            BY <1>0, <2>1, <2>4 DEF Losers, DiscardsCandidate
        <3> QED BY <1>0, <2>1, <3>2, <3>3, OnToUntag, CallKeeps
    <2> QED BY <2>2, <2>3, <2>4
<1> QED BY <1>2, <1>3, <1>4 DEF Recover, Checked

LEMMA OnwardPrograms == ASSUME NEW r \in Onward PROVE r \in Seq(Steps)
BY DEF Onward, Preparing, Reusing, Discarding, Trying, Then

LEMMA RecoverTrialKeeps == ASSUME PublicationInv, RecoverTrial PROVE PublicationInv'
<1>0. UNCHANGED <<disk, faulty>> /\ UNCHANGED <<current, locks, objects, tags, pending, validated, pendingTrial>>
    BY DEF RecoverTrial, disk
<1>1. Tail(todo) \in Onward
    BY Found DEF PublicationInv, RecoverTrial, BeforeRecoverTrial
<1>2. Onward' = Onward
    BY <1>0, SameNames DEF Onward
<1>3. CASE Fail
    BY <1>0, <1>3, Failing, CallKeeps
<1>4. CASE Advance
    BY <1>0, <1>1, <1>2, <1>4, OnFromTrial, CallKeeps DEF Advance
<1>5. CASE /\ pendingTrial # None
           /\ Expand((IF TrialCommitted THEN <<>> ELSE RemoveOwned(pendingTrial.candidate.owner))
                     \o << <<"close trial">> >>)
    <2> DEFINE g == pendingTrial.candidate.owner
               r == Tail(todo)
    <2>1. g \in Generations /\ r \in Seq(Steps)
        BY <1>1, <1>5, OnwardPrograms DEF PublicationInv, PublicationTypes, PendingTrials, ValidatedBuilds
    <2>2. TrialUndone' = TrialUndone
        BY <1>2 DEF TrialUndone
    <2>3. CASE TrialCommitted
        <3>1. todo' = (<<>> \o << <<"close trial">> >>) \o r
            BY <1>5, <2>3 DEF Expand
        <3>2. todo' \in TrialUndone'
            BY <1>1, <2>1, <2>2, <3>1, TrialRecoveryProgram
        <3>3. pendingTrial' # None /\ TrialCommitted'
            BY <1>0, <1>5, <2>3 DEF TrialCommitted
        <3> QED BY <1>0, <3>2, <3>3, OnToCloseTrial, CallKeeps
    <2>4. CASE ~TrialCommitted
        <3>1. todo' = (RemoveOwned(g) \o << <<"close trial">> >>) \o r
            BY <1>5, <2>4 DEF Expand
        <3>2. todo' \in Untag(g, TrialUndone')
            BY <1>1, <2>1, <2>2, <3>1, TrialRecoveryProgram
        <3>3. pendingTrial' # None /\ ~TrialCommitted' /\ g = pendingTrial'.candidate.owner
            BY <1>0, <1>5, <2>4 DEF TrialCommitted
        <3> QED BY <1>0, <3>2, <3>3, OnToUndo, CallKeeps
    <2> QED BY <2>3, <2>4
<1> QED BY <1>3, <1>4, <1>5 DEF RecoverTrial, Checked

LEMMA OnToSweep ==
    ASSUME Quiet', todo' \in SweepingLocks \cup Then({<<"prune store">>}, SweepingLocks)
    PROVE  ProgramFits' /\ todo' \in Seq(Steps)
<1>1. CASE todo' \in SweepingLocks
    <2>1. At("prune locks")' /\ BeforePruneLocks' /\ todo' \in Seq(Steps)
        BY <1>1, Begins DEF Starts, At, BeforePruneLocks
    <2> QED BY <2>1 DEF ProgramFits
<1>2. CASE todo' \in Then({<<"prune store">>}, SweepingLocks)
    <2>1. Starts(todo', "prune store") /\ Tail(todo') \in SweepingLocks
        BY <1>2, PlainStart
    <2>2. At("prune store")' /\ BeforePruneStore' /\ todo' \in Seq(Steps)
        BY <2>1 DEF Starts, At, BeforePruneStore
    <2> QED BY <2>2 DEF ProgramFits
<1> QED BY <1>1, <1>2

LEMMA CleanupStorageKeeps == ASSUME PublicationInv, CleanupStorage PROVE PublicationInv'
<1>0. UNCHANGED <<disk, faulty>>
    BY DEF CleanupStorage
<1>1. Tail(todo) \in Halted
    BY Found DEF PublicationInv, CleanupStorage, BeforeStorage
<1>2. CASE Fail
    BY <1>0, <1>2, Failing, CallKeeps
<1>3. CASE /\ PruningBoundary /\ pending = None
           /\ Expand(<< <<"prune store">>, <<"prune locks">>, <<"settle">> >>)
    <2>1. Quiet'
        BY <1>0, <1>3 DEF Quiet, PruningBoundary, Inventory, disk
    <2>2. todo' \in Then({<<"prune store">>}, SweepingLocks)
        BY <1>1, <1>3, SweepProgram DEF Expand
    <2> QED BY <1>0, <2>1, <2>2, OnToSweep, CallKeeps
<1> QED BY <1>2, <1>3 DEF CleanupStorage, Checked

LEMMA SweepKeeps == ASSUME PublicationInv, Sweep PROVE PublicationInv'
<1>0. UNCHANGED <<disk, faulty>>
    BY DEF Sweep
<1>1. Tail(todo) \in Halted /\ Quiet
    BY Found DEF PublicationInv, Sweep, BeforeSweep
<1>2. Quiet'
    BY <1>0, <1>1 DEF Quiet, PruningBoundary, Inventory, disk
<1>3. CASE Fail
    BY <1>0, <1>3, Failing, CallKeeps
<1>4. CASE Expand(<< <<"prune locks">> >>)
    <2>1. todo' \in SweepingLocks
        BY <1>1, <1>4, SweepProgram DEF Expand
    <2> QED BY <1>0, <1>2, <2>1, OnToSweep, CallKeeps
<1>5. CASE Expand(<< <<"prune store">>, <<"prune locks">>, <<"settle">> >>)
    <2>1. todo' \in Then({<<"prune store">>}, SweepingLocks)
        BY <1>1, <1>5, SweepProgram DEF Expand
    <2> QED BY <1>0, <1>2, <2>1, OnToSweep, CallKeeps
<1>6. PICK noCache \in BOOLEAN :
          Checked(Retirable, IF noCache \/ ~StorePruneSafe
                             THEN << <<"prune locks">> >>
                             ELSE << <<"prune store">>, <<"prune locks">>, <<"settle">> >>)
    BY DEF Sweep
<1>7. CASE noCache \/ ~StorePruneSafe
    BY <1>3, <1>4, <1>6, <1>7 DEF Checked
<1>8. CASE ~(noCache \/ ~StorePruneSafe)
    BY <1>3, <1>5, <1>6, <1>8 DEF Checked
<1> QED BY <1>7, <1>8

\* A step that changes no file, no tag and no program
LEMMA ProgramKept ==
    ASSUME ProgramFits, UNCHANGED <<disk, todo>>
    PROVE  ProgramFits'
<1>1. UNCHANGED <<current, locks, objects, tags, pending, validated, pendingTrial, todo>>
    BY DEF disk
<1>2. Unmentioned' = Unmentioned
    BY <1>1, SameNames
<1>3. Onward' = Onward
    BY <1>1, <1>2 DEF Onward
<1>4. At("recover trial") /\ BeforeRecoverTrial => At("recover trial")' /\ BeforeRecoverTrial'
    BY <1>1, <1>3 DEF At, BeforeRecoverTrial
<1>5. At("retire") /\ BeforeRetire => At("retire")' /\ BeforeRetire'
    BY <1>1 DEF At, BeforeRetire
<1>6. At("recover") /\ BeforeRecover => At("recover")' /\ BeforeRecover'
    BY <1>1 DEF At, BeforeRecover
<1>7. At("sweep") /\ BeforeSweep => At("sweep")' /\ BeforeSweep'
    BY <1>1 DEF At, BeforeSweep, Quiet, PruningBoundary, Inventory
<1>8. At("storage") /\ BeforeStorage => At("storage")' /\ BeforeStorage'
    BY <1>1 DEF At, BeforeStorage
<1>9. At("discard") /\ BeforeDiscard => At("discard")' /\ BeforeDiscard'
    BY <1>1 DEF At, BeforeDiscard
<1>10. At("execute") /\ BeforeExecute => At("execute")' /\ BeforeExecute'
    BY <1>1 DEF At, BeforeExecute, Argument, Quiet, PruningBoundary, Inventory
<1>11. At("executed") /\ BeforeExecuted => At("executed")' /\ BeforeExecuted'
    BY <1>1 DEF At, BeforeExecuted, TrialCommitted
<1>12. At("publish") /\ BeforePublish => At("publish")' /\ BeforePublish'
    BY <1>1, <1>2 DEF At, BeforePublish, Argument
<1>13. At("publish trial") /\ BeforePublishTrial => At("publish trial")' /\ BeforePublishTrial'
    BY <1>1, <1>2 DEF At, BeforePublishTrial, Argument
<1>14. At("intend") /\ BeforeIntend => At("intend")' /\ BeforeIntend'
    BY <1>1, <1>2 DEF At, BeforeIntend, Argument, Quiet, PruningBoundary, Inventory
<1>15. At("tag") /\ BeforeTag => At("tag")' /\ BeforeTag'
    BY <1>1 DEF At, BeforeTag, Argument, Underway, TrialUnderway
<1>16. At("advance") /\ BeforeAdvance => At("advance")' /\ BeforeAdvance'
    BY <1>1 DEF At, BeforeAdvance, Argument, Underway
<1>17. At("lock") /\ BeforeLock => At("lock")' /\ BeforeLock'
    BY <1>1, <1>2 DEF At, BeforeLock, Argument, Underway
<1>18. At("commit") /\ BeforeCommit => At("commit")' /\ BeforeCommit'
    BY <1>1 DEF At, BeforeCommit, Argument, Underway
<1>19. At("untag") /\ BeforeUntag => At("untag")' /\ BeforeUntag'
    BY <1>1, <1>3 DEF At, BeforeUntag, Argument, Losers, LosersGone, TrialUndone, TrialCommitted
<1>20. At("close") /\ BeforeClose => At("close")' /\ BeforeClose'
    BY <1>1 DEF At, BeforeClose, PendingDone, Losers, LosersGone
<1>21. At("prune locks") /\ BeforePruneLocks => At("prune locks")' /\ BeforePruneLocks'
    BY <1>1 DEF At, BeforePruneLocks, PendingDone, Losers, LosersGone, Quiet, PruningBoundary, Inventory
<1>22. At("prune store") /\ BeforePruneStore => At("prune store")' /\ BeforePruneStore'
    BY <1>1 DEF At, BeforePruneStore, PendingDone, Losers, LosersGone, Quiet, PruningBoundary, Inventory
<1>23. At("settle") /\ BeforeSettle => At("settle")' /\ BeforeSettle'
    BY <1>1 DEF At, BeforeSettle, Quiet, PruningBoundary, Inventory
<1>24. At("intend trial") /\ BeforeIntendTrial => At("intend trial")' /\ BeforeIntendTrial'
    BY <1>1, <1>2 DEF At, BeforeIntendTrial, Argument, Complete
<1>25. At("commit trial") /\ BeforeCommitTrial => At("commit trial")' /\ BeforeCommitTrial'
    BY <1>1 DEF At, BeforeCommitTrial, TrialUnderway
<1>26. At("close trial") /\ BeforeCloseTrial => At("close trial")' /\ BeforeCloseTrial'
    BY <1>1, <1>3 DEF At, BeforeCloseTrial, TrialCommitted
<1>27. At("note") /\ BeforeNote => At("note")' /\ BeforeNote'
    BY <1>1 DEF At, BeforeNote, Argument
<1>28. todo = <<>> => todo' = <<>>
    BY <1>1
<1> QED
    BY <1>4, <1>5, <1>6, <1>7, <1>8, <1>9, <1>10, <1>11, <1>12, <1>13, <1>14, <1>15, <1>16, <1>17, <1>18,
       <1>19, <1>20, <1>21, <1>22, <1>23, <1>24, <1>25, <1>26, <1>27,
       <1>28
    DEF ProgramFits

LEMMA CalmKeeps == ASSUME PublicationInv, Calm PROVE PublicationInv'
<1>1. UNCHANGED <<disk, todo>> /\ faulty' = FALSE
    BY DEF Calm
<1>2. PublicationTypes'
    BY <1>1 DEF PublicationInv, PublicationTypes, disk
<1>3. DiskFits'
    BY <1>1, DiskKept DEF PublicationInv
<1>4. ProgramFits'
    BY <1>1, ProgramKept DEF PublicationInv
<1> QED BY <1>2, <1>3, <1>4 DEF PublicationInv

LEMMA StutterKeeps == ASSUME PublicationInv, UNCHANGED publicationVars PROVE PublicationInv'
<1>1. UNCHANGED <<disk, todo>> /\ faulty' = faulty
    BY DEF publicationVars
<1>2. PublicationTypes'
    BY <1>1 DEF PublicationInv, PublicationTypes, disk
<1>3. DiskFits'
    BY <1>1, DiskKept DEF PublicationInv
<1>4. ProgramFits'
    BY <1>1, ProgramKept DEF PublicationInv
<1> QED BY <1>2, <1>3, <1>4 DEF PublicationInv

-----------------------------------------------------------------------------
(* The steps that change the disk: what they leave true of it               *)

LEMMA OwnedApart ==
    ASSUME NEW x, NEW y, x # y
    PROVE  /\ Owned(x) \cap Owned(y) = {} /\ Temporary(x) \notin Owned(y)
           /\ Generation(x) \notin Owned(y) /\ Companion(x) \notin Owned(y)
BY TagsDiffer DEF Owned

LEMMA TemporaryApart == ASSUME NEW x, NEW y PROVE Temporary(x) \notin Owned(y)
BY TagsDiffer DEF Owned

\* The records, and that they are none
LEMMA RecordTypes ==
    ASSUME PublicationInv
    PROVE  /\ validated # None => validated \in ValidatedBuilds
           /\ pendingTrial # None =>
                 /\ pendingTrial \in PendingTrials
                 /\ pendingTrial.candidate \in ValidatedBuilds /\ pendingTrial.candidate # None
                 /\ pendingTrial.candidate.owner \in Generations
                 /\ pendingTrial.previous \in ValidatedBuilds \cup {None}
                 /\ pending = None
           /\ None \notin Generations
BY PublicationAssumption DEF PublicationInv, PublicationTypes, PendingTrials, ValidatedBuilds, DiskFits,
    RecoveryAccepted, TrialRecoverable

\* A committed validated build is live.
LEMMA CommittedIsLive ==
    ASSUME PublicationInv, pendingTrial # None, TrialCommitted
    PROVE  Live(validated)
BY RecordTypes DEF PublicationInv, DiskFits, RecordsFit, TrialCommitted, Live

\* What of the disk does not depend on the tags
LEMMA TagsFree ==
    ASSUME PublicationInv, UNCHANGED <<current, locks, objects, pending, validated, pendingTrial>>
    PROVE  /\ RecordsFit' /\ OwnersDiffer' /\ PhaseTruthful'
           /\ pending # None => (Recoverable /\ PruningBoundary)'
           /\ current # None => Complete(current)'
           /\ Live(validated) => Complete(validated.owner)'
           /\ Protected' = Protected /\ Superseded(validated)' = Superseded(validated)
           /\ TrialCommitted' <=> TrialCommitted
           /\ Live(validated)' <=> Live(validated)
<1>1. RecordsFit' /\ OwnersDiffer' /\ PhaseTruthful'
    BY DEF PublicationInv, DiskFits, RecordsFit, OwnersDiffer, WellFormed, Live, TrialCommitted,
       PhaseTruthful
<1>2. pending # None => (Recoverable /\ PruningBoundary)'
    BY DEF PublicationInv, DiskFits, RecoveryAccepted, Recoverable, PruningBoundary, Complete, Live,
           DiscardsCandidate, KeepsCandidate, Inventory
<1>3. /\ current # None => Complete(current)'
      /\ Live(validated) => Complete(validated.owner)'
    BY DEF PublicationInv, DiskFits, CurrentRunnable, TrialUsable, Complete
<1>4. Protected' = Protected /\ Superseded(validated)' = Superseded(validated)
    BY DEF Protected, Superseded, Inventory, Live
<1>5. (TrialCommitted' <=> TrialCommitted) /\ (Live(validated)' <=> Live(validated))
    BY DEF TrialCommitted, Live
<1> QED BY <1>1, <1>2, <1>3, <1>4, <1>5

LEMMA TrialKept ==
    ASSUME PublicationInv, UNCHANGED <<current, locks, objects, pending, validated, pendingTrial>>,
           pendingTrial # None, TrialCommitted => Owned(validated.owner) \subseteq tags'
    PROVE  TrialRecoverable'
BY DEF PublicationInv, DiskFits, RecoveryAccepted, TrialRecoverable, TrialCommitted, Superseded,
   Inventory, Live,
       Complete

\* The tags that may be there
Known == Protected \cup Superseded(validated)
         \cup (IF pendingTrial = None THEN {} ELSE Owned(pendingTrial.candidate.owner))

LEMMA TagsGrow ==
    ASSUME PublicationInv, NEW t \in Known, tags' = tags \cup {t},
           UNCHANGED <<current, locks, objects, pending, validated, pendingTrial>>
    PROVE  DiskFits'
<1>1. CurrentRunnable' /\ TrialUsable'
    BY TagsFree DEF PublicationInv, DiskFits, CurrentRunnable, TrialUsable
<1>2. RecoveryAccepted'
    <2>1. ASSUME pendingTrial # None PROVE TrialRecoverable'
        <3>1. TrialCommitted => Owned(validated.owner) \subseteq tags'
            BY <2>1 DEF PublicationInv, DiskFits, RecoveryAccepted, TrialRecoverable
        <3> QED BY <2>1, <3>1, TrialKept
    <2> QED BY <2>1, TagsFree DEF RecoveryAccepted
<1>3. NoLeakedTags'
    <2>1. Known' = Known
        BY TagsFree DEF Known
    <2>2. tags \subseteq Known
        BY DEF PublicationInv, DiskFits, NoLeakedTags, Known
    <2> QED BY <2>1, <2>2 DEF NoLeakedTags, Known
<1> QED BY <1>1, <1>2, <1>3, TagsFree DEF DiskFits

LEMMA TagsShrink ==
    ASSUME PublicationInv, tags' \subseteq tags,
           current # None => Owned(current) \subseteq tags',
           Live(validated) => Owned(validated.owner) \subseteq tags',
           UNCHANGED <<current, locks, objects, pending, validated, pendingTrial>>
    PROVE  DiskFits'
<1>1. CurrentRunnable' /\ TrialUsable'
    BY TagsFree DEF PublicationInv, DiskFits, CurrentRunnable, TrialUsable
<1>2. RecoveryAccepted'
    <2>1. ASSUME pendingTrial # None PROVE TrialRecoverable'
        BY <2>1, CommittedIsLive, TrialKept
    <2> QED BY <2>1, TagsFree DEF RecoveryAccepted
<1>3. NoLeakedTags'
    <2>1. Known' = Known
        BY TagsFree DEF Known
    <2>2. tags \subseteq Known
        BY DEF PublicationInv, DiskFits, NoLeakedTags, Known
    <2> QED BY <2>1, <2>2 DEF NoLeakedTags, Known
<1> QED BY <1>1, <1>2, <1>3, TagsFree DEF DiskFits

\* What of the disk does not depend on locks and objects
LEMMA StorageFree ==
    ASSUME PublicationInv, UNCHANGED <<current, tags, pending, validated, pendingTrial>>
    PROVE  RecordsFit' /\ OwnersDiffer' /\ PhaseTruthful' /\ NoLeakedTags'
<1>1. RecordsFit' /\ OwnersDiffer' /\ PhaseTruthful'
    BY DEF PublicationInv, DiskFits, RecordsFit, OwnersDiffer, WellFormed, Live, TrialCommitted,
       PhaseTruthful
<1>2. NoLeakedTags'
    BY DEF PublicationInv, DiskFits, NoLeakedTags, Protected, Superseded, Inventory, Live
<1> QED BY <1>1, <1>2

LEMMA LocksGrow ==
    ASSUME PublicationInv, NEW d, locks' = locks \cup {d},
           UNCHANGED <<current, objects, tags, pending, validated, pendingTrial>>
    PROVE  DiskFits'
<1>1. CurrentRunnable' /\ TrialUsable'
    BY DEF PublicationInv, DiskFits, CurrentRunnable, TrialUsable, Complete, Live
<1>2. RecoveryAccepted'
    BY DEF PublicationInv, DiskFits, RecoveryAccepted, Recoverable, PruningBoundary, TrialRecoverable,
           Complete, Live, TrialCommitted, DiscardsCandidate, KeepsCandidate, Inventory, Superseded
<1> QED BY <1>1, <1>2, StorageFree DEF DiskFits

\* A pruning keeps what the current and the validated build need.
LEMMA PruneKeeps ==
    ASSUME PublicationInv, pendingTrial = None,
           \/ locks' = Roots /\ objects' = objects
           \/ objects' = Roots /\ locks' = locks,
           UNCHANGED <<current, tags, pending, validated, pendingTrial>>
    PROVE  DiskFits'
<1>1. /\ current # None => LockOf[current] \in locks' /\ LockOf[current] \in objects'
      /\ Live(validated) => LockOf[validated.owner] \in locks' /\ LockOf[validated.owner] \in objects'
    <2>1. /\ current # None => LockOf[current] \in locks /\ LockOf[current] \in objects /\ LockOf[current] \in Roots
          /\ Live(validated) => /\ LockOf[validated.owner] \in locks /\ LockOf[validated.owner] \in objects
                                /\ LockOf[validated.owner] \in Roots
        BY DEF PublicationInv, DiskFits, CurrentRunnable, TrialUsable, Complete, Roots
    <2> QED BY <2>1
<1>2. CurrentRunnable' /\ TrialUsable'
    BY <1>1 DEF PublicationInv, DiskFits, CurrentRunnable, TrialUsable, Complete, Live
<1>3. RecoveryAccepted'
    <2>1. ASSUME pending # None PROVE Recoverable' /\ PruningBoundary'
        <3>1. Recoverable /\ PruningBoundary
            BY <2>1 DEF PublicationInv, DiskFits, RecoveryAccepted
        <3>2. DiscardsCandidate' \/ KeepsCandidate'
            <4>1. CASE DiscardsCandidate
                BY <4>1 DEF DiscardsCandidate
            <4>2. CASE KeepsCandidate
                <5>1. current # None
                    BY <2>1, <4>2, PendingTyped DEF KeepsCandidate
                <5> QED BY <1>1, <4>2, <5>1 DEF KeepsCandidate
            <4> QED BY <3>1, <4>1, <4>2 DEF Recoverable
        <3>3. PruningBoundary'
            BY <3>1 DEF PruningBoundary, Inventory
        <3> QED BY <1>1, <3>2, <3>3 DEF Recoverable, Complete, Live
    <2> QED BY <2>1 DEF RecoveryAccepted
<1> QED BY <1>2, <1>3, StorageFree DEF DiskFits

-----------------------------------------------------------------------------
(* The publication of the current build                                     *)

\* A pending build is written, advanced or committed.
LEMMA PendingChanges ==
    ASSUME PublicationInv, NEW p \in PendingBuilds, pending' = p, PruningBoundary,
           UNCHANGED <<locks, objects, tags, validated, pendingTrial>>,
           {current, current'} \subseteq {p.old, p.candidate}, p.candidate # p.old,
           Live(validated) => validated.owner \notin {p.old, p.candidate},
           current' # None => Owned(current') \subseteq tags /\ LockOf[current'] \in locks /\ LockOf[current'] \in objects,
           p.phase \in {"validated", "generation-created"} => current' = p.old,
           p.phase \in {"state-committed", "cleanup"} => current' = p.candidate,
           pending # None => pending.old = p.old /\ pending.candidate = p.candidate
    PROVE  DiskFits'
<1>0. p # None /\ pendingTrial = None /\ p.candidate # None
    BY PublicationAssumption DEF PruningBoundary, PendingBuilds
<1>1. RecordsFit'
    BY <1>0 DEF PublicationInv, DiskFits, RecordsFit, WellFormed
<1>2. OwnersDiffer'
    BY <1>0 DEF OwnersDiffer, Live
<1>3. CurrentRunnable' /\ TrialUsable'
    BY DEF PublicationInv, DiskFits, CurrentRunnable, TrialUsable, Complete, Live
<1>4. RecoveryAccepted'
    <2>1. DiscardsCandidate' \/ KeepsCandidate'
        BY <1>0 DEF DiscardsCandidate, KeepsCandidate
    <2>2. PruningBoundary'
        BY DEF PruningBoundary, Inventory
    <2>3. Recoverable'
        BY <2>1 DEF Recoverable, Complete, Live, PublicationInv, DiskFits, TrialUsable
    <2> QED BY <1>0, <2>2, <2>3 DEF RecoveryAccepted
<1>5. PhaseTruthful'
    BY DEF PhaseTruthful
<1>6. NoLeakedTags'
    <2>1. Protected \subseteq Protected'
        BY <1>0 DEF Protected
    <2>2. Superseded(validated)' = Superseded(validated)
        BY DEF Superseded, Inventory, Live
    <2> QED BY <1>0, <2>1, <2>2 DEF PublicationInv, DiskFits, NoLeakedTags
<1> QED BY <1>1, <1>2, <1>3, <1>4, <1>5, <1>6 DEF DiskFits

LEMMA OnToAdvance ==
    ASSUME NEW K, NEW phase, todo' \in Then({<<"advance", phase>>}, K)
    PROVE  At("advance")' /\ Argument' = phase /\ Tail(todo') \in K /\ todo' \in Seq(Steps)
<1>1. Starts(todo', "advance") /\ Head(todo')[2] = phase /\ Tail(todo') \in K
    BY ArgumentStart
<1> QED BY <1>1 DEF Starts, At, Argument

\* The first of the tags of the candidate
LEMMA OnToCreate ==
    ASSUME Underway("validated")',
           todo' \in Create(pending'.candidate, Created(pending'.candidate, pending'.old))
    PROVE  ProgramFits' /\ todo' \in Seq(Steps)
<1> DEFINE g == pending'.candidate
           K == Created(g, pending'.old)
<1>1. CASE LockOf[g] \in Portable
    <2>1. Starts(todo', "tag") /\ Head(todo')[2] = Companion(g) /\ Tail(todo') \in TagGeneration(g, K)
        BY <1>1, ArgumentStart DEF Create
    <2>2. At("tag")' /\ Argument' = Companion(g) /\ todo' \in Seq(Steps)
        BY <2>1 DEF Starts, At, Argument
    <2>3. BeforeTag'
        BY <1>1, <2>1, <2>2 DEF BeforeTag
    <2> QED BY <2>2, <2>3 DEF ProgramFits
<1>2. CASE LockOf[g] \notin Portable
    <2>1. Starts(todo', "tag") /\ Head(todo')[2] = Generation(g) /\ Tail(todo') \in K
        BY <1>2, ArgumentStart DEF Create, TagGeneration
    <2>2. At("tag")' /\ Argument' = Generation(g) /\ todo' \in Seq(Steps)
        BY <2>1 DEF Starts, At, Argument
    <2>3. Companions(g) \subseteq tags'
        BY <1>2 DEF Companions, Owned
    <2>4. BeforeTag'
        BY <2>1, <2>2, <2>3 DEF BeforeTag
    <2> QED BY <2>2, <2>4 DEF ProgramFits
<1> QED BY <1>1, <1>2

LEMMA UnmentionedDiffers ==
    ASSUME PublicationInv, NEW g \in Unmentioned
    PROVE  /\ g \in Generations /\ g # current
           /\ validated # None => g # validated.owner
           /\ \A t \in tags \cup Inventory(validated) : t[2] # g
           /\ Owned(g) \cap Inventory(validated) = {}
<1>1. /\ g \in Generations /\ g # current
      /\ validated # None => g # validated.owner
      /\ \A t \in tags \cup Inventory(validated) : t[2] # g
    BY DEF Unmentioned, Mentioned
<1>2. ASSUME NEW t \in Owned(g) PROVE t[2] = g
    BY <1>2 DEF Owned, Generation, Companion
<1> QED BY <1>1, <1>2

LEMMA WriteIntentKeeps == ASSUME PublicationInv, WriteIntent PROVE PublicationInv'
<1> DEFINE g == Argument
           p == [old |-> current, candidate |-> g, phase |-> "validated"]
<1>0. BeforeIntend
    BY Found DEF PublicationInv, WriteIntent
<1>1. /\ pending' = p /\ todo' = Tail(todo)
      /\ UNCHANGED <<current, locks, objects, tags, validated, pendingTrial, faulty>>
    BY DEF WriteIntent, Advance, Phases
<1>2. /\ g \in Unmentioned /\ LockOf[g] \in objects /\ pending = None /\ PruningBoundary
      /\ Tail(todo) \in Intended(g, current)
    BY <1>0 DEF BeforeIntend, Quiet
<1> HIDE DEF g
<1>3. /\ g \in Generations /\ g # current
      /\ Live(validated) => g # validated.owner
    BY <1>2, UnmentionedDiffers DEF Live
<1>4. p \in PendingBuilds /\ p.old = current /\ p.candidate = g /\ p.phase = "validated"
    BY <1>3 DEF PendingBuilds, PublicationInv, PublicationTypes
<1> HIDE DEF p
<1>5. DiskFits'
    <2>1. Live(validated) => validated.owner # current
        BY DEF PublicationInv, DiskFits, OwnersDiffer
    <2>2. current # None => Owned(current) \subseteq tags /\ LockOf[current] \in locks /\ LockOf[current] \in objects
        BY DEF PublicationInv, DiskFits, CurrentRunnable, Complete
    <2> QED BY <1>1, <1>2, <1>3, <1>4, <2>1, <2>2, PendingChanges
<1>6. ProgramFits' /\ todo' \in Seq(Steps)
    <2>1. /\ Starts(todo', "tag") /\ Head(todo')[2] = Temporary(g)
          /\ Tail(todo') \in Create(g, Created(g, current))
        BY <1>1, <1>2, ArgumentStart DEF Intended
    <2>2. At("tag")' /\ Argument' = Temporary(g) /\ todo' \in Seq(Steps)
        BY <2>1 DEF Starts, At, Argument
    <2>3. Underway("validated")'
        BY <1>1, <1>2, <1>4, PublicationAssumption DEF Underway
    <2>4. BeforeTag'
        BY <1>1, <1>4, <2>1, <2>2, <2>3 DEF BeforeTag
    <2> QED BY <2>2, <2>4 DEF ProgramFits
<1>7. PublicationTypes'
    BY <1>1, <1>4, <1>6 DEF PublicationInv, PublicationTypes
<1> QED BY <1>5, <1>6, <1>7 DEF PublicationInv

LEMMA AdvancePhaseKeeps == ASSUME PublicationInv, AdvancePhase PROVE PublicationInv'
<1> DEFINE p == [pending EXCEPT !.phase = Argument]
           g == pending.candidate
           old == pending.old
<1>0. BeforeAdvance
    BY Found DEF PublicationInv, AdvancePhase
<1>1. /\ pending' = p /\ todo' = Tail(todo)
      /\ UNCHANGED <<current, locks, objects, tags, validated, pendingTrial, faulty>>
    BY DEF AdvancePhase, Advance
<1>2. pending # None /\ Owned(g) \subseteq tags
    BY <1>0 DEF BeforeAdvance
<1>3. /\ pending \in PendingBuilds /\ g \in Generations /\ old \in Generations \cup {None}
      /\ g # old /\ Recoverable /\ PruningBoundary
    BY <1>2, PendingTyped DEF PruningBoundary
<1>4. Argument \in {"generation-created", "lock-published", "state-committed", "cleanup"}
    BY <1>0 DEF BeforeAdvance
<1>5. p \in PendingBuilds /\ p.old = old /\ p.candidate = g /\ p.phase = Argument /\ p # None
    BY <1>3, <1>4, PublicationAssumption DEF PendingBuilds
<1>6. /\ Argument = "generation-created" => current = old
      /\ Argument \in {"state-committed", "cleanup"} => current = g
    BY <1>0 DEF BeforeAdvance, Underway
<1> HIDE DEF p
<1>7. DiskFits'
    <2>1. Live(validated) => validated.owner \notin {old, g}
        BY <1>2 DEF PublicationInv, DiskFits, OwnersDiffer
    <2>2. current # None => Owned(current) \subseteq tags /\ LockOf[current] \in locks /\ LockOf[current] \in objects
        BY DEF PublicationInv, DiskFits, CurrentRunnable, Complete
    <2>3. current \in {old, g}
        BY <1>3 DEF Recoverable, DiscardsCandidate, KeepsCandidate
    <2> QED BY <1>1, <1>2, <1>3, <1>4, <1>5, <1>6, <2>1, <2>2, <2>3, PendingChanges
<1>8. ProgramFits' /\ todo' \in Seq(Steps)
    <2>1. CASE Argument = "generation-created" /\ Tail(todo) \in Locking(g, old) /\ Underway("validated")
        <3>1. Starts(todo', "lock") /\ Head(todo')[2] = LockOf[g] /\ Tail(todo') \in Locked(g, old)
            BY <1>1, <2>1, ArgumentStart DEF Locking
        <3>2. At("lock")' /\ Argument' = LockOf[g] /\ todo' \in Seq(Steps)
            BY <3>1 DEF Starts, At, Argument
        <3>3. Underway("generation-created")'
            BY <1>1, <1>5, <2>1 DEF Underway
        <3>4. BeforeLock'
            BY <1>1, <1>2, <1>5, <3>1, <3>2, <3>3 DEF BeforeLock
        <3> QED BY <3>2, <3>4 DEF ProgramFits
    <2>2. CASE /\ Argument = "lock-published" /\ Tail(todo) \in Committing(g, old)
               /\ Underway("generation-created") /\ LockOf[g] \in locks
        <3>1. Starts(todo', "commit") /\ Head(todo')[2] = g /\ Tail(todo') \in Committed(g, old)
            BY <1>1, <2>2, ArgumentStart DEF Committing
        <3>2. At("commit")' /\ Argument' = g /\ todo' \in Seq(Steps)
            BY <3>1 DEF Starts, At, Argument
        <3>3. Underway("lock-published")'
            BY <1>1, <1>5, <2>2 DEF Underway
        <3>4. BeforeCommit'
            BY <1>1, <1>2, <1>5, <2>2, <3>1, <3>2, <3>3 DEF BeforeCommit
        <3> QED BY <3>2, <3>4 DEF ProgramFits
    <2>3. CASE Argument = "state-committed" /\ Tail(todo) \in Cleaning(g, old) /\ current = g
        <3>1. At("advance")' /\ Argument' = "cleanup" /\ Tail(todo') \in Replacing(g, old) /\ todo' \in Seq(Steps)
            BY <1>1, <2>3, OnToAdvance DEF Cleaning
        <3>2. BeforeAdvance'
            BY <1>1, <1>2, <1>5, <2>3, <3>1 DEF BeforeAdvance
        <3> QED BY <3>1, <3>2 DEF ProgramFits
    <2>4. CASE Argument = "cleanup" /\ Tail(todo) \in Replacing(g, old) /\ current = g
        <3>1. CASE old = None
            <4>1. Losers' = {}
                BY <1>1, <1>5, <2>4, <3>1 DEF Losers
            <4>2. LosersGone'
                BY <4>1 DEF LosersGone
            <4>3. todo' \in Finishing(pending'.candidate) /\ pending' # None
                BY <1>1, <1>5, <2>4, <3>1 DEF Replacing
            <4> QED BY <4>2, <4>3, OnToFinish
        <3>2. CASE old # None
            <4>1. old \in Losers'
                BY <1>1, <1>3, <1>5, <2>4, <3>2 DEF Losers
            <4>2. todo' \in Untag(old, Finishing(pending'.candidate)) /\ pending' # None
                BY <1>1, <1>5, <2>4, <3>2 DEF Replacing
            <4> QED BY <4>1, <4>2, OnToUntag
        <3> QED BY <3>1, <3>2
    <2> QED BY <1>0, <2>1, <2>2, <2>3, <2>4 DEF BeforeAdvance
<1>9. PublicationTypes'
    BY <1>1, <1>5, <1>8 DEF PublicationInv, PublicationTypes
<1> QED BY <1>7, <1>8, <1>9 DEF PublicationInv

LEMMA CommitStateKeeps == ASSUME PublicationInv, CommitState PROVE PublicationInv'
<1> DEFINE g == pending.candidate
           old == pending.old
<1>0. BeforeCommit
    BY Found DEF PublicationInv, CommitState
<1>1. /\ current' = Argument /\ todo' = Tail(todo)
      /\ UNCHANGED <<locks, objects, tags, pending, validated, pendingTrial, faulty>>
    BY DEF CommitState, Advance
<1>2. /\ pending # None /\ pending.phase = "lock-published" /\ current = old /\ LockOf[g] \in objects
      /\ Owned(g) \subseteq tags /\ LockOf[g] \in locks /\ Argument = g /\ Tail(todo) \in Committed(g, old)
    BY <1>0 DEF BeforeCommit, Underway
<1>3. /\ pending \in PendingBuilds /\ g \in Generations /\ g # old /\ PruningBoundary
    BY <1>2, PendingTyped DEF PruningBoundary
<1>4. DiskFits'
    <2>1. Live(validated) => validated.owner \notin {old, g}
        BY <1>2 DEF PublicationInv, DiskFits, OwnersDiffer
    <2> QED BY <1>1, <1>2, <1>3, <2>1, PendingChanges
<1>5. ProgramFits' /\ todo' \in Seq(Steps)
    <2>1. At("advance")' /\ Argument' = "state-committed" /\ Tail(todo') \in Cleaning(g, old) /\ todo' \in Seq(Steps)
        BY <1>1, <1>2, OnToAdvance DEF Committed
    <2>2. BeforeAdvance'
        BY <1>1, <1>2, <2>1 DEF BeforeAdvance
    <2> QED BY <2>1, <2>2 DEF ProgramFits
<1>6. PublicationTypes'
    BY <1>1, <1>2, <1>3, <1>5 DEF PublicationInv, PublicationTypes
<1> QED BY <1>4, <1>5, <1>6 DEF PublicationInv

LEMMA RemoveIntentKeeps == ASSUME PublicationInv, RemoveIntent PROVE PublicationInv'
<1>0. BeforeClose
    BY Found DEF PublicationInv, RemoveIntent
<1>1. /\ pending' = None /\ todo' = Tail(todo)
      /\ UNCHANGED <<current, locks, objects, tags, validated, pendingTrial, faulty>>
    BY DEF RemoveIntent, Advance
<1>2. /\ Tail(todo) \in Superseding \cup Sweeping \cup Executes
      /\ pending # None /\ LosersGone /\ Temporary(pending.candidate) \notin tags
    BY <1>0 DEF BeforeClose, PendingDone
<1>3. pendingTrial = None /\ Inventory(validated) = {} /\ pending.candidate # None
    BY <1>2, PendingTyped
<1>4. RecordsFit' /\ OwnersDiffer'
    BY <1>1, <1>3 DEF PublicationInv, DiskFits, RecordsFit, OwnersDiffer, WellFormed, Live
<1>5. CurrentRunnable' /\ TrialUsable' /\ PhaseTruthful'
    BY <1>1 DEF PublicationInv, DiskFits, CurrentRunnable, TrialUsable, Complete, Live, PhaseTruthful
<1>6. RecoveryAccepted'
    BY <1>1, <1>3 DEF RecoveryAccepted
<1>7. NoLeakedTags'
    <2>1. ASSUME NEW t \in tags, t \in Protected PROVE t \in Protected'
        <3>1. CASE t \in Owned(pending.candidate)
            <4>1. pending.candidate = current
                BY <1>2, <1>3, <2>1, <3>1 DEF LosersGone, Losers
            <4> QED BY <1>1, <1>3, <3>1, <4>1 DEF Protected
        <3>2. CASE pending.old # None /\ t \in Owned(pending.old)
            <4>1. pending.old = current
                BY <1>2, <2>1, <3>2 DEF LosersGone, Losers
            <4> QED BY <1>1, <3>2, <4>1 DEF Protected
        <3>3. CASE current # None /\ t \in Owned(current)
            BY <1>1, <3>3 DEF Protected
        <3> QED BY <1>2, <2>1, <3>1, <3>2, <3>3 DEF Protected
    <2>2. Superseded(validated)' = Superseded(validated)
        BY <1>1 DEF Superseded, Inventory, Live
    <2> QED BY <1>1, <1>3, <2>1, <2>2 DEF PublicationInv, DiskFits, NoLeakedTags
<1>8. ProgramFits' /\ todo' \in Seq(Steps)
    <2>1. Quiet'
        BY <1>1, <1>3 DEF Quiet, PruningBoundary, Inventory
    <2> QED BY <1>1, <1>2, <2>1, OnFromPublication
<1>9. PublicationTypes'
    BY <1>1, <1>8 DEF PublicationInv, PublicationTypes
<1> QED BY <1>4, <1>5, <1>6, <1>7, <1>8, <1>9 DEF PublicationInv, DiskFits

-----------------------------------------------------------------------------
(* Tags, locks and objects                                                  *)

\* The tags of a validated build
LEMMA OnToCreateTrial ==
    ASSUME TrialUnderway', todo' \in Create(pendingTrial'.candidate.owner, TrialCommitting)
    PROVE  ProgramFits' /\ todo' \in Seq(Steps)
<1> DEFINE g == pendingTrial'.candidate.owner
<1>1. CASE LockOf[g] \in Portable
    <2>1. Starts(todo', "tag") /\ Head(todo')[2] = Companion(g) /\ Tail(todo') \in TagGeneration(g, TrialCommitting)
        BY <1>1, ArgumentStart DEF Create
    <2>2. At("tag")' /\ Argument' = Companion(g) /\ todo' \in Seq(Steps)
        BY <2>1 DEF Starts, At, Argument
    <2>3. BeforeTag'
        BY <1>1, <2>1, <2>2 DEF BeforeTag
    <2> QED BY <2>2, <2>3 DEF ProgramFits
<1>2. CASE LockOf[g] \notin Portable
    <2>1. Starts(todo', "tag") /\ Head(todo')[2] = Generation(g) /\ Tail(todo') \in TrialCommitting
        BY <1>2, ArgumentStart DEF Create, TagGeneration
    <2>2. At("tag")' /\ Argument' = Generation(g) /\ todo' \in Seq(Steps)
        BY <2>1 DEF Starts, At, Argument
    <2>3. Companions(g) \subseteq tags'
        BY <1>2 DEF Companions, Owned
    <2>4. BeforeTag'
        BY <2>1, <2>2, <2>3 DEF BeforeTag
    <2> QED BY <2>2, <2>4 DEF ProgramFits
<1> QED BY <1>1, <1>2

LEMMA CompanionFirst == ASSUME NEW g PROVE Companions(g) \subseteq {Companion(g)}
BY DEF Companions, Owned

LEMMA AllTags == ASSUME NEW g PROVE Owned(g) \subseteq Companions(g) \cup {Generation(g)}
BY DEF Companions

LEMMA TagKeeps == ASSUME PublicationInv, At("tag"), Tag PROVE PublicationInv'
<1>0. BeforeTag
    BY Found DEF PublicationInv
<1>1. /\ tags' = tags \cup {Argument} /\ todo' = Tail(todo)
      /\ UNCHANGED <<current, locks, objects, pending, validated, pendingTrial, faulty>>
    BY DEF Tag, Advance
<1>2. ASSUME Argument \in Known, Argument \in Tags, ProgramFits', todo' \in Seq(Steps)
      PROVE  PublicationInv'
    <2>1. DiskFits'
        BY <1>1, <1>2, TagsGrow
    <2>2. PublicationTypes'
        BY <1>1, <1>2 DEF PublicationInv, PublicationTypes
    <2> QED BY <1>2, <2>1, <2>2 DEF PublicationInv
<1>3. CASE /\ Underway("validated")
           /\ LET g == pending.candidate
                  K == Created(g, pending.old)
              IN  \/ Argument = Temporary(g) /\ Tail(todo) \in Create(g, K)
                  \/ Argument = Companion(g) /\ LockOf[g] \in Portable /\ Tail(todo) \in TagGeneration(g, K)
                  \/ Argument = Generation(g) /\ Tail(todo) \in K /\ Companions(g) \subseteq tags
    <2> DEFINE g == pending.candidate
               K == Created(g, pending.old)
    <2>1. pending # None /\ Underway("validated")'
        BY <1>1, <1>3 DEF Underway
    <2>2. g \in Generations
        BY <2>1, PendingTyped
    <2>3. Owned(g) \cup {Temporary(g)} \subseteq Known
        BY <2>1 DEF Known, Protected
    <2>4. {Temporary(g), Generation(g), Companion(g)} \subseteq Tags /\ Generation(g) \in Owned(g)
          /\ (LockOf[g] \in Portable => Companion(g) \in Owned(g))
        BY <2>2, OwnedTags
    <2>5. CASE Argument = Temporary(g) /\ Tail(todo) \in Create(g, K)
        <3>1. ProgramFits' /\ todo' \in Seq(Steps)
            BY <1>1, <2>1, <2>5, OnToCreate
        <3> QED BY <1>2, <2>3, <2>4, <2>5, <3>1
    <2>6. CASE Argument = Companion(g) /\ LockOf[g] \in Portable /\ Tail(todo) \in TagGeneration(g, K)
        <3>1. Starts(todo', "tag") /\ Head(todo')[2] = Generation(g) /\ Tail(todo') \in K
            BY <1>1, <2>6, ArgumentStart DEF TagGeneration
        <3>2. At("tag")' /\ Argument' = Generation(g) /\ todo' \in Seq(Steps)
            BY <3>1 DEF Starts, At, Argument
        <3>3. Companions(g) \subseteq tags'
            BY <1>1, <2>6, CompanionFirst
        <3>4. BeforeTag'
            BY <1>1, <2>1, <3>1, <3>2, <3>3 DEF BeforeTag
        <3>5. ProgramFits'
            BY <3>2, <3>4 DEF ProgramFits
        <3> QED BY <1>2, <2>3, <2>4, <2>6, <3>2, <3>5
    <2>7. CASE Argument = Generation(g) /\ Tail(todo) \in K /\ Companions(g) \subseteq tags
        <3>1. At("advance")' /\ Argument' = "generation-created" /\ todo' \in Seq(Steps)
              /\ Tail(todo') \in Locking(g, pending.old)
            BY <1>1, <2>7, OnToAdvance DEF Created
        <3>2. Owned(g) \subseteq tags'
            BY <1>1, <2>7, AllTags
        <3>3. BeforeAdvance'
            BY <1>1, <2>1, <3>1, <3>2 DEF BeforeAdvance
        <3>4. ProgramFits'
            BY <3>1, <3>3 DEF ProgramFits
        <3> QED BY <1>2, <2>3, <2>4, <2>7, <3>1, <3>4
    <2> QED BY <1>3, <2>5, <2>6, <2>7
<1>4. CASE /\ TrialUnderway
           /\ LET g == pendingTrial.candidate.owner
              IN  \/ /\ Argument = Companion(g) /\ LockOf[g] \in Portable
                     /\ Tail(todo) \in TagGeneration(g, TrialCommitting)
                  \/ /\ Argument = Generation(g) /\ Tail(todo) \in TrialCommitting
                     /\ Companions(g) \subseteq tags
    <2> DEFINE g == pendingTrial.candidate.owner
    <2>1. pendingTrial # None /\ TrialUnderway'
        BY <1>1, <1>4 DEF TrialUnderway
    <2>2. g \in Generations
        BY <2>1, RecordTypes
    <2>3. Owned(g) \subseteq Known
        BY <2>1 DEF Known
    <2>4. {Generation(g), Companion(g)} \subseteq Tags /\ Generation(g) \in Owned(g)
          /\ (LockOf[g] \in Portable => Companion(g) \in Owned(g))
        BY <2>2, OwnedTags
    <2>5. CASE Argument = Companion(g) /\ LockOf[g] \in Portable /\ Tail(todo) \in TagGeneration(g, TrialCommitting)
        <3>1. Starts(todo', "tag") /\ Head(todo')[2] = Generation(g) /\ Tail(todo') \in TrialCommitting
            BY <1>1, <2>5, ArgumentStart DEF TagGeneration
        <3>2. At("tag")' /\ Argument' = Generation(g) /\ todo' \in Seq(Steps)
            BY <3>1 DEF Starts, At, Argument
        <3>3. Companions(g) \subseteq tags'
            BY <1>1, <2>5, CompanionFirst
        <3>4. BeforeTag'
            BY <1>1, <2>1, <3>1, <3>2, <3>3 DEF BeforeTag
        <3>5. ProgramFits'
            BY <3>2, <3>4 DEF ProgramFits
        <3> QED BY <1>2, <2>3, <2>4, <2>5, <3>2, <3>5
    <2>6. CASE Argument = Generation(g) /\ Tail(todo) \in TrialCommitting /\ Companions(g) \subseteq tags
        <3>1. At("commit trial")' /\ Tail(todo') \in Validating /\ todo' \in Seq(Steps)
            BY <1>1, <2>6, Begins DEF Starts, At
        <3>2. Owned(g) \subseteq tags'
            BY <1>1, <2>6, AllTags
        <3>3. BeforeCommitTrial'
            BY <1>1, <2>1, <3>1, <3>2 DEF BeforeCommitTrial
        <3>4. ProgramFits'
            BY <3>1, <3>3 DEF ProgramFits
        <3> QED BY <1>2, <2>3, <2>4, <2>6, <3>1, <3>4
    <2> QED BY <1>4, <2>5, <2>6
<1> QED BY <1>0, <1>3, <1>4 DEF BeforeTag

\* Names are only forgotten when tags go.
LEMMA FewerNames ==
    ASSUME tags' \subseteq tags, UNCHANGED <<current, pending, validated, pendingTrial>>
    PROVE  Onward \subseteq Onward'
<1>1. Mentioned' \subseteq Mentioned
    BY DEF Mentioned, Inventory
<1> QED BY <1>1, OnwardKept

LEMMA UntagKeeps == ASSUME PublicationInv, At("untag"), ~At("tag"), Tag PROVE PublicationInv'
<1>0. BeforeUntag
    BY Found DEF PublicationInv
<1>1. /\ tags' = tags \ {Argument} /\ todo' = Tail(todo)
      /\ UNCHANGED <<current, locks, objects, pending, validated, pendingTrial, faulty>>
    BY DEF Tag, Advance
<1>2. ASSUME current # None => Argument \notin Owned(current),
             Live(validated) => Argument \notin Owned(validated.owner),
             ProgramFits', todo' \in Seq(Steps)
      PROVE  PublicationInv'
    <2>1. /\ tags' \subseteq tags
          /\ current # None => Owned(current) \subseteq tags'
          /\ Live(validated) => Owned(validated.owner) \subseteq tags'
        BY <1>1, <1>2 DEF PublicationInv, DiskFits, CurrentRunnable, TrialUsable
    <2>2. DiskFits'
        BY <1>1, <2>1, TagsShrink
    <2>3. PublicationTypes'
        BY <1>1, <1>2 DEF PublicationInv, PublicationTypes
    <2> QED BY <1>2, <2>2, <2>3 DEF PublicationInv
<1>3. ASSUME NEW x, NEW y, x # y PROVE Generation(x) \notin Owned(y) /\ Companion(x) \notin Owned(y)
    BY <1>3, OwnedApart
<1>4. CASE /\ pending # None
           /\ LET K == Finishing(pending.candidate)
              IN  \/ \E x \in Losers :
                        \/ /\ Argument = Generation(x)
                           /\ Tail(todo) \in IF LockOf[x] \in Portable THEN UntagCompanion(x, K) ELSE K
                        \/ Argument = Companion(x) /\ Generation(x) \notin tags /\ Tail(todo) \in K
                  \/ Argument = Temporary(pending.candidate) /\ LosersGone /\ Tail(todo) \in PruningLocks
    <2> DEFINE K == Finishing(pending.candidate)
    <2>0. pending' # None /\ Losers' = Losers /\ pending'.candidate = pending.candidate
        BY <1>1, <1>4 DEF Losers
    <2>1. CASE Argument = Temporary(pending.candidate) /\ LosersGone /\ Tail(todo) \in PruningLocks
        <3>1. Starts(todo', "prune locks") /\ Tail(todo') \in Closing \cup PruningStore
            BY <1>1, <2>1, Begins
        <3>2. PendingDone'
            BY <1>1, <2>0, <2>1 DEF PendingDone, LosersGone
        <3>3. At("prune locks")' /\ BeforePruneLocks' /\ todo' \in Seq(Steps)
            BY <3>1, <3>2 DEF Starts, At, BeforePruneLocks
        <3>4. ProgramFits'
            BY <3>3 DEF ProgramFits
        <3>5. \A y : Argument \notin Owned(y)
            BY <2>1, TemporaryApart
        <3> QED BY <1>2, <3>3, <3>4, <3>5
    <2>2. ASSUME NEW x \in Losers,
                 \/ Argument = Generation(x) /\ Tail(todo) \in IF LockOf[x] \in Portable THEN UntagCompanion(x, K) ELSE K
                 \/ Argument = Companion(x) /\ Generation(x) \notin tags /\ Tail(todo) \in K
          PROVE  PublicationInv'
        <3>1. x # current /\ (Live(validated) => x # validated.owner) /\ x \in {pending.old, pending.candidate}
            BY <1>4 DEF Losers, PublicationInv, DiskFits, OwnersDiffer
        <3>2. /\ Argument \notin Owned(current)
              /\ Live(validated) => Argument \notin Owned(validated.owner)
            BY <1>3, <2>2, <3>1
        <3>3. ASSUME Owned(x) \cap tags' = {}, Tail(todo) \in K PROVE ProgramFits' /\ todo' \in Seq(Steps)
            <4>1. Losers = {x}
                <5>1. current \in {pending.old, pending.candidate}
                    BY <1>4, PendingTyped DEF Recoverable, DiscardsCandidate, KeepsCandidate
                <5> QED BY <3>1, <5>1 DEF Losers
            <4>2. LosersGone'
                BY <2>0, <3>3, <4>1 DEF LosersGone
            <4> QED BY <1>1, <2>0, <3>3, <4>2, OnToFinish
        <3>4. CASE Argument = Generation(x) /\ LockOf[x] \in Portable /\ Tail(todo) \in UntagCompanion(x, K)
            <4>1. x \in Losers' /\ Generation(x) \notin tags' /\ todo' \in UntagCompanion(x, Finishing(pending'.candidate))
                BY <1>1, <2>0, <3>4
            <4>2. ProgramFits' /\ todo' \in Seq(Steps)
                BY <2>0, <4>1, OnToUntagCompanion
            <4> QED BY <1>2, <3>2, <4>2
        <3>5. CASE Argument = Generation(x) /\ LockOf[x] \notin Portable /\ Tail(todo) \in K
            <4>1. Owned(x) \cap tags' = {}
                BY <1>1, <3>5 DEF Owned
            <4> QED BY <1>2, <3>2, <3>3, <3>5, <4>1
        <3>6. CASE Argument = Companion(x) /\ Generation(x) \notin tags /\ Tail(todo) \in K
            <4>1. Owned(x) \cap tags' = {}
                BY <1>1, <3>6 DEF Owned
            <4> QED BY <1>2, <3>2, <3>3, <3>6, <4>1
        <3> QED BY <2>2, <3>4, <3>5, <3>6
    <2> QED BY <1>4, <2>1, <2>2
<1>5. CASE /\ pendingTrial # None /\ ~TrialCommitted
           /\ LET g == pendingTrial.candidate.owner
              IN  \/ /\ Argument = Generation(g)
                     /\ Tail(todo) \in IF LockOf[g] \in Portable THEN UntagCompanion(g, TrialUndone)
                                       ELSE TrialUndone
                  \/ Argument = Companion(g) /\ Generation(g) \notin tags /\ Tail(todo) \in TrialUndone
    <2> DEFINE g == pendingTrial.candidate.owner
    <2>1. pendingTrial' # None /\ ~TrialCommitted' /\ pendingTrial'.candidate.owner = g
        BY <1>1, <1>5 DEF TrialCommitted
    <2>2. g # current /\ (Live(validated) => g # validated.owner)
        BY <1>5 DEF PublicationInv, DiskFits, OwnersDiffer
    <2>3. /\ Argument \notin Owned(current)
          /\ Live(validated) => Argument \notin Owned(validated.owner)
        BY <1>3, <1>5, <2>2
    <2>4. TrialUndone \subseteq TrialUndone'
        <3>1. Onward \subseteq Onward'
            BY <1>1, FewerNames
        <3> QED BY <3>1, ThenGrows DEF TrialUndone
    <2>5. ASSUME Owned(g) \cap tags' = {}, Tail(todo) \in TrialUndone PROVE ProgramFits' /\ todo' \in Seq(Steps)
        BY <1>1, <2>1, <2>4, <2>5, OnToCloseTrial
    <2>6. CASE Argument = Generation(g) /\ LockOf[g] \in Portable /\ Tail(todo) \in UntagCompanion(g, TrialUndone)
        <3>1. todo' \in UntagCompanion(g, TrialUndone')
            BY <1>1, <2>4, <2>6, ThenGrows DEF UntagCompanion
        <3>2. Generation(g) \notin tags'
            BY <1>1, <2>6
        <3>3. ProgramFits' /\ todo' \in Seq(Steps)
            BY <2>1, <3>1, <3>2, OnToUndoCompanion
        <3> QED BY <1>2, <2>3, <3>3
    <2>7. CASE Argument = Generation(g) /\ LockOf[g] \notin Portable /\ Tail(todo) \in TrialUndone
        <3>1. Owned(g) \cap tags' = {}
            BY <1>1, <2>7 DEF Owned
        <3> QED BY <1>2, <2>3, <2>5, <2>7, <3>1
    <2>8. CASE Argument = Companion(g) /\ Generation(g) \notin tags /\ Tail(todo) \in TrialUndone
        <3>1. Owned(g) \cap tags' = {}
            BY <1>1, <2>8 DEF Owned
        <3> QED BY <1>2, <2>3, <2>5, <2>8, <3>1
    <2> QED BY <1>5, <2>6, <2>7, <2>8
<1> QED BY <1>0, <1>4, <1>5 DEF BeforeUntag

LEMMA PublishLockKeeps == ASSUME PublicationInv, PublishLock PROVE PublicationInv'
<1>0. BeforeLock
    BY Found DEF PublicationInv, PublishLock
<1>1. /\ locks' = locks \cup {Argument} /\ todo' = Tail(todo)
      /\ UNCHANGED <<current, objects, tags, pending, validated, pendingTrial, faulty>>
    BY DEF PublishLock, Advance
<1>2. ASSUME Argument \in Digests, ProgramFits', todo' \in Seq(Steps) PROVE PublicationInv'
    <2>1. DiskFits'
        BY <1>1, LocksGrow
    <2>2. PublicationTypes'
        BY <1>1, <1>2 DEF PublicationInv, PublicationTypes
    <2> QED BY <1>2, <2>1, <2>2 DEF PublicationInv
<1>3. CASE /\ Underway("generation-created") /\ Owned(pending.candidate) \subseteq tags
           /\ Argument = LockOf[pending.candidate]
           /\ Tail(todo) \in Locked(pending.candidate, pending.old)
    <2> DEFINE g == pending.candidate
    <2>1. pending # None /\ Underway("generation-created")'
        BY <1>1, <1>3 DEF Underway
    <2>2. Argument \in Digests
        BY <1>3, <2>1, PendingTyped, PublicationAssumption
    <2>3. /\ At("advance")' /\ Argument' = "lock-published" /\ todo' \in Seq(Steps)
          /\ Tail(todo') \in Committing(g, pending.old)
        BY <1>1, <1>3, OnToAdvance DEF Locked
    <2>4. BeforeAdvance'
        BY <1>1, <1>3, <2>1, <2>3 DEF BeforeAdvance
    <2>5. ProgramFits'
        BY <2>3, <2>4 DEF ProgramFits
    <2> QED BY <1>2, <2>2, <2>3, <2>5
<1>4. CASE /\ pending = None /\ pendingTrial = None
           /\ \E g \in Unmentioned :
                 Argument = LockOf[g] /\ LockOf[g] \in objects /\ Tail(todo) \in TrialIntending(g)
    <2>1. PICK g \in Unmentioned :
              Argument = LockOf[g] /\ LockOf[g] \in objects /\ Tail(todo) \in TrialIntending(g)
        BY <1>4
    <2>2. g \in Generations /\ g \in Unmentioned' /\ Argument \in Digests
        BY <1>1, <2>1, SameNames, PublicationAssumption DEF Unmentioned
    <2>3. /\ Starts(todo', "intend trial") /\ Head(todo')[2] = g
          /\ Tail(todo') \in Create(g, TrialCommitting)
        BY <1>1, <2>1, ArgumentStart DEF TrialIntending
    <2>4. At("intend trial")' /\ Argument' = g /\ todo' \in Seq(Steps)
        BY <2>3 DEF Starts, At, Argument
    <2>5. Complete(g)'
        BY <1>1, <2>1 DEF Complete
    <2>6. BeforeIntendTrial'
        BY <1>1, <1>4, <2>2, <2>3, <2>4, <2>5 DEF BeforeIntendTrial
    <2>7. ProgramFits'
        BY <2>4, <2>6 DEF ProgramFits
    <2> QED BY <1>2, <2>2, <2>4, <2>7
<1> QED BY <1>0, <1>3, <1>4 DEF BeforeLock

LEMMA DoneKept ==
    ASSUME UNCHANGED <<current, tags, pending, validated, pendingTrial>>
    PROVE  (PendingDone => PendingDone') /\ (Quiet => Quiet')
<1>1. PendingDone => PendingDone'
    BY DEF PendingDone, LosersGone, Losers
<1>2. Quiet => Quiet'
    BY DEF Quiet, PruningBoundary, Inventory
<1> QED BY <1>1, <1>2

LEMMA RootsTyped == ASSUME PublicationInv PROVE Roots \subseteq Digests
<1>1. current # None => LockOf[current] \in Digests
    BY PublicationAssumption DEF PublicationInv, PublicationTypes
<1>2. Live(validated) => LockOf[validated.owner] \in Digests
    BY PublicationAssumption DEF PublicationInv, PublicationTypes, ValidatedBuilds, Live
<1> QED BY <1>1, <1>2 DEF Roots

\* The steps after a pruning
LEMMA OnFromPruning ==
    ASSUME \/ todo' \in Closing \cup PruningStore /\ PendingDone'
           \/ todo' \in Settling \cup Halted \cup SweepingLocks /\ Quiet'
    PROVE  ProgramFits' /\ todo' \in Seq(Steps)
<1>1. CASE todo' \in Closing /\ PendingDone'
    <2>1. At("close")' /\ BeforeClose' /\ todo' \in Seq(Steps)
        BY <1>1, Begins DEF Starts, At, BeforeClose
    <2> QED BY <2>1 DEF ProgramFits
<1>2. CASE todo' \in PruningStore /\ PendingDone'
    <2>1. At("prune store")' /\ BeforePruneStore' /\ todo' \in Seq(Steps)
        BY <1>2, Begins DEF Starts, At, BeforePruneStore
    <2> QED BY <2>1 DEF ProgramFits
<1>3. CASE todo' \in Settling /\ Quiet'
    <2>1. At("settle")' /\ BeforeSettle' /\ todo' \in Seq(Steps)
        BY <1>3, Begins DEF Starts, At, BeforeSettle
    <2> QED BY <2>1 DEF ProgramFits
<1>4. CASE todo' \in Halted
    BY <1>4, OnToCalls
<1>5. CASE todo' \in SweepingLocks /\ Quiet'
    BY <1>5, OnToSweep
<1> QED BY <1>1, <1>2, <1>3, <1>4, <1>5

LEMMA PruneLocksKeeps == ASSUME PublicationInv, PruneLocks PROVE PublicationInv'
<1>0. BeforePruneLocks
    BY Found DEF PublicationInv, PruneLocks
<1>1. UNCHANGED <<current, objects, tags, pending, validated, pendingTrial, faulty>>
    BY DEF PruneLocks
<1>2. CASE locks' = Roots /\ Advance
    <2>1. pendingTrial = None
        BY <1>0, PendingTyped DEF BeforePruneLocks, PendingDone, Quiet, PruningBoundary
    <2>2. DiskFits'
        BY <1>1, <1>2, <2>1, PruneKeeps
    <2>3. ProgramFits' /\ todo' \in Seq(Steps)
        BY <1>0, <1>1, <1>2, DoneKept, OnFromPruning DEF BeforePruneLocks, Advance
    <2>4. PublicationTypes'
        BY <1>1, <1>2, <2>3, RootsTyped DEF PublicationInv, PublicationTypes
    <2> QED BY <2>2, <2>3, <2>4 DEF PublicationInv
<1>3. CASE locks' = locks /\ Fail
    BY <1>1, <1>3, Failing, CallKeeps DEF disk
<1> QED BY <1>2, <1>3 DEF PruneLocks

LEMMA PruneStoreKeeps == ASSUME PublicationInv, PruneStore PROVE PublicationInv'
<1>0. BeforePruneStore
    BY Found DEF PublicationInv, PruneStore
<1>1. UNCHANGED <<current, locks, tags, pending, validated, pendingTrial, faulty>>
    BY DEF PruneStore
<1>2. CASE objects' = Roots /\ Advance
    <2>1. pendingTrial = None
        BY <1>0, PendingTyped DEF BeforePruneStore, PendingDone, Quiet, PruningBoundary
    <2>2. DiskFits'
        BY <1>1, <1>2, <2>1, PruneKeeps
    <2>3. ProgramFits' /\ todo' \in Seq(Steps)
        BY <1>0, <1>1, <1>2, DoneKept, OnFromPruning DEF BeforePruneStore, Advance
    <2>4. PublicationTypes'
        BY <1>1, <1>2, <2>3, RootsTyped DEF PublicationInv, PublicationTypes
    <2> QED BY <2>2, <2>3, <2>4 DEF PublicationInv
<1>3. CASE objects' = objects /\ Fail
    BY <1>1, <1>3, Failing, CallKeeps DEF disk
<1> QED BY <1>2, <1>3 DEF PruneStore

-----------------------------------------------------------------------------
(* The validated build                                                      *)

\* While nothing is pending, the record may be closed, cut or settled.
LEMMA RecordChanges ==
    ASSUME PublicationInv, pending = None, pendingTrial = None, NEW v, validated' = v,
           UNCHANGED <<current, locks, objects, tags, pending, pendingTrial>>,
           v # None => WellFormed(v),
           Live(v) => Live(validated) /\ v.owner = validated.owner,
           tags \subseteq Protected \cup Superseded(v)
    PROVE  DiskFits'
<1>1. RecordsFit'
    BY DEF RecordsFit, WellFormed
<1>2. OwnersDiffer' /\ CurrentRunnable' /\ TrialUsable'
    BY DEF PublicationInv, DiskFits, OwnersDiffer, CurrentRunnable, TrialUsable, Complete, Live
<1>3. RecoveryAccepted' /\ PhaseTruthful'
    BY DEF RecoveryAccepted, PhaseTruthful
<1>4. NoLeakedTags'
    BY DEF NoLeakedTags, Protected, Superseded, Inventory, Live
<1> QED BY <1>1, <1>2, <1>3, <1>4 DEF DiskFits

LEMMA SettleKeeps == ASSUME PublicationInv, Settle PROVE PublicationInv'
<1> DEFINE v == IF Live(validated) THEN [validated EXCEPT !.storage = FALSE] ELSE None
<1>0. BeforeSettle
    BY Found DEF PublicationInv, Settle
<1>1. /\ validated' = v /\ todo' = Tail(todo)
      /\ UNCHANGED <<current, locks, objects, tags, pending, pendingTrial, faulty>>
    BY DEF Settle, Advance
<1>2. Tail(todo) \in Halted /\ pending = None /\ pendingTrial = None /\ Inventory(validated) = {}
    BY <1>0 DEF BeforeSettle, Quiet, PruningBoundary
<1>3. ProgramFits' /\ todo' \in Seq(Steps)
    BY <1>1, <1>2, OnToCalls
<1>4. tags \subseteq Protected \cup Superseded(validated)
    BY <1>2 DEF PublicationInv, DiskFits, NoLeakedTags
<1>5. CASE Live(validated)
    <2>1. validated \in ValidatedBuilds /\ WellFormed(validated) /\ validated # None /\ ~validated.discarded
        BY <1>5, RecordTypes DEF Live, PublicationInv, DiskFits, RecordsFit
    <2>2. v = [validated EXCEPT !.storage = FALSE]
        BY <1>5
    <2>3. /\ v \in ValidatedBuilds /\ v.owner = validated.owner /\ v.cleanup = validated.cleanup
          /\ ~v.discarded
        BY <2>1, <2>2 DEF ValidatedBuilds
    <2>4. v # None
        BY <2>3, PublicationAssumption
    <2> HIDE DEF v
    <2>5. WellFormed(v) /\ Superseded(v) = Superseded(validated)
        BY <2>1, <2>3, <2>4 DEF WellFormed, Superseded, Inventory, Live
    <2>6. DiskFits'
        BY <1>1, <1>2, <1>4, <1>5, <2>3, <2>5, RecordChanges
    <2>7. PublicationTypes'
        BY <1>1, <1>3, <2>3 DEF PublicationInv, PublicationTypes
    <2> QED BY <1>3, <2>6, <2>7 DEF PublicationInv
<1>6. CASE ~Live(validated)
    <2>1. v = None
        BY <1>6
    <2> HIDE DEF v
    <2>2. Superseded(validated) = {}
        BY <1>2, <1>6 DEF Superseded
    <2>3. DiskFits'
        BY <1>1, <1>2, <1>4, <2>1, <2>2, RecordChanges DEF Live
    <2>4. PublicationTypes'
        BY <1>1, <1>3, <2>1 DEF PublicationInv, PublicationTypes
    <2> QED BY <1>3, <2>3, <2>4 DEF PublicationInv
<1> QED BY <1>5, <1>6

LEMMA NoteRetiredKeeps == ASSUME PublicationInv, NoteRetired PROVE PublicationInv'
<1> DEFINE v == [validated EXCEPT !.cleanup = Argument]
<1>0. BeforeNote
    BY Found DEF PublicationInv, NoteRetired
<1>1. /\ validated' = v
      /\ Advance \/ Fail
      /\ UNCHANGED <<current, locks, objects, tags, pending, pendingTrial, faulty>>
    BY DEF NoteRetired
<1>2. /\ pending = None /\ pendingTrial = None /\ validated # None
      /\ Argument \subseteq validated.cleanup /\ tags \cap validated.cleanup \subseteq Argument
      /\ Tail(todo) \in Recovering \cup Storing
    BY <1>0 DEF BeforeNote
<1>3. ProgramFits' /\ todo' \in Seq(Steps)
    <2>1. CASE Fail
        BY <2>1, Failing
    <2>2. CASE Advance
        BY <1>2, <2>2, OnToCalls DEF Advance
    <2> QED BY <1>1, <2>1, <2>2
<1>4. validated \in ValidatedBuilds /\ WellFormed(validated)
    BY <1>2, RecordTypes DEF PublicationInv, DiskFits, RecordsFit
<1>5. Argument \subseteq Tags
    BY <1>2, <1>4 DEF ValidatedBuilds
<1>6. /\ v \in ValidatedBuilds /\ v.owner = validated.owner /\ v.cleanup = Argument
      /\ v.discarded = validated.discarded /\ v.storage = validated.storage
    BY <1>4, <1>5 DEF ValidatedBuilds
<1>7. v # None
    BY <1>6, PublicationAssumption
<1> HIDE DEF v
<1>8. WellFormed(v)
    BY <1>2, <1>4, <1>6 DEF WellFormed
<1>9. Live(v) <=> Live(validated)
    BY <1>2, <1>6, <1>7 DEF Live
<1>10. tags \subseteq Protected \cup Superseded(v)
    <2>1. tags \subseteq Protected \cup Superseded(validated)
        BY <1>2 DEF PublicationInv, DiskFits, NoLeakedTags
    <2>2. tags \cap Superseded(validated) \subseteq Superseded(v)
        BY <1>2, <1>6, <1>7, <1>9 DEF Superseded, Inventory
    <2> QED BY <2>1, <2>2
<1>11. DiskFits'
    BY <1>1, <1>2, <1>6, <1>8, <1>9, <1>10, RecordChanges
<1>12. PublicationTypes'
    BY <1>1, <1>3, <1>6 DEF PublicationInv, PublicationTypes
<1> QED BY <1>3, <1>11, <1>12 DEF PublicationInv

LEMMA RetireKeeps == ASSUME PublicationInv, Retire PROVE PublicationInv'
<1>0. BeforeRetire
    BY Found DEF PublicationInv, Retire
<1>1. UNCHANGED <<current, locks, objects, pending, validated, pendingTrial, faulty>>
    BY DEF Retire
<1>2. Tail(todo) \in Recovering \cup Storing
    BY <1>0 DEF BeforeRetire
<1>3. CASE tags' = tags /\ Advance
    <2>1. ProgramFits' /\ todo' \in Seq(Steps)
        BY <1>2, <1>3, OnToCalls DEF Advance
    <2> QED BY <1>1, <1>3, <2>1, CallKeeps DEF disk
<1>4. CASE tags' = tags /\ Fail
    BY <1>1, <1>4, Failing, CallKeeps DEF disk
<1>5. ASSUME NEW left \in SUBSET Inventory(validated), Retirable, Inventory(validated) # {},
             tags' = tags \ (Inventory(validated) \ left),
             Fail \/ Expand(<< <<"note", left>> >>)
      PROVE  PublicationInv'
    <2>1. /\ validated # None /\ validated \in ValidatedBuilds /\ WellFormed(validated)
          /\ Inventory(validated) = validated.cleanup /\ validated.cleanup \subseteq Tags
        <3>1. validated # None
            BY <1>5 DEF Inventory
        <3> QED BY <3>1, RecordTypes DEF Inventory, PublicationInv, DiskFits, RecordsFit, ValidatedBuilds
    <2>2. pending = None /\ pendingTrial = None
        BY <1>5, PendingTyped DEF Retirable
    <2>3. current # None => Owned(current) \cap Inventory(validated) = {}
        BY <1>5 DEF Retirable, Superseded, Protected
    <2>4. Live(validated) => Owned(validated.owner) \cap Inventory(validated) = {}
        BY <2>1 DEF Live, WellFormed
    <2>5. /\ tags' \subseteq tags
          /\ current # None => Owned(current) \subseteq tags'
          /\ Live(validated) => Owned(validated.owner) \subseteq tags'
        BY <1>5, <2>3, <2>4 DEF PublicationInv, DiskFits, CurrentRunnable, TrialUsable
    <2>6. DiskFits'
        BY <1>1, <2>5, TagsShrink
    <2>7. ProgramFits' /\ todo' \in Seq(Steps)
        <3>1. CASE Fail
            BY <3>1, Failing
        <3>2. CASE Expand(<< <<"note", left>> >>)
            <4>1. <<"note", left>> \in Steps
                <5>1. <<"note", left>> \in {"note"} \X SUBSET Tags
                    BY <2>1
                <5> QED BY <5>1 DEF Steps
            <4>2. Tail(todo) \in Seq(Steps)
                BY <1>2, Begins DEF Starts
            <4>3. todo' \in Then({<<"note", left>>}, Recovering \cup Storing)
                BY <1>2, <3>2, <4>1, <4>2, OneStep DEF Expand
            <4>4. Starts(todo', "note") /\ Head(todo')[2] = left /\ Tail(todo') \in Recovering \cup Storing
                BY <4>3, ArgumentStart
            <4>5. At("note")' /\ Argument' = left /\ todo' \in Seq(Steps)
                BY <4>4 DEF Starts, At, Argument
            <4>6. BeforeNote'
                BY <1>1, <1>5, <2>1, <2>2, <4>4, <4>5 DEF BeforeNote
            <4> QED BY <4>5, <4>6 DEF ProgramFits
        <3> QED BY <1>5, <3>1, <3>2
    <2>8. PublicationTypes'
        BY <1>1, <2>5, <2>7 DEF PublicationInv, PublicationTypes
    <2> QED BY <2>6, <2>7, <2>8 DEF PublicationInv
<1>6. CASE Retirable /\ Inventory(validated) # {}
    <2>1. PICK left \in IF faulty THEN SUBSET Inventory(validated) ELSE {{}} :
              /\ tags' = tags \ (Inventory(validated) \ left)
              /\ IF left = Inventory(validated) THEN Fail ELSE Expand(<< <<"note", left>> >>)
        BY <1>6 DEF Retire
    <2>2. left \in SUBSET Inventory(validated)
        OBVIOUS
    <2> QED BY <1>5, <1>6, <2>1, <2>2
<1>7. CASE ~(Retirable /\ Inventory(validated) # {})
    BY <1>3, <1>4, <1>7 DEF Retire
<1> QED BY <1>6, <1>7

LEMMA DiscardKeeps == ASSUME PublicationInv, Discard PROVE PublicationInv'
<1>0. BeforeDiscard
    BY Found DEF PublicationInv, Discard
<1>1. UNCHANGED <<current, locks, objects, tags, pending, pendingTrial, faulty>>
    BY DEF Discard
<1>2. Tail(todo) \in Retiring /\ pending = None /\ Tail(todo) \in Seq(Steps)
    BY <1>0, Begins DEF BeforeDiscard, Starts
<1>3. CASE validated # None /\ Retirable /\ Live(validated)
    <2> DEFINE v == [validated EXCEPT !.cleanup = @ \cup Owned(validated.owner),
                                      !.storage = TRUE, !.discarded = TRUE]
    <2>1. validated' = v /\ todo' = Tail(todo)
        BY <1>3 DEF Discard, Advance
    <2>2. validated \in ValidatedBuilds /\ pendingTrial = None
        BY <1>3, RecordTypes DEF Retirable
    <2>3. validated.owner \in Generations /\ validated.cleanup \subseteq Tags
        BY <2>2 DEF ValidatedBuilds
    <2>4. validated.cleanup \cup Owned(validated.owner) \subseteq Tags
        BY <2>3, OwnedTags
    <2>5. /\ v \in ValidatedBuilds /\ v.cleanup = validated.cleanup \cup Owned(validated.owner)
          /\ v.discarded /\ v.storage
        BY <2>2, <2>4 DEF ValidatedBuilds
    <2>6. v # None
        BY <2>5, PublicationAssumption
    <2> HIDE DEF v
    <2>7. WellFormed(v) /\ ~Live(v)
        BY <2>5 DEF WellFormed, Live
    <2>8. Superseded(v) = Superseded(validated)
        BY <1>3, <2>5, <2>6, <2>7 DEF Superseded, Inventory
    <2>9. tags \subseteq Protected \cup Superseded(v)
        BY <2>2, <2>8 DEF PublicationInv, DiskFits, NoLeakedTags
    <2>10. DiskFits'
        BY <1>1, <1>2, <2>1, <2>2, <2>7, <2>9, RecordChanges
    <2>11. ProgramFits' /\ todo' \in Seq(Steps)
        BY <1>2, <2>1, OnToCalls
    <2>12. PublicationTypes'
        BY <1>1, <2>1, <2>5, <2>11 DEF PublicationInv, PublicationTypes
    <2> QED BY <2>10, <2>11, <2>12 DEF PublicationInv
<1>4. CASE ~(validated # None /\ Retirable /\ Live(validated))
    <2>1. validated' = validated /\ (todo' = <<>> \/ Fail \/ Expand(<<>>))
        BY <1>4 DEF Discard, Checked
    <2>2. ProgramFits' /\ todo' \in Seq(Steps)
        <3>1. CASE todo' = <<>>
            BY <3>1, EmptySeq DEF ProgramFits
        <3>2. CASE Fail
            BY <3>2, Failing
        <3>3. CASE Expand(<<>>)
            <4>1. todo' = Tail(todo)
                BY <1>2, <3>3, NothingFirst DEF Expand
            <4> QED BY <1>2, <4>1, OnToCalls
        <3> QED BY <2>1, <3>1, <3>2, <3>3
    <2> QED BY <1>1, <2>1, <2>2, CallKeeps DEF disk
<1> QED BY <1>3, <1>4

LEMMA WriteTrialIntentKeeps == ASSUME PublicationInv, WriteTrialIntent PROVE PublicationInv'
<1> DEFINE g == Argument
           c == [owner |-> g, cleanup |-> Superseded(validated), storage |-> TRUE, discarded |-> FALSE]
           p == [previous |-> validated, candidate |-> c]
<1>0. BeforeIntendTrial
    BY Found DEF PublicationInv, WriteTrialIntent
<1>1. /\ pendingTrial' = p /\ todo' = Tail(todo)
      /\ UNCHANGED <<current, locks, objects, tags, pending, validated, faulty>>
    BY DEF WriteTrialIntent, TrialRecord, Advance
<1>2. /\ g \in Unmentioned /\ Complete(g) /\ pending = None /\ pendingTrial = None
      /\ Tail(todo) \in Create(g, TrialCommitting)
    BY <1>0 DEF BeforeIntendTrial
<1> HIDE DEF g
<1>3. /\ g \in Generations /\ g # current /\ (validated # None => g # validated.owner)
      /\ Owned(g) \cap Inventory(validated) = {}
    BY <1>2, UnmentionedDiffers
<1>4. Superseded(validated) \subseteq Tags
    <2>1. validated # None => validated.owner \in Generations /\ validated.cleanup \subseteq Tags
        BY RecordTypes DEF ValidatedBuilds
    <2> QED BY <2>1, OwnedTags DEF Superseded, Inventory, Live
<1>5. Superseded(validated) \cap Owned(g) = {}
    <2>1. Live(validated) => Owned(validated.owner) \cap Owned(g) = {}
        BY <1>3, OwnedApart DEF Live
    <2> QED BY <1>3, <2>1 DEF Superseded
<1>6. /\ c \in ValidatedBuilds /\ c.owner = g /\ c.cleanup = Superseded(validated) /\ c.storage
      /\ ~c.discarded
    BY <1>3, <1>4 DEF ValidatedBuilds
<1> HIDE DEF c
<1>7. WellFormed(c)
    BY <1>5, <1>6 DEF WellFormed
<1>8. p \in PendingTrials /\ p.previous = validated /\ p.candidate = c
    BY <1>6 DEF PendingTrials, PublicationInv, PublicationTypes
<1>9. p # None
    BY <1>8, PublicationAssumption
<1> HIDE DEF p
<1>10. validated # c
    BY <1>3, <1>6, PublicationAssumption
<1>11. ~TrialCommitted'
    BY <1>1, <1>8, <1>10 DEF TrialCommitted
<1>12. RecordsFit'
    <2>1. validated # None => WellFormed(validated)
        BY DEF PublicationInv, DiskFits, RecordsFit
    <2> QED BY <1>1, <1>6, <1>7, <1>8, <2>1 DEF RecordsFit, WellFormed
<1>13. OwnersDiffer'
    BY <1>1, <1>2, <1>3, <1>6, <1>8 DEF PublicationInv, DiskFits, OwnersDiffer, Live
<1>14. CurrentRunnable' /\ TrialUsable' /\ PhaseTruthful'
    BY <1>1 DEF PublicationInv, DiskFits, CurrentRunnable, TrialUsable, PhaseTruthful, Complete, Live
<1>15. TrialRecoverable'
    <2>1. pendingTrial'.candidate.cleanup = Superseded(pendingTrial'.previous)
        BY <1>1, <1>6, <1>8
    <2>2. Complete(pendingTrial.candidate.owner)'
        BY <1>1, <1>2, <1>6, <1>8 DEF Complete
    <2>3. current # None => LockOf[current] \in locks
        BY DEF PublicationInv, DiskFits, CurrentRunnable, Complete
    <2>4. Live(validated)' => Complete(validated.owner)'
        BY <1>14 DEF TrialUsable
    <2>5. Superseded(pendingTrial.previous)' = Superseded(pendingTrial'.previous)
        BY DEF Superseded, Inventory, Live
    <2> QED BY <1>1, <1>2, <1>6, <1>8, <1>11, <2>1, <2>2, <2>3, <2>4, <2>5 DEF TrialRecoverable
<1>16. RecoveryAccepted'
    BY <1>1, <1>2, <1>15 DEF RecoveryAccepted
<1>17. NoLeakedTags'
    BY <1>1, <1>2 DEF PublicationInv, DiskFits, NoLeakedTags, Protected, Superseded, Inventory, Live
<1>18. ProgramFits' /\ todo' \in Seq(Steps)
    BY <1>1, <1>2, <1>6, <1>8, <1>9, OnToCreateTrial DEF TrialUnderway
<1>19. PublicationTypes'
    BY <1>1, <1>8, <1>18 DEF PublicationInv, PublicationTypes
<1> QED BY <1>12, <1>13, <1>14, <1>16, <1>17, <1>18, <1>19 DEF PublicationInv, DiskFits

LEMMA CommitTrialKeeps == ASSUME PublicationInv, CommitTrial PROVE PublicationInv'
<1> DEFINE c == pendingTrial.candidate
<1>0. BeforeCommitTrial
    BY Found DEF PublicationInv, CommitTrial
<1>1. /\ validated = pendingTrial.previous /\ validated' = c /\ todo' = Tail(todo)
      /\ UNCHANGED <<current, locks, objects, tags, pending, pendingTrial, faulty>>
    BY DEF CommitTrial, Advance
<1>2. pendingTrial # None /\ Owned(c.owner) \subseteq tags /\ Tail(todo) \in Validating
    BY <1>0 DEF BeforeCommitTrial, TrialUnderway
<1>3. /\ c \in ValidatedBuilds /\ c # None /\ pending = None
      /\ WellFormed(c) /\ ~c.discarded /\ c.owner # current
      /\ pendingTrial.previous # None => WellFormed(pendingTrial.previous)
    BY <1>2, RecordTypes DEF PublicationInv, DiskFits, RecordsFit, OwnersDiffer
<1>4. /\ TrialRecoverable /\ c.cleanup = Superseded(validated) /\ Complete(c.owner)
      /\ current # None => LockOf[current] \in locks
    BY <1>1, <1>2 DEF PublicationInv, DiskFits, RecoveryAccepted, TrialRecoverable
<1> HIDE DEF c
<1>5. TrialCommitted' /\ pendingTrial'.candidate = c
    BY <1>1 DEF TrialCommitted, c
<1>6. RecordsFit'
    BY <1>1, <1>3, <1>5 DEF RecordsFit, WellFormed
<1>7. OwnersDiffer'
    BY <1>1, <1>3, <1>5 DEF OwnersDiffer, Live
<1>8. CurrentRunnable' /\ TrialUsable' /\ PhaseTruthful'
    BY <1>1, <1>2, <1>3, <1>4 DEF PublicationInv, DiskFits, CurrentRunnable, TrialUsable, PhaseTruthful,
       Complete, Live
<1>9. RecoveryAccepted'
    <2>1. Superseded(pendingTrial.previous)' = Superseded(pendingTrial.previous)
        BY <1>1 DEF Superseded, Inventory, Live
    <2>2. Complete(c.owner)' /\ validated'.owner = c.owner
        BY <1>1, <1>4 DEF Complete, c
    <2>3. TrialRecoverable'
        BY <1>1, <1>2, <1>3, <1>4, <1>5, <2>1, <2>2 DEF TrialRecoverable, Complete
    <2> QED BY <1>1, <1>3, <2>3 DEF RecoveryAccepted
<1>10. NoLeakedTags'
    <2>1. Protected' = Protected
        BY <1>1 DEF Protected
    <2>2. Superseded(validated) \cup Owned(c.owner) \subseteq Superseded(validated)'
        BY <1>1, <1>3, <1>4 DEF Superseded, Inventory, Live
    <2> QED BY <1>1, <1>2, <2>1, <2>2 DEF PublicationInv, DiskFits, NoLeakedTags, c
<1>11. ProgramFits' /\ todo' \in Seq(Steps)
    <2>1. At("executed")' /\ Tail(todo') \in TrialClosing /\ todo' \in Seq(Steps)
        BY <1>1, <1>2, Begins DEF Starts, At
    <2>2. BeforeExecuted'
        BY <1>1, <1>2, <1>5, <2>1 DEF BeforeExecuted
    <2> QED BY <2>1, <2>2 DEF ProgramFits
<1>12. PublicationTypes'
    BY <1>1, <1>3, <1>11 DEF PublicationInv, PublicationTypes
<1> QED BY <1>6, <1>7, <1>8, <1>9, <1>10, <1>11, <1>12 DEF PublicationInv, DiskFits

LEMMA RemoveTrialIntentKeeps == ASSUME PublicationInv, RemoveTrialIntent PROVE PublicationInv'
<1>0. BeforeCloseTrial
    BY Found DEF PublicationInv, RemoveTrialIntent
<1>1. /\ pendingTrial' = None /\ todo' = Tail(todo)
      /\ UNCHANGED <<current, locks, objects, tags, pending, validated, faulty>>
    BY DEF RemoveTrialIntent, Advance
<1>2. /\ pendingTrial # None /\ Tail(todo) \in Onward \cup Retiring
      /\ TrialCommitted \/ Owned(pendingTrial.candidate.owner) \cap tags = {}
    BY <1>0 DEF BeforeCloseTrial
<1>3. pending = None
    BY <1>2, RecordTypes
<1>4. RecordsFit' /\ OwnersDiffer'
    BY <1>1, <1>3 DEF PublicationInv, DiskFits, RecordsFit, OwnersDiffer, WellFormed, Live
<1>5. CurrentRunnable' /\ TrialUsable' /\ PhaseTruthful'
    BY <1>1 DEF PublicationInv, DiskFits, CurrentRunnable, TrialUsable, PhaseTruthful, Complete, Live
<1>6. RecoveryAccepted'
    BY <1>1, <1>3 DEF RecoveryAccepted
<1>7. NoLeakedTags'
    <2>1. Protected' = Protected /\ Superseded(validated)' = Superseded(validated)
        BY <1>1 DEF Protected, Superseded, Inventory, Live
    <2>2. tags \subseteq Protected \cup Superseded(validated) \cup Owned(pendingTrial.candidate.owner)
        BY <1>2 DEF PublicationInv, DiskFits, NoLeakedTags
    <2>3. TrialCommitted => Owned(pendingTrial.candidate.owner) \subseteq Superseded(validated)
        BY <1>2, CommittedIsLive DEF TrialCommitted, Superseded
    <2> QED BY <1>1, <1>2, <2>1, <2>2, <2>3 DEF NoLeakedTags
<1>8. ProgramFits' /\ todo' \in Seq(Steps)
    <2>1. CASE Tail(todo) \in Retiring
        BY <1>1, <2>1, OnToCalls
    <2>2. CASE Tail(todo) \in Onward
        <3>1. Mentioned' \subseteq Mentioned
            BY <1>1 DEF Mentioned, Inventory
        <3>2. todo' \in Onward'
            BY <1>1, <2>2, <3>1, OnwardKept
        <3> QED BY <3>2, OnFromTrial
    <2> QED BY <1>2, <2>1, <2>2
<1>9. PublicationTypes'
    BY <1>1, <1>8 DEF PublicationInv, PublicationTypes
<1> QED BY <1>4, <1>5, <1>6, <1>7, <1>8, <1>9 DEF PublicationInv, DiskFits

-----------------------------------------------------------------------------
(* The theorem                                                              *)

LEMMA PublicationStarts == PublicationInit => PublicationInv
<1> SUFFICES ASSUME PublicationInit PROVE PublicationInv
    OBVIOUS
<1>1. PublicationTypes
    BY EmptySeq DEF PublicationInit, PublicationTypes
<1>2. RecordsFit /\ OwnersDiffer /\ CurrentRunnable /\ TrialUsable /\ RecoveryAccepted /\ PhaseTruthful
    BY DEF PublicationInit, RecordsFit, OwnersDiffer, CurrentRunnable, TrialUsable, RecoveryAccepted,
           PhaseTruthful, Live
<1>3. NoLeakedTags /\ ProgramFits
    BY DEF PublicationInit, NoLeakedTags, ProgramFits
<1> QED BY <1>1, <1>2, <1>3 DEF PublicationInv, DiskFits

LEMMA PublicationSteps == PublicationInv /\ [PublicationNext]_publicationVars => PublicationInv'
<1> SUFFICES ASSUME PublicationInv, [PublicationNext]_publicationVars PROVE PublicationInv'
    OBVIOUS
<1>1. CASE Begin
    BY <1>1, BeginKeeps
<1>2. CASE Execute
    BY <1>2, ReuseCurrentKeeps, BuildOrPromoteKeeps, ReuseTrialKeeps, BuildTrialKeeps, ExecutedKeeps
       DEF Execute
<1>3. CASE Call
    BY <1>3, PublishKeeps, PublishTrialKeeps, RecoverKeeps, RecoverTrialKeeps, RetireKeeps, DiscardKeeps,
       CleanupStorageKeeps, SweepKeeps DEF Call
<1>4. CASE Write
    <2>1. CASE Tag
        <3>1. At("tag") \/ At("untag")
            BY <2>1 DEF Tag
        <3> QED BY <2>1, <3>1, TagKeeps, UntagKeeps
    <2> QED BY <1>4, <2>1, WriteIntentKeeps, AdvancePhaseKeeps, RemoveIntentKeeps, PublishLockKeeps,
               CommitStateKeeps, PruneLocksKeeps, PruneStoreKeeps, WriteTrialIntentKeeps, CommitTrialKeeps,
               RemoveTrialIntentKeeps, NoteRetiredKeeps, SettleKeeps DEF Write
<1>5. CASE StepFails \/ Crash
    BY <1>5, StopKeeps
<1>6. CASE Calm
    BY <1>6, CalmKeeps
<1>7. CASE UNCHANGED publicationVars
    BY <1>7, StutterKeeps
<1> QED BY <1>1, <1>2, <1>3, <1>4, <1>5, <1>6, <1>7 DEF PublicationNext, Proceed

LEMMA RecordIsRecord ==
    ASSUME NEW r \in ValidatedBuilds, WellFormed(r)
    PROVE  IsRecord(r)
<1>1. DOMAIN r = {"owner", "cleanup", "storage", "discarded"}
    BY DEF ValidatedBuilds
<1>2. r.owner \in Generations /\ r.cleanup \subseteq Tags
    BY DEF ValidatedBuilds
<1>3. {r.storage, r.discarded} \subseteq BOOLEAN
    BY DEF ValidatedBuilds
<1>4. (r.discarded => r.storage) /\ (Live(r) => r.cleanup \cap Owned(r.owner) = {})
    BY DEF WellFormed, Live
<1> QED BY <1>1, <1>2, <1>3, <1>4 DEF IsRecord

LEMMA PublicationInvIsSound == PublicationInv => PublicationSound
<1> SUFFICES ASSUME PublicationInv PROVE PublicationSound
    OBVIOUS
<1>1. PublicationTypeOK
    <2>1. /\ current \in Generations \cup {None} /\ locks \subseteq Digests /\ objects \subseteq Digests
          /\ tags \subseteq Tags /\ faulty \in BOOLEAN
        BY DEF PublicationInv, PublicationTypes
    <2>2. ASSUME pending # None PROVE \E i \in DOMAIN Phases : pending.phase = Phases[i]
        <3>1. pending.phase \in {"validated", "generation-created", "lock-published", "state-committed", "cleanup"}
            BY <2>2, PendingTyped DEF PendingBuilds
        <3>2. DOMAIN Phases = 1..5
            BY DEF Phases
        <3>3. /\ Phases[1] = "validated" /\ Phases[2] = "generation-created" /\ Phases[3] = "lock-published"
              /\ Phases[4] = "state-committed" /\ Phases[5] = "cleanup"
            BY DEF Phases
        <3> HIDE DEF Phases
        <3>4. {1, 2, 3, 4, 5} \subseteq DOMAIN Phases
            BY <3>2
        <3> QED BY <3>1, <3>3, <3>4
    <2>3. validated # None => IsRecord(validated)
        BY RecordTypes, RecordIsRecord DEF PublicationInv, DiskFits, RecordsFit
    <2>4. pendingTrial # None => /\ IsRecord(pendingTrial.candidate)
                                 /\ pendingTrial.previous # None => IsRecord(pendingTrial.previous)
        BY RecordTypes, RecordIsRecord DEF PublicationInv, DiskFits, RecordsFit
    <2> QED BY <2>1, <2>2, <2>3, <2>4, PendingTyped DEF PublicationTypeOK
<1> QED BY <1>1 DEF PublicationSound, PublicationInv, DiskFits

\* In every behaviour, whatever fails and wherever a command dies, for any number
\* of builds: the current and the validated build can be used, a pending
\* publication can be resolved, its phase is true of the state, and every tag
\* has an owner on disk.
THEOREM PublicationIsSound == PublicationSpec => []PublicationSound
<1>1. PublicationInit => PublicationInv
    BY PublicationStarts
<1>2. PublicationInv /\ [PublicationNext]_publicationVars => PublicationInv'
    BY PublicationSteps
<1>3. PublicationInv => PublicationSound
    BY PublicationInvIsSound
<1> QED BY <1>1, <1>2, <1>3, PTL DEF PublicationSpec

=============================================================================
