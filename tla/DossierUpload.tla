--------------------------- MODULE DossierUpload ---------------------------
(***************************************************************************)
(* The upload of a document version into one Matter (dossier).             *)
(*                                                                         *)
(* An upload writes two stores that share no transaction: D1, where        *)
(* db.batch is atomic and SQL triggers guard every row, and the R2 bucket  *)
(* that holds the bytes.  A request reserves an upload intent, puts the    *)
(* object, then commits a version, the current pointer, the Matter's       *)
(* revision and the intent in one batch.  Requests run concurrently, stop  *)
(* anywhere, and clean up after one another.                               *)
(*                                                                         *)
(* One slot of Requests is one request in flight; an answered slot takes   *)
(* the next request.  Every action is the code between two awaits of       *)
(* executeDossierDocumentUpload and of what it calls.                      *)
(***************************************************************************)
EXTENDS Integers, FiniteSets, FiniteSetsExt

CONSTANTS
    Requests,       \* slots for concurrent requests
    UploadIds,      \* intent ids; an intent's object, version and new document carry its id
    Base,           \* the upload that made the Matter's first document
    Keys,           \* idempotency keys, one per (actor, Idempotency-Key)
    BaseKey,        \* the key Base was uploaded under
    Contents,       \* what a file can hold: its digest, media type and size
    Size,           \* bytes of a content
    Targets,        \* what clients upload to: NewDocument or the document of an upload
    NewDocument,
    None,
    TTL,            \* UPLOAD_INTENT_TTL_MS in clock units
    MaxCleanups,    \* MAX_CLEANUPS_PER_REQUEST
    MaxPending,     \* pending reservations of a Matter
    MaxDocuments,   \* documents of a Matter, provisional ones included
    MaxVersions,    \* versions of a document
    MaxMatterVersions,  \* versions of a Matter
    MaxBytes,       \* stored and reserved bytes of a Matter
    MaxRevision,    \* bound: the Matter's revision stops here
    MaxFaults       \* bound: failed calls, lost answers and killed requests

ASSUME ConstantsAssumption ==
    /\ Base \in UploadIds
    /\ BaseKey \notin Keys
    /\ Size \in [Contents -> Nat]
    /\ Targets \subseteq UploadIds \cup {NewDocument}
    /\ NewDocument \notin UploadIds
    /\ None \notin UploadIds \cup Contents
    /\ TTL \in Nat \ {0}
    /\ {MaxCleanups, MaxPending, MaxDocuments, MaxVersions, MaxMatterVersions, MaxBytes,
        MaxRevision, MaxFaults} \subseteq Nat
    /\ MaxRevision > 2
    /\ Contents # {}

VARIABLES
    revision,   \* dossiers.revision
    intent,     \* dossier_upload_intents, by id
    docs,       \* dossier_documents, by the upload that created them
    current,    \* dossier_document_current_versions
    version,    \* dossier_document_versions, by upload intent
    bucket,     \* the objects in R2, by upload intent
    req,        \* what each request in flight holds in memory
    faults      \* faults so far

ledger == <<revision, docs, current, version>>
vars == <<revision, intent, docs, current, version, bucket, req, faults>>

-----------------------------------------------------------------------------
(* Records.                                                                *)

Forms == [key : Keys \cup {BaseKey}, target : UploadIds \cup {NewDocument},
          expected : 1 .. MaxRevision - 1, content : Contents]

\* A Matter is created at revision 1; its first upload moved it to 2.
BaseRevision == 2

\* "unused" is an id no request has drawn, "removed" a row that was deleted.
IntentStates == {"unused", "pending", "committed", "deleting", "deleted", "removed"}

NoForm == [key |-> BaseKey, target |-> NewDocument, expected |-> 1,
           content |-> CHOOSE c \in Contents : TRUE]

\* left: clock units until expiresAt, -1 once the deadline is past.
Intents == [state : IntentStates, form : Forms, left : -1 .. TTL]

\* The first version of a document, and no other, is without a predecessor.
Versions ==
    {v \in [doc : UploadIds, ordinal : Nat \ {0}, predecessor : UploadIds \cup {None},
            revision : 1 .. MaxRevision] : v.ordinal = 1 <=> v.predecessor = None}

ASSUME NoneAssumption == None \notin Versions

CleanupPcs == {"cleanup", "claim", "reclaim", "delete", "finish", "finalize", "forget"}
Pcs == {"idle", "select", "sweep", "lookup", "relookup", "stage", "check", "put", "head", "commit",
        "batch", "recheck", "abort", "failed", "done"} \cup CleanupPcs

\* Where cleanupUploadIntent was called from.
Callers == {"sweep", "lookup", "expired", "writeFailed", "commitFailed"}

Replies == {"none", "created", "replayed", "revision_conflict", "upload_intent_conflict",
            "upload_intent_expired", "policy", "document_storage_unavailable",
            "document_commit_failed", "error"}

Locals == [pc : Pcs, form : Forms, seen : 1 .. MaxRevision, todo : SUBSET UploadIds,
           held : UploadIds \cup {None}, target : UploadIds \cup {None}, caller : Callers,
           current : UploadIds \cup {None}, reply : Replies]

Idle == [pc |-> "idle", form |-> NoForm, seen |-> 1, todo |-> {}, held |-> None,
         target |-> None, caller |-> "sweep", current |-> None, reply |-> "none"]

-----------------------------------------------------------------------------
(* The tables.                                                             *)

HasRow(i) == intent[i].state \in {"pending", "committed", "deleting", "deleted"}
Pending == {i \in UploadIds : intent[i].state = "pending"}

\* Mistaken: a key is free again once its upload was committed.
WithOpenKey(k) == {i \in UploadIds : HasRow(i) /\ intent[i].state # "committed"
                                        /\ intent[i].form.key = k}

WithKey(k) == {i \in UploadIds : HasRow(i) /\ intent[i].form.key = k}

\* The document an upload belongs to: a new document carries the upload's id.
DocOf(i) == IF intent[i].form.target = NewDocument THEN i ELSE intent[i].form.target

Committed == {i \in UploadIds : version[i] # None}
VersionsOf(d) == {i \in Committed : version[i].doc = d}
Bytes(S) == MapThenSumSet(LAMBDA i : Size[intent[i].form.content], S)

\* now >= expiresAt, as the coordinator and the triggers test it.
Expired(i) == intent[i].left <= 0
\* expiresAt < now, as the sweep selects it.
Overdue(i) == intent[i].left < 0

\* Mistaken: any request under the key resumes it.
SameKeyOnly(i, f) == intent[i].form.key = f.key

\* The binding digest covers the actor, the metadata, the content and the revision.
SameBinding(i, f) == intent[i].form = f

\* assertResumableIntent
Resumable(i, f) ==
    /\ SameBinding(i, f)
    /\ intent[i].state \in {"pending", "committed"}
    /\ docs[DocOf(i)] # "absent"
    /\ f.target = NewDocument /\ intent[i].state = "pending" => docs[DocOf(i)] = "provisional"

\* decideDossierUploadPolicy, on counts read before the batch.
PolicyAllows(f) ==
    /\ f.target = NewDocument =>
          Cardinality({d \in UploadIds : docs[d] = "final"}) < MaxDocuments
    /\ f.target # NewDocument => Cardinality(VersionsOf(f.target)) < MaxVersions
    /\ Cardinality(Committed) < MaxMatterVersions
    /\ Bytes(Committed) + Size[f.content] <= MaxBytes
    /\ Cardinality(Pending) < MaxPending

\* Mistaken: the policy check on counts read earlier is the only one.
StageUnderPolicyOnly(f) == WithKey(f.key) = {} /\ f.expected = revision

\* The insert triggers of dossier_upload_intents and dossier_documents.
StageGuard(f) ==
    /\ WithKey(f.key) = {}
    /\ f.expected = revision
    /\ Cardinality(Pending) < MaxPending
    /\ Bytes(Committed) + Bytes(Pending \ Committed) + Size[f.content] <= MaxBytes
    /\ f.target = NewDocument =>
          Cardinality({d \in UploadIds : docs[d] # "absent"}) < MaxDocuments

\* Mistaken: a claimed intent still commits.
CommitClaimed(i, predecessor) ==
    /\ intent[i].state # "committed"
    /\ revision = intent[i].form.expected
    /\ current[DocOf(i)] = predecessor

\* Mistaken: the revision read before the batch is trusted in it.
CommitAnyRevision(i, predecessor) ==
    /\ intent[i].state = "pending"
    /\ current[DocOf(i)] = predecessor

\* Mistaken: so is the predecessor.
CommitOnPending(i, predecessor) == intent[i].state = "pending"

\* The triggers the commit batch passes: the intent is pending, in time and unreferenced, the
\* Matter is at the expected revision, the predecessor is current, no quota is exceeded.
CommitGuard(i, predecessor) ==
    /\ intent[i].state = "pending"
    /\ ~Expired(i)
    /\ version[i] = None
    /\ revision = intent[i].form.expected
    /\ current[DocOf(i)] = predecessor
    /\ docs[DocOf(i)] # "absent"
    /\ Cardinality(VersionsOf(DocOf(i))) < MaxVersions
    /\ Cardinality(Committed) < MaxMatterVersions
    /\ Bytes(Committed) + Bytes(Pending \ Committed) <= MaxBytes

\* Mistaken: the versions there are, without the new one.
OrdinalReached(predecessor) ==
    IF predecessor = None THEN 0 ELSE version[predecessor].ordinal

NextOrdinal(predecessor) ==
    IF predecessor = None THEN 1 ELSE version[predecessor].ordinal + 1

-----------------------------------------------------------------------------
(* A request's control.                                                    *)

Step(r, from) == req[r].pc = from
Become(r, changed) == req' = [req EXCEPT ![r] = changed]
Go(r, to) == Become(r, [req[r] EXCEPT !.pc = to])

\* The answer; what the request held in memory goes with it.
Refuse(r, reply) == Become(r, [Idle EXCEPT !.pc = "done", !.reply = reply])
Accept(r, reply, i) ==
    Become(r, [Idle EXCEPT !.pc = "done", !.reply = reply, !.form = req[r].form, !.held = i])

\* Failed calls, lost answers and crashes spend the fault budget.
Spend == faults < MaxFaults /\ faults' = faults + 1
Charge(lost) == IF lost THEN Spend ELSE UNCHANGED faults

\* cleanupUploadIntent is called for i, and what its caller does when it returns.
CallCleanup(r, i, caller) ==
    Become(r, [req[r] EXCEPT !.pc = "cleanup", !.target = i, !.caller = caller,
                             !.todo = @ \ {i}])
CleanupReturns(r) ==
    \/ req[r].caller = "sweep" /\ Go(r, "sweep")
    \/ req[r].caller = "lookup" /\ Go(r, "relookup")
    \/ req[r].caller = "expired" /\ Refuse(r, "upload_intent_expired")
    \/ req[r].caller = "writeFailed" /\ Refuse(r, "document_storage_unavailable")
    \/ req[r].caller = "commitFailed" /\ Go(r, "failed")
\* An error in it: the sweep and the abort swallow it, elsewhere it ends the request.
CleanupThrows(r) ==
    IF req[r].caller \in {"lookup", "expired"} THEN Refuse(r, "error") ELSE CleanupReturns(r)
CleanupGoes(r, lost, to) ==
    Charge(lost) /\ IF lost THEN CleanupThrows(r) ELSE Go(r, to)

SetState(i, state) == intent' = [intent EXCEPT ![i].state = state]

\* A failed write is aborted under OBJECT_WRITE_FAILED.
FailWrite(r) == Become(r, [req[r] EXCEPT !.pc = "abort", !.caller = "writeFailed"])

-----------------------------------------------------------------------------
(* The request's steps, in the order of executeDossierDocumentUpload.      *)

\* The route reads the Matter and, for a version upload, its final document.  The client sends a
\* revision it has seen since Base.  The slot may hold the answer of an earlier request.
Arrive(r) ==
    /\ req[r].pc \in {"idle", "done"}
    /\ \E key \in Keys, target \in Targets, content \in Contents,
          expected \in BaseRevision .. IF revision < MaxRevision THEN revision ELSE revision - 1 :
          /\ target # NewDocument => docs[target] = "final"
          /\ Become(r, [Idle EXCEPT !.pc = "select", !.seen = revision,
                !.form = [key |-> key, target |-> target, expected |-> expected,
                          content |-> content]])
    /\ UNCHANGED <<ledger, intent, bucket, faults>>

\* Mistaken: interrupted cleanups are not taken up again.
PendingSweepCandidates == {i \in UploadIds : intent[i].state = "pending" /\ Overdue(i)}

\* cleanupExpiredUploadIntents selects the rows due, oldest deadline first.
SweepCandidates ==
    {i \in UploadIds : \/ intent[i].state = "pending" /\ Overdue(i)
                       \/ intent[i].state \in {"deleting", "deleted"}}

SelectSweep(r) ==
    /\ Step(r, "select")
    /\ \E S \in SUBSET SweepCandidates :
          /\ \/ S = SweepCandidates /\ Cardinality(S) <= MaxCleanups
             \/ Cardinality(S) = MaxCleanups
          /\ \A i \in S, j \in SweepCandidates \ S : intent[i].left <= intent[j].left
          /\ Become(r, [req[r] EXCEPT !.pc = "sweep", !.todo = S])
    /\ UNCHANGED <<ledger, intent, bucket, faults>>

\* The next candidate of the sweep, oldest deadline first.
SweepNext(r) ==
    /\ Step(r, "sweep")
    /\ \E i \in req[r].todo :
          /\ \A j \in req[r].todo : intent[i].left <= intent[j].left
          /\ CallCleanup(r, i, "sweep")
    /\ UNCHANGED <<ledger, intent, bucket, faults>>

\* The intent the key is bound to, and what the request does with it.
Resume(r, i) ==
    IF ~Resumable(i, req[r].form) THEN Refuse(r, "upload_intent_conflict")
    ELSE IF intent[i].state = "committed"
    THEN Accept(r, "replayed", i)
    ELSE IF Expired(i) THEN CallCleanup(r, i, "expired")
    ELSE IF req[r].form.expected # req[r].seen THEN Refuse(r, "revision_conflict")
    ELSE Become(r, [req[r] EXCEPT !.pc = "check", !.held = i])

NoIntent(r) ==
    IF req[r].form.expected # req[r].seen THEN Refuse(r, "revision_conflict")
    ELSE IF ~PolicyAllows(req[r].form) THEN Refuse(r, "policy")
    ELSE Go(r, "stage")

Lookup(r) ==
    /\ Step(r, "sweep") /\ req[r].todo = {}
    /\ \/ WithKey(req[r].form.key) = {} /\ NoIntent(r)
       \/ \E i \in WithKey(req[r].form.key) :
             IF intent[i].state \in {"deleting", "deleted"}
             THEN CallCleanup(r, i, "lookup")
             ELSE Resume(r, i)
    /\ UNCHANGED <<ledger, intent, bucket, faults>>

\* The second look, after a row being deleted was cleaned up.
Relookup(r) ==
    /\ Step(r, "relookup")
    /\ \/ WithKey(req[r].form.key) = {} /\ NoIntent(r)
       \/ \E i \in WithKey(req[r].form.key) : Resume(r, i)
    /\ UNCHANGED <<ledger, intent, bucket, faults>>

\* stageOrResumeUploadIntent: one batch inserts the provisional document and the intent; when
\* it fails the key is looked up again.  The ids are drawn at random.
Stage(r) ==
    /\ Step(r, "stage")
    /\ LET f == req[r].form
           fresh == {i \in UploadIds : intent[i].state = "unused"}
       IN  \/ /\ StageGuard(f)
              /\ \E i \in fresh :
                    /\ intent' = [intent EXCEPT ![i] =
                                    [state |-> "pending", form |-> f, left |-> TTL]]
                    /\ docs' = IF f.target = NewDocument
                               THEN [docs EXCEPT ![i] = "provisional"] ELSE docs
                    /\ Become(r, [req[r] EXCEPT !.pc = "check", !.held = i])
              /\ UNCHANGED faults
           \/ /\ WithKey(f.key) # {}
              /\ \E i \in WithKey(f.key) :
                    IF Resumable(i, f)
                    THEN Become(r, [req[r] EXCEPT !.pc = "check", !.held = i])
                    ELSE Refuse(r, "upload_intent_conflict")
              /\ UNCHANGED <<intent, docs, faults>>
           \/ /\ WithKey(f.key) = {}
              /\ \/ (~StageGuard(f) \/ fresh = {}) /\ UNCHANGED faults
                 \/ Spend
              /\ Refuse(r, "upload_intent_conflict")
              /\ UNCHANGED <<intent, docs>>
    /\ UNCHANGED <<revision, current, version, bucket>>

\* committedUpload before the write: a concurrent request may have committed the intent.
CheckCommitted(r) ==
    /\ Step(r, "check")
    /\ IF version[req[r].held] # None THEN Accept(r, "replayed", req[r].held) ELSE Go(r, "put")
    /\ UNCHANGED <<ledger, intent, bucket, faults>>

\* putVerifiedPrivateObject: put unless an object is there.  A put that fails may have stored it.
Put(r, lost) ==
    /\ Step(r, "put")
    /\ LET i == req[r].held
           stored == [bucket EXCEPT ![i] = IF @ = None THEN req[r].form.content ELSE @]
       IN  IF lost
           THEN Spend /\ bucket' \in {bucket, stored} /\ FailWrite(r)
           ELSE /\ bucket' = stored
                /\ Go(r, IF bucket[i] = None THEN "commit" ELSE "head")
                /\ UNCHANGED faults
    /\ UNCHANGED <<ledger, intent>>

\* The object that was there is verified; a cleanup may have deleted it since.
HeadObject(r) ==
    /\ Step(r, "head")
    /\ IF bucket[req[r].held] = req[r].form.content THEN Go(r, "commit") ELSE FailWrite(r)
    /\ UNCHANGED <<ledger, intent, bucket, faults>>

\* What commitUploadIntent reads and decides before its batch.
PrepareCommit(r) ==
    /\ Step(r, "commit")
    /\ LET i == req[r].held
           d == DocOf(i)
       IN  IF /\ revision = req[r].form.expected
              /\ (current[d] = None) = (req[r].form.target = NewDocument)
              /\ ~Expired(i)
              /\ version[i] = None
           THEN Become(r, [req[r] EXCEPT !.pc = "batch", !.current = current[d]])
           ELSE Go(r, "recheck")
    /\ UNCHANGED <<ledger, intent, bucket, faults>>

\* The rows the batch writes: the version, the pointer, the document, the revision, the intent.
CommitRows(i, predecessor) ==
    /\ version' = [version EXCEPT ![i] =
          [doc |-> DocOf(i), ordinal |-> NextOrdinal(predecessor),
           predecessor |-> predecessor, revision |-> intent[i].form.expected + 1]]
    /\ current' = [current EXCEPT ![DocOf(i)] = i]
    /\ docs' = [docs EXCEPT ![DocOf(i)] = "final"]
    /\ revision' = intent[i].form.expected + 1
    /\ SetState(i, "committed")

\* The batch: all of it or nothing.  It may throw although it was applied.
CommitBatch(r, lost) ==
    /\ Step(r, "batch")
    /\ Charge(lost)
    /\ IF CommitGuard(req[r].held, req[r].current)
       THEN /\ CommitRows(req[r].held, req[r].current)
            /\ IF lost THEN Go(r, "recheck") ELSE Accept(r, "created", req[r].held)
       ELSE Go(r, "recheck") /\ UNCHANGED <<ledger, intent>>
    /\ UNCHANGED bucket

\* committedUpload after the commit threw.
Recheck(r) ==
    /\ Step(r, "recheck")
    /\ IF version[req[r].held] # None
       THEN Accept(r, "created", req[r].held)
       ELSE Become(r, [req[r] EXCEPT !.pc = "abort", !.caller = "commitFailed"])
    /\ UNCHANGED <<ledger, intent, bucket, faults>>

\* Mistaken: the update is not conditional on "pending".
AbortAnyState(r, lost) ==
    /\ Step(r, "abort")
    /\ Charge(lost)
    /\ SetState(req[r].held, "deleting")
    /\ IF lost THEN CleanupReturns(r) ELSE CallCleanup(r, req[r].held, req[r].caller)
    /\ UNCHANGED <<ledger, bucket>>

\* failAndCleanupUploadIntent: the claim is a compare-and-set on "pending".
Abort(r, lost) ==
    /\ Step(r, "abort")
    /\ Charge(lost)
    /\ IF intent[req[r].held].state = "pending"
       THEN SetState(req[r].held, "deleting") ELSE UNCHANGED intent
    /\ IF lost THEN CleanupReturns(r) ELSE CallCleanup(r, req[r].held, req[r].caller)
    /\ UNCHANGED <<ledger, bucket>>

\* The revision decides how a failed commit is answered.
AnswerFailed(r) ==
    /\ Step(r, "failed")
    /\ Refuse(r, IF revision = req[r].form.expected
                 THEN "document_commit_failed" ELSE "revision_conflict")
    /\ UNCHANGED <<ledger, intent, bucket, faults>>

-----------------------------------------------------------------------------
(* cleanupUploadIntent, one action per storage call.                       *)

ReadLive(r) ==
    /\ Step(r, "cleanup")
    /\ LET i == req[r].target
           referenced == version[i] # None
       IN  IF intent[i].state = "deleted" THEN Go(r, "finalize")
           ELSE IF intent[i].state = "deleting" /\ ~referenced THEN Go(r, "reclaim")
           ELSE IF intent[i].state = "pending" /\ ~referenced /\ Expired(i)
           THEN Go(r, "claim")
           ELSE CleanupReturns(r)
    /\ UNCHANGED <<ledger, intent, bucket, faults>>

Claim(r, lost) ==
    /\ Step(r, "claim")
    /\ IF intent[req[r].target].state = "pending"
       THEN SetState(req[r].target, "deleting") ELSE UNCHANGED intent
    /\ CleanupGoes(r, lost, "reclaim")
    /\ UNCHANGED <<ledger, bucket>>

ReadClaimed(r) ==
    /\ Step(r, "reclaim")
    /\ IF intent[req[r].target].state = "deleting" THEN Go(r, "delete") ELSE CleanupReturns(r)
    /\ UNCHANGED <<ledger, intent, bucket, faults>>

DeleteObject(r, lost) ==
    /\ Step(r, "delete")
    /\ bucket' = [bucket EXCEPT ![req[r].target] = None]
    /\ CleanupGoes(r, lost, "finish")
    /\ UNCHANGED <<ledger, intent>>

Finish(r, lost) ==
    /\ Step(r, "finish")
    /\ IF intent[req[r].target].state = "deleting"
       THEN SetState(req[r].target, "deleted") ELSE UNCHANGED intent
    /\ CleanupGoes(r, lost, "finalize")
    /\ UNCHANGED <<ledger, bucket>>

\* Mistaken: the document is taken for final and kept.
KeepDocument(r, lost) ==
    /\ Step(r, "finalize")
    /\ CleanupGoes(r, lost, "forget")
    /\ UNCHANGED <<ledger, intent, bucket>>

\* Whether a cleanup takes the document for provisional: the sweep reads it, every other caller
\* goes by its own request, also where the intent under its key was reserved by another one.
KnownProvisional(r) ==
    IF req[r].caller = "sweep" THEN docs[DocOf(req[r].target)] = "provisional"
    ELSE req[r].form.target = NewDocument

\* finalizeDeletedUploadIntentMetadata: the provisional document, and by the foreign key's
\* cascade its intent.
DeleteDocument(r, lost) ==
    /\ Step(r, "finalize")
    /\ LET i == req[r].target
           d == DocOf(i)
       IN  IF /\ KnownProvisional(r)
              /\ docs[d] = "provisional"
              /\ intent[i].state \in {"deleted", "removed"}
           THEN docs' = [docs EXCEPT ![d] = "absent"] /\ SetState(i, "removed")
           ELSE UNCHANGED <<docs, intent>>
    /\ CleanupGoes(r, lost, "forget")
    /\ UNCHANGED <<revision, current, version, bucket>>

DeleteIntent(r, lost) ==
    /\ Step(r, "forget")
    /\ IF intent[req[r].target].state = "deleted"
       THEN SetState(req[r].target, "removed") ELSE UNCHANGED intent
    /\ Charge(lost)
    /\ IF lost THEN CleanupThrows(r) ELSE CleanupReturns(r)
    /\ UNCHANGED <<ledger, bucket>>

-----------------------------------------------------------------------------
(* The environment.                                                        *)

\* A storage call fails and changes nothing: the code's catch blocks decide what follows.
CallFails(r) ==
    /\ Spend
    /\ \/ req[r].pc \in CleanupPcs /\ CleanupThrows(r)
       \/ Step(r, "head") /\ FailWrite(r)
       \/ Step(r, "commit") /\ Go(r, "recheck")
       \/ Step(r, "batch") /\ Go(r, "recheck")
       \/ Step(r, "abort") /\ CleanupReturns(r)
    /\ UNCHANGED <<ledger, intent, bucket>>

\* The request stops for good: an error nothing catches, or its worker is gone.
Crash(r) ==
    /\ Spend
    /\ req[r].pc \notin {"idle", "done"}
    /\ Refuse(r, "error")
    /\ UNCHANGED <<ledger, intent, bucket>>

\* Any other mutation of the Matter moves its revision.
OtherMutation ==
    /\ revision < MaxRevision
    /\ revision' = revision + 1
    /\ UNCHANGED <<intent, docs, current, version, bucket, req, faults>>

\* Time passes for every row whose deadline still matters.
Running(i) == intent[i].state \in {"pending", "deleting", "deleted"} /\ intent[i].left > -1
Tick ==
    /\ \E i \in UploadIds : Running(i)
    /\ intent' = [i \in UploadIds |->
          IF Running(i) THEN [intent[i] EXCEPT !.left = @ - 1] ELSE intent[i]]
    /\ UNCHANGED <<ledger, bucket, req, faults>>

-----------------------------------------------------------------------------

Init ==
    /\ revision = BaseRevision
    /\ intent = [i \in UploadIds |->
          [state |-> IF i = Base THEN "committed" ELSE "unused", form |-> NoForm, left |-> 0]]
    /\ docs = [d \in UploadIds |-> IF d = Base THEN "final" ELSE "absent"]
    /\ current = [d \in UploadIds |-> IF d = Base THEN Base ELSE None]
    /\ version = [i \in UploadIds |->
          IF i = Base
          THEN [doc |-> Base, ordinal |-> 1, predecessor |-> None, revision |-> BaseRevision]
          ELSE None]
    /\ bucket = [i \in UploadIds |-> IF i = Base THEN NoForm.content ELSE None]
    /\ req = [r \in Requests |-> Idle]
    /\ faults = 0

\* What a request does when its calls succeed.
Progress(r) ==
    \/ SelectSweep(r) \/ SweepNext(r) \/ Lookup(r) \/ Relookup(r)
    \/ Stage(r) \/ CheckCommitted(r) \/ Put(r, FALSE) \/ HeadObject(r) \/ PrepareCommit(r)
    \/ CommitBatch(r, FALSE) \/ Recheck(r) \/ Abort(r, FALSE) \/ AnswerFailed(r)
    \/ ReadLive(r) \/ Claim(r, FALSE) \/ ReadClaimed(r) \/ DeleteObject(r, FALSE)
    \/ Finish(r, FALSE) \/ DeleteDocument(r, FALSE) \/ DeleteIntent(r, FALSE)

Fault(r) ==
    \/ Put(r, TRUE) \/ CommitBatch(r, TRUE) \/ Abort(r, TRUE) \/ Claim(r, TRUE)
    \/ DeleteObject(r, TRUE) \/ Finish(r, TRUE) \/ DeleteDocument(r, TRUE)
    \/ DeleteIntent(r, TRUE) \/ CallFails(r) \/ Crash(r)

Next ==
    \/ \E r \in Requests : Arrive(r) \/ Progress(r) \/ Fault(r)
    \/ OtherMutation
    \/ Tick

Spec == Init /\ [][Next]_vars

\* Workers run, the clock runs, and the Matter keeps being uploaded to: a sweep is only ever
\* run by an upload.
Fairness ==
    /\ WF_vars(Tick)
    /\ \A r \in Requests : WF_vars(Progress(r)) /\ WF_vars(Arrive(r))

FairSpec == Spec /\ Fairness

-----------------------------------------------------------------------------
(* What the upload promises.                                               *)

\* Every variable has its type.
TypeOK ==
    /\ revision \in 1 .. MaxRevision
    /\ intent \in [UploadIds -> Intents]
    /\ docs \in [UploadIds -> {"absent", "provisional", "final"}]
    /\ current \in [UploadIds -> UploadIds \cup {None}]
    /\ version \in [UploadIds -> Versions \cup {None}]
    /\ bucket \in [UploadIds -> Contents \cup {None}]
    /\ req \in [Requests -> Locals]
    /\ faults \in 0 .. MaxFaults

\* What a request may rely on between its awaits, although others change the stores meanwhile:
\* the intent it holds carries its own form; past its verified put the object is there for as long
\* as the intent can commit; an object is deleted only under a claim; an answer is true.
RequestOK(q) ==
    /\ q.pc \in {"check", "put", "head", "commit", "batch", "recheck", "abort"} =>
          /\ q.held \in UploadIds
          /\ intent[q.held].state # "unused"
          /\ intent[q.held].form = q.form
    /\ q.pc \in {"commit", "batch"} /\ intent[q.held].state = "pending" =>
          bucket[q.held] = q.form.content
    /\ \A i \in q.todo : intent[i].state # "unused"
    /\ q.pc \in CleanupPcs => q.target \in UploadIds /\ intent[q.target].state # "unused"
    /\ q.pc = "delete" => intent[q.target].state \in {"deleting", "deleted", "removed"}
    /\ q.reply \in {"created", "replayed"} =>
          /\ q.pc = "done"
          /\ q.held \in Committed
          /\ intent[q.held].form = q.form

StepsJustified == \A r \in Requests : RequestOK(req[r])

\* A version in the ledger has its bytes in the bucket, whatever cleanups, aborts, late puts and
\* crashes ran beside its commit.
CommittedObjectKept ==
    \A i \in Committed :
        intent[i].state = "committed" /\ bucket[i] = intent[i].form.content

\* However often a key is retried, at once or after a failure, it commits one version.
OneUploadPerKey ==
    \A i, j \in Committed : intent[i].form.key = intent[j].form.key => i = j

\* Every version took a revision of its own, and a document's versions form one chain of
\* ordinals 1, 2, ... in the order of their revisions that ends in the current version.
LineageFollowsRevisions ==
    /\ \A i, j \in Committed :
          /\ version[i].revision = version[j].revision => i = j
          /\ version[i].doc = version[j].doc /\ version[i].revision < version[j].revision
                => version[i].ordinal < version[j].ordinal
    /\ \A i \in Committed :
          /\ version[i].revision <= revision
          /\ IF version[i].predecessor = None THEN version[i].ordinal = 1
             ELSE LET p == version[i].predecessor
                  IN  /\ p \in VersionsOf(version[i].doc)
                      /\ version[i].ordinal = version[p].ordinal + 1
    /\ \A d \in UploadIds : VersionsOf(d) # {} =>
          /\ current[d] \in VersionsOf(d)
          /\ version[current[d]].ordinal = Cardinality(VersionsOf(d))

\* A client told that its upload is in the Matter finds exactly what it sent there, also when
\* the version was committed by another request under its key.
SuccessIsCommitted ==
    \A r \in Requests : req[r].reply \in {"created", "replayed"} =>
        /\ req[r].held \in Committed
        /\ intent[req[r].held].form = req[r].form

\* A provisional document always has the uncommitted reservation that will finish or remove
\* it; a document without one is final and has a version.  (Of uploads that all make documents:
\* see StrandNothing for a key that is used again for another kind of upload.)
ReservationsTracked ==
    \A d \in UploadIds :
        /\ docs[d] = "provisional" <=>
              /\ intent[d].state \in {"pending", "deleting", "deleted"}
              /\ intent[d].form.target = NewDocument
        /\ docs[d] = "final" <=> VersionsOf(d) # {}

\* Concurrent requests that each passed the policy check never reserve more than the Matter's
\* quotas allow them together; nor do their commits make more versions, although reservations
\* for more of them were made.
QuotasHold ==
    /\ Cardinality(Pending) <= MaxPending
    /\ Bytes(Committed) + Bytes(Pending) <= MaxBytes
    /\ Cardinality({d \in UploadIds : docs[d] # "absent"}) <= MaxDocuments
    /\ \A d \in UploadIds : Cardinality(VersionsOf(d)) <= MaxVersions
    /\ Cardinality(Committed) <= MaxMatterVersions

\* What was committed is never undone or rewritten: not the version, not its intent, not its
\* object.
CommittedKept ==
    \A i \in Committed :
        /\ version'[i] = version[i]
        /\ intent'[i] = intent[i]
        /\ bucket'[i] = bucket[i]
CommittedIsFinal == [][CommittedKept]_vars

\* A reservation whose request died is settled by later uploads: committed by a retry, or its
\* object, document and row removed after the deadline.
ReservationsSettle ==
    \A i \in UploadIds \ {Base} :
        intent[i].state = "pending" ~> intent[i].state \in {"committed", "removed"}

\* The Matter as its clients see it: the accepted uploads after Base.
Ledger == INSTANCE MatterLedger WITH
    Entries <- Forms, Origin <- BaseRevision,
    log <- {intent[i].form : i \in Committed \ {Base}}

\* Four stores and the requests that write them, seen through the versions and the revision, are
\* one compare-and-set log: an upload is accepted at the revision it expected, once per key.
ImplementsLedger == Ledger!Spec

\* A request that cannot finish its cleanup leaves the intent "in a tracked retry-safe state", as
\* failAndCleanupUploadIntent says: an object always has the row through which it is cleaned up.
ObjectsTracked == \A i \in UploadIds : bucket[i] # None => HasRow(i)

\* "Interrupted new-upload cycles clean provisional documents without poisoning quota": a
\* provisional document has the row through which a later upload finds and removes it.
StrandNothing == \A d \in UploadIds : docs[d] = "provisional" => HasRow(d)
=============================================================================
