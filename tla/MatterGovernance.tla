-------------------------- MODULE MatterGovernance --------------------------
(***************************************************************************)
(* How one Matter is changed, sealed, reported and approved.               *)
(*                                                                         *)
(* Every request reads the Matter, what it depends on and the head of the  *)
(* audit chain in separate queries, then writes one D1 batch.  SQL         *)
(* triggers refuse a batch whose facts no longer hold; the head of the     *)
(* chain and the receipt of the new revision are its optimistic lock.      *)
(* Manifests and output files are put into R2 before the batch and deleted *)
(* when the batch throws.                                                  *)
(*                                                                         *)
(* One slot of Clients is one request in flight.  Every action is the code *)
(* between two awaits; a request may stop anywhere.                        *)
(***************************************************************************)
EXTENDS Integers, Sequences, FiniteSets

CONSTANTS
    Clients,        \* slots for concurrent requests
    Actors,         \* active participants of the Matter
    Role,           \* the role of a participant
    Snapshots,      \* ids for sealed snapshots
    Outputs,        \* ids for governed outputs
    Formats,        \* output formats
    Asked,          \* the statuses clients ask for
    Start,          \* the revision at which the Matter entered internal review
    MaxRevision,    \* bound: no write is asked for beyond it
    MaxFaults,      \* bound: failed calls and lost answers
    None

Statuses == {"draft", "intake_review", "active", "awaiting_input", "internal_review",
             "output_approved", "closed", "archived", "declined", "cancelled"}
Roles == {"owner", "contributor", "reviewer", "viewer"}

ASSUME GovernanceAssumption ==
    /\ Actors \subseteq DOMAIN Role /\ \A a \in Actors : Role[a] \in Roles
    /\ Asked \subseteq Statuses
    /\ Start \in Nat /\ MaxRevision \in Nat /\ MaxFaults \in Nat
    /\ Start <= MaxRevision
    /\ Snapshots \cap Outputs = {}
    /\ None \notin Snapshots \cup Outputs \cup Formats \cup Actors

VARIABLES
    revision,   \* dossiers.revision
    status,     \* dossiers.status
    chain,      \* dossier_audit_events in sequence
    receipts,   \* dossier_revision_receipts
    snapshot,   \* dossier_snapshots, by id
    output,     \* dossier_governed_outputs and their latest state, by id
    approvals,  \* dossier_output_approvals
    bucket,     \* the objects in R2, by the id of their snapshot or output
    req,        \* what each request in flight holds in memory
    faults      \* faults so far

matter == <<revision, status, chain, receipts, snapshot, output, approvals>>
vars == <<matter, bucket, req, faults>>

-----------------------------------------------------------------------------
(* Records.                                                                *)

Revisions == Start .. MaxRevision

\* The audit events of one batch are one entry of the chain: the live revision, what
\* happened, to what, and the outputs it marks stale.  An approving transition refers to the
\* output it approves; by is the reviewer of such a transition or of an approval.
Events == [rev : Revisions, type : {"write", "transition", "sealed", "generated", "approved"},
           ref : Snapshots \cup Outputs \cup {None}, by : Actors \cup {None}, stale : SUBSET Outputs]

\* through: how much of the audit chain the manifest seals.
Sealed == [rev : Revisions, through : Nat]
Generated == [snapshot : Snapshots, format : Formats, state : {"current", "stale"}]

ASSUME NoneAssumption == None \notin Sealed \cup Generated

Ops == {"snapshot", "output", "approve", "write", "transition"}
Pcs == {"idle", "facts", "approvals", "manifest", "head", "put", "commit", "cleanup"}

Locals == [pc : Pcs, op : Ops, actor : Actors \cup {None}, rev : Revisions, status : Statuses,
           to : Statuses, about : Snapshots \cup Outputs \cup {None},
           format : Formats \cup {None}, current : SUBSET Outputs,
           approved : Outputs \cup {None}, through : Nat, head : Nat, alone : BOOLEAN,
           id : Snapshots \cup Outputs \cup {None}]

Blank == [pc |-> "idle", op |-> "write", actor |-> None, rev |-> Start,
          status |-> "internal_review", to |-> "active", about |-> None, format |-> None,
          current |-> {}, approved |-> None, through |-> 0, head |-> 0, alone |-> TRUE,
          id |-> None]

-----------------------------------------------------------------------------
(* The registry of status transitions and the roles that may take them.    *)

Everyone == {"owner", "contributor", "reviewer"}
Leads == {"owner", "reviewer"}
Drafters == {"owner", "contributor"}
OwnerOnly == {"owner"}

Registry ==
    {<<"draft", "intake_review", Drafters>>, <<"draft", "declined", Leads>>,
     <<"draft", "cancelled", OwnerOnly>>,
     <<"intake_review", "draft", Everyone>>, <<"intake_review", "active", Leads>>,
     <<"intake_review", "awaiting_input", Everyone>>, <<"intake_review", "declined", Leads>>,
     <<"intake_review", "cancelled", OwnerOnly>>,
     <<"active", "awaiting_input", Everyone>>, <<"active", "internal_review", Everyone>>,
     <<"active", "closed", Leads>>, <<"active", "cancelled", OwnerOnly>>,
     <<"awaiting_input", "active", Everyone>>, <<"awaiting_input", "internal_review", Everyone>>,
     <<"awaiting_input", "cancelled", OwnerOnly>>,
     <<"internal_review", "active", Everyone>>,
     <<"internal_review", "awaiting_input", Everyone>>,
     <<"internal_review", "output_approved", {"reviewer"}>>,
     <<"internal_review", "closed", Leads>>,
     <<"output_approved", "active", Leads>>, <<"output_approved", "closed", Leads>>,
     <<"output_approved", "cancelled", OwnerOnly>>}
    \cup ({"closed", "declined", "cancelled"} \X {"active", "archived"} \X {Leads})
    \cup {<<"archived", "active", Leads>>}

\* dossierStatusTransitionDecision, for a request that carries its reason.
Allowed(from, to, role, hasCurrent, hasApproval) ==
    /\ \E roles \in SUBSET Roles : <<from, to, roles>> \in Registry /\ role \in roles
    /\ to = "output_approved" => hasCurrent /\ hasApproval

-----------------------------------------------------------------------------
(* The tables.                                                             *)

Current == {o \in Outputs : output[o] # None /\ output[o].state = "current"}
ApprovedBy(a) == {o \in Outputs : <<o, a>> \in approvals}
SomeoneApproved == {o \in Outputs : \E a \in Actors : <<o, a>> \in approvals}

\* Ids are random: a fresh one is in no row, no object and no request.
Unused(S) == {x \in S : x \notin bucket /\ \A c \in Clients : req[c].id # x}
FreshSnapshots == {s \in Unused(Snapshots) : snapshot[s] = None}
FreshOutputs == {o \in Unused(Outputs) : output[o] = None}

Event(r, type, ref, a, S) ==
    [rev |-> r, type |-> type, ref |-> ref, by |-> a, stale |-> S]

-----------------------------------------------------------------------------
(* A request.                                                              *)

Read(c, op, a) ==
    [Blank EXCEPT !.pc = "facts", !.op = op, !.actor = a, !.rev = revision, !.status = status]

Become(c, q) == req' = [req EXCEPT ![c] = q]
\* The same when a batch was applied: no other request is alone any more.
BecomeApplied(c, q) ==
    req' = [d \in Clients |-> IF d = c THEN q
                              ELSE [req[d] EXCEPT !.alone = req[d].pc = "idle"]]
Answer(c) == Become(c, Blank)
Open(c) == req[c].pc = "idle"
Quiet == UNCHANGED <<matter, bucket, faults>>

\* Who seals, generates or writes makes no difference; who approves does.
BeginSnapshot(c) ==
    /\ Open(c) /\ \E a \in Actors : Role[a] \in Everyone
    /\ \E s \in FreshSnapshots :
            Become(c, [Read(c, "snapshot", None) EXCEPT !.id = s])
    /\ Quiet

\* The snapshot must be sealed at the revision just read; the list of outputs is read first.
BeginOutput(c, s, f) ==
    /\ Open(c) /\ \E a \in Actors : Role[a] \in Everyone
    /\ snapshot[s] # None /\ snapshot[s].rev = revision
    /\ \E o \in FreshOutputs :
            Become(c, [Read(c, "output", None) EXCEPT !.about = s, !.format = f, !.id = o,
                           !.current = {p \in Outputs : output[p] # None}])
    /\ Quiet

BeginApproval(c, a, o) ==
    /\ Open(c) /\ Role[a] = "reviewer"
    /\ output[o] # None /\ snapshot[output[o].snapshot].rev = revision
    /\ Become(c, [Read(c, "approve", a) EXCEPT !.about = o])
    /\ Quiet

\* An update of the Matter's own fields.
BeginWrite(c) ==
    /\ Open(c) /\ \E a \in Actors : Role[a] \in Drafters
    /\ revision + faults < MaxRevision
    /\ Become(c, Read(c, "write", None))
    /\ Quiet

BeginTransition(c, a, to) ==
    /\ Open(c) /\ Role[a] \in Everyone
    /\ revision + faults < MaxRevision
    /\ Become(c, [Read(c, "transition", a) EXCEPT !.to = to])
    /\ Quiet

\* createDossierSnapshot reads the audit chain it will seal; an event of a later revision
\* makes the boundary invalid.
SealedBoundary(c) ==
    /\ req[c].op = "snapshot"
    /\ IF \E i \in DOMAIN chain : chain[i].rev > req[c].rev
       THEN Answer(c)
       ELSE Become(c, [req[c] EXCEPT !.pc = "head", !.through = Len(chain)])

\* generateDossierGovernedOutput reads the states of the outputs it listed: one in this
\* format is returned as it is, those of other snapshots will be marked stale.
OutputFacts(c) ==
    /\ req[c].op = "output"
    /\ LET current == req[c].current \cap Current
           same == {o \in current : output[o].snapshot = req[c].about}
       IN  IF \E o \in same : output[o].format = req[c].format
           THEN Answer(c)
           ELSE Become(c, [req[c] EXCEPT !.pc = "manifest", !.current = current \ same])

\* approveDossierGovernedOutput
ApprovalFacts(c) ==
    /\ req[c].op = "approve"
    /\ CASE req[c].about \notin Current -> Answer(c)
         [] req[c].about \in Current /\ <<req[c].about, req[c].actor>> \in approvals ->
                Answer(c)
         [] OTHER -> Become(c, [req[c] EXCEPT !.pc = "head"])

\* Mistaken: the update does not look for outputs.
StaleFactsSkipped(c) ==
    /\ req[c].op = "write"
    /\ Become(c, [req[c] EXCEPT !.pc = "head"])

\* currentOutputStates of an update: all current outputs will be marked stale.
StaleFacts(c) ==
    /\ req[c].op = "write"
    /\ Become(c, [req[c] EXCEPT !.pc = "head", !.current = Current])

\* currentOutputFacts of a transition reads the states, then this actor's approvals of the
\* current outputs.
TransitionFacts(c) ==
    /\ req[c].op = "transition"
    /\ Become(c, [req[c] EXCEPT !.pc = "approvals", !.current = Current])

ReadFacts(c) ==
    /\ req[c].pc = "facts"
    /\ \/ SealedBoundary(c)
       \/ OutputFacts(c)
       \/ ApprovalFacts(c)
       \/ StaleFacts(c)
       \/ TransitionFacts(c)
    /\ Quiet

\* The approval taken is the latest of the actor's; the decision needs the facts.
Decide(c) ==
    /\ req[c].pc = "approvals"
    /\ LET mine == req[c].current \cap ApprovedBy(req[c].actor)
       IN  IF Allowed(req[c].status, req[c].to, Role[req[c].actor], req[c].current # {}, mine # {})
           THEN \E o \in IF mine = {} THEN {None} ELSE mine :
                    Become(c, [req[c] EXCEPT !.pc = "head", !.approved = o])
           ELSE Answer(c)
    /\ Quiet

\* readAndVerifySnapshotManifest
ReadManifest(c) ==
    /\ req[c].pc = "manifest"
    /\ IF req[c].about \in bucket
       THEN Become(c, [req[c] EXCEPT !.pc = "head"])
       ELSE Answer(c)
    /\ Quiet

\* prepareDossierAuditEvents: the new events are chained to the last one.
PrepareAudit(c) ==
    /\ req[c].pc = "head"
    /\ Become(c, [req[c] EXCEPT !.head = Len(chain),
                      !.pc = IF req[c].op \in {"snapshot", "output"} THEN "put" ELSE "commit"])
    /\ Quiet

Fault == faults < MaxFaults /\ faults' = faults + 1

\* putVerifiedPrivateObject; a put whose answer is lost leaves the object.
Put(c) ==
    /\ req[c].pc = "put"
    /\ \/ /\ bucket' = bucket \cup {req[c].id}
          /\ Become(c, [req[c] EXCEPT !.pc = "commit"])
          /\ UNCHANGED faults
       \/ /\ Fault
          /\ bucket' \in {bucket, bucket \cup {req[c].id}}
          /\ Answer(c)
    /\ UNCHANGED matter

-----------------------------------------------------------------------------
(* The batches and the triggers that guard them.                           *)

\* Mistaken: the event need not be of the live revision.
ExtendsHead(c, r, live) == req[c].head = Len(chain)

\* dossier_audit_events_chain_guard: the live revision and the latest predecessor.
ExtendsChain(c, r, live) == r = live /\ req[c].head = Len(chain)

\* Only a current output can get a stale receipt.
AllStillCurrent(S) == S \subseteq Current

\* Mistaken: the receipts are never written.
StaleUnwritten(S) == output

Stale(S) == [o \in Outputs |-> IF o \in S THEN [output[o] EXCEPT !.state = "stale"] ELSE output[o]]

SealAccepted(c) ==
    /\ ExtendsChain(c, req[c].rev, revision)
    /\ req[c].status = status

Seal(c) ==
    /\ req[c].op = "snapshot" /\ SealAccepted(c)
    /\ snapshot' = [snapshot EXCEPT ![req[c].id] = [rev |-> req[c].rev, through |-> req[c].through]]
    /\ chain' = Append(chain, Event(revision, "sealed", req[c].id, None, {}))
    /\ UNCHANGED <<revision, status, receipts, output, approvals>>

GenerateAccepted(c) ==
    /\ ExtendsChain(c, req[c].rev, revision)
    /\ snapshot[req[c].about].rev = revision
    /\ AllStillCurrent(req[c].current)

Generate(c) ==
    /\ req[c].op = "output" /\ GenerateAccepted(c)
    /\ output' = [Stale(req[c].current) EXCEPT ![req[c].id] =
                    [snapshot |-> req[c].about, format |-> req[c].format, state |-> "current"]]
    /\ chain' = Append(chain, Event(revision, "generated", req[c].id, None, req[c].current))
    /\ UNCHANGED <<revision, status, receipts, snapshot, approvals>>

ApproveAccepted(c) ==
    /\ ExtendsChain(c, req[c].rev, revision)
    /\ req[c].about \in Current
    /\ <<req[c].about, req[c].actor>> \notin approvals

\* Mistaken: the columns of the approval are swapped.
ApproveSwapped(c) ==
    /\ req[c].op = "approve" /\ ApproveAccepted(c)
    /\ approvals' = approvals \cup {<<req[c].actor, req[c].about>>}
    /\ chain' = Append(chain, Event(revision, "approved", req[c].about, req[c].actor, {}))
    /\ UNCHANGED <<revision, status, receipts, snapshot, output>>

Approve(c) ==
    /\ req[c].op = "approve" /\ ApproveAccepted(c)
    /\ approvals' = approvals \cup {<<req[c].about, req[c].actor>>}
    /\ chain' = Append(chain, Event(revision, "approved", req[c].about, req[c].actor, {}))
    /\ UNCHANGED <<revision, status, receipts, snapshot, output>>

\* UPDATE dossiers ... WHERE revision = expected: no row may match, and the batch goes on.
Moved(c) == IF revision = req[c].rev THEN req[c].rev + 1 ELSE revision

\* Mistaken: a revision may get a second receipt.
ReceiptRepeated(r, S) == Current \ S = {}

\* Mistaken: outputs may stay current.
ReceiptForgetful(r, S) == r \notin receipts

\* dossier_revision_receipts: one receipt a revision, and no output stays current.
ReceiptAccepted(r, S) == r \notin receipts /\ Current \ S = {}

WriteAccepted(c) ==
    /\ ExtendsChain(c, req[c].rev + 1, Moved(c))
    /\ AllStillCurrent(req[c].current)
    /\ ReceiptAccepted(req[c].rev + 1, req[c].current)

Write(c) ==
    /\ req[c].op = "write" /\ WriteAccepted(c)
    /\ revision' = Moved(c)
    /\ output' = Stale(req[c].current)
    /\ chain' = Append(chain, Event(req[c].rev + 1, "write", None, None, req[c].current))
    /\ receipts' = receipts \cup {req[c].rev + 1}
    /\ UNCHANGED <<status, snapshot, approvals>>

\* The approval transition keeps the outputs of the approved snapshot.
ToStale(c) == IF req[c].to = "output_approved" THEN {} ELSE req[c].current
Approving(c) == req[c].to = "output_approved"

\* dossier_status_transitions_insert_guard and the receipt: the edge binds the live revision
\* and status, and the facts read earlier are those of the tables now.
TransitionAccepted(c) ==
    /\ revision = req[c].rev /\ status = req[c].status
    /\ (req[c].current # {}) = (Current # {})
    /\ (req[c].approved # None) = (Current \cap SomeoneApproved # {})
    /\ Approving(c) => req[c].approved \in Current \cap ApprovedBy(req[c].actor)
    /\ ExtendsChain(c, req[c].rev + 1, Moved(c))
    /\ AllStillCurrent(ToStale(c))
    /\ req[c].rev + 1 \notin receipts
    /\ IF Approving(c)
       THEN \A o \in Current : output[o].snapshot = output[req[c].approved].snapshot
       ELSE Current \ ToStale(c) = {}

Transition(c) ==
    /\ req[c].op = "transition" /\ TransitionAccepted(c)
    /\ revision' = Moved(c)
    /\ status' = req[c].to
    /\ output' = Stale(ToStale(c))
    /\ chain' = Append(chain, Event(req[c].rev + 1, "transition",
                              IF Approving(c) THEN req[c].approved ELSE None,
                              IF Approving(c) THEN req[c].actor ELSE None, ToStale(c)))
    /\ receipts' = receipts \cup {req[c].rev + 1}
    /\ UNCHANGED <<snapshot, approvals>>

Applied(c) == Seal(c) \/ Generate(c) \/ Approve(c) \/ Write(c) \/ Transition(c)

Accepted(c) ==
    CASE req[c].op = "snapshot"   -> SealAccepted(c)
      [] req[c].op = "output"     -> GenerateAccepted(c)
      [] req[c].op = "approve"    -> ApproveAccepted(c)
      [] req[c].op = "write"      -> WriteAccepted(c)
      [] req[c].op = "transition" -> TransitionAccepted(c)

\* The handlers take whatever the batch throws for a conflict; objects are cleaned up first.
Thrown(c) == IF req[c].op \in {"snapshot", "output"} THEN [req[c] EXCEPT !.pc = "cleanup"] ELSE Blank

Commit(c) ==
    /\ req[c].pc = "commit"
    /\ Applied(c)
    /\ BecomeApplied(c, Blank)
    /\ UNCHANGED <<bucket, faults>>

CommitRefused(c) ==
    /\ req[c].pc = "commit"
    /\ ~Accepted(c)
    /\ Become(c, Thrown(c))
    /\ Quiet

\* The call fails, or the batch was applied and its answer is lost.
CommitLost(c) ==
    /\ req[c].pc = "commit"
    /\ Fault
    /\ \/ Applied(c) /\ BecomeApplied(c, Thrown(c))
       \/ UNCHANGED matter /\ Become(c, Thrown(c))
    /\ UNCHANGED bucket

\* deleteVerifiedPrivateObject; when it cannot be verified the answer is an error.
Cleanup(c) ==
    /\ req[c].pc = "cleanup"
    /\ \/ /\ bucket' = bucket \ {req[c].id}
          /\ Answer(c)
          /\ UNCHANGED faults
       \/ /\ Fault
          /\ bucket' \in {bucket, bucket \ {req[c].id}}
          /\ Answer(c)
    /\ UNCHANGED matter

-----------------------------------------------------------------------------

Init ==
    /\ revision = Start
    /\ status = "internal_review"
    /\ chain = <<Event(Start, "transition", None, None, {})>>
    /\ receipts = {Start}
    /\ snapshot = [s \in Snapshots |-> None]
    /\ output = [o \in Outputs |-> None]
    /\ approvals = {}
    /\ bucket = {}
    /\ req = [c \in Clients |-> Blank]
    /\ faults = 0

BeginSome(c) ==
    \/ BeginSnapshot(c)
    \/ BeginWrite(c)
    \/ \E s \in Snapshots, f \in Formats : BeginOutput(c, s, f)
    \/ \E a \in Actors :
        \/ \E o \in Outputs : BeginApproval(c, a, o)
        \/ \E to \in Asked : BeginTransition(c, a, to)

Step(c) ==
    \/ BeginSome(c)
    \/ ReadFacts(c)
    \/ Decide(c)
    \/ ReadManifest(c)
    \/ PrepareAudit(c)
    \/ Put(c)
    \/ Commit(c)
    \/ CommitRefused(c)
    \/ CommitLost(c)
    \/ Cleanup(c)

Next == \E c \in Clients : Step(c)

Spec == Init /\ [][Next]_vars
-----------------------------------------------------------------------------
(* Properties.                                                             *)

\* Every variable holds a value of its kind.
TypeOK ==
    /\ revision \in Revisions /\ status \in Statuses
    /\ chain \in Seq(Events) /\ receipts \subseteq Revisions
    /\ snapshot \in [Snapshots -> Sealed \cup {None}]
    /\ output \in [Outputs -> Generated \cup {None}]
    /\ approvals \subseteq Outputs \X Actors
    /\ bucket \subseteq Snapshots \cup Outputs
    /\ req \in [Clients -> Locals] /\ faults \in 0 .. MaxFaults

Moves == {"write", "transition"}

\* Every revision was reached by one accepted write or transition, recorded in order, however
\* the audit head, the revision and the receipt were read and written by several requests.
ChainCoversRevisions ==
    /\ \A r \in Start .. revision :
            Cardinality({i \in DOMAIN chain : chain[i].type \in Moves /\ chain[i].rev = r}) = 1
    /\ \A i \in 1 .. Len(chain) - 1 : chain[i].rev <= chain[i + 1].rev
    /\ chain[Len(chain)].rev <= revision

\* The output the last transition approved, when the Matter has not moved since.
ApprovedOutput ==
    {chain[i].ref : i \in {j \in DOMAIN chain : chain[j].type = "transition" /\ chain[j].rev = revision}}
        \ {None}

\* A current output reports the live revision; only after the approval transition may it
\* trail by one, with the approved output's snapshot.
OutputsFresh ==
    \A o \in Current :
        \/ snapshot[output[o].snapshot].rev = revision
        \/ /\ snapshot[output[o].snapshot].rev = revision - 1
           /\ \E p \in ApprovedOutput : output[p].snapshot = output[o].snapshot

\* What a Matter was approved for is what the reviewer saw: nothing moved it between the seal
\* of the output's snapshot, the approval by the same actor and the transition.
ApprovedAsReviewed ==
    \A i \in DOMAIN chain :
        chain[i].type = "transition" /\ chain[i].ref # None =>
            \E j, k \in 1 .. i - 1 :
                /\ j < k
                /\ chain[j].type = "sealed" /\ chain[j].ref = output[chain[i].ref].snapshot
                /\ chain[k].type = "approved" /\ chain[k].ref = chain[i].ref
                /\ chain[k].by = chain[i].by
                /\ \A m \in j .. i - 1 : chain[m].type \notin Moves

\* A snapshot seals one state of the Matter: every move before the seal is inside its audit
\* boundary and at most of its revision, though revision, boundary and chain head are read
\* one after another.
SealCoversWrites ==
    \A i \in DOMAIN chain : chain[i].type = "sealed" =>
        \A j \in 1 .. i : chain[j].type \in Moves =>
            /\ j <= snapshot[chain[i].ref].through
            /\ chain[j].rev <= snapshot[chain[i].ref].rev

\* The audit chain tells each output's history: generated once, marked stale at most once and
\* later, and stale now exactly if marked.
ChainTellsOutputs ==
    \A o \in Outputs :
        LET born == {i \in DOMAIN chain : chain[i].type = "generated" /\ chain[i].ref = o}
            marked == {i \in DOMAIN chain : o \in chain[i].stale}
        IN  IF output[o] = None
            THEN born \cup marked = {}
            ELSE /\ Cardinality(born) = 1
                 /\ Cardinality(marked) = IF output[o].state = "stale" THEN 1 ELSE 0
                 /\ \A i \in born, j \in marked : i < j

\* A request that nobody disturbed since it read the Matter.
Undisturbed(c) == req[c].pc = "commit" /\ req[c].alone

\* What the handlers check is what the triggers check: an update, a seal, an output or an
\* approval that nobody disturbed is not refused.
UndisturbedSucceeds ==
    \A c \in Clients : Undisturbed(c) /\ req[c].op # "transition" => Accepted(c)

\* The registry lists every allowed edge: an allowed transition that nobody disturbed is
\* not refused.
UndisturbedTransitionSucceeds ==
    \A c \in Clients : Undisturbed(c) /\ req[c].op = "transition" => Accepted(c)

\* Every sealed snapshot has its manifest and every output its file.
ManifestsKept ==
    /\ \A s \in Snapshots : snapshot[s] # None => s \in bucket
    /\ \A o \in Outputs : output[o] # None => o \in bucket
=============================================================================
