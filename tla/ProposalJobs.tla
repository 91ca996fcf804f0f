---------------------------- MODULE ProposalJobs ----------------------------
(***************************************************************************)
(* The generation of AI proposals for one Matter.                          *)
(*                                                                         *)
(* A request names the revision it was written against, a selection of     *)
(* document versions and an idempotency key.  Revision and selection name  *)
(* a durable job; a request leases it, calls the model under one of the    *)
(* few provider slots of the deployment, and commits proposals as the next *)
(* revision, or commits that there were none.  A job whose lease ran out,  *)
(* or that failed, is queued again for its next attempt while its earlier  *)
(* run may still wait for the model.  The planner of the Studio shares the *)
(* slots; a slot is a lease of 450 seconds that nobody renews, and the     *)
(* planner may make up to three calls under one.                           *)
(***************************************************************************)
EXTENDS Integers, FiniteSets

CONSTANTS
    Workers,       \* requests in flight
    Keys,          \* idempotency keys
    Selections,    \* selections of document versions
    MaxRevision,   \* bound: the last revision of the Matter
    Requests,      \* the requests that clients send
    Slots,         \* STUDIO_AI_MAX_IN_FLIGHT
    MaxAttempts,   \* DOSSIER_PROPOSAL_MAX_ATTEMPTS
    MaxActive,     \* the active-job quota of the insert guard
    MaxFaults,     \* bound: failed calls, lost answers and killed requests
    None           \* no key, no lease owner

Revisions == 1 .. MaxRevision
Jobs == Revisions \X Selections
Statuses == {"absent", "queued", "processing", "ready", "failed"}

ASSUME ProposalAssumption ==
    /\ MaxRevision \in Nat \ {0} /\ Slots \in Nat \ {0} /\ MaxFaults \in Nat
    /\ MaxAttempts \in Nat \ {0} /\ MaxActive \in Nat \ {0}
    /\ None \notin Workers /\ None \notin Keys /\ None \notin Jobs /\ IsFiniteSet(Workers)
    /\ Requests \subseteq [key : Keys, job : Jobs, retry : BOOLEAN] /\ Requests # {}

VARIABLES
    revision,     \* dossiers.revision
    receipt,      \* who made each revision: a job, or None for the other routes
    jobs,         \* dossier_ai_proposal_jobs, by revision and request digest
    proposed,     \* the jobs whose proposals are stored
    calls,        \* the calls to the model made for each job so far
    leased,       \* the requests in flight that have a row in studio_ai_leases
    abandoned,    \* rows of studio_ai_leases that no request will release
    req,          \* what each request in flight holds in memory
    faults        \* faults so far

proposalVars == <<revision, receipt, jobs, proposed, calls, leased, abandoned, req, faults>>

Rows == [status : Statuses, attempt : 0 .. MaxAttempts, owner : Workers \cup {None},
         live : BOOLEAN, key : Keys \cup {None}]

Pcs == {"idle", "find", "revision", "insert", "refind", "requeue", "reread", "claim",
        "confirm", "work", "call", "commit", "commitNone", "fail",
        "plan", "fallback", "repair", "lastRepair"}

\* What a request was sent with, and what it last read of the job row.
Seen == [status : Statuses, attempt : 0 .. MaxAttempts, owner : Workers \cup {None}]
Runs == [pc : Pcs, sent : Requests, seen : Seen]

Read(row) == [status |-> row.status, attempt |-> row.attempt, owner |-> row.owner]

\* A row without a lease, and one that a request leased.
Unowned(status, attempt, key) ==
    [status |-> status, attempt |-> attempt, owner |-> None, live |-> FALSE, key |-> key]
Settled(row, status) == Unowned(status, row.attempt, row.key)
Leased(row, w) ==
    [status |-> "processing", attempt |-> row.attempt, owner |-> w, live |-> TRUE, key |-> row.key]

Absent == Unowned("absent", 0, None)

-----------------------------------------------------------------------------

At(w, pc) == req[w].pc = pc
Goto(w, pc) == req' = [req EXCEPT ![w].pc = pc]
JobOf(w) == req[w].sent.job

\* On with a row that was just read.
With(w, row, pc) ==
    req' = [req EXCEPT ![w] = [pc |-> pc, sent |-> req[w].sent, seen |-> Read(row)]]

\* The request is answered, or gone: nothing of it is left in memory.
Rest == [pc |-> "idle", sent |-> CHOOSE q \in Requests : TRUE, seen |-> Read(Absent)]
Done(w) == req' = [req EXCEPT ![w] = Rest]
Or(w, over, pc) == IF over THEN Done(w) ELSE Goto(w, pc)
Row(w) == jobs[JobOf(w)]

Risk == faults < MaxFaults /\ faults' = faults + 1
Charge(lost) == IF lost THEN Risk ELSE UNCHANGED faults

Put(j, row) == jobs' = [jobs EXCEPT ![j] = row]

\* The job found by the key, else by revision and digest; None when there is none.
Found(q) ==
    LET byKey == {j \in Jobs : jobs[j].key = q.key}
    IN  IF byKey # {} THEN CHOOSE j \in byKey : TRUE
        ELSE IF jobs[q.job].status # "absent" THEN q.job ELSE None

\* The run that may settle its job: the row is processing under its attempt and owner id.
\* A worker holds at most one row of an attempt, so the pair stands for the random id.
Owns(w) ==
    Row(w).status = "processing" /\ Row(w).owner = w /\ Row(w).attempt = req[w].seen.attempt

Active == {j \in Jobs : jobs[j].status \in {"queued", "processing"}}

\* The calls of the planner: its first, the one without the strict schema after the provider
\* refused it, and the repair of a plan that is no valid graph.
Planning == {"plan", "fallback", "repair", "lastRepair"}

\* Proposals call once, for 45 seconds at most; the planner's first call and its repair take 300
\* and 120, and a fallback another 300.  With one the lease of 450 seconds may end under it.
Overlong == {"fallback", "lastRepair"}

Calling == {w \in Workers : req[w].pc \in Planning \cup {"call"}}
Covered == {w \in Calling : req[w].pc \notin Overlong}

-----------------------------------------------------------------------------
(* Finding, queueing and claiming the job, one action per statement.       *)

Arrive(w) ==
    /\ At(w, "idle")
    /\ \E q \in Requests :
          /\ q.job[1] <= revision
          /\ req' = [req EXCEPT ![w] = [pc |-> "find", sent |-> q, seen |-> Read(Absent)]]
    /\ UNCHANGED <<revision, receipt, jobs, proposed, calls, leased, abandoned, faults>>

\* After a job was read: another request's job under this key is a conflict; a job that is
\* ready, leased, or failed and not to be retried answers the request.
Consider(w, next) ==
    LET q == req[w].sent
        j == Found(q)
    IN  IF j = None THEN Or(w, next = "insert", next)
        ELSE IF \/ j # q.job
                \/ jobs[j].status = "ready"
                \/ jobs[j].status = "processing" /\ jobs[j].live
                \/ jobs[j].status = "failed" /\ ~q.retry
        THEN Done(w)
        ELSE With(w, jobs[j], IF next = "revision" THEN "revision"
                              ELSE IF jobs[j].status = "queued" THEN "claim" ELSE "requeue")

\* The route, the coordinator and the claim each read the job; ready jobs and bindings are
\* final, so the last of the reads decides what the earlier ones would.
Find(w) ==
    /\ At(w, "find")
    /\ Consider(w, "revision")
    /\ UNCHANGED <<revision, receipt, jobs, proposed, calls, leased, abandoned, faults>>

CheckRevision(w) ==
    /\ At(w, "revision")
    /\ Or(w, JobOf(w)[1] # revision,
          CASE req[w].seen.status = "absent" -> "insert"
            [] req[w].seen.status = "queued" -> "claim"
            [] OTHER -> "requeue")
    /\ UNCHANGED <<revision, receipt, jobs, proposed, calls, leased, abandoned, faults>>

\* The insert guard and the unique indexes: the current revision, a free place, a new key and
\* digest.  Any error is taken for a job that is there already.
Insert(w, lost) ==
    /\ At(w, "insert")
    /\ Charge(lost)
    /\ LET queued == Unowned("queued", 1, req[w].sent.key)
           free == /\ JobOf(w)[1] = revision
                   /\ Cardinality(Active) < MaxActive
                   /\ Found(req[w].sent) = None
       IN  /\ IF free THEN Put(JobOf(w), queued) ELSE UNCHANGED jobs
           /\ IF free /\ ~lost
              THEN With(w, queued, "claim")
              ELSE Goto(w, "refind")
    /\ UNCHANGED <<revision, receipt, proposed, calls, leased, abandoned>>

\* No job: the active jobs have taken every place, and the answer is 429.
FindAgain(w) ==
    /\ At(w, "refind")
    /\ Consider(w, "insert")
    /\ UNCHANGED <<revision, receipt, jobs, proposed, calls, leased, abandoned, faults>>

\* The row read, by status and attempt, and by its owner when its lease ran out.
SeenStill(w) ==
    /\ Row(w).status = req[w].seen.status /\ Row(w).attempt = req[w].seen.attempt
    /\ Row(w).status = "processing" => Row(w).owner = req[w].seen.owner /\ ~Row(w).live

\* Back to queued for the next attempt; the last attempt is answered as failed.
Requeue(w) ==
    /\ At(w, "requeue")
    /\ LET due == req[w].seen.attempt < MaxAttempts /\ SeenStill(w)
       IN  IF due THEN Put(JobOf(w), Unowned("queued", Row(w).attempt + 1, Row(w).key))
           ELSE UNCHANGED jobs
    /\ Or(w, req[w].seen.attempt >= MaxAttempts, "reread")
    /\ UNCHANGED <<revision, receipt, proposed, calls, leased, abandoned, faults>>

ReadAgain(w) ==
    /\ At(w, "reread")
    /\ IF Row(w).status = "queued" THEN With(w, Row(w), "claim") ELSE Done(w)
    /\ UNCHANGED <<revision, receipt, jobs, proposed, calls, leased, abandoned, faults>>

\* The lease is taken by a compare-and-set on status and attempt; the start guard aborts it once
\* the Matter has moved on, and the job stays queued.
Claim(w) ==
    /\ At(w, "claim")
    /\ LET mine == Row(w).status = "queued" /\ Row(w).attempt = req[w].seen.attempt
           aborted == mine /\ JobOf(w)[1] # revision
       IN  /\ IF mine /\ ~aborted THEN Put(JobOf(w), Leased(Row(w), w)) ELSE UNCHANGED jobs
           /\ Or(w, aborted, "confirm")
    /\ UNCHANGED <<revision, receipt, proposed, calls, leased, abandoned, faults>>

\* Mistaken: a job that is processing is taken for claimed.
ConfirmAnyOwner(w) ==
    /\ At(w, "confirm")
    /\ Or(w, Row(w).status # "processing", "work")
    /\ UNCHANGED <<revision, receipt, jobs, proposed, calls, leased, abandoned, faults>>

\* Only the read of its own owner id tells the request that it has the lease.
Confirm(w) ==
    /\ At(w, "confirm")
    /\ IF Row(w).status = "processing" /\ Row(w).owner = w
       THEN With(w, Row(w), "work")
       ELSE Done(w)
    /\ UNCHANGED <<revision, receipt, jobs, proposed, calls, leased, abandoned, faults>>

-----------------------------------------------------------------------------
(* The provider slots and the calls.                                       *)

\* Mistaken: the requests in flight are not counted.
FreeOfAbandoned == abandoned < Slots

\* Expired rows are deleted, and a row is inserted while fewer than the limit are left.
SlotFree == Cardinality(leased) + abandoned < Slots

\* The row is inserted; when the answer is lost, the request knows nothing of it.
TakeSlot(w, lost) ==
    /\ SlotFree
    /\ Charge(lost)
    /\ IF lost THEN abandoned' = abandoned + 1 /\ UNCHANGED leased
       ELSE leased' = leased \cup {w} /\ UNCHANGED abandoned

\* The row is deleted if it is still there.  Nothing waits for a release that fails: the row is
\* left to its time limit.
GiveBack(w, lost) ==
    /\ Charge(lost)
    /\ leased' = leased \ {w}
    /\ abandoned' = IF lost /\ w \in leased THEN abandoned + 1 ELSE abandoned

\* The sources are read and verified, the rate limits and a slot are asked for; a refusal or an
\* error fails the job.
Acquire(w, lost) ==
    /\ At(w, "work")
    /\ \/ /\ TakeSlot(w, lost)
          /\ IF lost THEN Goto(w, "fail") /\ UNCHANGED calls
             ELSE Goto(w, "call") /\ calls' = [calls EXCEPT ![JobOf(w)] = @ + 1]
       \/ ~lost /\ Goto(w, "fail") /\ UNCHANGED <<calls, leased, abandoned, faults>>
    /\ UNCHANGED <<revision, receipt, jobs, proposed>>

\* The model answers with candidates, with none, or not at all; the slot is released whatever
\* it answered.
Return(w, lost) ==
    /\ At(w, "call")
    /\ GiveBack(w, lost)
    /\ \E next \in {"commit", "commitNone", "fail"} : Goto(w, next)
    /\ UNCHANGED <<revision, receipt, jobs, proposed, calls>>

\* The planner of the Studio takes a slot, or answers that there is none.
Plan(w, lost) ==
    /\ At(w, "idle")
    /\ TakeSlot(w, lost)
    /\ IF lost THEN UNCHANGED req ELSE Goto(w, "plan")
    /\ UNCHANGED <<revision, receipt, jobs, proposed, calls>>

\* Its next call under the same slot: the schema was refused, or the plan is no valid graph.
PlanAgain(w) ==
    /\ \/ At(w, "plan") /\ \E next \in {"fallback", "repair"} : Goto(w, next)
       \/ At(w, "fallback") /\ Goto(w, "lastRepair")
    /\ UNCHANGED <<revision, receipt, jobs, proposed, calls, leased, abandoned, faults>>

\* It answers, with a plan or an error, and releases the slot.
Planned(w, lost) ==
    /\ req[w].pc \in Planning
    /\ GiveBack(w, lost)
    /\ Done(w)
    /\ UNCHANGED <<revision, receipt, jobs, proposed, calls>>

\* The time limit of a row that nobody releases.
SlotExpires ==
    /\ abandoned > 0
    /\ abandoned' = abandoned - 1
    /\ UNCHANGED <<revision, receipt, jobs, proposed, calls, leased, req, faults>>

\* The time limit of a row whose request is still calling.
SlotLost(w) ==
    /\ w \in leased /\ req[w].pc \in Overlong
    /\ leased' = leased \ {w}
    /\ UNCHANGED <<revision, receipt, jobs, proposed, calls, abandoned, req, faults>>

-----------------------------------------------------------------------------
(* Committing.                                                             *)

\* The guard on the analyzed sources: the exact attempt and owner, and a lease still running.
Fenced(w) == Owns(w) /\ Row(w).live

\* Mistaken: the proposals are stored before the guards decide.
CommitInParts(w, lost) ==
    /\ At(w, "commit")
    /\ Charge(lost)
    /\ proposed' = proposed \cup {JobOf(w)}
    /\ IF Fenced(w) /\ JobOf(w)[1] = revision /\ revision < MaxRevision
       THEN /\ revision' = revision + 1
            /\ receipt' = [receipt EXCEPT ![revision + 1] = JobOf(w)]
            /\ Put(JobOf(w), Settled(Row(w), "ready"))
            /\ Or(w, ~lost, "fail")
       ELSE /\ UNCHANGED <<revision, receipt, jobs>>
            /\ Goto(w, "fail")
    /\ UNCHANGED <<calls, leased, abandoned>>

\* One batch advances the Matter from the job's revision, stores the analyzed sources, the
\* proposals, the audit and the receipt, and makes the job ready; its guards abort it as a
\* whole.  Whatever is thrown, also after it was applied, goes to failProposalJob.
Commit(w, lost) ==
    /\ At(w, "commit")
    /\ Charge(lost)
    /\ IF Fenced(w) /\ JobOf(w)[1] = revision /\ revision < MaxRevision
       THEN /\ revision' = revision + 1
            /\ receipt' = [receipt EXCEPT ![revision + 1] = JobOf(w)]
            /\ Put(JobOf(w), Settled(Row(w), "ready"))
            /\ proposed' = proposed \cup {JobOf(w)}
            /\ Or(w, ~lost, "fail")
       ELSE /\ UNCHANGED <<revision, receipt, jobs, proposed>>
            /\ Goto(w, "fail")
    /\ UNCHANGED <<calls, leased, abandoned>>

\* No candidates: the job becomes ready without a revision.  The promise is returned without an
\* await, so an error leaves the request without failing the job.
CommitNone(w) ==
    /\ At(w, "commitNone")
    /\ IF Fenced(w) /\ JobOf(w)[1] = revision
       THEN Put(JobOf(w), Settled(Row(w), "ready"))
       ELSE UNCHANGED jobs
    /\ Done(w)
    /\ UNCHANGED <<revision, receipt, proposed, calls, leased, abandoned, faults>>

\* Mistaken: the job is failed whoever holds it by now.
FailUnowned(w) ==
    /\ At(w, "fail")
    /\ IF Row(w).status = "processing"
       THEN Put(JobOf(w), Settled(Row(w), "failed")) ELSE UNCHANGED jobs
    /\ Done(w)
    /\ UNCHANGED <<revision, receipt, proposed, calls, leased, abandoned, faults>>

\* Fails the job where this run still holds it, lease or no lease, and answers "failed" either
\* way.
Fail(w) ==
    /\ At(w, "fail")
    /\ IF Owns(w) THEN Put(JobOf(w), Settled(Row(w), "failed")) ELSE UNCHANGED jobs
    /\ Done(w)
    /\ UNCHANGED <<revision, receipt, proposed, calls, leased, abandoned, faults>>

-----------------------------------------------------------------------------
(* The environment.                                                        *)

\* Another route commits a revision of the Matter.
Move ==
    /\ revision < MaxRevision
    /\ revision' = revision + 1
    /\ UNCHANGED <<receipt, jobs, proposed, calls, leased, abandoned, req, faults>>

\* Ten minutes are over, also for a run that is still at work.
LeaseEnds(j) ==
    /\ jobs[j].status = "processing" /\ jobs[j].live
    /\ Put(j, [jobs[j] EXCEPT !.live = FALSE])
    /\ UNCHANGED <<revision, receipt, proposed, calls, leased, abandoned, req, faults>>

\* The request stops for good, or a statement of it was applied and its answer lost, which ends
\* it as well wherever no action says otherwise; its job and its slot stay as they are.
Crash(w) ==
    /\ ~At(w, "idle")
    /\ GiveBack(w, TRUE)
    /\ Done(w)
    /\ UNCHANGED <<revision, receipt, jobs, proposed, calls>>

-----------------------------------------------------------------------------

ProposalInit ==
    /\ revision = 1
    /\ receipt = [r \in Revisions |-> None]
    /\ jobs = [j \in Jobs |-> Absent]
    /\ proposed = {}
    /\ calls = [j \in Jobs |-> 0]
    /\ leased = {} /\ abandoned = 0
    /\ req = [w \in Workers |-> Rest]
    /\ faults = 0

Handle(w) ==
    \/ Find(w) \/ CheckRevision(w) \/ FindAgain(w) \/ Requeue(w) \/ ReadAgain(w) \/ Claim(w)
    \/ Confirm(w) \/ PlanAgain(w) \/ CommitNone(w) \/ Fail(w)
    \/ \E lost \in BOOLEAN :
          \/ Insert(w, lost) \/ Acquire(w, lost) \/ Return(w, lost) \/ Commit(w, lost)
          \/ Plan(w, lost) \/ Planned(w, lost)

ProposalNext ==
    \/ \E w \in Workers : Arrive(w) \/ Handle(w) \/ SlotLost(w) \/ Crash(w)
    \/ \E j \in Jobs : LeaseEnds(j)
    \/ Move
    \/ SlotExpires

ProposalSpec == ProposalInit /\ [][ProposalNext]_proposalVars

-----------------------------------------------------------------------------

ProposalTypeOK ==
    /\ revision \in Revisions
    /\ receipt \in [Revisions -> Jobs \cup {None}]
    /\ jobs \in [Jobs -> Rows]
    /\ proposed \subseteq Jobs
    /\ calls \in [Jobs -> 0 .. MaxAttempts]
    /\ leased \subseteq Workers
    /\ abandoned \in 0 .. Slots
    /\ req \in [Workers -> Runs]
    /\ faults \in 0 .. MaxFaults

\* The model is called at most once for each attempt of a job, so never more often than the
\* attempts allow, however many requests find the job at the same moment and whichever die.
CallsWithinAttempts == \A j \in Jobs : calls[j] <= jobs[j].attempt

\* Calls that their leases cover, and the rows of requests that died or lost an answer, stay
\* within the slots of the deployment, also beside planners whose leases ended.
CoveredCallsWithinSlots == Cardinality(Covered) + abandoned <= Slots

\* "tenant AI leases cover the full provider timeout": no more calls are in flight than the
\* deployment has slots, whichever calls they are.
CallsWithinSlots == Cardinality(Calling) <= Slots

\* The proposals of a job are stored exactly when it made the revision after its own: of the
\* jobs written against one revision at most one gets its proposals in, and none afterwards.
OneOutcomePerRevision ==
    \A j \in Jobs :
        j \in proposed <=>
            /\ jobs[j].status = "ready"
            /\ j[1] < MaxRevision /\ receipt[j[1] + 1] = j

\* A job under a running lease is settled by the attempt that holds it, and by no earlier one.
HolderSettlesJob ==
    \A j \in Jobs :
        /\ jobs[j].status = "processing" /\ jobs[j].live
        /\ jobs'[j].status # "processing"
        => /\ jobs[j].owner \in Workers
           /\ req'[jobs[j].owner] # req[jobs[j].owner]
OnlyHolderSettlesJob == [][HolderSettlesJob]_proposalVars
=============================================================================
