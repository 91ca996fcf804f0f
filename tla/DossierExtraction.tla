------------------------- MODULE DossierExtraction -------------------------
(***************************************************************************)
(* The extraction of text from the versions of one Matter.                 *)
(*                                                                         *)
(* The commit of an upload queues a job.  The request that committed it    *)
(* runs it, and every upload first takes up a few jobs that were left      *)
(* queued or whose lease ran out.  A run leases the job, puts the text     *)
(* into R2 under a key that every run of the job shares, and publishes an  *)
(* immutable result in one D1 batch; a run that fails removes the text and *)
(* fails the job.  A lease is a time limit, not a lock: its holder may     *)
(* still be running when the next run takes the job over.                  *)
(***************************************************************************)
EXTENDS Integers, FiniteSets

CONSTANTS
    Workers,        \* requests in flight
    Jobs,           \* extraction jobs, one per text version
    Nobody,         \* no lease owner
    Gone,           \* the owner ids of runs that have ended
    LeaseTime,      \* the lease, two minutes, in clock units
    MaxRecoveries,  \* MAX_EXTRACTION_RECOVERIES_PER_REQUEST
    MaxFaults,      \* bound: failed calls, lost answers and killed requests
    Slow            \* the jobs whose runs may outlive their leases

ASSUME ExtractionAssumption ==
    /\ Jobs # {}
    /\ Nobody # Gone /\ {Nobody, Gone} \cap Workers = {}
    /\ LeaseTime \in Nat \ {0}
    /\ MaxRecoveries \in Nat \ {0}
    /\ MaxFaults \in Nat
    /\ Slow \subseteq Jobs

VARIABLES
    job,        \* dossier_extraction_jobs
    older,      \* the pairs of jobs of which the first has the smaller updatedAt
    results,    \* the jobs with a row in dossier_extraction_results
    texts,      \* the jobs whose derived text object is in R2
    run,        \* what each request in flight holds in memory
    faults      \* faults so far

vars == <<job, older, results, texts, run, faults>>

\* left: clock units until leaseExpiresAt, -1 once it is past.  A job has a lease exactly while it
\* is processing.
JobRows ==
    {row \in [status : {"absent", "queued", "processing", "ready", "failed"},
              owner : Workers \cup {Nobody, Gone}, left : -1 .. LeaseTime] :
        IF row.status = "processing" THEN row.owner # Nobody
        ELSE row.owner = Nobody /\ row.left = -1}

Pcs == {"idle", "recover", "source", "unsource", "claim", "lease", "put", "head",
        "publish", "result", "discard", "fail"}

\* The job a request is at, whether it is its own, whether the run stored or found the text, and
\* the jobs to recover.
Runs == [pc : Pcs, job : Jobs, own : BOOLEAN, stored : BOOLEAN, todo : SUBSET Jobs]

Unleased(status) == [status |-> status, owner |-> Nobody, left |-> -1]

\* Mistaken: a job whose run died is not taken up again.
ClaimableQueued(j) == job[j].status = "queued"

\* queued, or processing under a lease that ran out
Claimable(j) ==
    \/ job[j].status = "queued"
    \/ job[j].status = "processing" /\ job[j].left < 0

\* The pairs once j's updatedAt is now.
Touched(j) == {p \in older : p[1] # j} \cup ((Jobs \ {j}) \X {j})

Holds(w, j) == job[j].status = "processing" /\ job[j].owner = w

-----------------------------------------------------------------------------

Step(w, from) == run[w].pc = from
Become(w, changed) == run' = [run EXCEPT ![w] = changed]
Go(w, to) == Become(w, [run[w] EXCEPT !.pc = to])

Spend == faults < MaxFaults /\ faults' = faults + 1
Charge(lost) == IF lost THEN Spend ELSE UNCHANGED faults

\* A run draws a fresh owner id, whether it gets the lease or not: what an earlier run of the
\* request still owns stays with an id that nobody will use again.
Fresh(w) ==
    [k \in Jobs |-> IF job[k].owner = w THEN [job[k] EXCEPT !.owner = Gone] ELSE job[k]]

Leased(w, j) ==
    [Fresh(w) EXCEPT ![j] = [status |-> "processing", owner |-> w, left |-> LeaseTime]]

\* runDeterministicExtraction returns: to the loop of recoveries, or to the answer.
Return(w) == Go(w, IF run[w].own THEN "idle" ELSE "recover")

\* An error leaves it: the loop of recoveries catches it, the upload's own run does not.
Throw(w) == Go(w, IF run[w].own THEN "idle" ELSE "unsource")

\* Mistaken: the lease stays with the settled job.
SettleLeased(j, status) == job' = [job EXCEPT ![j].status = status]

Settle(j, status) == job' = [job EXCEPT ![j] = Unleased(status)]

-----------------------------------------------------------------------------
(* The upload around the runs.                                             *)

\* recoverDossierExtractionJobs selects the jobs that were left behind, oldest first.
Arrive(w) ==
    /\ Step(w, "idle")
    /\ LET due == {j \in Jobs : Claimable(j)}
       IN  \E S \in SUBSET due :
              /\ \/ S = due /\ Cardinality(S) <= MaxRecoveries
                 \/ Cardinality(S) = MaxRecoveries
              /\ \A j \in S, k \in due \ S : <<k, j>> \notin older
              /\ Become(w, [run[w] EXCEPT !.pc = "recover", !.todo = S])
    /\ UNCHANGED <<job, older, results, texts, faults>>

\* The next of them; the order among those selected is left open.
Recover(w) ==
    /\ Step(w, "recover")
    /\ \E j \in run[w].todo :
          Become(w, [run[w] EXCEPT !.pc = "source", !.job = j, !.todo = @ \ {j}, !.own = FALSE,
                                   !.stored = FALSE])
    /\ UNCHANGED <<job, older, results, texts, faults>>

\* The source object is read back and verified; it is there as long as its version is.
ReadSource(w) ==
    /\ Step(w, "source")
    /\ Go(w, "claim")
    /\ UNCHANGED <<job, older, results, texts, faults>>

\* A job whose recovery threw is failed, unless a lease on it is running.
FailRecovery(w, lost) ==
    /\ Step(w, "unsource")
    /\ Charge(lost)
    /\ IF Claimable(run[w].job) THEN Settle(run[w].job, "failed") ELSE UNCHANGED job
    /\ Go(w, IF lost THEN "idle" ELSE "recover")
    /\ UNCHANGED <<older, results, texts>>

\* The recoveries are done: the upload commits a version and queues its job, or answers
\* without one.
Commit(w) ==
    /\ Step(w, "recover") /\ run[w].todo = {}
    /\ \/ \E j \in Jobs :
             /\ job[j].status = "absent"
             /\ job' = [job EXCEPT ![j] = Unleased("queued")]
             /\ older' = Touched(j)
             /\ Become(w, [run[w] EXCEPT !.pc = "claim", !.job = j, !.own = TRUE,
                                         !.stored = FALSE])
       \/ Go(w, "idle") /\ UNCHANGED <<job, older>>
    /\ UNCHANGED <<results, texts, faults>>

-----------------------------------------------------------------------------
(* runDeterministicExtraction, one action per storage call.                *)

\* Mistaken: any running job is taken over, whatever its lease.
ClaimAny(w, lost) ==
    /\ Step(w, "claim")
    /\ Charge(lost)
    /\ job' = IF job[run[w].job].status \in {"queued", "processing"}
              THEN Leased(w, run[w].job) ELSE Fresh(w)
    /\ UNCHANGED older
    /\ IF lost THEN Throw(w) ELSE Go(w, "lease")
    /\ UNCHANGED <<results, texts>>

\* The lease is taken by a compare-and-set on what Claimable says.
Claim(w, lost) ==
    /\ Step(w, "claim")
    /\ Charge(lost)
    /\ LET j == run[w].job
       IN  IF Claimable(j)
           THEN job' = Leased(w, j) /\ older' = Touched(j)
           ELSE job' = Fresh(w) /\ UNCHANGED older
    /\ IF lost THEN Throw(w) ELSE Go(w, "lease")
    /\ UNCHANGED <<results, texts>>

\* Only the read of its own owner id tells a run that it holds the lease.
ReadLease(w) ==
    /\ Step(w, "lease")
    /\ IF Holds(w, run[w].job) THEN Go(w, "put") ELSE Return(w)
    /\ UNCHANGED <<job, older, results, texts, faults>>

\* The text is put unless an object is there.  A put that fails may have stored it.
Put(w, lost) ==
    /\ Step(w, "put")
    /\ Charge(lost)
    /\ LET j == run[w].job
       IN  /\ \/ texts' = texts \cup {j}
              \/ lost /\ UNCHANGED texts
           /\ IF lost THEN Go(w, "result")
              ELSE IF j \in texts THEN Go(w, "head")
              ELSE Become(w, [run[w] EXCEPT !.pc = "publish", !.stored = TRUE])
    /\ UNCHANGED <<job, older, results>>

\* The object that was there is verified: every run of the job derives the same text.
HeadObject(w) ==
    /\ Step(w, "head")
    /\ IF run[w].job \in texts
       THEN Become(w, [run[w] EXCEPT !.pc = "publish", !.stored = TRUE])
       ELSE Go(w, "result")
    /\ UNCHANGED <<job, older, results, texts, faults>>

\* Mistaken: the result is inserted for a job in any state.
PublishUnready(w, lost) ==
    /\ Step(w, "publish")
    /\ Charge(lost)
    /\ LET j == run[w].job
       IN  /\ IF Holds(w, j) THEN Settle(j, "ready") ELSE UNCHANGED job
           /\ results' = results \cup {j}
           /\ IF lost THEN Go(w, "result") ELSE Return(w)
    /\ UNCHANGED <<older, texts>>

\* One batch makes the job ready where this run owns it and inserts the result, which needs a
\* ready job that has none.  It may throw although it was applied.
Publish(w, lost) ==
    /\ Step(w, "publish")
    /\ Charge(lost)
    /\ LET j == run[w].job
       IN  /\ IF Holds(w, j)
              THEN Settle(j, "ready") /\ results' = results \cup {j}
              ELSE UNCHANGED <<job, results>>
           /\ IF Holds(w, j) /\ ~lost THEN Return(w) ELSE Go(w, "result")
    /\ UNCHANGED <<older, texts>>

\* Mistaken: an error of the batch is taken for a batch that did nothing.
ReadNothing(w) ==
    /\ Step(w, "result")
    /\ Go(w, IF run[w].stored THEN "discard" ELSE "fail")
    /\ UNCHANGED <<job, older, results, texts, faults>>

\* After an error: a result was published after all, by this run or another, or the text this
\* run stored or found is discarded.
ReadResult(w) ==
    /\ Step(w, "result")
    /\ IF run[w].job \in results THEN Return(w)
       ELSE Go(w, IF run[w].stored THEN "discard" ELSE "fail")
    /\ UNCHANGED <<job, older, results, texts, faults>>

\* A discard that throws leaves the job to the next recovery.
Discard(w, lost) ==
    /\ Step(w, "discard")
    /\ Charge(lost)
    /\ texts' = texts \ {run[w].job}
    /\ IF lost THEN Return(w) ELSE Go(w, "fail")
    /\ UNCHANGED <<job, older, results>>

\* Mistaken: the job is failed whoever owns it.
FailUnowned(w, lost) ==
    /\ Step(w, "fail")
    /\ Charge(lost)
    /\ IF job[run[w].job].status = "processing"
       THEN Settle(run[w].job, "failed") ELSE UNCHANGED job
    /\ IF lost THEN Throw(w) ELSE Return(w)
    /\ UNCHANGED <<older, results, texts>>

Fail(w, lost) ==
    /\ Step(w, "fail")
    /\ Charge(lost)
    /\ IF Holds(w, run[w].job) THEN Settle(run[w].job, "failed") ELSE UNCHANGED job
    /\ IF lost THEN Throw(w) ELSE Return(w)
    /\ UNCHANGED <<older, results, texts>>

-----------------------------------------------------------------------------
(* The environment.                                                        *)

\* A storage call fails and changes nothing.
CallFails(w) ==
    /\ Spend
    /\ \/ Step(w, "source") /\ Go(w, "unsource")
       \/ run[w].pc \in {"claim", "lease", "result", "fail"} /\ Throw(w)
       \/ run[w].pc \in {"head", "publish"} /\ Go(w, "result")
       \/ Step(w, "discard") /\ Return(w)
       \/ Step(w, "unsource") /\ Go(w, "idle")
    /\ UNCHANGED <<job, older, results, texts>>

\* The request stops for good.
Crash(w) ==
    /\ Spend
    /\ run[w].pc # "idle"
    /\ Go(w, "idle")
    /\ UNCHANGED <<job, older, results, texts>>

\* The run is at work under a lease.
AtWork(w) ==
    /\ run[w].pc \in {"lease", "put", "head", "publish", "result", "discard", "fail"}
    /\ Holds(w, run[w].job)

LeaseRuns(j) == job[j].status = "processing" /\ job[j].left >= 0

\* Time passes for every lease; not past that of a run at work, unless its job is slow.
Tick ==
    /\ \E j \in Jobs : LeaseRuns(j)
    /\ \A w \in Workers : AtWork(w) /\ run[w].job \notin Slow => job[run[w].job].left > 0
    /\ job' = [j \in Jobs |->
          IF LeaseRuns(j) THEN [job[j] EXCEPT !.left = @ - 1] ELSE job[j]]
    /\ UNCHANGED <<older, results, texts, run, faults>>

-----------------------------------------------------------------------------

Init ==
    /\ job = [j \in Jobs |-> Unleased("absent")]
    /\ older = {}
    /\ results = {}
    /\ texts = {}
    /\ run = [w \in Workers |-> [pc |-> "idle", job |-> CHOOSE j \in Jobs : TRUE, own |-> FALSE,
                                 stored |-> FALSE, todo |-> {}]]
    /\ faults = 0

\* What a request does when its calls succeed.
Progress(w) ==
    \/ Recover(w) \/ ReadSource(w) \/ FailRecovery(w, FALSE) \/ Commit(w) \/ Claim(w, FALSE)
    \/ ReadLease(w) \/ Put(w, FALSE) \/ HeadObject(w) \/ Publish(w, FALSE) \/ ReadResult(w)
    \/ Discard(w, FALSE) \/ Fail(w, FALSE)

Fault(w) ==
    \/ FailRecovery(w, TRUE) \/ Claim(w, TRUE) \/ Put(w, TRUE) \/ Publish(w, TRUE)
    \/ Discard(w, TRUE) \/ Fail(w, TRUE) \/ CallFails(w) \/ Crash(w)

Next ==
    \/ \E w \in Workers : Arrive(w) \/ Progress(w) \/ Fault(w)
    \/ Tick

Spec == Init /\ [][Next]_vars

\* Workers run, the clock runs, and the Matter keeps being uploaded to.
Fairness ==
    /\ WF_vars(Tick)
    /\ \A w \in Workers : WF_vars(Progress(w)) /\ WF_vars(Arrive(w))

FairSpec == Spec /\ Fairness

-----------------------------------------------------------------------------

\* Every variable has its type.
TypeOK ==
    /\ job \in [Jobs -> JobRows]
    /\ older \subseteq Jobs \X Jobs
    /\ results \subseteq Jobs
    /\ texts \subseteq Jobs
    /\ run \in [Workers -> Runs]
    /\ faults \in 0 .. MaxFaults

\* A job is ready exactly when its one result was published: a taken-over run, an answer that was
\* lost or a recovery beside it never makes a job ready without text, nor fails one that has it.
ReadyHasResult == \A j \in Jobs : job[j].status = "ready" <=> j \in results

\* The text a result names stays in the bucket, whatever the other runs of its job still do,
\* where none of them outlives its lease.
TextKeptInTime == results \ Slow \subseteq texts

\* "Extraction results are immutable versioned records": the text a result names stays in the
\* bucket, also when a run outlives its lease.
ResultTextKept == results \subseteq texts

\* A leased job is settled by the run that holds the lease, or after the lease ran out: a run
\* that was taken over neither publishes nor fails the job under its successor.
HolderSettles ==
    \A j \in Jobs :
        job[j].status = "processing" /\ job'[j].status # "processing" =>
            \/ job[j].left < 0
            \/ job[j].owner \in Workers /\ run'[job[j].owner] # run[job[j].owner]
OnlyHolderSettles == [][HolderSettles]_vars

\* At most one run is at work on a job under a lease, where runs end within their leases.
LeaseExclusive ==
    \A v, w \in Workers :
        /\ AtWork(v) /\ run[w].pc \in {"put", "head", "publish"} /\ run[v].job = run[w].job
        /\ run[w].job \notin Slow
        => v = w

\* Whatever fails on the way, and whoever dies holding the lease, a queued job is settled,
\* also beside jobs whose runs are slow.
JobsSettle ==
    \A j \in Jobs \ Slow : job[j].status = "queued" ~> job[j].status \in {"ready", "failed"}
=============================================================================
