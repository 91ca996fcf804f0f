---------------------- MODULE DossierExtraction_proofs ----------------------
(***************************************************************************)
(* The extraction's safety for every number of workers and jobs.           *)
(*                                                                         *)
(* That a job is ready exactly when it has a result, and that only the     *)
(* lease settles it, holds whatever a lease's holder does after the lease. *)
(* That the text of a result stays needs the runs of its job to end within *)
(* their leases: WorkOK says what they may rely on between their awaits.   *)
(***************************************************************************)
EXTENDS DossierExtraction, TLAPS

\* Under a lease of its own that has not run out.
Secured(w, j) == Holds(w, j) /\ job[j].left >= 0

\* What a run may rely on where the runs of its job do not outlive their leases.
RunOK(w) ==
    LET j == run[w].job
    IN  j \notin Slow =>
        /\ run[w].pc \in {"put", "head", "publish", "discard", "fail"} => Secured(w, j)
        /\ run[w].pc = "lease" /\ Holds(w, j) => Secured(w, j)
        /\ run[w].pc = "result" => Secured(w, j) \/ j \in results
        /\ run[w].pc = "publish" => j \in texts

WorkOK == TextKeptInTime /\ \A w \in Workers : RunOK(w)

IInv == TypeOK /\ ReadyHasResult /\ WorkOK

-----------------------------------------------------------------------------
(* The jobs table.                                                         *)

\* A settled or queued job is well typed.
LEMMA UnleasedType ==
    ASSUME NEW status \in {"absent", "queued", "ready", "failed"}
    PROVE  Unleased(status) \in JobRows
BY ExtractionAssumption DEF Unleased, JobRows, ExtractionAssumption

\* A fresh owner id changes nothing but who owns what its worker owned.
LEMMA FreshEffect ==
    ASSUME TypeOK, NEW w \in Workers
    PROVE  /\ Fresh(w) \in [Jobs -> JobRows]
           /\ \A k \in Jobs :
                 /\ Fresh(w)[k].status = job[k].status
                 /\ Fresh(w)[k].left = job[k].left
                 /\ Fresh(w)[k].owner = IF job[k].owner = w THEN Gone ELSE job[k].owner
<1> SUFFICES ASSUME NEW k \in Jobs
             PROVE  /\ Fresh(w)[k] \in JobRows
                    /\ Fresh(w)[k].status = job[k].status
                    /\ Fresh(w)[k].left = job[k].left
                    /\ Fresh(w)[k].owner = IF job[k].owner = w THEN Gone ELSE job[k].owner
    BY DEF Fresh
<1>1. job[k] \in JobRows
  BY DEF TypeOK
<1>2. Fresh(w)[k] = IF job[k].owner = w THEN [job[k] EXCEPT !.owner = Gone] ELSE job[k]
  BY DEF Fresh
<1>3. CASE job[k].owner = w
  <2>1. job[k].status = "processing"
    BY <1>1, <1>3, ExtractionAssumption DEF JobRows, ExtractionAssumption
  <2>2. Fresh(w)[k] = [status |-> "processing", owner |-> Gone, left |-> job[k].left]
    BY <1>1, <1>2, <1>3, <2>1 DEF JobRows
  <2> QED BY <1>1, <1>3, <2>1, <2>2, ExtractionAssumption DEF JobRows, ExtractionAssumption
<1>4. CASE job[k].owner # w
  BY <1>1, <1>2, <1>4
<1> QED BY <1>3, <1>4

\* A lease names its worker and runs; the other jobs are as under a fresh owner id.
LEMMA LeasedEffect ==
    ASSUME TypeOK, NEW w \in Workers, NEW j \in Jobs
    PROVE  /\ Leased(w, j) \in [Jobs -> JobRows]
           /\ Leased(w, j)[j] = [status |-> "processing", owner |-> w, left |-> LeaseTime]
           /\ \A k \in Jobs \ {j} : Leased(w, j)[k] = Fresh(w)[k]
<1>1. [status |-> "processing", owner |-> w, left |-> LeaseTime] \in JobRows
  BY ExtractionAssumption DEF JobRows, ExtractionAssumption
<1> QED BY <1>1, FreshEffect DEF Leased

\* A touched job is as young as any.
LEMMA TouchedType ==
    ASSUME TypeOK, NEW j \in Jobs
    PROVE  Touched(j) \subseteq Jobs \X Jobs
BY DEF TypeOK, Touched

\* Faults are counted up to their bound.
LEMMA ChargeType ==
    ASSUME TypeOK, NEW lost \in BOOLEAN, Charge(lost)
    PROVE  faults' \in 0 .. MaxFaults
BY ExtractionAssumption DEF TypeOK, Charge, Spend, ExtractionAssumption

-----------------------------------------------------------------------------
(* The requests: a step of one leaves the others where they are.           *)

\* What a step owes a run that does not take it.
Stable(v) ==
    /\ run'[v] = run[v]
    /\ \A j \in Jobs :
          /\ Secured(v, j) => Secured(v, j)'
          /\ Holds(v, j)' => Holds(v, j)
          /\ j \notin Slow /\ Secured(v, j) /\ j \in texts => j \in texts'

\* A step keeps the invariant when it owes nothing to the other runs and leaves its own where it
\* may go on.
LEMMA RunStep ==
    ASSUME IInv, NEW w \in Workers, TypeOK', ReadyHasResult', results \subseteq results',
           \A v \in Workers \ {w} : Stable(v),
           TextKeptInTime' /\ RunOK(w)'
    PROVE  IInv'
<1> SUFFICES ASSUME NEW v \in Workers \ {w} PROVE RunOK(v)'
    BY DEF IInv, WorkOK
<1>1. RunOK(v) /\ run'[v] = run[v] /\ run[v].job \in Jobs
  BY DEF IInv, WorkOK, TypeOK, Runs, Stable
<1>2. \A j \in Jobs : /\ Secured(v, j) => Secured(v, j)'
                      /\ Holds(v, j)' => Holds(v, j)
                      /\ j \notin Slow /\ Secured(v, j) /\ j \in texts => j \in texts'
  BY DEF Stable
<1> DEFINE j == run[v].job
<1>3. ASSUME j \notin Slow
      PROVE  /\ run[v].pc \in {"put", "head", "publish", "discard", "fail"} => Secured(v, j)'
             /\ run[v].pc = "lease" /\ Holds(v, j)' => Secured(v, j)'
             /\ run[v].pc = "result" => Secured(v, j)' \/ j \in results'
             /\ run[v].pc = "publish" => j \in texts'
  BY <1>1, <1>2, <1>3 DEF RunOK
<1>7. run'[v].job = j /\ run'[v].pc = run[v].pc
  BY <1>1
<1> QED BY <1>3, <1>7 DEF RunOK

\* Moving on keeps the type, and the other runs.
LEMMA BecomeEffect ==
    ASSUME TypeOK, NEW w \in Workers, NEW q \in Runs, Become(w, q)
    PROVE  /\ run' \in [Workers -> Runs]
           /\ run'[w] = q
           /\ \A v \in Workers \ {w} : run'[v] = run[v]
BY DEF TypeOK, Become

LEMMA GoEffect ==
    ASSUME TypeOK, NEW w \in Workers, NEW to \in Pcs, Go(w, to)
    PROVE  /\ run' \in [Workers -> Runs]
           /\ run'[w].pc = to /\ run'[w].job = run[w].job
           /\ run'[w].own = run[w].own /\ run'[w].stored = run[w].stored
           /\ \A v \in Workers \ {w} : run'[v] = run[v]
<1> DEFINE q == [run[w] EXCEPT !.pc = to]
<1>1. /\ q \in Runs
      /\ q.pc = to /\ q.job = run[w].job /\ q.own = run[w].own /\ q.stored = run[w].stored
  BY DEF TypeOK, Runs
<1>2. run' \in [Workers -> Runs] /\ run'[w] = q /\ \A v \in Workers \ {w} : run'[v] = run[v]
  BY <1>1, BecomeEffect DEF Go
<1> QED BY <1>1, <1>2

\* Returning and throwing lead out of the run.
LEMMA LeaveEffect ==
    ASSUME TypeOK, NEW w \in Workers, Return(w) \/ Throw(w)
    PROVE  /\ run' \in [Workers -> Runs]
           /\ run'[w].pc \in {"idle", "recover", "unsource"}
           /\ \A v \in Workers \ {w} : run'[v] = run[v]
<1>1. PICK to \in {"idle", "recover", "unsource"} : Go(w, to)
  BY DEF Return, Throw
<1>2. run[w] \in Runs /\ to \in Pcs
  BY DEF TypeOK, Pcs
<1> QED BY <1>1, <1>2, GoEffect DEF Runs

\* A run outside of a lease relies on nothing.
LEMMA RestOK ==
    ASSUME NEW w \in Workers,
           run[w].pc \in {"idle", "recover", "source", "unsource", "claim"}
    PROVE  RunOK(w)
BY DEF RunOK

-----------------------------------------------------------------------------
(* The steps.                                                              *)

\* A step that leaves the jobs, the results and the texts alone.
LEMMA QuietStep ==
    ASSUME IInv, NEW w \in Workers, UNCHANGED <<job, older, results, texts>>,
           run' \in [Workers -> Runs], faults' \in 0 .. MaxFaults,
           \A v \in Workers \ {w} : run'[v] = run[v],
           RunOK(w)'
    PROVE  IInv'
<1>1. TypeOK' /\ ReadyHasResult' /\ results \subseteq results'
  BY DEF IInv, TypeOK, ReadyHasResult
<1>2. \A v \in Workers \ {w} : Stable(v)
  BY DEF Stable, Secured, Holds
<1>3. TextKeptInTime'
  BY DEF IInv, WorkOK, TextKeptInTime
<1> QED BY <1>1, <1>2, <1>3, RunStep

\* A run that leaves its job.
LEMMA LeaveQuietly ==
    ASSUME IInv, NEW w \in Workers, UNCHANGED <<job, older, results, texts>>,
           faults' \in 0 .. MaxFaults, Return(w) \/ Throw(w)
    PROVE  IInv'
<1>1. TypeOK
  BY DEF IInv
<1>2. RunOK(w)'
  BY <1>1, LeaveEffect DEF RunOK
<1> QED BY <1>1, <1>2, LeaveEffect, QuietStep

\* The requests around the runs: arriving, recovering and reading the source.
LEMMA AroundSteps ==
    ASSUME IInv, NEW w \in Workers, Arrive(w) \/ Recover(w) \/ ReadSource(w)
    PROVE  IInv'
<1>1. TypeOK /\ run[w] \in Runs /\ faults' \in 0 .. MaxFaults
         /\ UNCHANGED <<job, older, results, texts>>
  BY DEF IInv, TypeOK, Arrive, Recover, ReadSource
<1>2. PICK q \in Runs : Become(w, q) /\ q.pc \in {"recover", "source", "claim"}
  <2>1. CASE Arrive(w)
    <3>1. PICK S \in SUBSET Jobs : Become(w, [run[w] EXCEPT !.pc = "recover", !.todo = S])
      BY <2>1 DEF Arrive
    <3> DEFINE q == [run[w] EXCEPT !.pc = "recover", !.todo = S]
    <3>2. q \in Runs /\ q.pc = "recover"
      BY <1>1 DEF Runs, Pcs
    <3> QED BY <3>1, <3>2
  <2>2. CASE Recover(w)
    <3>1. PICK j \in run[w].todo :
             Become(w, [run[w] EXCEPT !.pc = "source", !.job = j, !.todo = @ \ {j}, !.own = FALSE,
                                      !.stored = FALSE])
      BY <2>2 DEF Recover
    <3> DEFINE q == [run[w] EXCEPT !.pc = "source", !.job = j, !.todo = @ \ {j}, !.own = FALSE,
                                   !.stored = FALSE]
    <3>2. q \in Runs /\ q.pc = "source"
      BY <1>1 DEF Runs, Pcs
    <3> QED BY <3>1, <3>2
  <2>3. CASE ReadSource(w)
    <3> DEFINE q == [run[w] EXCEPT !.pc = "claim"]
    <3>1. q \in Runs /\ q.pc = "claim"
      BY <1>1 DEF Runs, Pcs
    <3> QED BY <2>3, <3>1 DEF ReadSource, Go
  <2> QED BY <2>1, <2>2, <2>3
<1>3. RunOK(w)'
  BY <1>1, <1>2, BecomeEffect DEF RunOK
<1> QED BY <1>1, <1>2, <1>3, BecomeEffect, QuietStep

\* A job that is queued, or whose lease ran out, is nobody's security and has no result.
LEMMA ClaimableFree ==
    ASSUME TypeOK, ReadyHasResult, NEW j \in Jobs, Claimable(j)
    PROVE  j \notin results /\ \A v \in Workers : ~Secured(v, j)
<1>1. job[j] \in JobRows
  BY DEF TypeOK
<1> QED BY <1>1 DEF ReadyHasResult, Claimable, Secured, Holds, JobRows

\* Settling a job that has no result and that no other run secured.
LEMMA SettleEffect ==
    ASSUME TypeOK, NEW w \in Workers, NEW j \in Jobs,
           NEW status \in {"absent", "queued", "ready", "failed"}, Settle(j, status)
    PROVE  /\ job' \in [Jobs -> JobRows]
           /\ job'[j].status = status
           /\ \A v \in Workers : ~Holds(v, j)'
           /\ \A k \in Jobs \ {j} : job'[k] = job[k]
<1>1. job' = [job EXCEPT ![j] = Unleased(status)] /\ Unleased(status) \in JobRows
  BY UnleasedType DEF Settle
<1> QED BY <1>1 DEF TypeOK, Unleased, Holds

\* Failing a job keeps the equivalence and owes nothing to the other runs.
LEMMA FailureStep ==
    ASSUME IInv, NEW w \in Workers, NEW j \in Jobs, Settle(j, "failed"), j \notin results,
           \A v \in Workers \ {w} : ~Secured(v, j),
           UNCHANGED <<older, results, texts>>, faults' \in 0 .. MaxFaults,
           Return(w) \/ Throw(w) \/ Go(w, "idle") \/ Go(w, "recover")
    PROVE  IInv'
<1>1. TypeOK /\ ReadyHasResult
  BY DEF IInv
<1>2. /\ run' \in [Workers -> Runs]
      /\ run'[w].pc \in {"idle", "recover", "unsource"}
      /\ \A v \in Workers \ {w} : run'[v] = run[v]
  <2>1. CASE Return(w) \/ Throw(w)
    BY <1>1, <2>1, LeaveEffect
  <2>2. ASSUME NEW to \in {"idle", "recover"}, Go(w, to)
        PROVE  /\ run' \in [Workers -> Runs]
               /\ run'[w].pc = to
               /\ \A v \in Workers \ {w} : run'[v] = run[v]
    <3>1. to \in Pcs
      BY DEF Pcs
    <3> QED BY <1>1, <2>2, <3>1, GoEffect
  <2> QED BY <2>1, <2>2
<1>3. TypeOK'
  BY <1>1, <1>2, SettleEffect DEF TypeOK
<1>4. ReadyHasResult'
  BY <1>1, SettleEffect DEF ReadyHasResult
<1>5. \A v \in Workers \ {w} : Stable(v)
  BY <1>1, <1>2, SettleEffect DEF Stable, Secured, Holds
<1>6. RunOK(w)'
  BY <1>2 DEF RunOK
<1>7. TextKeptInTime'
  BY DEF IInv, WorkOK, TextKeptInTime
<1> QED BY <1>3, <1>4, <1>5, <1>6, <1>7, RunStep

\* A recovery that threw.
LEMMA FailRecoveryStep ==
    ASSUME IInv, NEW w \in Workers, NEW lost \in BOOLEAN, FailRecovery(w, lost)
    PROVE  IInv'
<1> DEFINE j == run[w].job
<1>1. TypeOK /\ ReadyHasResult /\ j \in Jobs /\ faults' \in 0 .. MaxFaults
  BY ChargeType DEF IInv, TypeOK, Runs, FailRecovery
<1>2. Go(w, "idle") \/ Go(w, "recover")
  BY DEF FailRecovery
<1>3. CASE Claimable(j)
  BY <1>1, <1>2, <1>3, ClaimableFree, FailureStep DEF FailRecovery
<1>4. CASE ~Claimable(j)
  <2>1. UNCHANGED <<job, older, results, texts>>
    BY <1>4 DEF FailRecovery
  <2>2. "idle" \in Pcs /\ "recover" \in Pcs
    BY DEF Pcs
  <2>3. /\ run' \in [Workers -> Runs]
        /\ run'[w].pc \in {"idle", "recover"}
        /\ \A v \in Workers \ {w} : run'[v] = run[v]
    BY <1>1, <1>2, <2>2, GoEffect
  <2>4. RunOK(w)'
    BY <2>3 DEF RunOK
  <2> QED BY <1>1, <2>1, <2>3, <2>4, QuietStep
<1> QED BY <1>3, <1>4

\* The upload that queues its job.
LEMMA CommitStep ==
    ASSUME IInv, NEW w \in Workers, Commit(w)
    PROVE  IInv'
<1>1. TypeOK /\ ReadyHasResult /\ run[w] \in Runs /\ faults' \in 0 .. MaxFaults
  BY DEF IInv, TypeOK, Commit
<1>2. CASE Go(w, "idle") /\ UNCHANGED <<job, older>>
  <2>1. "idle" \in Pcs
    BY DEF Pcs
  <2>2. RunOK(w)'
    BY <1>1, <1>2, <2>1, GoEffect DEF RunOK, Runs
  <2> QED BY <1>1, <1>2, <2>1, <2>2, GoEffect, QuietStep DEF Commit
<1>3. ASSUME NEW j \in Jobs, job[j].status = "absent", job' = [job EXCEPT ![j] = Unleased("queued")],
             older' = Touched(j),
             Become(w, [run[w] EXCEPT !.pc = "claim", !.job = j, !.own = TRUE, !.stored = FALSE])
      PROVE  IInv'
  <2> DEFINE q == [run[w] EXCEPT !.pc = "claim", !.job = j, !.own = TRUE, !.stored = FALSE]
  <2>1. q \in Runs /\ q.pc = "claim" /\ Become(w, q)
    BY <1>1, <1>3 DEF Runs, Pcs
  <2> HIDE DEF q
  <2>2. Settle(j, "queued") /\ UNCHANGED <<results, texts>>
    BY <1>3 DEF Settle, Commit
  <2>3. TypeOK'
    BY <1>1, <1>3, <2>1, <2>2, SettleEffect, BecomeEffect, TouchedType DEF TypeOK
  <2>4. ReadyHasResult'
    BY <1>1, <1>3, <2>2, SettleEffect DEF ReadyHasResult
  <2>5. \A v \in Workers : ~Holds(v, j)
    BY <1>3 DEF Holds
  <2>6. \A v \in Workers \ {w} : Stable(v)
    BY <1>1, <1>3, <2>1, <2>2, <2>5, SettleEffect, BecomeEffect DEF Stable, Secured, Holds
  <2>7. RunOK(w)'
    BY <1>1, <1>3, <2>1, BecomeEffect DEF RunOK, Runs
  <2>8. TextKeptInTime'
    BY <2>2 DEF IInv, WorkOK, TextKeptInTime
  <2> QED BY <2>2, <2>3, <2>4, <2>6, <2>7, <2>8, RunStep
<1> QED BY <1>2, <1>3 DEF Commit

\* The lease.
LEMMA ClaimStep ==
    ASSUME IInv, NEW w \in Workers, NEW lost \in BOOLEAN, Claim(w, lost)
    PROVE  IInv'
<1> DEFINE j == run[w].job
<1>1. TypeOK /\ ReadyHasResult /\ run[w] \in Runs /\ j \in Jobs /\ faults' \in 0 .. MaxFaults
         /\ UNCHANGED <<results, texts>>
  BY ChargeType DEF IInv, TypeOK, Runs, Claim
<1>2. /\ run' \in [Workers -> Runs]
      /\ run'[w].pc \in {"idle", "unsource", "recover", "lease"}
      /\ run'[w].pc = "lease" => run'[w].job = j
      /\ \A v \in Workers \ {w} : run'[v] = run[v]
  <2>1. "lease" \in Pcs
    BY DEF Pcs
  <2> QED BY <1>1, <2>1, GoEffect, LeaveEffect DEF Claim, Runs
<1>3. w # Gone
  BY ExtractionAssumption DEF ExtractionAssumption
<1>4. \A k \in Jobs \ {j} : job'[k] = Fresh(w)[k]
  <2>1. job' = Leased(w, j) \/ job' = Fresh(w)
    BY DEF Claim
  <2>2. \A k \in Jobs \ {j} : Leased(w, j)[k] = Fresh(w)[k]
    BY <1>1, LeasedEffect
  <2> QED BY <2>1, <2>2
<1>5. CASE Claimable(j)
  <2>1. job' = Leased(w, j) /\ older' = Touched(j)
    BY <1>5 DEF Claim
  <2>0. job'[j] = [status |-> "processing", owner |-> w, left |-> LeaseTime]
    BY <1>1, <2>1, LeasedEffect
  <2>2. TypeOK'
    BY <1>1, <1>2, <2>1, LeasedEffect, TouchedType DEF TypeOK
  <2>3. job[j].status # "ready" /\ j \notin results
    BY <1>1, <1>5, ClaimableFree DEF Claimable
  <2>4. ReadyHasResult'
    BY <1>1, <1>4, <2>0, <2>3, FreshEffect DEF ReadyHasResult
  <2>5. \A v \in Workers \ {w} : Stable(v)
    <3> SUFFICES ASSUME NEW v \in Workers \ {w}, NEW k \in Jobs
                 PROVE  /\ Secured(v, k) => Secured(v, k)'
                        /\ Holds(v, k)' => Holds(v, k)
      BY <1>1, <1>2 DEF Stable
    <3>1. CASE k = j
      BY <1>1, <1>5, <2>0, <3>1, ClaimableFree DEF Holds
    <3>2. CASE k # j
      BY <1>1, <1>4, <3>2, FreshEffect, ExtractionAssumption
         DEF Secured, Holds, ExtractionAssumption
    <3> QED BY <3>1, <3>2
  <2>6. RunOK(w)'
    BY <1>1, <1>2, <2>0, ExtractionAssumption
       DEF RunOK, Secured, Holds, ExtractionAssumption
  <2> QED BY <1>1, <2>2, <2>4, <2>5, <2>6, RunStep DEF IInv, WorkOK, TextKeptInTime
<1>6. CASE ~Claimable(j)
  <2>1. job' = Fresh(w) /\ UNCHANGED older
    BY <1>6 DEF Claim
  <2>2. TypeOK'
    BY <1>1, <1>2, <2>1, FreshEffect DEF TypeOK
  <2>3. ReadyHasResult'
    BY <1>1, <2>1, FreshEffect DEF ReadyHasResult
  <2>4. \A v \in Workers \ {w} : Stable(v)
    BY <1>1, <1>2, <2>1, FreshEffect, ExtractionAssumption
       DEF Stable, Secured, Holds, ExtractionAssumption
  <2>5. RunOK(w)'
    BY <1>1, <1>2, <1>3, <2>1, FreshEffect DEF RunOK, Holds
  <2> QED BY <1>1, <2>2, <2>3, <2>4, <2>5, RunStep DEF IInv, WorkOK, TextKeptInTime
<1> QED BY <1>5, <1>6

\* A run that learns whether it holds the lease, or that verifies the text it found.
LEMMA ReadSteps ==
    ASSUME IInv, NEW w \in Workers, ReadLease(w) \/ HeadObject(w) \/ ReadResult(w)
    PROVE  IInv'
<1> DEFINE j == run[w].job
<1>1. TypeOK /\ run[w] \in Runs /\ j \in Jobs /\ faults' \in 0 .. MaxFaults
         /\ UNCHANGED <<job, older, results, texts>>
  BY DEF IInv, TypeOK, Runs, ReadLease, HeadObject, ReadResult
<1>2. RunOK(w)
  BY DEF IInv, WorkOK
<1>3. CASE Return(w)
  BY <1>1, <1>3, LeaveQuietly
<1>4. ASSUME NEW q \in Runs, Become(w, q), RunOK(w)'
      PROVE  IInv'
  BY <1>1, <1>4, BecomeEffect, QuietStep
<1>5. CASE ReadLease(w) /\ ~Return(w)
  <2> DEFINE q == [run[w] EXCEPT !.pc = "put"]
  <2>1. q \in Runs /\ q.pc = "put" /\ q.job = j /\ Become(w, q)
    BY <1>1, <1>5 DEF Runs, Pcs, ReadLease, Go
  <2>2. RunOK(w)'
    BY <1>1, <1>2, <1>5, <2>1, BecomeEffect DEF ReadLease, Step, RunOK, Secured, Holds
  <2> QED BY <1>4, <2>1, <2>2
<1>6. CASE HeadObject(w) /\ j \in texts
  <2> DEFINE q == [run[w] EXCEPT !.pc = "publish", !.stored = TRUE]
  <2>1. q \in Runs /\ q.pc = "publish" /\ q.job = j /\ Become(w, q)
    BY <1>1, <1>6 DEF Runs, Pcs, HeadObject
  <2>2. RunOK(w)'
    BY <1>1, <1>2, <1>6, <2>1, BecomeEffect DEF HeadObject, Step, RunOK, Secured, Holds
  <2> QED BY <1>4, <2>1, <2>2
<1>7. CASE HeadObject(w) /\ j \notin texts
  <2> DEFINE q == [run[w] EXCEPT !.pc = "result"]
  <2>1. q \in Runs /\ q.pc = "result" /\ q.job = j /\ Become(w, q)
    BY <1>1, <1>7 DEF Runs, Pcs, HeadObject, Go
  <2>2. RunOK(w)'
    BY <1>1, <1>2, <1>7, <2>1, BecomeEffect DEF HeadObject, Step, RunOK, Secured, Holds
  <2> QED BY <1>4, <2>1, <2>2
<1>8. CASE ReadResult(w) /\ ~Return(w)
  <2>1. PICK to \in {"discard", "fail"} : Go(w, to) /\ j \notin results
    BY <1>8 DEF ReadResult
  <2> DEFINE q == [run[w] EXCEPT !.pc = to]
  <2>2. q \in Runs /\ q.pc = to /\ q.job = j /\ Become(w, q)
    BY <1>1, <2>1 DEF Runs, Pcs, Go
  <2>3. RunOK(w)'
    BY <1>1, <1>2, <1>8, <2>1, <2>2, BecomeEffect DEF ReadResult, Step, RunOK, Secured, Holds
  <2> QED BY <1>4, <2>2, <2>3
<1> QED BY <1>3, <1>5, <1>6, <1>7, <1>8

\* The put adds the text, or a failed one may.
LEMMA PutStep ==
    ASSUME IInv, NEW w \in Workers, NEW lost \in BOOLEAN, Put(w, lost)
    PROVE  IInv'
<1> DEFINE j == run[w].job
<1>1. TypeOK /\ run[w] \in Runs /\ j \in Jobs /\ faults' \in 0 .. MaxFaults /\ run[w].pc = "put"
         /\ UNCHANGED <<job, older, results>> /\ texts \subseteq texts' /\ texts' \subseteq Jobs
  BY ChargeType DEF IInv, TypeOK, Runs, Put, Step
<1>2. PICK q \in Runs : /\ Become(w, q) /\ q.job = j /\ q.pc \in {"result", "head", "publish"}
                        /\ q.pc = "publish" => j \in texts'
  <2>1. CASE lost
    <3> DEFINE q == [run[w] EXCEPT !.pc = "result"]
    <3>1. q \in Runs /\ q.pc = "result" /\ q.job = j /\ Become(w, q)
      BY <1>1, <2>1 DEF Runs, Pcs, Put, Go
    <3> QED BY <3>1
  <2>2. CASE ~lost /\ j \in texts
    <3> DEFINE q == [run[w] EXCEPT !.pc = "head"]
    <3>1. q \in Runs /\ q.pc = "head" /\ q.job = j /\ Become(w, q)
      BY <1>1, <2>2 DEF Runs, Pcs, Put, Go
    <3> QED BY <3>1
  <2>3. CASE ~lost /\ j \notin texts
    <3> DEFINE q == [run[w] EXCEPT !.pc = "publish", !.stored = TRUE]
    <3>1. q \in Runs /\ q.pc = "publish" /\ q.job = j /\ Become(w, q) /\ j \in texts'
      BY <1>1, <2>3 DEF Runs, Pcs, Put
    <3> QED BY <3>1
  <2> QED BY <2>1, <2>2, <2>3
<1>3. TypeOK' /\ ReadyHasResult'
  BY <1>1, <1>2, BecomeEffect DEF IInv, TypeOK, ReadyHasResult
<1>4. \A v \in Workers \ {w} : Stable(v)
  BY <1>1, <1>2, BecomeEffect DEF Stable, Secured, Holds
<1>5. TextKeptInTime' /\ RunOK(w)'
  BY <1>1, <1>2, BecomeEffect DEF IInv, WorkOK, TextKeptInTime, RunOK, Secured, Holds
<1> QED BY <1>1, <1>3, <1>4, <1>5, RunStep

\* The batch that publishes.
LEMMA PublishStep ==
    ASSUME IInv, NEW w \in Workers, NEW lost \in BOOLEAN, Publish(w, lost)
    PROVE  IInv'
<1> DEFINE j == run[w].job
<1>1. TypeOK /\ ReadyHasResult /\ run[w] \in Runs /\ j \in Jobs /\ faults' \in 0 .. MaxFaults
         /\ run[w].pc = "publish" /\ UNCHANGED <<older, texts>>
  BY ChargeType DEF IInv, TypeOK, Runs, Publish, Step
<1>2. /\ run' \in [Workers -> Runs]
      /\ run'[w].pc \in {"idle", "recover", "unsource", "result"}
      /\ run'[w].pc = "result" => run'[w].job = j
      /\ \A v \in Workers \ {w} : run'[v] = run[v]
  <2>1. CASE Return(w)
    BY <1>1, <2>1, LeaveEffect
  <2>2. CASE Go(w, "result")
    <3>1. "result" \in Pcs
      BY DEF Pcs
    <3> QED BY <1>1, <2>2, <3>1, GoEffect
  <2> QED BY <2>1, <2>2 DEF Publish
<1>3. CASE Holds(w, j)
  <2>1. Settle(j, "ready") /\ results' = results \cup {j}
    BY <1>3 DEF Publish
  <2>2. TypeOK'
    BY <1>1, <1>2, <2>1, SettleEffect DEF TypeOK
  <2>3. ReadyHasResult'
    BY <1>1, <2>1, SettleEffect DEF ReadyHasResult
  <2>4. \A v \in Workers \ {w} : ~Holds(v, j)
    BY <1>3 DEF Holds
  <2>5. \A v \in Workers \ {w} : Stable(v)
    BY <1>1, <1>2, <2>1, <2>4, SettleEffect DEF Stable, Secured, Holds
  <2>6. TextKeptInTime' /\ RunOK(w)'
    BY <1>1, <1>2, <2>1 DEF IInv, WorkOK, TextKeptInTime, RunOK
  <2> QED BY <2>1, <2>2, <2>3, <2>5, <2>6, RunStep
<1>4. CASE ~Holds(w, j)
  <2>1. UNCHANGED <<job, results>>
    BY <1>4 DEF Publish
  <2>2. j \in Slow
    BY <1>1, <1>4 DEF IInv, WorkOK, RunOK, Secured
  <2>3. RunOK(w)'
    BY <1>1, <1>2, <2>2 DEF RunOK
  <2> QED BY <1>1, <1>2, <2>1, <2>3, QuietStep
<1> QED BY <1>3, <1>4

\* The discard of a text.
LEMMA DiscardStep ==
    ASSUME IInv, NEW w \in Workers, NEW lost \in BOOLEAN, Discard(w, lost)
    PROVE  IInv'
<1> DEFINE j == run[w].job
<1>1. TypeOK /\ ReadyHasResult /\ run[w] \in Runs /\ j \in Jobs /\ faults' \in 0 .. MaxFaults
         /\ run[w].pc = "discard" /\ UNCHANGED <<job, older, results>> /\ texts' = texts \ {j}
  BY ChargeType DEF IInv, TypeOK, Runs, Discard, Step
<1>2. /\ run' \in [Workers -> Runs]
      /\ run'[w].pc \in {"idle", "recover", "unsource", "fail"}
      /\ run'[w].pc = "fail" => run'[w].job = j
      /\ \A v \in Workers \ {w} : run'[v] = run[v]
  <2>1. CASE Return(w)
    BY <1>1, <2>1, LeaveEffect
  <2>2. CASE Go(w, "fail")
    <3>1. "fail" \in Pcs
      BY DEF Pcs
    <3> QED BY <1>1, <2>2, <3>1, GoEffect
  <2> QED BY <2>1, <2>2 DEF Discard
<1>3. TypeOK' /\ ReadyHasResult'
  BY <1>1, <1>2 DEF TypeOK, ReadyHasResult
<1>4. j \notin Slow => Secured(w, j) /\ j \notin results
  BY <1>1 DEF IInv, WorkOK, RunOK, Secured, Holds, ReadyHasResult
<1>5. ASSUME NEW v \in Workers \ {w} PROVE Stable(v)
  <2>1. j \notin Slow => ~Secured(v, j)
    BY <1>4 DEF Secured, Holds
  <2> QED BY <1>1, <1>2, <2>1 DEF Stable, Secured, Holds
<1>6. TextKeptInTime' /\ RunOK(w)'
  BY <1>1, <1>2, <1>4 DEF IInv, WorkOK, TextKeptInTime, RunOK, Secured, Holds
<1> QED BY <1>1, <1>3, <1>5, <1>6, RunStep

\* The failure of a run under its lease.
LEMMA FailStep ==
    ASSUME IInv, NEW w \in Workers, NEW lost \in BOOLEAN, Fail(w, lost)
    PROVE  IInv'
<1> DEFINE j == run[w].job
<1>1. TypeOK /\ ReadyHasResult /\ run[w] \in Runs /\ j \in Jobs /\ faults' \in 0 .. MaxFaults
         /\ (Return(w) \/ Throw(w)) /\ UNCHANGED <<older, results, texts>>
  BY ChargeType DEF IInv, TypeOK, Runs, Fail
<1>2. CASE Holds(w, j)
  <2>1. j \notin results /\ \A v \in Workers \ {w} : ~Secured(v, j)
    BY <1>1, <1>2 DEF Holds, Secured, ReadyHasResult
  <2> QED BY <1>1, <1>2, <2>1, FailureStep DEF Fail
<1>3. CASE ~Holds(w, j)
  BY <1>1, <1>3, LeaveQuietly DEF Fail
<1> QED BY <1>2, <1>3

\* Calls that fail and workers that die.
LEMMA FaultSteps ==
    ASSUME IInv, NEW w \in Workers, CallFails(w) \/ Crash(w)
    PROVE  IInv'
<1> DEFINE j == run[w].job
<1>1. TypeOK /\ run[w] \in Runs /\ j \in Jobs /\ faults' \in 0 .. MaxFaults
         /\ UNCHANGED <<job, older, results, texts>>
  BY ExtractionAssumption
     DEF IInv, TypeOK, Runs, CallFails, Crash, Spend, ExtractionAssumption
<1>2. CASE Return(w) \/ Throw(w)
  BY <1>1, <1>2, LeaveQuietly
<1>3. ASSUME NEW to \in {"unsource", "idle"}, Go(w, to)
      PROVE  IInv'
  <2>1. to \in Pcs
    BY DEF Pcs
  <2>2. RunOK(w)'
    BY <1>1, <1>3, <2>1, GoEffect DEF RunOK
  <2> QED BY <1>1, <1>3, <2>1, <2>2, GoEffect, QuietStep
<1>4. CASE Go(w, "result") /\ run[w].pc \in {"head", "publish"}
  <2>1. "result" \in Pcs
    BY DEF Pcs
  <2>2. RunOK(w)'
    BY <1>1, <1>4, <2>1, GoEffect DEF IInv, WorkOK, RunOK, Secured, Holds
  <2> QED BY <1>1, <1>4, <2>1, <2>2, GoEffect, QuietStep
<1> QED BY <1>2, <1>3, <1>4 DEF CallFails, Crash, Step

\* Time stops before the lease of a run at work ends, unless its job is slow.
LEMMA TickStep ==
    ASSUME IInv, Tick
    PROVE  IInv'
<1>1. TypeOK /\ ReadyHasResult /\ UNCHANGED <<older, results, texts, run, faults>>
  BY DEF IInv, Tick
<1>2. \A k \in Jobs : /\ job[k] \in JobRows /\ job'[k] \in JobRows
                      /\ job'[k].status = job[k].status /\ job'[k].owner = job[k].owner
                      /\ job[k].left > 0 => job'[k].left >= 0
  <2> SUFFICES ASSUME NEW k \in Jobs
               PROVE  /\ job[k] \in JobRows /\ job'[k] \in JobRows
                      /\ job'[k].status = job[k].status /\ job'[k].owner = job[k].owner
                      /\ job[k].left > 0 => job'[k].left >= 0
      OBVIOUS
  <2>1. job[k] \in JobRows
    BY <1>1 DEF TypeOK
  <2>2. job'[k] = IF LeaseRuns(k) THEN [job[k] EXCEPT !.left = @ - 1] ELSE job[k]
    BY DEF Tick
  <2> QED BY <2>1, <2>2, ExtractionAssumption DEF JobRows, LeaseRuns, ExtractionAssumption
<1>3. job' \in [Jobs -> JobRows]
  BY <1>2 DEF Tick
<1>4. TypeOK' /\ ReadyHasResult'
  BY <1>1, <1>2, <1>3 DEF TypeOK, ReadyHasResult
<1>5. ASSUME NEW w \in Workers PROVE RunOK(w)'
  <2>1. RunOK(w) /\ run[w].job \in Jobs
    BY <1>1 DEF IInv, WorkOK, TypeOK, Runs
  <2>2. AtWork(w) /\ run[w].job \notin Slow => job[run[w].job].left > 0
    BY DEF Tick
  <2> QED BY <1>1, <1>2, <2>1, <2>2 DEF RunOK, Secured, Holds, AtWork
<1> QED BY <1>1, <1>4, <1>5 DEF IInv, WorkOK, TextKeptInTime

\* Every step keeps the invariant.
LEMMA NextIInv == IInv /\ [Next]_vars => IInv'
<1> SUFFICES ASSUME IInv, [Next]_vars PROVE IInv'
    OBVIOUS
<1>1. ASSUME NEW w \in Workers, Arrive(w) \/ Progress(w) \/ Fault(w)
      PROVE  IInv'
  BY <1>1, AroundSteps, FailRecoveryStep, CommitStep, ClaimStep, ReadSteps, PutStep, PublishStep,
     DiscardStep, FailStep, FaultSteps DEF Progress, Fault
<1>2. CASE Tick
  BY <1>2, TickStep
<1>3. CASE UNCHANGED vars
  BY <1>3 DEF vars, IInv, TypeOK, ReadyHasResult, WorkOK, TextKeptInTime, RunOK, Secured, Holds
<1> QED BY <1>1, <1>2, <1>3 DEF Next

\* The initial state satisfies the invariant.
LEMMA InitIInv == Init => IInv
<1> SUFFICES ASSUME Init PROVE IInv
    OBVIOUS
<1>1. TypeOK
  BY UnleasedType, ExtractionAssumption DEF Init, TypeOK, Runs, Pcs, ExtractionAssumption
<1>2. ReadyHasResult
  BY DEF Init, ReadyHasResult, Unleased
<1>3. WorkOK
  BY DEF Init, WorkOK, TextKeptInTime, RunOK
<1> QED BY <1>1, <1>2, <1>3 DEF IInv

\* The invariant holds in every reachable state.
THEOREM Invariance == Spec => []IInv
BY InitIInv, NextIInv, PTL DEF Spec

\* Every variable keeps its type.
THEOREM TypeCorrect == Spec => []TypeOK
<1>1. IInv => TypeOK
  BY DEF IInv
<1> QED BY <1>1, Invariance, PTL

\* A job is ready exactly when it has its result, whether or not runs outlive their leases.
THEOREM ReadyMeansResult == Spec => []ReadyHasResult
<1>1. IInv => ReadyHasResult
  BY DEF IInv
<1> QED BY <1>1, Invariance, PTL

\* Where no run outlives its lease, the text of a published result stays.
THEOREM TextKept == Spec => []TextKeptInTime
<1>1. IInv => TextKeptInTime
  BY DEF IInv, WorkOK
<1> QED BY <1>1, Invariance, PTL

\* Under a lease that has not run out at most one run stores, verifies and publishes.
THEOREM OneRunAtWork == Spec => []LeaseExclusive
<1>1. IInv => LeaseExclusive
  <2> SUFFICES ASSUME IInv, NEW v \in Workers, NEW w \in Workers, run[w].job \notin Slow,
                      AtWork(v), run[w].pc \in {"put", "head", "publish"}, run[v].job = run[w].job
               PROVE  v = w
      BY DEF LeaseExclusive
  <2>1. Holds(v, run[v].job) /\ Holds(w, run[w].job)
    BY DEF IInv, WorkOK, RunOK, Secured, AtWork
  <2> QED BY <2>1 DEF Holds
<1> QED BY <1>1, Invariance, PTL

-----------------------------------------------------------------------------
(* Who settles a job.                                                      *)

\* A step of one request settles no job but its own under its lease, or one whose lease ran out.
LEMMA SettlesOwn ==
    ASSUME IInv, NEW w \in Workers, Arrive(w) \/ Progress(w) \/ Fault(w),
           NEW j \in Jobs, job[j].status = "processing", job'[j].status # "processing"
    PROVE  job[j].left < 0 \/ (job[j].owner = w /\ run'[w] # run[w])
<1>1. TypeOK /\ run[w] \in Runs /\ run[w].job \in Jobs
  BY DEF IInv, TypeOK, Runs
<1>2. ~UNCHANGED job
  OBVIOUS
<1>3. ASSUME NEW lost \in BOOLEAN, FailRecovery(w, lost)
      PROVE  job[j].left < 0
  BY <1>1, <1>3, SettleEffect DEF FailRecovery, Claimable
<1>4. CASE Commit(w)
  <2>1. PICK k \in Jobs : job[k].status = "absent" /\ job' = [job EXCEPT ![k] = Unleased("queued")]
    BY <1>2, <1>4 DEF Commit
  <2> QED BY <1>1, <2>1 DEF TypeOK
<1>5. ASSUME NEW lost \in BOOLEAN, Claim(w, lost)
      PROVE  FALSE
  <2>1. Fresh(w)[j].status = job[j].status
    BY <1>1, FreshEffect
  <2>2. Leased(w, run[w].job)[j].status = "processing"
    <3>1. CASE j = run[w].job
      <4>0. Leased(w, j)[j] = [status |-> "processing", owner |-> w, left |-> LeaseTime]
        BY <1>1, LeasedEffect
      <4>1. Leased(w, j)[j].status = "processing"
        BY <4>0
      <4> QED BY <3>1, <4>1
    <3>2. CASE j # run[w].job
      BY <1>1, <2>1, <3>2, LeasedEffect
    <3> QED BY <3>1, <3>2
  <2> QED BY <1>5, <2>1, <2>2 DEF Claim
<1>6. ASSUME NEW lost \in BOOLEAN, Publish(w, lost) \/ Fail(w, lost)
      PROVE  job[j].owner = w /\ run'[w] # run[w]
  <2>1. Holds(w, run[w].job) /\ (Settle(run[w].job, "ready") \/ Settle(run[w].job, "failed"))
    BY <1>2, <1>6 DEF Publish, Fail
  <2>2. j = run[w].job
    BY <1>1, <2>1, SettleEffect
  <2>3. run'[w].pc \in {"idle", "recover", "unsource", "result"}
    <3>1. "result" \in Pcs
      BY DEF Pcs
    <3> QED BY <1>1, <1>6, <3>1, GoEffect, LeaveEffect DEF Publish, Fail
  <2>4. run[w].pc \in {"publish", "fail"}
    BY <1>6 DEF Publish, Fail, Step
  <2> QED BY <2>1, <2>2, <2>3, <2>4 DEF Holds
<1>7. CASE \/ Arrive(w) \/ Recover(w) \/ ReadSource(w) \/ ReadLease(w) \/ HeadObject(w)
           \/ ReadResult(w) \/ CallFails(w) \/ Crash(w)
           \/ \E lost \in BOOLEAN : Put(w, lost) \/ Discard(w, lost)
  BY <1>2, <1>7 DEF Arrive, Recover, ReadSource, ReadLease, HeadObject, ReadResult, CallFails,
                    Crash, Put, Discard
<1> QED BY <1>3, <1>4, <1>5, <1>6, <1>7 DEF Progress, Fault

\* A run that was taken over neither publishes nor fails the job of its successor.
THEOREM OnlyLeaseSettles == Spec => OnlyHolderSettles
<1>1. ASSUME IInv, [Next]_vars PROVE [HolderSettles]_vars
  <2>1. ASSUME NEW w \in Workers, Arrive(w) \/ Progress(w) \/ Fault(w)
        PROVE  HolderSettles
    BY <1>1, <2>1, SettlesOwn DEF HolderSettles
  <2>2. CASE Tick
    <3>1. ASSUME NEW j \in Jobs PROVE job'[j].status = job[j].status
      <4>1. job[j] \in JobRows
        BY <1>1 DEF IInv, TypeOK
      <4> QED BY <2>2, <4>1 DEF Tick, JobRows
    <3> QED BY <3>1 DEF HolderSettles
  <2> QED BY <1>1, <2>1, <2>2 DEF Next
<1>2. IInv /\ [Next]_vars => [HolderSettles]_vars
  BY <1>1
<1> QED BY <1>2, Invariance, PTL DEF Spec, OnlyHolderSettles
=============================================================================
