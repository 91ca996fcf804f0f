------------------------- MODULE ProposalJobs_proofs -------------------------
(***************************************************************************)
(* The safety of proposal generation for every number of requests, slots,  *)
(* attempts and revisions.                                                 *)
(*                                                                         *)
(* A request that claimed an attempt and has not called the model yet is a *)
(* caller of its job.  A claim turns the place that the queued attempt     *)
(* left free into a caller, and a caller into a call: so the calls stay    *)
(* within the attempts although nothing fences the call itself.            *)
(*                                                                         *)
(* What the slots bound is the rows of the leases.  A row may end under a  *)
(* call that outlasts it, so the calls that have one for certain are those *)
(* that are over before it.                                                *)
(***************************************************************************)
EXTENDS ProposalJobs, FiniteSetTheorems, TLAPS

\* The requests that will call the model for a job: at work, or about to learn of their lease.
Callers(j) ==
    {w \in Workers :
        /\ JobOf(w) = j
        /\ \/ At(w, "work")
           \/ At(w, "confirm") /\ jobs[j].status = "processing" /\ jobs[j].owner = w}

\* The attempts of a job that were claimed.
Claimed(j) == IF jobs[j].status = "queued" THEN jobs[j].attempt - 1 ELSE jobs[j].attempt

CallsBudget == \A j \in Jobs : calls[j] + Cardinality(Callers(j)) <= Claimed(j)

\* A row that no request owns says so, and an absent one says nothing.
RowOK(row) ==
    /\ row.status = "absent" => row = Absent
    /\ row.status = "queued" => row.attempt >= 1
    /\ row.status = "processing" => row.owner \in Workers

RowsKept == \A j \in Jobs : RowOK(jobs[j])

\* A request never holds a ready job for one to be queued.
SeenOK(q) ==
    /\ q.pc = "find" => q.seen.status = "absent"
    /\ q.pc = "requeue" => q.seen.status \in {"processing", "failed"}
    /\ q.pc = "revision" => q.seen.status # "ready"

SeenKept == \A w \in Workers : SeenOK(req[w])

\* Before a request claims its job, the job is not under its owner id.
Unclaimed(table, w, q) ==
    q.pc = "claim" \/ (q.pc = "revision" /\ q.seen.status = "queued")
    => ~(table[q.sent.job].status = "processing" /\ table[q.sent.job].owner = w)

ClaimsKept == \A w \in Workers : Unclaimed(jobs, w, req[w])

ReceiptsKept ==
    /\ \A r \in Revisions : r > revision => receipt[r] = None
    /\ \A j \in Jobs : j \in proposed <=> j[1] < MaxRevision /\ receipt[j[1] + 1] = j
    /\ \A j \in proposed : jobs[j].status = "ready"

Plain ==
    /\ revision \in Revisions
    /\ receipt \in [Revisions -> Jobs \cup {None}]
    /\ jobs \in [Jobs -> Rows]
    /\ proposed \subseteq Jobs
    /\ calls \in [Jobs -> Nat]
    /\ leased \subseteq Workers
    /\ abandoned \in Nat
    /\ req \in [Workers -> Runs]
    /\ faults \in 0 .. MaxFaults

\* The lines at which a call is in flight that its lease covers.
CoveredPcs == {"call", "plan", "repair"}

\* The rows of studio_ai_leases fit the slots, and a covered call has one of them.
SlotRows ==
    /\ Cardinality(leased) + abandoned <= Slots
    /\ \A w \in Workers : req[w].pc \in CoveredPcs => w \in leased

IInv ==
    /\ Plain /\ SlotRows /\ CallsBudget
    /\ RowsKept /\ SeenKept /\ ClaimsKept /\ ReceiptsKept

-----------------------------------------------------------------------------
(* What the helpers are.                                                   *)

\* The row of nothing, and what a request reads of a row.
LEMMA AbsentType == Absent \in Rows /\ \A row \in Rows : Read(row) \in Seen
<1>1. 0 \in 0 .. MaxAttempts
  BY ProposalAssumption DEF ProposalAssumption
<1>2. Absent \in Rows
  BY <1>1 DEF Absent, Unowned, Rows, Statuses
<1>3. ASSUME NEW row \in Rows PROVE Read(row) \in Seen
  BY DEF Read, Rows, Seen
<1> QED BY <1>2, <1>3

\* A request at rest.
LEMMA RestType == Rest \in Runs /\ Rest.pc = "idle" /\ SeenOK(Rest)
<1>1. (CHOOSE q \in Requests : TRUE) \in Requests
  BY ProposalAssumption DEF ProposalAssumption
<1>2. Read(Absent) \in Seen
  BY AbsentType
<1>3. Rest \in Runs
  BY <1>1, <1>2 DEF Rest, Runs, Pcs
<1> QED BY <1>3 DEF Rest, SeenOK

\* The job of a request is a job.
LEMMA JobOfType == ASSUME Plain, NEW w \in Workers PROVE JobOf(w) \in Jobs /\ Row(w) \in Rows
<1>1. req[w] \in Runs
  BY DEF Plain
<1>2. req[w].sent \in [key : Keys, job : Jobs, retry : BOOLEAN]
  BY <1>1, ProposalAssumption DEF Runs, ProposalAssumption
<1>3. JobOf(w) \in Jobs
  BY <1>2 DEF JobOf
<1> QED BY <1>3 DEF Row, Plain

\* Found returns a job or None, and None only where the request's own job is absent.
LEMMA FoundType ==
    ASSUME Plain, NEW w \in Workers
    PROVE  /\ Found(req[w].sent) \in Jobs \cup {None}
           /\ Found(req[w].sent) = None => Row(w).status = "absent"
<1> DEFINE q == req[w].sent
           byKey == {j \in Jobs : jobs[j].key = q.key}
<1>1. q.job \in Jobs /\ Row(w) = jobs[q.job]
  BY JobOfType DEF JobOf, Row
<1>2. CASE byKey # {}
  <2>1. Found(q) = CHOOSE j \in byKey : TRUE
    BY <1>2 DEF Found
  <2>2. Found(q) \in Jobs
    BY <2>1, <1>2
  <2> QED BY <2>2, ProposalAssumption DEF ProposalAssumption
<1>3. CASE byKey = {}
  <2>1. Found(q) = IF jobs[q.job].status # "absent" THEN q.job ELSE None
    BY <1>3 DEF Found
  <2> QED BY <2>1, <1>1, ProposalAssumption DEF ProposalAssumption
<1> QED BY <1>2, <1>3

\* What was found is a job that is there.
LEMMA FoundThere ==
    ASSUME Plain, RowsKept, NEW w \in Workers, Found(req[w].sent) # None
    PROVE  jobs[Found(req[w].sent)].status # "absent"
<1> DEFINE q == req[w].sent
           byKey == {j \in Jobs : jobs[j].key = q.key}
<1>1. CASE byKey # {}
  <2>1. Found(q) = CHOOSE j \in byKey : TRUE
    BY <1>1 DEF Found
  <2>2. Found(q) \in Jobs /\ jobs[Found(q)].key = q.key
    BY <2>1, <1>1
  <2>3. req[w] \in Runs
    BY DEF Plain
  <2>4. q.key \in Keys
    BY <2>3, ProposalAssumption DEF Runs, ProposalAssumption
  <2>5. jobs[Found(q)] # Absent
    BY <2>2, <2>4, ProposalAssumption DEF Absent, Unowned, ProposalAssumption
  <2> QED BY <2>2, <2>5 DEF RowsKept, RowOK
<1>2. CASE byKey = {}
  <2>1. Found(q) = IF jobs[q.job].status # "absent" THEN q.job ELSE None
    BY <1>2 DEF Found
  <2> QED BY <2>1
<1> QED BY <1>1, <1>2

\* One request moves on, the others stay.
LEMMA OneMoves ==
    ASSUME Plain, NEW w \in Workers, NEW q \in Runs, req' = [req EXCEPT ![w] = q]
    PROVE  /\ req' \in [Workers -> Runs] /\ req'[w] = q
           /\ \A v \in Workers \ {w} : req'[v] = req[v]
BY DEF Plain

\* A request at another line, with what it read last.
Turned(w, pc, seen) == [pc |-> pc, sent |-> req[w].sent, seen |-> seen]

LEMMA TurnedType ==
    ASSUME Plain, NEW w \in Workers, NEW pc \in Pcs, NEW seen \in Seen
    PROVE  /\ Turned(w, pc, seen) \in Runs
           /\ Turned(w, pc, seen).pc = pc /\ Turned(w, pc, seen).seen = seen
           /\ Turned(w, pc, seen).sent = req[w].sent
<1>1. req[w] \in [pc : Pcs, sent : Requests, seen : Seen]
  BY DEF Plain, Runs
<1> QED BY <1>1 DEF Runs, Turned

\* A request that only goes to another line keeps what it read.
LEMMA GotoTurned ==
    ASSUME Plain, NEW w \in Workers, NEW pc \in Pcs, Goto(w, pc)
    PROVE  req' = [req EXCEPT ![w] = Turned(w, pc, req[w].seen)] /\ req[w].seen \in Seen
<1>1. req[w] \in [pc : Pcs, sent : Requests, seen : Seen]
  BY DEF Plain, Runs
<1> DEFINE r == [req[w] EXCEPT !.pc = pc]
<1>2. r = Turned(w, pc, req[w].seen)
  BY <1>1 DEF Turned
<1>3. req' = [req EXCEPT ![w] = r]
  BY DEF Goto
<1> QED BY <1>1, <1>2, <1>3

-----------------------------------------------------------------------------
(* Slots and callers.                                                      *)

\* The requests are finitely many, and so are those that hold a slot and those that will call.
LEMMA Finite ==
    /\ IsFiniteSet(Workers)
    /\ \A S \in SUBSET Workers : IsFiniteSet(S) /\ Cardinality(S) \in Nat
    /\ \A j \in Jobs : IsFiniteSet(Callers(j)) /\ Cardinality(Callers(j)) \in Nat
<1>1. IsFiniteSet(Workers)
  BY ProposalAssumption DEF ProposalAssumption
<1>2. ASSUME NEW S \in SUBSET Workers PROVE IsFiniteSet(S) /\ Cardinality(S) \in Nat
  BY <1>1, FS_Subset, FS_CardinalityType
<1>3. \A j \in Jobs : Callers(j) \in SUBSET Workers
  BY DEF Callers
<1> QED BY <1>1, <1>2, <1>3

\* What a step of a request may do to the rows of the slots.
SlotsMove(w) ==
    \/ UNCHANGED <<leased, abandoned>>
    \/ \E lost \in BOOLEAN : TakeSlot(w, lost) \/ GiveBack(w, lost)

\* A row is added only while there is room for it, and a row given up is one row still at most.
LEMMA RowsFit ==
    ASSUME Plain, SlotRows, NEW w \in Workers, SlotsMove(w)
    PROVE  /\ leased' \subseteq Workers /\ abandoned' \in Nat
           /\ Cardinality(leased') + abandoned' <= Slots
           /\ leased \ {w} \subseteq leased'
<1>1. /\ abandoned \in Nat /\ Slots \in Nat /\ leased \in SUBSET Workers
      /\ Cardinality(leased) + abandoned <= Slots
  BY ProposalAssumption DEF Plain, SlotRows, ProposalAssumption
<1>2. IsFiniteSet(leased) /\ Cardinality(leased) \in Nat
  BY <1>1, Finite
<1>3. CASE UNCHANGED <<leased, abandoned>>
  BY <1>1, <1>3
<1>4. ASSUME NEW lost \in BOOLEAN, TakeSlot(w, lost)
      PROVE  /\ leased' \subseteq Workers /\ abandoned' \in Nat
             /\ Cardinality(leased') + abandoned' <= Slots
             /\ leased \ {w} \subseteq leased'
  <2>1. Cardinality(leased) + abandoned < Slots
    BY <1>4 DEF TakeSlot, SlotFree
  <2>2. CASE leased' = leased /\ abandoned' = abandoned + 1
    BY <1>1, <1>2, <2>1, <2>2
  <2>3. CASE leased' = leased \cup {w} /\ abandoned' = abandoned
    <3>1. Cardinality(leased \cup {w}) <= Cardinality(leased) + 1
          /\ Cardinality(leased \cup {w}) \in Nat
      BY <1>1, <1>2, Finite, FS_AddElement
    <3> QED BY <1>1, <1>2, <2>1, <2>3, <3>1
  <2> QED BY <1>4, <2>2, <2>3 DEF TakeSlot
<1>5. ASSUME NEW lost \in BOOLEAN, GiveBack(w, lost)
      PROVE  /\ leased' \subseteq Workers /\ abandoned' \in Nat
             /\ Cardinality(leased') + abandoned' <= Slots
             /\ leased \ {w} \subseteq leased'
  <2>1. leased' = leased \ {w} /\ abandoned' \in Nat
    BY <1>1, <1>5 DEF GiveBack
  <2>2. CASE w \in leased
    <3>1. Cardinality(leased \ {w}) = Cardinality(leased) - 1
      BY <1>2, <2>2, FS_RemoveElement
    <3>2. abandoned' <= abandoned + 1
      BY <1>1, <1>5 DEF GiveBack
    <3> QED BY <1>1, <1>2, <2>1, <3>1, <3>2
  <2>3. CASE w \notin leased
    <3>1. leased' = leased /\ abandoned' = abandoned
      BY <1>5, <2>1, <2>3 DEF GiveBack
    <3> QED BY <1>1, <3>1
  <2> QED BY <2>2, <2>3
<1> QED BY <1>3, <1>4, <1>5 DEF SlotsMove

\* A job that gets no caller and no call, and whose attempt is not taken back.
LEMMA BudgetAt ==
    ASSUME Plain, CallsBudget, NEW j \in Jobs, calls'[j] = calls[j], jobs' \in [Jobs -> Rows],
           Callers(j)' \subseteq Callers(j), Claimed(j)' >= Claimed(j)
    PROVE  calls'[j] + Cardinality(Callers(j)') <= Claimed(j)'
<1>1. Cardinality(Callers(j)') <= Cardinality(Callers(j)) /\ Cardinality(Callers(j)') \in Nat
  BY Finite, FS_Subset, FS_CardinalityType
<1>2. calls[j] + Cardinality(Callers(j)) <= Claimed(j) /\ calls[j] \in Nat
  BY DEF CallsBudget, Plain
<1>3. jobs[j].attempt \in Int /\ jobs'[j].attempt \in Int
  BY ProposalAssumption DEF Plain, Rows, ProposalAssumption
<1>4. Claimed(j) \in Int /\ Claimed(j)' \in Int
  BY <1>3 DEF Claimed
<1> QED BY <1>1, <1>2, <1>4, Finite

\* Where no job gets another caller or call, and no attempt is taken back, the budget holds.
LEMMA BudgetKept ==
    ASSUME Plain, CallsBudget, UNCHANGED calls, jobs' \in [Jobs -> Rows],
           \A j \in Jobs : Callers(j)' \subseteq Callers(j),
           \A j \in Jobs : Claimed(j)' >= Claimed(j)
    PROVE  CallsBudget'
<1> SUFFICES ASSUME NEW j \in Jobs
             PROVE  calls'[j] + Cardinality(Callers(j)') <= Claimed(j)'
    BY DEF CallsBudget
<1>1. Claimed(j)' >= Claimed(j) /\ Callers(j)' \subseteq Callers(j)
  OBVIOUS
<1> QED BY <1>1, BudgetAt

-----------------------------------------------------------------------------
(* A step of one request.                                                  *)

\* What every step of a request keeps: the others do not move, and only its own owner id enters
\* a row.
LEMMA AnyStep ==
    ASSUME IInv, NEW w \in Workers, NEW q \in Runs, req' = [req EXCEPT ![w] = q], SeenOK(q),
           Unclaimed(jobs', w, q), jobs' \in [Jobs -> Rows],
           \A j \in Jobs : \/ jobs'[j] = jobs[j]
                           \/ jobs'[j].status = "processing" => jobs'[j].owner = w,
           calls' \in [Jobs -> Nat], faults' \in 0 .. MaxFaults,
           SlotsMove(w), q.pc \in CoveredPcs => w \in leased',
           revision' \in Revisions, receipt' \in [Revisions -> Jobs \cup {None}],
           proposed' \subseteq Jobs
    PROVE  /\ Plain' /\ SlotRows' /\ SeenKept' /\ ClaimsKept'
           /\ req'[w] = q /\ \A v \in Workers \ {w} : req'[v] = req[v]
<1> USE DEF IInv
<1>1. /\ req' \in [Workers -> Runs] /\ req'[w] = q
      /\ \A v \in Workers \ {w} : req'[v] = req[v]
  BY OneMoves
<1>0. /\ leased' \subseteq Workers /\ abandoned' \in Nat
      /\ Cardinality(leased') + abandoned' <= Slots /\ leased \ {w} \subseteq leased'
  BY RowsFit
<1>2. Plain'
  BY <1>0, <1>1 DEF Plain
<1>5. SlotRows'
  BY <1>0, <1>1 DEF SlotRows
<1>3. SeenKept'
  BY <1>1 DEF SeenKept
<1>4. ClaimsKept'
  <2> SUFFICES ASSUME NEW v \in Workers PROVE Unclaimed(jobs', v, req'[v])
    BY DEF ClaimsKept
  <2>1. CASE v = w
    BY <2>1, <1>1
  <2>2. CASE v # w
    <3>1. req'[v] = req[v] /\ Unclaimed(jobs, v, req[v]) /\ JobOf(v) \in Jobs
      BY <2>2, <1>1, JobOfType DEF ClaimsKept
    <3>2. \/ jobs'[JobOf(v)] = jobs[JobOf(v)]
          \/ jobs'[JobOf(v)].status = "processing" => jobs'[JobOf(v)].owner = w
      BY <3>1
    <3> QED BY <2>2, <3>1, <3>2 DEF Unclaimed, JobOf
  <2> QED BY <2>1, <2>2
<1> QED BY <1>1, <1>2, <1>3, <1>4, <1>5

\* A step that neither claims nor starts to work, and calls for no job.
LEMMA QuietStep ==
    ASSUME IInv, NEW w \in Workers, NEW q \in Runs, req' = [req EXCEPT ![w] = q], SeenOK(q),
           Unclaimed(jobs', w, q), q.pc \notin {"work", "confirm"},
           SlotsMove(w), q.pc \in CoveredPcs => w \in leased',
           jobs' \in [Jobs -> Rows], RowsKept',
           \A j \in Jobs : Claimed(j)' >= Claimed(j),
           \A j \in Jobs : jobs'[j] = jobs[j] \/ jobs'[j].status # "processing",
           UNCHANGED calls, faults' \in 0 .. MaxFaults,
           revision' \in Revisions, receipt' \in [Revisions -> Jobs \cup {None}],
           proposed' \subseteq Jobs, ReceiptsKept'
    PROVE  IInv'
<1> USE DEF IInv
<1>1. /\ Plain' /\ SlotRows' /\ SeenKept' /\ ClaimsKept'
      /\ req'[w] = q /\ \A v \in Workers \ {w} : req'[v] = req[v]
  <2>1. calls' \in [Jobs -> Nat]
    BY DEF Plain
  <2> QED BY <2>1, AnyStep
<1>3. CallsBudget'
  <2>1. ASSUME NEW j \in Jobs, NEW v \in Callers(j)' PROVE v \in Callers(j)
    <3>1. v \in Workers /\ v # w
      BY <2>1, <1>1 DEF Callers, At
    <3>2. req'[v] = req[v]
      BY <3>1, <1>1
    <3>3. jobs'[j].status = "processing" => jobs'[j] = jobs[j]
      BY <2>1
    <3> QED BY <2>1, <3>1, <3>2, <3>3 DEF Callers, At, JobOf
  <2> QED BY <2>1, BudgetKept
<1> QED BY <1>1, <1>3

\* The same where only the request itself moves on.
LEMMA OnlyRequest ==
    ASSUME IInv, NEW w \in Workers, NEW q \in Runs, req' = [req EXCEPT ![w] = q], SeenOK(q),
           Unclaimed(jobs, w, q), q.pc \notin {"work", "confirm"},
           SlotsMove(w), q.pc \in CoveredPcs => w \in leased',
           UNCHANGED <<revision, receipt, jobs, proposed, calls>>,
           faults' \in 0 .. MaxFaults
    PROVE  IInv'
<1>1. Plain /\ RowsKept' /\ ReceiptsKept'
  BY DEF IInv, RowsKept, ReceiptsKept
<1>2. \A j \in Jobs : Claimed(j)' = Claimed(j) /\ Claimed(j) \in Int
  BY <1>1, ProposalAssumption DEF Claimed, Plain, Rows, ProposalAssumption
<1>3. \A j \in Jobs : Claimed(j)' >= Claimed(j)
  BY <1>2
<1>4. /\ jobs' \in [Jobs -> Rows] /\ revision' \in Revisions
      /\ receipt' \in [Revisions -> Jobs \cup {None}] /\ proposed' \subseteq Jobs
  BY <1>1 DEF Plain
<1>5. Unclaimed(jobs', w, q)
  OBVIOUS
<1> QED BY <1>1, <1>3, <1>4, <1>5, QuietStep

\* A request that goes to a line where nothing is asked of what it saw.
LEMMA GoStep ==
    ASSUME IInv, NEW w \in Workers, NEW pc \in Pcs, Goto(w, pc),
           pc \notin {"find", "revision", "requeue", "claim", "work", "confirm"},
           SlotsMove(w), pc \in CoveredPcs => w \in leased',
           UNCHANGED <<revision, receipt, jobs, proposed, calls>>,
           faults' \in 0 .. MaxFaults
    PROVE  IInv'
<1>1. Plain
  BY DEF IInv
<1> DEFINE q == Turned(w, pc, req[w].seen)
<1>2. req[w].seen \in Seen
  BY <1>1 DEF Plain, Runs
<1>3. q \in Runs /\ q.pc = pc /\ req' = [req EXCEPT ![w] = q]
  BY <1>1, <1>2, TurnedType, GotoTurned
<1>4. SeenOK(q) /\ Unclaimed(jobs, w, q)
  BY <1>3 DEF SeenOK, Unclaimed
<1> HIDE DEF q
<1> QED BY <1>3, <1>4, OnlyRequest

\* A request that is answered, or stops.
LEMMA RestStep ==
    ASSUME IInv, NEW w \in Workers, Done(w), SlotsMove(w),
           UNCHANGED <<revision, receipt, jobs, proposed, calls>>,
           faults' \in 0 .. MaxFaults
    PROVE  IInv'
<1>1. req' = [req EXCEPT ![w] = Rest]
  BY DEF Done
<1>2. Unclaimed(jobs, w, Rest) /\ Rest.pc \notin CoveredPcs
  BY RestType DEF Unclaimed, CoveredPcs
<1> QED BY <1>1, <1>2, RestType, OnlyRequest

\* A row that no request holds takes the place of one that was not ready.
LEMMA JobStep ==
    ASSUME IInv, NEW w \in Workers, NEW q \in Runs, req' = [req EXCEPT ![w] = q], SeenOK(q),
           q.pc \notin {"work", "confirm"} \cup CoveredPcs,
           q.sent = req[w].sent \/ q.pc = "idle",
           NEW row \in Rows, RowOK(row), row.status # "processing",
           Row(w).status # "ready", Put(JobOf(w), row),
           (IF row.status = "queued" THEN row.attempt - 1 ELSE row.attempt) >= Claimed(JobOf(w)),
           UNCHANGED <<revision, receipt, proposed, calls, leased, abandoned>>,
           faults' \in 0 .. MaxFaults
    PROVE  IInv'
<1> DEFINE j == JobOf(w)
<1>1. Plain /\ j \in Jobs /\ Row(w) = jobs[j]
  BY JobOfType DEF IInv, Row
<1>2. /\ jobs' \in [Jobs -> Rows] /\ jobs'[j] = row
      /\ \A k \in Jobs \ {j} : jobs'[k] = jobs[k]
  BY <1>1 DEF Put, Plain
<1>3. RowsKept'
  BY <1>2 DEF IInv, RowsKept
<1>4. ASSUME NEW k \in Jobs PROVE Claimed(k)' >= Claimed(k)
  <2>1. CASE k = j
    BY <2>1, <1>2 DEF Claimed
  <2>2. CASE k # j
    <3>1. Claimed(k)' = Claimed(k) /\ Claimed(k) \in Int
      BY <2>2, <1>1, <1>2, ProposalAssumption DEF Claimed, Plain, Rows, ProposalAssumption
    <3> QED BY <3>1
  <2> QED BY <2>1, <2>2
<1>5. ReceiptsKept'
  <2>1. \A k \in proposed : jobs'[k].status = "ready"
    BY <1>1, <1>2 DEF IInv, ReceiptsKept, Plain
  <2> QED BY <2>1 DEF IInv, ReceiptsKept
<1>6. /\ revision' \in Revisions /\ receipt' \in [Revisions -> Jobs \cup {None}]
      /\ proposed' \subseteq Jobs /\ SlotsMove(w)
  BY <1>1 DEF Plain, SlotsMove
<1>7. \A k \in Jobs : jobs'[k] = jobs[k] \/ jobs'[k].status # "processing"
  BY <1>2
<1>8. UNCHANGED calls /\ jobs' \in [Jobs -> Rows]
  BY <1>2
<1>9. Unclaimed(jobs', w, q)
  BY <1>2 DEF Unclaimed, JobOf
<1> QED BY <1>3, <1>4, <1>5, <1>6, <1>7, <1>8, <1>9, QuietStep

-----------------------------------------------------------------------------
(* Finding, queueing and claiming.                                         *)

LEMMA ArriveStep == ASSUME IInv, NEW w \in Workers, Arrive(w) PROVE IInv'
<1>1. PICK r \in Requests :
         req' = [req EXCEPT ![w] = [pc |-> "find", sent |-> r, seen |-> Read(Absent)]]
  BY DEF Arrive
<1> DEFINE q == [pc |-> "find", sent |-> r, seen |-> Read(Absent)]
<1>3. Read(Absent) \in Seen /\ Read(Absent).status = "absent"
  BY AbsentType DEF Read, Absent, Unowned
<1>4. q \in Runs
  BY <1>3 DEF Runs, Pcs
<1>5. SeenOK(q) /\ q.pc = "find" /\ Unclaimed(jobs, w, q)
  BY <1>3 DEF SeenOK, Unclaimed
<1>6. /\ UNCHANGED <<revision, receipt, jobs, proposed, calls>>
      /\ SlotsMove(w) /\ faults' \in 0 .. MaxFaults /\ q.pc \notin CoveredPcs
  BY DEF Arrive, IInv, Plain, SlotsMove, CoveredPcs
<1>7. req' = [req EXCEPT ![w] = q]
  BY <1>1
<1> HIDE DEF q
<1> QED BY <1>4, <1>5, <1>6, <1>7, OnlyRequest

\* Whatever a read of the job answers.
LEMMA ConsiderStep ==
    ASSUME IInv, NEW w \in Workers, NEW next \in {"revision", "insert"}, Consider(w, next),
           next = "revision" => At(w, "find"),
           UNCHANGED <<revision, receipt, jobs, proposed, calls, leased, abandoned, faults>>
    PROVE  IInv'
<1> DEFINE j == Found(req[w].sent)
<1>0. /\ Plain /\ RowsKept /\ SeenKept /\ req[w] \in Runs
      /\ SlotsMove(w) /\ faults' \in 0 .. MaxFaults
  BY DEF IInv, Plain, SlotsMove
<1>1. CASE Done(w)
  BY <1>0, <1>1, RestStep
<1>2. CASE Goto(w, "revision") /\ j = None /\ next = "revision"
  <2> DEFINE q == Turned(w, "revision", req[w].seen)
  <2>1. "revision" \in Pcs /\ req[w].seen \in Seen
    BY <1>0 DEF Pcs, Runs
  <2>2. /\ q \in Runs /\ q.pc = "revision" /\ q.seen = req[w].seen
        /\ req' = [req EXCEPT ![w] = q]
    BY <1>0, <1>2, <2>1, TurnedType, GotoTurned
  <2>3. req[w].seen.status = "absent"
    BY <1>0, <1>2 DEF SeenOK, SeenKept, At
  <2>4. SeenOK(q) /\ Unclaimed(jobs, w, q) /\ q.pc \notin CoveredPcs
    BY <2>2, <2>3 DEF SeenOK, Unclaimed, CoveredPcs
  <2> HIDE DEF q
  <2> QED BY <2>2, <2>4, <1>0, OnlyRequest
<1>3. CASE /\ j # None /\ j = JobOf(w) /\ jobs[j].status # "ready"
           /\ With(w, jobs[j], IF next = "revision" THEN "revision"
                               ELSE IF jobs[j].status = "queued" THEN "claim" ELSE "requeue")
  <2>1. j \in Jobs /\ jobs[j] \in Rows /\ jobs[j].status # "absent"
    BY <1>0, <1>3, FoundType, FoundThere DEF Plain
  <2>2. Read(jobs[j]) \in Seen /\ Read(jobs[j]).status = jobs[j].status
    BY <2>1, AbsentType DEF Read
  <2> DEFINE pc == IF next = "revision" THEN "revision"
                   ELSE IF jobs[j].status = "queued" THEN "claim" ELSE "requeue"
             q  == Turned(w, pc, Read(jobs[j]))
  <2>3. pc \in Pcs
    BY DEF Pcs
  <2>4. /\ q \in Runs /\ q.pc = pc /\ q.seen = Read(jobs[j]) /\ q.sent = req[w].sent
        /\ req' = [req EXCEPT ![w] = q]
    BY <1>0, <1>3, <2>2, <2>3, TurnedType DEF With, Turned
  <2>5. jobs[j].status \in {"queued", "processing", "failed"}
    BY <2>1, <1>3 DEF Rows, Statuses
  <2>6. SeenOK(q) /\ q.pc \notin {"work", "confirm"} /\ q.pc \notin CoveredPcs
    BY <2>2, <2>4, <2>5 DEF SeenOK, CoveredPcs
  <2>7. Unclaimed(jobs, w, q)
    BY <2>2, <2>4, <2>5, <1>3 DEF Unclaimed, JobOf
  <2> HIDE DEF q
  <2> QED BY <2>4, <2>6, <2>7, <1>0, OnlyRequest
<1> QED BY <1>1, <1>2, <1>3 DEF Consider, Or, JobOf

\* Nothing of the Matter is touched by looking at it.
LEMMA CheckRevisionStep == ASSUME IInv, NEW w \in Workers, CheckRevision(w) PROVE IInv'
<1>1. /\ Plain /\ SeenKept /\ SlotsMove(w) /\ faults' \in 0 .. MaxFaults
      /\ UNCHANGED <<revision, receipt, jobs, proposed, calls>>
  BY DEF CheckRevision, IInv, Plain, SlotsMove
<1>2. CASE Done(w)
  BY <1>1, <1>2, RestStep
<1>3. CASE Goto(w, "insert")
  BY <1>1, <1>3, GoStep DEF Pcs, CoveredPcs
<1>5. CASE Goto(w, "claim") /\ req[w].seen.status = "queued"
  <2> DEFINE q == Turned(w, "claim", req[w].seen)
  <2>1. "claim" \in Pcs /\ req[w].seen \in Seen
    BY <1>1, <1>5, GotoTurned DEF Pcs
  <2>2. /\ q \in Runs /\ q.pc = "claim" /\ q.sent = req[w].sent
        /\ req' = [req EXCEPT ![w] = q]
    BY <1>1, <1>5, <2>1, TurnedType, GotoTurned
  <2>3. Unclaimed(jobs, w, req[w]) /\ req[w].pc = "revision"
    BY DEF IInv, ClaimsKept, CheckRevision, At
  <2>4. SeenOK(q) /\ Unclaimed(jobs, w, q) /\ q.pc \notin CoveredPcs
    BY <1>5, <2>2, <2>3 DEF SeenOK, Unclaimed, CoveredPcs
  <2> HIDE DEF q
  <2> QED BY <1>1, <2>2, <2>4, OnlyRequest
<1>4. CASE Goto(w, "requeue") /\ req[w].seen.status \notin {"absent", "queued"}
  <2> DEFINE q == Turned(w, "requeue", req[w].seen)
  <2>1. "requeue" \in Pcs /\ req[w].seen \in Seen
    BY <1>1, <1>4, GotoTurned DEF Pcs
  <2>2. q \in Runs /\ q.pc = "requeue" /\ q.seen = req[w].seen /\ req' = [req EXCEPT ![w] = q]
    BY <1>1, <1>4, <2>1, TurnedType, GotoTurned
  <2>3. req[w].seen.status # "ready"
    BY <1>1 DEF SeenKept, SeenOK, CheckRevision, At
  <2>4. SeenOK(q) /\ Unclaimed(jobs, w, q) /\ q.pc \notin CoveredPcs
    BY <1>4, <2>1, <2>2, <2>3 DEF SeenOK, Seen, Statuses, Unclaimed, CoveredPcs
  <2> HIDE DEF q
  <2> QED BY <1>1, <2>2, <2>4, OnlyRequest
<1> QED BY <1>2, <1>3, <1>4, <1>5 DEF CheckRevision, Or

\* A fault that an action risks is counted.
LEMMA ChargeType ==
    ASSUME Plain, NEW lost \in BOOLEAN, Charge(lost) PROVE faults' \in 0 .. MaxFaults
<1>1. MaxFaults \in Nat /\ faults \in 0 .. MaxFaults
  BY ProposalAssumption DEF ProposalAssumption, Plain
<1>2. CASE faults < MaxFaults /\ faults' = faults + 1
  BY <1>1, <1>2
<1>3. CASE faults' = faults
  BY <1>1, <1>3
<1> QED BY <1>2, <1>3 DEF Charge, Risk

\* A row without a lease is a row, and in order.
LEMMA UnownedType ==
    ASSUME NEW status \in Statuses, NEW attempt \in 0 .. MaxAttempts, NEW key \in Keys \cup {None}
    PROVE  /\ Unowned(status, attempt, key) \in Rows
           /\ Unowned(status, attempt, key).status = status
           /\ Unowned(status, attempt, key).attempt = attempt
BY DEF Unowned, Rows

LEMMA InsertStep ==
    ASSUME IInv, NEW w \in Workers, NEW lost \in BOOLEAN, Insert(w, lost) PROVE IInv'
<1> DEFINE row == Unowned("queued", 1, req[w].sent.key)
<1>1. /\ Plain /\ req[w] \in Runs /\ faults' \in 0 .. MaxFaults
      /\ UNCHANGED <<revision, receipt, proposed, calls, leased, abandoned>> /\ SlotsMove(w)
  BY ChargeType DEF IInv, Insert, Plain, SlotsMove
<1>2. CASE UNCHANGED jobs /\ Goto(w, "refind")
  BY <1>1, <1>2, GoStep DEF Pcs, CoveredPcs
<1>3. CASE Found(req[w].sent) = None /\ Put(JobOf(w), row)
  <2>1. Row(w).status = "absent" /\ Row(w) = Absent
    BY <1>1, <1>3, FoundType, JobOfType DEF IInv, RowsKept, RowOK, Row
  <2>2. Claimed(JobOf(w)) = 0
    BY <2>1 DEF Claimed, Row, Absent, Unowned
  <2>3. req[w].sent.key \in Keys /\ 1 \in 0 .. MaxAttempts
    BY <1>1, ProposalAssumption DEF Runs, ProposalAssumption
  <2>4. row \in Rows /\ row.status = "queued" /\ row.attempt = 1
    BY <2>3, UnownedType DEF Statuses
  <2>5. RowOK(row) /\ row.status # "processing"
        /\ (IF row.status = "queued" THEN row.attempt - 1 ELSE row.attempt) >= Claimed(JobOf(w))
    BY <2>2, <2>4 DEF RowOK
  <2>6. CASE Goto(w, "refind")
    <3> DEFINE q == Turned(w, "refind", req[w].seen)
    <3>1. "refind" \in Pcs /\ req[w].seen \in Seen
      BY <1>1, <2>6, GotoTurned DEF Pcs
    <3>2. q \in Runs /\ q.pc = "refind" /\ q.sent = req[w].sent /\ req' = [req EXCEPT ![w] = q]
      BY <1>1, <2>6, <3>1, TurnedType, GotoTurned
    <3>3. SeenOK(q) /\ q.pc \notin CoveredPcs
      BY <3>2 DEF SeenOK, CoveredPcs
    <3> HIDE DEF q, row
    <3> QED BY <1>1, <1>3, <2>1, <2>4, <2>5, <3>2, <3>3, JobStep
  <2>7. CASE With(w, row, "claim")
    <3> DEFINE q == Turned(w, "claim", Read(row))
    <3>1. "claim" \in Pcs /\ Read(row) \in Seen
      BY <2>4, AbsentType DEF Pcs
    <3>2. q \in Runs /\ q.pc = "claim" /\ q.sent = req[w].sent
      BY <1>1, <3>1, TurnedType
    <3>3. req' = [req EXCEPT ![w] = q]
      BY <2>7 DEF With, Turned
    <3>4. SeenOK(q) /\ q.pc \notin CoveredPcs
      BY <3>2 DEF SeenOK, CoveredPcs
    <3> HIDE DEF q, row
    <3> QED BY <1>1, <1>3, <2>1, <2>4, <2>5, <3>2, <3>3, <3>4, JobStep
  <2> QED BY <1>3, <2>6, <2>7 DEF Insert
<1> QED BY <1>2, <1>3 DEF Insert

\* What Put leaves of the table.
LEMMA PutRow ==
    ASSUME Plain, NEW j \in Jobs, NEW row \in Rows, Put(j, row)
    PROVE  /\ jobs' \in [Jobs -> Rows] /\ jobs'[j] = row
           /\ \A k \in Jobs \ {j} : jobs'[k] = jobs[k]
BY DEF Put, Plain

\* The attempt that a request read is behind it: the next one is queued, once.
LEMMA RequeueStep == ASSUME IInv, NEW w \in Workers, Requeue(w) PROVE IInv'
<1>1. /\ Plain /\ req[w] \in Runs /\ faults' \in 0 .. MaxFaults /\ Row(w) \in Rows
      /\ UNCHANGED <<revision, receipt, proposed, calls, leased, abandoned>> /\ SlotsMove(w)
  BY JobOfType DEF IInv, Requeue, Plain, SlotsMove
<1>2. CASE UNCHANGED jobs /\ Goto(w, "reread")
  BY <1>1, <1>2, GoStep DEF Pcs, CoveredPcs
<1>3. CASE UNCHANGED jobs /\ Done(w)
  BY <1>1, <1>3, RestStep
<1>4. CASE req[w].seen.attempt < MaxAttempts /\ SeenStill(w)
  <2> DEFINE row == Unowned("queued", Row(w).attempt + 1, Row(w).key)
             q   == Turned(w, "reread", req[w].seen)
  <2>1. Put(JobOf(w), row)
    BY <1>4 DEF Requeue
  <2>2. Row(w).attempt \in 0 .. MaxAttempts /\ req[w].seen.attempt \in 0 .. MaxAttempts
        /\ Row(w).key \in Keys \cup {None}
    BY <1>1 DEF Rows, Runs, Seen
  <2>3. Row(w).attempt = req[w].seen.attempt
    BY <1>4 DEF SeenStill
  <2>4. Row(w).attempt + 1 \in 0 .. MaxAttempts /\ Row(w).attempt \in Nat
    BY <2>2, <2>3, <1>4, ProposalAssumption DEF ProposalAssumption
  <2>5. Row(w).status \in {"processing", "failed"}
    BY <1>4 DEF SeenStill, IInv, SeenKept, SeenOK, Requeue, At
  <2>6. row \in Rows /\ row.status = "queued" /\ row.attempt = Row(w).attempt + 1
    BY <2>2, <2>4, UnownedType DEF Statuses
  <2>7. Claimed(JobOf(w)) = Row(w).attempt
    BY <2>5 DEF Claimed, Row
  <2>8. RowOK(row) /\ row.status # "processing" /\ Row(w).status # "ready"
    BY <2>4, <2>5, <2>6 DEF RowOK
  <2>9. (IF row.status = "queued" THEN row.attempt - 1 ELSE row.attempt) >= Claimed(JobOf(w))
    BY <2>4, <2>6, <2>7
  <2>10. Goto(w, "reread")
    BY <1>4, <2>2, ProposalAssumption DEF Requeue, Or, ProposalAssumption
  <2>11. "reread" \in Pcs /\ req[w].seen \in Seen
    BY <1>1, <2>10, GotoTurned DEF Pcs
  <2>12. /\ q \in Runs /\ q.pc = "reread" /\ q.sent = req[w].sent
         /\ req' = [req EXCEPT ![w] = q]
    BY <1>1, <2>10, <2>11, TurnedType, GotoTurned
  <2>13. SeenOK(q) /\ q.pc \notin CoveredPcs
    BY <2>12 DEF SeenOK, CoveredPcs
  <2> HIDE DEF q, row
  <2> QED BY <1>1, <2>1, <2>6, <2>8, <2>9, <2>12, <2>13, JobStep
<1> QED BY <1>2, <1>3, <1>4 DEF Requeue, Or

\* The next attempt is read before it is claimed.
LEMMA ReadAgainStep == ASSUME IInv, NEW w \in Workers, ReadAgain(w) PROVE IInv'
<1>1. /\ Plain /\ Row(w) \in Rows /\ faults' \in 0 .. MaxFaults
      /\ UNCHANGED <<revision, receipt, jobs, proposed, calls>> /\ SlotsMove(w)
  BY JobOfType DEF IInv, ReadAgain, Plain, SlotsMove
<1>2. CASE Done(w)
  BY <1>1, <1>2, RestStep
<1>3. CASE Row(w).status = "queued" /\ With(w, Row(w), "claim")
  <2> DEFINE q == Turned(w, "claim", Read(Row(w)))
  <2>1. "claim" \in Pcs /\ Read(Row(w)) \in Seen
    BY <1>1, AbsentType DEF Pcs
  <2>2. q \in Runs /\ q.pc = "claim" /\ q.sent = req[w].sent
    BY <1>1, <2>1, TurnedType
  <2>3. req' = [req EXCEPT ![w] = q]
    BY <1>3 DEF With, Turned
  <2>4. SeenOK(q) /\ Unclaimed(jobs, w, q) /\ q.pc \notin CoveredPcs
    BY <1>3, <2>2 DEF SeenOK, Unclaimed, Row, JobOf, CoveredPcs
  <2> HIDE DEF q
  <2> QED BY <1>1, <2>2, <2>3, <2>4, OnlyRequest
<1> QED BY <1>2, <1>3 DEF ReadAgain

-----------------------------------------------------------------------------
(* The claim, and the calls that it allows.                                *)

\* The claim of an attempt makes one caller, and of a job claimed by others none.
LEMMA ClaimStep == ASSUME IInv, NEW w \in Workers, Claim(w) PROVE IInv'
<1> DEFINE j == JobOf(w)
           q == Turned(w, "confirm", req[w].seen)
           row == Leased(Row(w), w)
<1>1. /\ Plain /\ req[w] \in Runs /\ faults' \in 0 .. MaxFaults /\ j \in Jobs
      /\ Row(w) \in Rows /\ Row(w) = jobs[j] /\ At(w, "claim")
      /\ UNCHANGED <<revision, receipt, proposed, calls, leased, abandoned>>
      /\ SlotsMove(w) /\ calls' \in [Jobs -> Nat] /\ revision' \in Revisions
      /\ receipt' \in [Revisions -> Jobs \cup {None}] /\ proposed' \subseteq Jobs
  BY JobOfType DEF IInv, Claim, Plain, Row, SlotsMove
<1>2. CASE UNCHANGED jobs /\ Done(w)
  BY <1>1, <1>2, RestStep
<1>3. ASSUME Goto(w, "confirm")
      PROVE  /\ q \in Runs /\ q.pc = "confirm" /\ q.sent = req[w].sent
             /\ req' = [req EXCEPT ![w] = q]
             /\ SeenOK(q) /\ Unclaimed(jobs', w, q) /\ q.pc \notin CoveredPcs
  <2>1. "confirm" \in Pcs /\ req[w].seen \in Seen
    BY <1>1, <1>3, GotoTurned DEF Pcs
  <2>2. /\ q \in Runs /\ q.pc = "confirm" /\ q.sent = req[w].sent
        /\ req' = [req EXCEPT ![w] = q]
    BY <1>1, <1>3, <2>1, TurnedType, GotoTurned
  <2> QED BY <2>2 DEF SeenOK, Unclaimed, CoveredPcs
<1> HIDE DEF q, row
<1>4. CASE UNCHANGED jobs /\ Goto(w, "confirm")
  <2>1. /\ Plain' /\ SlotRows' /\ SeenKept' /\ ClaimsKept'
        /\ req'[w] = q /\ \A v \in Workers \ {w} : req'[v] = req[v]
    <3>1. jobs' \in [Jobs -> Rows] /\ \A k \in Jobs : jobs'[k] = jobs[k]
      BY <1>1, <1>4 DEF Plain
    <3> QED BY <1>1, <1>3, <1>4, <3>1, AnyStep
  <2>3. ~(jobs[j].status = "processing" /\ jobs[j].owner = w)
    BY <1>1 DEF IInv, ClaimsKept, Unclaimed, At, JobOf
  <2>4. ASSUME NEW k \in Jobs, NEW v \in Callers(k)' PROVE v \in Callers(k)
    <3>1. v \in Workers
      BY <2>4 DEF Callers
    <3>2. CASE v # w
      BY <1>4, <2>1, <2>4, <3>1, <3>2 DEF Callers, At, JobOf
    <3>3. CASE v = w
      BY <1>3, <1>4, <2>1, <2>3, <2>4, <3>3 DEF Callers, At, JobOf
    <3> QED BY <3>2, <3>3
  <2>5. ASSUME NEW k \in Jobs PROVE Claimed(k)' >= Claimed(k)
    BY <1>1, <1>4, ProposalAssumption DEF Claimed, Plain, Rows, ProposalAssumption
  <2>6. CallsBudget'
    BY <1>1, <2>1, <2>4, <2>5, BudgetKept DEF IInv, Plain
  <2>7. RowsKept' /\ ReceiptsKept'
    BY <1>1, <1>4 DEF IInv, RowsKept, ReceiptsKept
  <2> QED BY <2>1, <2>6, <2>7 DEF IInv
<1>5. CASE Row(w).status = "queued" /\ Put(j, row) /\ Goto(w, "confirm")
  <2>1. /\ row \in Rows /\ row.status = "processing" /\ row.owner = w
        /\ row.attempt = Row(w).attempt
    BY <1>1 DEF row, Leased, Rows, Statuses
  <2>2. /\ jobs' \in [Jobs -> Rows] /\ jobs'[j] = row
        /\ \A k \in Jobs \ {j} : jobs'[k] = jobs[k]
    BY <1>1, <1>5, <2>1, PutRow
  <2>3. /\ Plain' /\ SlotRows' /\ SeenKept' /\ ClaimsKept'
        /\ req'[w] = q /\ \A v \in Workers \ {w} : req'[v] = req[v]
    <3>1. \A k \in Jobs : \/ jobs'[k] = jobs[k]
                          \/ jobs'[k].status = "processing" => jobs'[k].owner = w
      BY <2>1, <2>2
    <3> QED BY <1>1, <1>3, <1>5, <2>2, <3>1, AnyStep
  <2>5. ASSUME NEW k \in Jobs PROVE calls'[k] + Cardinality(Callers(k)') <= Claimed(k)'
    <3>1. ASSUME NEW v \in Callers(k)', v # w PROVE v \in Callers(k)
      <4>1. v \in Workers /\ req'[v] = req[v]
        BY <2>3, <3>1 DEF Callers
      <4> QED BY <2>1, <2>2, <3>1, <4>1 DEF Callers, At, JobOf
    <3>2. CASE k # j
      <4>1. w \notin Callers(k)'
        BY <1>3, <1>5, <2>3, <3>2 DEF Callers, JobOf
      <4>2. Callers(k)' \subseteq Callers(k) /\ calls'[k] = calls[k]
        BY <1>1, <3>1, <4>1
      <4>3. Claimed(k)' >= Claimed(k)
        BY <1>1, <2>2, <3>2, ProposalAssumption DEF Claimed, Plain, Rows, ProposalAssumption
      <4> QED BY <1>1, <2>2, <4>2, <4>3, BudgetAt DEF IInv
    <3>3. CASE k = j
      <4>1. Callers(k)' \subseteq Callers(k) \cup {w} /\ w \notin Callers(k)
        BY <1>1, <3>1 DEF Callers, At
      <4>2. Cardinality(Callers(k) \cup {w}) = Cardinality(Callers(k)) + 1
            /\ IsFiniteSet(Callers(k) \cup {w})
        BY <4>1, Finite, FS_AddElement
      <4>3. Cardinality(Callers(k)') <= Cardinality(Callers(k)) + 1
            /\ Cardinality(Callers(k)') \in Nat
        BY <4>1, <4>2, FS_Subset, FS_CardinalityType
      <4>4. jobs[k].attempt \in Int
        BY <1>1, ProposalAssumption DEF Plain, Rows, ProposalAssumption
      <4>5. Claimed(k)' = jobs[k].attempt /\ Claimed(k) = jobs[k].attempt - 1
        BY <1>1, <1>5, <2>1, <2>2, <3>3 DEF Claimed
      <4>6. calls[k] + Cardinality(Callers(k)) <= Claimed(k) /\ calls'[k] = calls[k]
            /\ calls[k] \in Nat
        BY <1>1 DEF IInv, CallsBudget, Plain
      <4> QED BY <4>3, <4>4, <4>5, <4>6, Finite
    <3> QED BY <3>2, <3>3
  <2>6. CallsBudget'
    BY <2>5 DEF CallsBudget
  <2>7. RowsKept'
    BY <2>1, <2>2 DEF IInv, RowsKept, RowOK
  <2>8. ReceiptsKept'
    <3>1. \A k \in proposed : jobs'[k].status = "ready"
      BY <1>1, <1>5, <2>2 DEF IInv, ReceiptsKept, Plain
    <3> QED BY <1>1, <3>1 DEF IInv, ReceiptsKept
  <2> QED BY <2>3, <2>6, <2>7, <2>8 DEF IInv
<1> QED BY <1>2, <1>4, <1>5 DEF Claim, Or, row

\* A request under its own lease was a caller before, and goes to work as one.
LEMMA ConfirmStep == ASSUME IInv, NEW w \in Workers, Confirm(w) PROVE IInv'
<1> DEFINE q == Turned(w, "work", Read(Row(w)))
<1>1. /\ Plain /\ Row(w) \in Rows /\ faults' \in 0 .. MaxFaults /\ At(w, "confirm")
      /\ UNCHANGED <<revision, receipt, jobs, proposed, calls, leased, abandoned>>
      /\ SlotsMove(w)
      /\ calls' \in [Jobs -> Nat] /\ revision' \in Revisions /\ jobs' \in [Jobs -> Rows]
      /\ receipt' \in [Revisions -> Jobs \cup {None}] /\ proposed' \subseteq Jobs
  BY JobOfType DEF IInv, Confirm, Plain, SlotsMove
<1>2. CASE Done(w)
  BY <1>1, <1>2, RestStep
<1>3. CASE /\ Row(w).status = "processing" /\ Row(w).owner = w
           /\ With(w, Row(w), "work")
  <2>1. "work" \in Pcs /\ Read(Row(w)) \in Seen
    BY <1>1, AbsentType DEF Pcs
  <2>2. q \in Runs /\ q.pc = "work" /\ q.sent = req[w].sent
    BY <1>1, <2>1, TurnedType
  <2>3. req' = [req EXCEPT ![w] = q]
    BY <1>3 DEF With, Turned
  <2>4. SeenOK(q) /\ Unclaimed(jobs', w, q) /\ q.pc \notin CoveredPcs
    BY <2>2 DEF SeenOK, Unclaimed, CoveredPcs
  <2> HIDE DEF q
  <2>5. /\ Plain' /\ SlotRows' /\ SeenKept' /\ ClaimsKept'
        /\ req'[w] = q /\ \A v \in Workers \ {w} : req'[v] = req[v]
    BY <1>1, <2>2, <2>3, <2>4, AnyStep
  <2>7. ASSUME NEW k \in Jobs, NEW v \in Callers(k)' PROVE v \in Callers(k)
    <3>1. v \in Workers
      BY <2>7 DEF Callers
    <3>2. CASE v # w
      BY <1>1, <2>5, <2>7, <3>1, <3>2 DEF Callers, At, JobOf
    <3>3. CASE v = w
      BY <1>1, <1>3, <2>2, <2>5, <2>7, <3>3 DEF Callers, At, JobOf, Row
    <3> QED BY <3>2, <3>3
  <2>8. ASSUME NEW k \in Jobs PROVE Claimed(k)' >= Claimed(k)
    BY <1>1, ProposalAssumption DEF Claimed, Plain, Rows, ProposalAssumption
  <2>9. CallsBudget'
    BY <1>1, <2>5, <2>7, <2>8, BudgetKept DEF IInv, Plain
  <2>10. RowsKept' /\ ReceiptsKept'
    BY <1>1 DEF IInv, RowsKept, ReceiptsKept
  <2> QED BY <2>5, <2>9, <2>10 DEF IInv
<1> QED BY <1>2, <1>3 DEF Confirm

\* What a request that goes to its call leaves to be shown: its budget.
LEMMA CallStep ==
    ASSUME IInv, NEW w \in Workers, Goto(w, "call"), TakeSlot(w, FALSE),
           calls' \in [Jobs -> Nat], UNCHANGED <<revision, receipt, jobs, proposed>>
    PROVE  /\ Plain' /\ SlotRows' /\ SeenKept' /\ ClaimsKept' /\ RowsKept' /\ ReceiptsKept'
           /\ \A k \in Jobs : Callers(k)' \subseteq Callers(k) \ {w} /\ Claimed(k)' >= Claimed(k)
<1> DEFINE q == Turned(w, "call", req[w].seen)
<1>1. /\ Plain /\ faults' \in 0 .. MaxFaults /\ revision' \in Revisions
      /\ jobs' \in [Jobs -> Rows]
      /\ receipt' \in [Revisions -> Jobs \cup {None}] /\ proposed' \subseteq Jobs
  BY DEF IInv, Plain, TakeSlot, Charge
<1>2. "call" \in Pcs /\ req[w].seen \in Seen
  BY <1>1, GotoTurned DEF Pcs
<1>3. q \in Runs /\ q.pc = "call" /\ req' = [req EXCEPT ![w] = q]
  BY <1>1, <1>2, TurnedType, GotoTurned
<1>4. SeenOK(q) /\ Unclaimed(jobs', w, q)
  BY <1>3 DEF SeenOK, Unclaimed
<1>s. SlotsMove(w) /\ w \in leased'
  BY DEF SlotsMove, TakeSlot
<1> HIDE DEF q
<1>5. /\ Plain' /\ SlotRows' /\ SeenKept' /\ ClaimsKept'
      /\ req'[w] = q /\ \A v \in Workers \ {w} : req'[v] = req[v]
  BY <1>1, <1>3, <1>4, <1>s, AnyStep
<1>7. ASSUME NEW k \in Jobs, NEW v \in Callers(k)' PROVE v \in Callers(k) \ {w}
  <2>1. v \in Workers /\ v # w
    BY <1>3, <1>5, <1>7 DEF Callers, At
  <2> QED BY <1>5, <1>7, <2>1 DEF Callers, At, JobOf
<1>8. ASSUME NEW k \in Jobs PROVE Claimed(k)' >= Claimed(k)
  BY <1>1, ProposalAssumption DEF Claimed, Plain, Rows, ProposalAssumption
<1>9. RowsKept' /\ ReceiptsKept'
  BY <1>1 DEF IInv, RowsKept, ReceiptsKept
<1> QED BY <1>5, <1>7, <1>8, <1>9

\* The call turns a caller into a call.
LEMMA AcquireStep ==
    ASSUME IInv, NEW w \in Workers, NEW lost \in BOOLEAN, Acquire(w, lost) PROVE IInv'
<1> DEFINE j == JobOf(w)
<1>1. Plain /\ j \in Jobs /\ At(w, "work") /\ req[w].pc = "work"
  BY JobOfType DEF IInv, Acquire, At
<1>2. CASE Goto(w, "fail") /\ UNCHANGED calls
  <2>1. /\ SlotsMove(w) /\ UNCHANGED <<revision, receipt, jobs, proposed, calls>>
    BY <1>2 DEF Acquire, SlotsMove
  <2>2. faults' \in 0 .. MaxFaults
    BY <1>1, ChargeType DEF Acquire, TakeSlot, Plain
  <2> QED BY <1>2, <2>1, <2>2, GoStep DEF Pcs, CoveredPcs
<1>3. CASE TakeSlot(w, FALSE) /\ Goto(w, "call") /\ calls' = [calls EXCEPT ![j] = @ + 1]
  <2>1. /\ calls' \in [Jobs -> Nat] /\ calls'[j] = calls[j] + 1
        /\ \A k \in Jobs \ {j} : calls'[k] = calls[k]
    BY <1>1, <1>3 DEF Plain
  <2>2. /\ Plain' /\ SlotRows' /\ SeenKept' /\ ClaimsKept' /\ RowsKept' /\ ReceiptsKept'
        /\ \A k \in Jobs : Callers(k)' \subseteq Callers(k) \ {w} /\ Claimed(k)' >= Claimed(k)
    BY <1>1, <1>3, <2>1, CallStep DEF Acquire
  <2>3. ASSUME NEW k \in Jobs PROVE calls'[k] + Cardinality(Callers(k)') <= Claimed(k)'
    <3>1. CASE k # j
      <4>1. calls'[k] = calls[k] /\ Callers(k)' \subseteq Callers(k) /\ Claimed(k)' >= Claimed(k)
        BY <2>1, <2>2, <3>1
      <4>2. jobs' \in [Jobs -> Rows]
        BY <2>2 DEF Plain
      <4> QED BY <1>1, <4>1, <4>2, BudgetAt DEF IInv
    <3>2. CASE k = j
      <4>1. w \in Callers(k) /\ Callers(k)' \subseteq Callers(k) \ {w}
        BY <1>1, <2>2, <3>2 DEF Callers
      <4>2. Cardinality(Callers(k) \ {w}) = Cardinality(Callers(k)) - 1
            /\ IsFiniteSet(Callers(k) \ {w})
        BY <4>1, Finite, FS_RemoveElement
      <4>3. Cardinality(Callers(k)') <= Cardinality(Callers(k)) - 1
            /\ Cardinality(Callers(k)') \in Nat
        BY <4>1, <4>2, FS_Subset, FS_CardinalityType
      <4>4. calls[k] + Cardinality(Callers(k)) <= Claimed(k) /\ calls[k] \in Nat
        BY <1>1 DEF IInv, CallsBudget, Plain
      <4>5. jobs[k].attempt \in Int /\ jobs' = jobs
        BY <1>1, ProposalAssumption DEF Plain, Rows, ProposalAssumption, Acquire
      <4>6. Claimed(k)' = Claimed(k) /\ Claimed(k) \in Int
        BY <4>5 DEF Claimed
      <4> QED BY <2>1, <3>2, <4>3, <4>4, <4>6, Finite
    <3> QED BY <3>1, <3>2
  <2> QED BY <2>2, <2>3 DEF IInv, CallsBudget
<1> QED BY <1>2, <1>3 DEF Acquire

\* A slot is released, or its row is left behind.
LEMMA ReturnStep ==
    ASSUME IInv, NEW w \in Workers, NEW lost \in BOOLEAN, Return(w, lost) PROVE IInv'
<1>1. /\ SlotsMove(w) /\ faults' \in 0 .. MaxFaults
      /\ UNCHANGED <<revision, receipt, jobs, proposed, calls>>
  BY ChargeType DEF IInv, Return, GiveBack, SlotsMove
<1>3. PICK pc \in {"commit", "commitNone", "fail"} : Goto(w, pc)
  BY DEF Return
<1>4. /\ pc \in Pcs /\ pc \notin CoveredPcs
      /\ pc \notin {"find", "revision", "requeue", "claim", "work", "confirm"}
  BY DEF Pcs, CoveredPcs
<1> QED BY <1>1, <1>3, <1>4, GoStep

\* The planner takes a slot as well, and makes no call of a job.
LEMMA PlanStep ==
    ASSUME IInv, NEW w \in Workers, NEW lost \in BOOLEAN, Plan(w, lost) PROVE IInv'
<1>1. /\ Plain /\ SlotsMove(w) /\ faults' \in 0 .. MaxFaults
      /\ UNCHANGED <<revision, receipt, jobs, proposed, calls>>
  BY ChargeType DEF IInv, Plan, TakeSlot, SlotsMove
<1>2. CASE lost
  <2>1. req' = [req EXCEPT ![w] = req[w]] /\ req[w] \in Runs /\ req[w].pc = "idle"
    BY <1>1, <1>2 DEF Plan, Plain, At
  <2>2. SeenOK(req[w]) /\ Unclaimed(jobs, w, req[w]) /\ req[w].pc \notin CoveredPcs
    BY <2>1 DEF SeenOK, Unclaimed, CoveredPcs
  <2> QED BY <1>1, <2>1, <2>2, OnlyRequest
<1>3. CASE ~lost
  <2>1. Goto(w, "plan") /\ w \in leased'
    BY <1>3 DEF Plan, TakeSlot
  <2> QED BY <1>1, <2>1, GoStep DEF Pcs
<1> QED BY <1>2, <1>3

\* Only a repair that follows the first call is one that the lease covers.
LEMMA PlanAgainStep == ASSUME IInv, NEW w \in Workers, PlanAgain(w) PROVE IInv'
<1>1. /\ SlotsMove(w) /\ faults' \in 0 .. MaxFaults
      /\ UNCHANGED <<revision, receipt, jobs, proposed, calls>>
  BY DEF IInv, Plain, PlanAgain, SlotsMove
<1>2. PICK pc \in {"fallback", "repair", "lastRepair"} :
         Goto(w, pc) /\ (pc = "repair" => At(w, "plan"))
  BY DEF PlanAgain
<1>3. pc \in CoveredPcs => w \in leased'
  BY <1>2 DEF PlanAgain, IInv, SlotRows, CoveredPcs, At
<1> QED BY <1>1, <1>2, <1>3, GoStep DEF Pcs

LEMMA PlannedStep ==
    ASSUME IInv, NEW w \in Workers, NEW lost \in BOOLEAN, Planned(w, lost) PROVE IInv'
<1>1. /\ SlotsMove(w) /\ faults' \in 0 .. MaxFaults
  BY ChargeType DEF IInv, Planned, GiveBack, SlotsMove
<1> QED BY <1>1, RestStep DEF Planned

\* The row of a call that outlasts it may go.
LEMMA SlotLostStep == ASSUME IInv, NEW w \in Workers, SlotLost(w) PROVE IInv'
<1>1. /\ Plain /\ SeenKept /\ ClaimsKept /\ faults' \in 0 .. MaxFaults
      /\ UNCHANGED <<revision, receipt, jobs, proposed, calls, req>>
  BY DEF IInv, Plain, SlotLost
<1>2. SlotsMove(w)
  <2>1. GiveBack(w, FALSE)
    BY DEF SlotLost, GiveBack, Charge
  <2> QED BY <2>1 DEF SlotsMove
<1>3. /\ req' = [req EXCEPT ![w] = req[w]] /\ req[w] \in Runs
      /\ req[w].pc \notin {"work", "confirm"} /\ req[w].pc \notin CoveredPcs
  BY <1>1 DEF Plain, SlotLost, Overlong, CoveredPcs
<1>4. SeenOK(req[w]) /\ Unclaimed(jobs, w, req[w])
  BY <1>1 DEF SeenKept, ClaimsKept
<1> QED BY <1>1, <1>2, <1>3, <1>4, OnlyRequest

-----------------------------------------------------------------------------
(* Settling the job.                                                       *)

\* A request that is answered, or goes on to fail its job.
LEMMA EndType ==
    ASSUME Plain, NEW w \in Workers, Done(w) \/ Goto(w, "fail")
    PROVE  \E q \in Runs : /\ req' = [req EXCEPT ![w] = q] /\ SeenOK(q)
                           /\ q.pc \in {"idle", "fail"}
                           /\ q.sent = req[w].sent \/ q.pc = "idle"
<1>1. CASE Done(w)
  BY <1>1, RestType DEF Done
<1>2. CASE Goto(w, "fail")
  <2> DEFINE q == Turned(w, "fail", req[w].seen)
  <2>1. "fail" \in Pcs /\ req[w].seen \in Seen
    BY <1>2, GotoTurned DEF Pcs
  <2>2. /\ q \in Runs /\ q.pc = "fail" /\ q.sent = req[w].sent
        /\ req' = [req EXCEPT ![w] = q]
    BY <1>2, <2>1, TurnedType, GotoTurned
  <2>3. SeenOK(q)
    BY <2>2 DEF SeenOK
  <2> HIDE DEF q
  <2> QED BY <2>2, <2>3
<1> QED BY <1>1, <1>2

\* The row of a job that its holder settles.
LEMMA SettledType ==
    ASSUME Plain, NEW w \in Workers, Owns(w), NEW status \in {"ready", "failed"}
    PROVE  /\ Settled(Row(w), status) \in Rows
           /\ Settled(Row(w), status).status = status
           /\ Settled(Row(w), status).attempt = Row(w).attempt
           /\ RowOK(Settled(Row(w), status))
           /\ Row(w).status = "processing" /\ Row(w).attempt \in Nat
           /\ Claimed(JobOf(w)) = Row(w).attempt
<1>1. Row(w) \in Rows /\ Row(w).status = "processing" /\ status \in Statuses
  BY JobOfType DEF Owns, Statuses
<1>2. /\ Row(w).attempt \in 0 .. MaxAttempts /\ Row(w).key \in Keys \cup {None}
      /\ Row(w).attempt \in Nat
  BY <1>1, ProposalAssumption DEF Rows, ProposalAssumption
<1> DEFINE row == Settled(Row(w), status)
<1>3. row \in Rows /\ row.status = status /\ row.attempt = Row(w).attempt
  BY <1>1, <1>2, UnownedType DEF Settled
<1>4. RowOK(row)
  BY <1>3 DEF RowOK
<1>5. Claimed(JobOf(w)) = Row(w).attempt
  BY <1>1 DEF Claimed, Row
<1> QED BY <1>1, <1>2, <1>3, <1>4, <1>5

\* The request that owns its job settles it without a revision.
LEMMA SettleStep ==
    ASSUME IInv, NEW w \in Workers, NEW status \in {"ready", "failed"}, Done(w),
           (Owns(w) /\ Put(JobOf(w), Settled(Row(w), status))) \/ UNCHANGED jobs,
           UNCHANGED <<revision, receipt, proposed, calls, leased, abandoned, faults>>
    PROVE  IInv'
<1>1. Plain /\ faults' \in 0 .. MaxFaults /\ SlotsMove(w)
  BY DEF IInv, Plain, SlotsMove
<1>2. CASE UNCHANGED jobs
  BY <1>1, <1>2, RestStep
<1>3. CASE Owns(w) /\ Put(JobOf(w), Settled(Row(w), status))
  <2> DEFINE row == Settled(Row(w), status)
  <2>1. /\ row \in Rows /\ row.status = status /\ row.attempt = Row(w).attempt /\ RowOK(row)
        /\ Row(w).status = "processing" /\ Row(w).attempt \in Nat
        /\ Claimed(JobOf(w)) = Row(w).attempt
    BY <1>1, <1>3, SettledType
  <2>2. (IF row.status = "queued" THEN row.attempt - 1 ELSE row.attempt) >= Claimed(JobOf(w))
    BY <2>1
  <2>3. PICK q \in Runs : /\ req' = [req EXCEPT ![w] = q] /\ SeenOK(q)
                          /\ q.pc \in {"idle", "fail"}
                          /\ q.sent = req[w].sent \/ q.pc = "idle"
    BY <1>1, EndType
  <2>4. row.status # "processing" /\ Row(w).status # "ready" /\ Put(JobOf(w), row)
        /\ q.pc \notin CoveredPcs
    BY <1>3, <2>1, <2>3 DEF CoveredPcs
  <2> HIDE DEF row
  <2> QED BY <1>1, <2>1, <2>2, <2>3, <2>4, JobStep
<1> QED BY <1>2, <1>3

\* The receipt of the next revision goes to the job that wrote it, and to no other.
LEMMA ReceiptStep ==
    ASSUME Plain, ReceiptsKept, NEW j \in Jobs, j[1] = revision, revision < MaxRevision,
           revision' = revision + 1, receipt' = [receipt EXCEPT ![revision + 1] = j],
           proposed' = proposed \cup {j}, jobs'[j].status = "ready",
           \A k \in Jobs \ {j} : jobs'[k] = jobs[k]
    PROVE  /\ ReceiptsKept' /\ revision' \in Revisions
           /\ receipt' \in [Revisions -> Jobs \cup {None}] /\ proposed' \subseteq Jobs
<1>1. /\ revision \in Int /\ MaxRevision \in Int /\ revision + 1 \in Revisions
      /\ revision >= 1
  BY ProposalAssumption DEF ProposalAssumption, Plain, Revisions
<1>2. /\ receipt'[revision + 1] = j /\ receipt[revision + 1] = None
      /\ \A r \in Revisions \ {revision + 1} : receipt'[r] = receipt[r]
      /\ receipt' \in [Revisions -> Jobs \cup {None}]
  BY <1>1 DEF Plain, ReceiptsKept
<1>3. ASSUME NEW r \in Revisions, r > revision' PROVE receipt'[r] = None
  <2>1. r > revision /\ r # revision + 1
    BY <1>1, <1>3 DEF Revisions
  <2> QED BY <1>2, <2>1 DEF ReceiptsKept
<1>4. ASSUME NEW k \in Jobs
      PROVE  k \in proposed' <=> k[1] < MaxRevision /\ receipt'[k[1] + 1] = k
  <2>1. k[1] \in Revisions /\ k[1] \in Int /\ k[1] >= 1
    BY ProposalAssumption DEF Jobs, Revisions, ProposalAssumption
  <2>2. k \in proposed <=> k[1] < MaxRevision /\ receipt[k[1] + 1] = k
    BY DEF ReceiptsKept
  <2>3. CASE k[1] = revision
    BY <1>1, <1>2, <2>2, <2>3, ProposalAssumption DEF ProposalAssumption
  <2>4. CASE k[1] # revision
    <3>1. k # j
      BY <2>4
    <3>2. k[1] < MaxRevision => /\ k[1] + 1 \in Revisions /\ k[1] + 1 # revision + 1
      BY <1>1, <2>1, <2>4 DEF Revisions
    <3> QED BY <1>2, <2>2, <3>1, <3>2
  <2> QED BY <2>3, <2>4
<1>5. ASSUME NEW k \in proposed' PROVE jobs'[k].status = "ready"
  BY <1>5 DEF Plain, ReceiptsKept
<1>6. revision' \in Revisions /\ proposed' \subseteq Jobs
  BY <1>1 DEF Plain
<1> QED BY <1>2, <1>3, <1>4, <1>5, <1>6 DEF ReceiptsKept

\* The batch, applied or aborted as a whole.
LEMMA CommitStep ==
    ASSUME IInv, NEW w \in Workers, NEW lost \in BOOLEAN, Commit(w, lost) PROVE IInv'
<1> DEFINE j == JobOf(w)
           row == Settled(Row(w), "ready")
<1>1. /\ Plain /\ j \in Jobs /\ faults' \in 0 .. MaxFaults /\ Row(w) = jobs[j]
      /\ SlotsMove(w) /\ UNCHANGED calls
  BY JobOfType, ChargeType DEF IInv, Commit, Plain, Row, SlotsMove
<1>2. CASE UNCHANGED <<revision, receipt, jobs, proposed>> /\ Goto(w, "fail")
  BY <1>1, <1>2, GoStep DEF Pcs, CoveredPcs
<1>3. CASE /\ Fenced(w) /\ j[1] = revision /\ revision < MaxRevision
           /\ revision' = revision + 1 /\ receipt' = [receipt EXCEPT ![revision + 1] = j]
           /\ Put(j, row) /\ proposed' = proposed \cup {j} /\ Or(w, ~lost, "fail")
  <2>1. /\ row \in Rows /\ row.status = "ready" /\ row.attempt = Row(w).attempt /\ RowOK(row)
        /\ Row(w).attempt \in Nat /\ Claimed(j) = Row(w).attempt
    BY <1>1, <1>3, SettledType DEF Fenced
  <2>2. PICK q \in Runs : /\ req' = [req EXCEPT ![w] = q] /\ SeenOK(q)
                          /\ q.pc \in {"idle", "fail"}
                          /\ q.sent = req[w].sent \/ q.pc = "idle"
    BY <1>1, <1>3, EndType DEF Or
  <2> HIDE DEF row
  <2>3. /\ jobs' \in [Jobs -> Rows] /\ jobs'[j] = row
        /\ \A k \in Jobs \ {j} : jobs'[k] = jobs[k]
    BY <1>1, <1>3, <2>1, PutRow
  <2>4. /\ ReceiptsKept' /\ revision' \in Revisions
        /\ receipt' \in [Revisions -> Jobs \cup {None}] /\ proposed' \subseteq Jobs
    BY <1>1, <1>3, <2>1, <2>3, ReceiptStep DEF IInv
  <2>5. RowsKept'
    BY <2>1, <2>3 DEF IInv, RowsKept
  <2>6. ASSUME NEW k \in Jobs PROVE Claimed(k)' >= Claimed(k)
    <3>1. CASE k = j
      BY <2>1, <2>3, <3>1 DEF Claimed
    <3>2. CASE k # j
      <4>1. Claimed(k)' = Claimed(k) /\ Claimed(k) \in Int
        BY <1>1, <2>3, <3>2, ProposalAssumption DEF Claimed, Plain, Rows, ProposalAssumption
      <4> QED BY <4>1
    <3> QED BY <3>1, <3>2
  <2>7. \A k \in Jobs : jobs'[k] = jobs[k] \/ jobs'[k].status # "processing"
    BY <2>1, <2>3
  <2>8. Unclaimed(jobs', w, q) /\ q.pc \notin {"work", "confirm"} /\ q.pc \notin CoveredPcs
    BY <2>2 DEF Unclaimed, CoveredPcs
  <2> QED BY <1>1, <2>2, <2>3, <2>4, <2>5, <2>6, <2>7, <2>8, QuietStep
<1> QED BY <1>2, <1>3 DEF Commit

-----------------------------------------------------------------------------
(* The environment.                                                        *)

\* Steps of no request.
LEMMA EnvironmentStep ==
    ASSUME IInv, UNCHANGED <<req, calls, receipt, proposed, leased>>, faults' = faults,
           jobs' \in [Jobs -> Rows], RowsKept',
           \A j \in Jobs : /\ jobs'[j].status = jobs[j].status
                           /\ jobs'[j].attempt = jobs[j].attempt
                           /\ jobs'[j].owner = jobs[j].owner,
           revision' \in Revisions, revision' >= revision,
           abandoned' \in Nat, abandoned' <= abandoned
    PROVE  IInv'
<1>1. Plain /\ Plain' /\ SeenKept'
  BY DEF IInv, Plain, SeenKept
<1>2. ClaimsKept'
  <2> SUFFICES ASSUME NEW v \in Workers PROVE Unclaimed(jobs', v, req[v])
    BY DEF ClaimsKept
  <2>1. JobOf(v) \in Jobs /\ Unclaimed(jobs, v, req[v])
    BY <1>1, JobOfType DEF IInv, ClaimsKept
  <2> QED BY <2>1 DEF Unclaimed, JobOf
<1>3. SlotRows'
  <2>1. abandoned \in Nat /\ Slots \in Nat /\ Cardinality(leased) + abandoned <= Slots
    BY <1>1, ProposalAssumption DEF Plain, ProposalAssumption, IInv, SlotRows
  <2>2. Cardinality(leased) \in Nat
    BY <1>1, Finite DEF Plain
  <2>3. Cardinality(leased) + abandoned' <= Slots
    BY <2>1, <2>2
  <2> QED BY <2>3 DEF SlotRows, IInv
<1>4. CallsBudget'
  <2>1. ASSUME NEW k \in Jobs
        PROVE  Callers(k)' \subseteq Callers(k) /\ Claimed(k)' >= Claimed(k)
    <3>1. Callers(k)' = Callers(k)
      BY <2>1 DEF Callers, At, JobOf
    <3>2. Claimed(k)' = Claimed(k) /\ Claimed(k) \in Int
      BY <1>1, ProposalAssumption DEF Claimed, Plain, Rows, ProposalAssumption
    <3> QED BY <3>1, <3>2
  <2> QED BY <1>1, <2>1, BudgetKept DEF IInv
<1>5. ReceiptsKept'
  <2>1. \A r \in Revisions : r > revision' => r > revision
    BY <1>1, ProposalAssumption DEF Plain, Revisions, ProposalAssumption
  <2>2. \A j \in proposed : jobs'[j].status = "ready"
    BY <1>1 DEF IInv, ReceiptsKept, Plain
  <2> QED BY <2>1, <2>2 DEF IInv, ReceiptsKept
<1> QED BY <1>1, <1>2, <1>3, <1>4, <1>5 DEF IInv

\* A killed request leaves its row behind.
LEMMA CrashStep == ASSUME IInv, NEW w \in Workers, Crash(w) PROVE IInv'
<1>1. /\ UNCHANGED <<revision, receipt, jobs, proposed, calls>> /\ Done(w)
      /\ SlotsMove(w) /\ faults' \in 0 .. MaxFaults
  BY ChargeType DEF IInv, Crash, GiveBack, SlotsMove
<1> QED BY <1>1, RestStep

-----------------------------------------------------------------------------
(* The specification.                                                      *)

\* Nothing is there at first.
LEMMA InitIInv == ProposalInit => IInv
<1> SUFFICES ASSUME ProposalInit PROVE IInv
  OBVIOUS
<1> USE DEF ProposalInit
<1>1. Plain
  <2>1. 1 \in Revisions /\ 0 \in 0 .. MaxFaults
    BY ProposalAssumption DEF Revisions, ProposalAssumption
  <2> QED BY <2>1, AbsentType, RestType DEF Plain
<1>2. \A w \in Workers : req[w] = Rest /\ req[w].pc = "idle"
  BY RestType
<1>3. SeenKept /\ ClaimsKept
  BY <1>2, RestType DEF SeenKept, ClaimsKept, Unclaimed
<1>4. SlotRows
  BY <1>2, FS_EmptySet, ProposalAssumption DEF SlotRows, CoveredPcs, ProposalAssumption
<1>5. CallsBudget
  <2> SUFFICES ASSUME NEW j \in Jobs PROVE calls[j] + Cardinality(Callers(j)) <= Claimed(j)
    BY DEF CallsBudget
  <2>1. Callers(j) = {}
    BY <1>2 DEF Callers, At
  <2>2. calls[j] = 0 /\ Claimed(j) = 0
    BY DEF Claimed, Absent, Unowned
  <2> QED BY <2>1, <2>2, FS_EmptySet
<1>6. RowsKept
  BY DEF RowsKept, RowOK, Absent, Unowned
<1>7. ReceiptsKept
  <2>1. ASSUME NEW j \in Jobs, j[1] < MaxRevision PROVE receipt[j[1] + 1] # j
    <3>1. j[1] + 1 \in Revisions
      BY <2>1, ProposalAssumption DEF Jobs, Revisions, ProposalAssumption
    <3> QED BY <3>1, ProposalAssumption DEF ProposalAssumption
  <2> QED BY <2>1 DEF ReceiptsKept
<1> QED BY <1>1, <1>3, <1>4, <1>5, <1>6, <1>7 DEF IInv

\* Every step keeps the invariant.
LEMMA NextIInv == IInv /\ [ProposalNext]_proposalVars => IInv'
<1> SUFFICES ASSUME IInv, [ProposalNext]_proposalVars PROVE IInv'
  OBVIOUS
<1>1. Plain /\ RowsKept /\ abandoned \in Nat /\ revision \in Int
  BY ProposalAssumption DEF IInv, Plain, Revisions, ProposalAssumption
<1>2. ASSUME NEW w \in Workers, Arrive(w) \/ SlotLost(w) \/ Crash(w) PROVE IInv'
  BY <1>2, ArriveStep, SlotLostStep, CrashStep
<1>3. ASSUME NEW w \in Workers, Handle(w) PROVE IInv'
  <2>1. CASE Find(w)
    BY <2>1, ConsiderStep DEF Find
  <2>2. CASE FindAgain(w)
    BY <2>2, ConsiderStep DEF FindAgain
  <2>3. CASE CheckRevision(w) \/ Requeue(w) \/ ReadAgain(w) \/ Claim(w)
    BY <2>3, CheckRevisionStep, RequeueStep, ReadAgainStep, ClaimStep
  <2>4. CASE Confirm(w) \/ PlanAgain(w)
    BY <2>4, ConfirmStep, PlanAgainStep
  <2>5. CASE CommitNone(w)
    BY <2>5, SettleStep DEF CommitNone, Fenced
  <2>6. CASE Fail(w)
    BY <2>6, SettleStep DEF Fail
  <2>7. ASSUME NEW lost \in BOOLEAN, Insert(w, lost) \/ Return(w, lost) \/ Commit(w, lost)
        PROVE  IInv'
    BY <2>7, InsertStep, ReturnStep, CommitStep
  <2>8. ASSUME NEW lost \in BOOLEAN, Acquire(w, lost) \/ Plan(w, lost) \/ Planned(w, lost)
        PROVE  IInv'
    BY <2>8, AcquireStep, PlanStep, PlannedStep
  <2> QED BY <1>3, <2>1, <2>2, <2>3, <2>4, <2>5, <2>6, <2>7, <2>8 DEF Handle
<1>4. ASSUME NEW j \in Jobs, LeaseEnds(j) PROVE IInv'
  <2> DEFINE row == [jobs[j] EXCEPT !.live = FALSE]
  <2>1. /\ row \in Rows /\ row.status = jobs[j].status /\ row.attempt = jobs[j].attempt
        /\ row.owner = jobs[j].owner /\ row.status = "processing"
    BY <1>1, <1>4 DEF Plain, Rows, LeaseEnds
  <2>2. Put(j, row)
    BY <1>4 DEF LeaseEnds
  <2> HIDE DEF row
  <2>3. /\ jobs' \in [Jobs -> Rows] /\ jobs'[j] = row
        /\ \A k \in Jobs \ {j} : jobs'[k] = jobs[k]
    BY <1>1, <2>1, <2>2, PutRow
  <2>4. RowsKept'
    BY <1>1, <2>1, <2>3 DEF RowsKept, RowOK
  <2>5. \A k \in Jobs : /\ jobs'[k].status = jobs[k].status
                        /\ jobs'[k].attempt = jobs[k].attempt
                        /\ jobs'[k].owner = jobs[k].owner
    BY <2>1, <2>3
  <2>6. /\ UNCHANGED <<req, calls, receipt, proposed, leased>> /\ faults' = faults
        /\ revision' \in Revisions /\ revision' >= revision
        /\ abandoned' \in Nat /\ abandoned' <= abandoned
    BY <1>1, <1>4 DEF LeaseEnds, Plain
  <2> QED BY <2>3, <2>4, <2>5, <2>6, EnvironmentStep
<1>5. CASE Move \/ SlotExpires \/ UNCHANGED proposalVars
  <2>1. /\ UNCHANGED <<req, calls, receipt, proposed, leased>> /\ faults' = faults /\ jobs' = jobs
        /\ revision' \in {revision, revision + 1}
        /\ revision' = revision + 1 => revision < MaxRevision \/ revision' = revision
        /\ abandoned' \in {abandoned, abandoned - 1} /\ (abandoned' # abandoned => abandoned > 0)
    BY <1>1, <1>5 DEF Move, SlotExpires, proposalVars
  <2>2. revision' \in Revisions /\ revision' >= revision
    BY <1>1, <2>1, ProposalAssumption DEF Plain, Revisions, ProposalAssumption
  <2>3. abandoned' \in Nat /\ abandoned' <= abandoned
    BY <1>1, <2>1
  <2>4. jobs' \in [Jobs -> Rows] /\ RowsKept'
    BY <1>1, <2>1 DEF Plain, RowsKept
  <2> QED BY <2>1, <2>2, <2>3, <2>4, EnvironmentStep
<1> QED BY <1>2, <1>3, <1>4, <1>5 DEF ProposalNext

\* The invariant of every behaviour.
LEMMA Inductive == ProposalSpec => []IInv
BY InitIInv, NextIInv, PTL DEF ProposalSpec

\* The budget bounds the calls by the attempts.
LEMMA CallsBounded == IInv => CallsWithinAttempts
<1> SUFFICES ASSUME IInv, NEW j \in Jobs PROVE calls[j] <= jobs[j].attempt
  BY DEF CallsWithinAttempts
<1>1. calls[j] \in Nat /\ calls[j] + Cardinality(Callers(j)) <= Claimed(j)
  BY DEF IInv, Plain, CallsBudget
<1>2. jobs[j].attempt \in Int /\ Claimed(j) \in Int /\ Claimed(j) <= jobs[j].attempt
  BY ProposalAssumption DEF IInv, Plain, Rows, Claimed, ProposalAssumption
<1> QED BY <1>1, <1>2, Finite

\* Every variable stays in its range; the calls in that of the attempts, the abandoned slots in
\* that of the slots.
THEOREM TypesHold == ProposalSpec => []ProposalTypeOK
<1>1. ASSUME IInv PROVE ProposalTypeOK
  <2>1. ASSUME NEW j \in Jobs PROVE calls[j] \in 0 .. MaxAttempts
    <3>1. calls[j] \in Nat /\ jobs[j].attempt \in 0 .. MaxAttempts
      BY <1>1 DEF IInv, Plain, Rows
    <3>2. calls[j] <= jobs[j].attempt
      BY <1>1, CallsBounded DEF CallsWithinAttempts
    <3> QED BY <3>1, <3>2, ProposalAssumption DEF ProposalAssumption
  <2>2. calls \in [Jobs -> 0 .. MaxAttempts]
    BY <1>1, <2>1 DEF IInv, Plain
  <2>3. /\ abandoned \in Nat /\ Cardinality(leased) + abandoned <= Slots /\ Slots \in Nat
        /\ leased \in SUBSET Workers
    BY <1>1, ProposalAssumption DEF IInv, Plain, SlotRows, ProposalAssumption
  <2>4. abandoned \in 0 .. Slots
    BY <2>3, Finite
  <2> QED BY <1>1, <2>2, <2>4 DEF IInv, Plain, ProposalTypeOK
<1>2. IInv => ProposalTypeOK
  BY <1>1
<1> QED BY <1>2, Inductive, PTL

\* However many requests find a job at the same moment and whichever die, the model is not
\* called more often than the job's attempts allow.
THEOREM AttemptsBoundCalls == ProposalSpec => []CallsWithinAttempts
BY CallsBounded, Inductive, PTL

\* Calls that their leases cover, and the rows left behind, stay within the deployment's slots,
\* also beside planners whose leases ended under their calls.
THEOREM SlotsBoundCalls == ProposalSpec => []CoveredCallsWithinSlots
<1>1. ASSUME IInv PROVE CoveredCallsWithinSlots
  <2>1. Covered \subseteq leased
    BY <1>1 DEF IInv, SlotRows, Covered, Calling, Planning, Overlong, CoveredPcs
  <2>2. /\ leased \in SUBSET Workers /\ abandoned \in Nat /\ Slots \in Nat
        /\ Cardinality(leased) + abandoned <= Slots
    BY <1>1, ProposalAssumption DEF IInv, Plain, SlotRows, ProposalAssumption
  <2>3. /\ Cardinality(Covered) <= Cardinality(leased)
        /\ Cardinality(Covered) \in Nat /\ Cardinality(leased) \in Nat
    BY <2>1, <2>2, Finite, FS_Subset
  <2> QED BY <2>2, <2>3 DEF CoveredCallsWithinSlots
<1>2. IInv => CoveredCallsWithinSlots
  BY <1>1
<1> QED BY <1>2, Inductive, PTL

\* Proposals are stored exactly by the job that made the next revision after its own.
THEOREM OneOutcome == ProposalSpec => []OneOutcomePerRevision
<1>1. ASSUME IInv PROVE OneOutcomePerRevision
  BY <1>1 DEF IInv, ReceiptsKept, OneOutcomePerRevision
<1>2. IInv => OneOutcomePerRevision
  BY <1>1
<1> QED BY <1>2, Inductive, PTL

\* Two jobs written against one revision do not both get their proposals in.
THEOREM OneWinner ==
    ProposalSpec => [](\A j, k \in proposed : j[1] = k[1] => j = k)
<1>1. ASSUME IInv PROVE \A j, k \in proposed : j[1] = k[1] => j = k
  BY <1>1 DEF IInv, ReceiptsKept, Plain
<1>2. IInv => \A j, k \in proposed : j[1] = k[1] => j = k
  BY <1>1
<1> QED BY <1>2, Inductive, PTL

-----------------------------------------------------------------------------
(* Who settles a job under a running lease.                                *)

\* A row that leaves its lease while it runs was the request's own.
LEMMA SettlesOwnJob ==
    ASSUME IInv, NEW w \in Workers, Arrive(w) \/ Handle(w) \/ SlotLost(w) \/ Crash(w),
           NEW j \in Jobs, jobs[j].status = "processing", jobs[j].live,
           jobs'[j].status # "processing"
    PROVE  jobs[j].owner = w /\ req'[w] # req[w]
<1>1. /\ Plain /\ JobOf(w) \in Jobs /\ Row(w) = jobs[JobOf(w)] /\ jobs' # jobs
  BY JobOfType DEF IInv, Row
<1>2. ASSUME NEW row, Put(JobOf(w), row) PROVE j = JobOf(w)
  BY <1>1, <1>2 DEF Put, Plain
<1>3. ASSUME Owns(w), NEW row, Put(JobOf(w), row),
             At(w, "commit") \/ At(w, "commitNone") \/ At(w, "fail"),
             Done(w) \/ (At(w, "commit") /\ Goto(w, "fail"))
      PROVE  jobs[j].owner = w /\ req'[w] # req[w]
  <2>1. jobs[j].owner = w
    BY <1>1, <1>2, <1>3 DEF Owns
  <2>2. PICK q \in Runs : req' = [req EXCEPT ![w] = q] /\ q.pc \in {"idle", "fail"}
                          /\ (Done(w) => q.pc = "idle") /\ (~Done(w) => q.pc = "fail")
    <3>1. CASE Done(w)
      BY <3>1, RestType DEF Done
    <3>2. CASE ~Done(w)
      <4> DEFINE q == Turned(w, "fail", req[w].seen)
      <4>1. "fail" \in Pcs /\ req[w].seen \in Seen
        BY <1>1, <1>3, <3>2, GotoTurned DEF Pcs
      <4>2. q \in Runs /\ q.pc = "fail" /\ req' = [req EXCEPT ![w] = q]
        BY <1>1, <1>3, <3>2, <4>1, TurnedType, GotoTurned
      <4> HIDE DEF q
      <4> QED BY <3>2, <4>2
    <3> QED BY <3>1, <3>2
  <2>3. req'[w] = q
    BY <1>1, <2>2 DEF Plain
  <2>4. q.pc # req[w].pc
    BY <1>3, <2>2 DEF At
  <2> QED BY <2>1, <2>3, <2>4
<1>4. CASE \E lost \in BOOLEAN : Commit(w, lost)
  BY <1>1, <1>3, <1>4 DEF Commit, Fenced, Or
<1>5. CASE CommitNone(w) \/ Fail(w)
  BY <1>1, <1>3, <1>5 DEF CommitNone, Fail, Fenced
<1>6. CASE \E lost \in BOOLEAN : Insert(w, lost)
  <2>1. Found(req[w].sent) = None /\ j = JobOf(w)
    BY <1>1, <1>2, <1>6 DEF Insert
  <2> QED BY <1>1, <2>1, FoundType
<1>7. CASE Requeue(w)
  <2>1. SeenStill(w) /\ j = JobOf(w)
    BY <1>1, <1>2, <1>7 DEF Requeue
  <2> QED BY <1>1, <2>1 DEF SeenStill
<1>8. CASE Claim(w)
  <2>1. Row(w).status = "queued" /\ j = JobOf(w)
    BY <1>1, <1>2, <1>8 DEF Claim
  <2> QED BY <1>1, <2>1
<1>9. CASE \/ Arrive(w) \/ SlotLost(w) \/ Crash(w) \/ Find(w) \/ CheckRevision(w)
           \/ FindAgain(w) \/ ReadAgain(w) \/ Confirm(w) \/ PlanAgain(w)
           \/ \E lost \in BOOLEAN : \/ Acquire(w, lost) \/ Return(w, lost)
                                    \/ Plan(w, lost) \/ Planned(w, lost)
  BY <1>1, <1>9 DEF Arrive, SlotLost, Crash, Find, CheckRevision, FindAgain, ReadAgain, Confirm,
                    PlanAgain, Acquire, Return, Plan, Planned
<1> QED BY <1>4, <1>5, <1>6, <1>7, <1>8, <1>9 DEF Handle

\* A job under a running lease is settled by the attempt that holds it.
THEOREM HolderSettles == ProposalSpec => OnlyHolderSettlesJob
<1>1. ASSUME IInv, [ProposalNext]_proposalVars PROVE [HolderSettlesJob]_proposalVars
  <2>1. CASE UNCHANGED proposalVars
    BY <2>1
  <2>2. ASSUME NEW j \in Jobs, jobs[j].status = "processing", jobs[j].live,
               jobs'[j].status # "processing", ProposalNext
        PROVE  jobs[j].owner \in Workers /\ req'[jobs[j].owner] # req[jobs[j].owner]
    <3>1. ASSUME NEW w \in Workers, Arrive(w) \/ Handle(w) \/ SlotLost(w) \/ Crash(w)
          PROVE  jobs[j].owner = w /\ req'[w] # req[w]
      BY <1>1, <2>2, <3>1, SettlesOwnJob
    <3>2. CASE Move \/ SlotExpires
      BY <2>2, <3>2 DEF Move, SlotExpires
    <3>3. ASSUME NEW k \in Jobs, LeaseEnds(k) PROVE FALSE
      <4>1. jobs \in [Jobs -> Rows]
        BY <1>1 DEF IInv, Plain
      <4>2. jobs' = [jobs EXCEPT ![k] = [jobs[k] EXCEPT !.live = FALSE]]
        BY <3>3 DEF LeaseEnds, Put
      <4>3. [jobs[k] EXCEPT !.live = FALSE].status = jobs[k].status
        BY <4>1 DEF Rows
      <4>4. jobs'[j].status = jobs[j].status
        BY <4>1, <4>2, <4>3
      <4> QED BY <2>2, <4>4
    <3> QED BY <2>2, <3>1, <3>2, <3>3 DEF ProposalNext
  <2> QED BY <1>1, <2>1, <2>2 DEF HolderSettlesJob
<1>2. IInv /\ [ProposalNext]_proposalVars => [HolderSettlesJob]_proposalVars
  BY <1>1
<1> QED BY <1>2, Inductive, PTL DEF ProposalSpec, OnlyHolderSettlesJob

-----------------------------------------------------------------------------
(* What happened to a job stands.                                          *)

\* A row may become another without undoing anything: a ready one stays as it is, a job keeps
\* the key it was bound to, and its attempts are counted up.
RowStands(row, next) ==
    /\ row.status = "ready" => next = row
    /\ row.status # "absent" => next.status # "absent" /\ next.key = row.key
    /\ row.attempt <= next.attempt

LEMMA SameRow == ASSUME NEW row \in Rows PROVE RowStands(row, row)
<1>1. row.attempt \in 0 .. MaxAttempts
  BY DEF Rows
<1> QED BY <1>1, ProposalAssumption DEF RowStands, ProposalAssumption

\* A request that puts a row puts it over its own job's.
LEMMA PutStands ==
    ASSUME Plain, NEW w \in Workers, NEW row, Put(JobOf(w), row), RowStands(Row(w), row),
           NEW j \in Jobs
    PROVE  RowStands(jobs[j], jobs'[j])
<1>1. jobs[j] \in Rows /\ JobOf(w) \in Jobs /\ Row(w) = jobs[JobOf(w)]
  BY JobOfType DEF Plain, Row
<1>2. jobs'[JobOf(w)] = row /\ \A k \in Jobs \ {JobOf(w)} : jobs'[k] = jobs[k]
  BY <1>1 DEF Put, Plain
<1>3. CASE j = JobOf(w)
  BY <1>1, <1>2, <1>3
<1>4. CASE j # JobOf(w)
  BY <1>1, <1>2, <1>4, SameRow
<1> QED BY <1>3, <1>4

\* No statement of any request undoes a row, however old what it read of it is.
LEMMA RowsStand ==
    ASSUME IInv, [ProposalNext]_proposalVars, NEW j \in Jobs
    PROVE  RowStands(jobs[j], jobs'[j])
<1>0. Plain /\ jobs[j] \in Rows
  BY DEF IInv, Plain
<1>1. ASSUME jobs' = jobs PROVE RowStands(jobs[j], jobs'[j])
  BY <1>0, <1>1, SameRow
<1>2. ASSUME NEW w \in Workers, Arrive(w) \/ Handle(w) \/ SlotLost(w) \/ Crash(w)
      PROVE  RowStands(jobs[j], jobs'[j])
  <2>1. /\ Row(w) \in Rows /\ Row(w).attempt \in 0 .. MaxAttempts /\ MaxAttempts \in Nat
        /\ Row(w) = jobs[JobOf(w)] /\ JobOf(w) \in Jobs
    BY <1>0, JobOfType, ProposalAssumption DEF Rows, Row, ProposalAssumption
  <2>2. CASE \E lost \in BOOLEAN : Insert(w, lost)
    <3> DEFINE row == Unowned("queued", 1, req[w].sent.key)
    <3>1. UNCHANGED jobs \/ (Found(req[w].sent) = None /\ Put(JobOf(w), row))
      BY <2>2 DEF Insert
    <3>2. CASE UNCHANGED jobs
      BY <1>1, <3>2
    <3>3. CASE Found(req[w].sent) = None /\ Put(JobOf(w), row)
      <4>1. Row(w).status = "absent"
        BY <1>0, <3>3, FoundType
      <4>2. Row(w) = Absent
        BY <2>1, <4>1 DEF IInv, RowsKept, RowOK
      <4>3. Row(w).attempt = 0 /\ row.attempt = 1
        BY <4>2 DEF Absent, Unowned
      <4>4. RowStands(Row(w), row)
        BY <4>1, <4>3 DEF RowStands
      <4> QED BY <1>0, <3>3, <4>4, PutStands
    <3> QED BY <3>1, <3>2, <3>3
  <2>3. CASE Requeue(w)
    <3> DEFINE row == Unowned("queued", Row(w).attempt + 1, Row(w).key)
    <3>1. CASE UNCHANGED jobs
      BY <1>1, <3>1
    <3>2. CASE ~UNCHANGED jobs
      <4>1. Put(JobOf(w), row) /\ SeenStill(w) /\ At(w, "requeue")
        BY <2>3, <3>2 DEF Requeue
      <4>2. Row(w).status \in {"processing", "failed"}
        BY <4>1 DEF IInv, SeenKept, SeenOK, At, SeenStill
      <4>3. row.status = "queued" /\ row.attempt = Row(w).attempt + 1 /\ row.key = Row(w).key
        BY DEF Unowned
      <4>4. RowStands(Row(w), row)
        BY <2>1, <4>2, <4>3 DEF RowStands
      <4> QED BY <1>0, <4>1, <4>4, PutStands
    <3> QED BY <3>1, <3>2
  <2>4. CASE Claim(w)
    <3> DEFINE row == Leased(Row(w), w)
    <3>1. UNCHANGED jobs \/ (Row(w).status = "queued" /\ Put(JobOf(w), row))
      BY <2>4 DEF Claim
    <3>2. row.status = "processing" /\ row.attempt = Row(w).attempt /\ row.key = Row(w).key
      BY DEF Leased
    <3>3. CASE UNCHANGED jobs
      BY <1>1, <3>3
    <3>4. CASE Row(w).status = "queued" /\ Put(JobOf(w), row)
      <4>1. RowStands(Row(w), row)
        BY <2>1, <3>2, <3>4 DEF RowStands
      <4> QED BY <1>0, <3>4, <4>1, PutStands
    <3> QED BY <3>1, <3>3, <3>4
  <2>5. CASE (\E lost \in BOOLEAN : Commit(w, lost)) \/ CommitNone(w) \/ Fail(w)
    <3>1. \/ UNCHANGED jobs
          \/ /\ Row(w).status = "processing"
             /\ \E status \in {"ready", "failed"} : Put(JobOf(w), Settled(Row(w), status))
      BY <2>5 DEF Commit, CommitNone, Fail, Fenced, Owns
    <3>2. CASE UNCHANGED jobs
      BY <1>1, <3>2
    <3>3. ASSUME NEW status \in {"ready", "failed"}, Put(JobOf(w), Settled(Row(w), status)),
                 Row(w).status = "processing"
          PROVE  RowStands(jobs[j], jobs'[j])
      <4> DEFINE row == Settled(Row(w), status)
      <4>1. row.status = status /\ row.attempt = Row(w).attempt /\ row.key = Row(w).key
        BY DEF Settled, Unowned
      <4>2. RowStands(Row(w), row)
        BY <2>1, <3>3, <4>1 DEF RowStands
      <4> QED BY <1>0, <3>3, <4>2, PutStands
    <3> QED BY <3>1, <3>2, <3>3
  <2>6. CASE \/ Arrive(w) \/ SlotLost(w) \/ Crash(w) \/ Find(w) \/ CheckRevision(w)
             \/ FindAgain(w) \/ ReadAgain(w) \/ Confirm(w) \/ PlanAgain(w)
             \/ \E lost \in BOOLEAN : \/ Acquire(w, lost) \/ Return(w, lost)
                                      \/ Plan(w, lost) \/ Planned(w, lost)
    BY <1>1, <2>6 DEF Arrive, SlotLost, Crash, Find, CheckRevision, FindAgain, ReadAgain,
                      Confirm, PlanAgain, Acquire, Return, Plan, Planned
  <2> QED BY <1>2, <2>2, <2>3, <2>4, <2>5, <2>6 DEF Handle
<1>3. ASSUME NEW k \in Jobs, LeaseEnds(k) PROVE RowStands(jobs[j], jobs'[j])
  <2>1. jobs \in [Jobs -> Rows]
    BY <1>0 DEF Plain
  <2>2. PICK row : row = [jobs[k] EXCEPT !.live = FALSE] /\ jobs' = [jobs EXCEPT ![k] = row]
    BY <1>3 DEF LeaseEnds, Put
  <2>3. /\ row.status = jobs[k].status /\ row.key = jobs[k].key /\ row.attempt = jobs[k].attempt
        /\ jobs[k].status = "processing"
    BY <1>3, <2>1, <2>2 DEF Rows, LeaseEnds
  <2>4. CASE j = k
    <3>1. jobs'[j] = row
      BY <2>1, <2>2, <2>4
    <3> QED BY <1>0, <2>3, <2>4, <3>1, SameRow DEF RowStands
  <2>5. CASE j # k
    BY <1>0, <2>1, <2>2, <2>5, SameRow
  <2> QED BY <2>4, <2>5
<1>4. CASE Move \/ SlotExpires \/ UNCHANGED proposalVars
  BY <1>1, <1>4 DEF Move, SlotExpires, proposalVars
<1> QED BY <1>2, <1>3, <1>4 DEF ProposalNext

\* A step of a request that calls the model or stores proposals.
LEMMA ProposalsStand ==
    ASSUME IInv, [ProposalNext]_proposalVars
    PROVE  /\ \/ UNCHANGED <<proposed, receipt>>
              \/ \E j \in Jobs : /\ j \notin proposed /\ proposed' = proposed \cup {j}
                                 /\ jobs[j].status = "processing" /\ jobs'[j].status = "ready"
                                 /\ j[1] = revision /\ revision' = revision + 1
                                 /\ receipt' = [receipt EXCEPT ![revision + 1] = j]
           /\ revision' \in {revision, revision + 1}
           /\ \A j \in Jobs : calls[j] <= calls'[j]
<1>0. Plain /\ ReceiptsKept /\ calls \in [Jobs -> Nat]
  BY DEF IInv, Plain
<1>1. ASSUME UNCHANGED calls PROVE \A j \in Jobs : calls[j] <= calls'[j]
  BY <1>0, <1>1
<1>2. CASE \E w \in Workers, lost \in BOOLEAN : Commit(w, lost)
  <2>1. PICK w \in Workers, lost \in BOOLEAN : Commit(w, lost)
    BY <1>2
  <2>2. UNCHANGED calls
    BY <2>1 DEF Commit
  <2>3. CASE Fenced(w) /\ JobOf(w)[1] = revision /\ revision < MaxRevision
    <3> DEFINE j == JobOf(w)
    <3>1. /\ j \in Jobs /\ jobs[j].status = "processing" /\ j[1] = revision
          /\ revision' = revision + 1 /\ proposed' = proposed \cup {j}
          /\ receipt' = [receipt EXCEPT ![revision + 1] = j]
          /\ Put(j, Settled(Row(w), "ready"))
      BY <1>0, <2>1, <2>3, JobOfType DEF Commit, Fenced, Owns, Row
    <3>2. jobs'[j].status = "ready"
      BY <1>0, <3>1 DEF Put, Settled, Unowned, Plain
    <3>3. j \notin proposed
      BY <1>0, <3>1 DEF ReceiptsKept
    <3> QED BY <1>1, <2>2, <3>1, <3>2, <3>3
  <2>4. CASE ~(Fenced(w) /\ JobOf(w)[1] = revision /\ revision < MaxRevision)
    BY <1>1, <2>1, <2>2, <2>4 DEF Commit
  <2> QED BY <2>3, <2>4
<1>3. CASE \E w \in Workers, lost \in BOOLEAN : Acquire(w, lost)
  <2>1. PICK w \in Workers, lost \in BOOLEAN : Acquire(w, lost)
    BY <1>3
  <2>2. \A j \in Jobs : calls[j] <= calls'[j]
    BY <1>0, <2>1 DEF Acquire
  <2> QED BY <2>1, <2>2 DEF Acquire
<1>4. CASE Move
  BY <1>1, <1>4 DEF Move
<1>5. CASE UNCHANGED <<proposed, receipt, revision, calls>>
  BY <1>1, <1>5
<1>6. ASSUME NEW w \in Workers, Arrive(w) \/ SlotLost(w) \/ Crash(w)
      PROVE  UNCHANGED <<proposed, receipt, revision, calls>>
  BY <1>6 DEF Arrive, SlotLost, Crash
<1>7. ASSUME NEW w \in Workers, Handle(w), ~\E lost \in BOOLEAN : Commit(w, lost) \/ Acquire(w, lost)
      PROVE  UNCHANGED <<proposed, receipt, revision, calls>>
  <2>1. CASE \/ Find(w) \/ CheckRevision(w) \/ FindAgain(w) \/ Requeue(w) \/ ReadAgain(w)
             \/ Claim(w)
    BY <2>1 DEF Find, CheckRevision, FindAgain, Requeue, ReadAgain, Claim
  <2>2. CASE Confirm(w) \/ PlanAgain(w) \/ CommitNone(w) \/ Fail(w)
    BY <2>2 DEF Confirm, PlanAgain, CommitNone, Fail
  <2>3. CASE \E lost \in BOOLEAN : \/ Insert(w, lost) \/ Return(w, lost)
                                   \/ Plan(w, lost) \/ Planned(w, lost)
    BY <2>3 DEF Insert, Return, Plan, Planned
  <2> QED BY <1>7, <2>1, <2>2, <2>3 DEF Handle
<1>8. CASE (\E j \in Jobs : LeaseEnds(j)) \/ SlotExpires \/ UNCHANGED proposalVars
  BY <1>5, <1>8 DEF LeaseEnds, SlotExpires, proposalVars
<1> QED BY <1>2, <1>3, <1>4, <1>5, <1>6, <1>7, <1>8 DEF ProposalNext

\* A job that is ready stays ready, with the proposals it was made ready with or without any; a key
\* stays bound to its job; attempts, calls, the receipts and the revision are never taken back.  So
\* the last of several reads of a job decides what the earlier ones would have.
OutcomesStand ==
    [][/\ \A j \in Jobs : /\ RowStands(jobs[j], jobs'[j]) /\ calls[j] <= calls'[j]
                          /\ jobs[j].status = "ready" => (j \in proposed' <=> j \in proposed)
       /\ proposed \subseteq proposed'
       /\ revision <= revision'
       /\ \A r \in Revisions : receipt[r] # None => receipt'[r] = receipt[r]]_proposalVars

THEOREM OutcomesAreKept == ProposalSpec => OutcomesStand
<1> DEFINE Stands ==
       /\ \A j \in Jobs : /\ RowStands(jobs[j], jobs'[j]) /\ calls[j] <= calls'[j]
                          /\ jobs[j].status = "ready" => (j \in proposed' <=> j \in proposed)
       /\ proposed \subseteq proposed'
       /\ revision <= revision'
       /\ \A r \in Revisions : receipt[r] # None => receipt'[r] = receipt[r]
<1>1. ASSUME IInv, [ProposalNext]_proposalVars PROVE Stands
  <2>1. /\ revision \in Revisions /\ revision \in Int /\ receipt \in [Revisions -> Jobs \cup {None}]
        /\ \A r \in Revisions : r > revision => receipt[r] = None
    BY <1>1, ProposalAssumption DEF IInv, Plain, ReceiptsKept, Revisions, ProposalAssumption
  <2>2. revision <= revision'
    BY <1>1, <2>1, ProposalsStand
  <2>3. /\ \A j \in Jobs : RowStands(jobs[j], jobs'[j])
        /\ \A j \in Jobs : calls[j] <= calls'[j]
    BY <1>1, RowsStand, ProposalsStand
  <2>4. CASE UNCHANGED <<proposed, receipt>>
    BY <2>2, <2>3, <2>4
  <2>5. CASE \E j \in Jobs : /\ j \notin proposed /\ proposed' = proposed \cup {j}
                             /\ jobs[j].status = "processing"
                             /\ receipt' = [receipt EXCEPT ![revision + 1] = j]
    <3>1. PICK j \in Jobs : /\ proposed' = proposed \cup {j} /\ jobs[j].status = "processing"
                            /\ receipt' = [receipt EXCEPT ![revision + 1] = j]
      BY <2>5
    <3>2. revision + 1 > revision
      BY <2>1
    <3>3. \A r \in Revisions : receipt[r] # None => receipt'[r] = receipt[r]
      BY <2>1, <3>1, <3>2
    <3>4. \A k \in Jobs : jobs[k].status = "ready" => (k \in proposed' <=> k \in proposed)
      BY <3>1
    <3> QED BY <2>2, <2>3, <3>1, <3>3, <3>4
  <2> QED BY <1>1, <2>4, <2>5, ProposalsStand
<1> QED BY <1>1, Inductive, PTL DEF ProposalSpec, OutcomesStand

-----------------------------------------------------------------------------
(* Stored proposals are writes of the Matter's ledger.                     *)

\* A job writes once, at the revision it was written against.
ProposalEntry(j) == [key |-> j, expected |-> j[1]]

Ledger == INSTANCE MatterLedger WITH
    Origin <- 1,
    Entries <- {ProposalEntry(j) : j \in Jobs},
    log <- {ProposalEntry(j) : j \in proposed}

\* Jobs, leases, attempts, slots and late runs, seen through the revision and the proposals, are
\* one compare-and-set log: the other routes advance it, and a job appends to it at most once.
ProposalsImplementLedger == Ledger!Spec

THEOREM ProposalsAreWrites == ProposalSpec => ProposalsImplementLedger
<1>1. ProposalInit => Ledger!Init
  BY DEF ProposalInit, Ledger!Init
<1>2. ASSUME IInv, [ProposalNext]_proposalVars PROVE [Ledger!Next]_Ledger!ledgerVars
  <2>1. CASE UNCHANGED <<proposed, revision>>
    BY <2>1 DEF Ledger!ledgerVars
  <2>2. CASE UNCHANGED proposed /\ revision' = revision + 1
    BY <2>2 DEF Ledger!Next, Ledger!Advance
  <2>3. CASE \E j \in Jobs : /\ j \notin proposed /\ proposed' = proposed \cup {j}
                             /\ j[1] = revision /\ revision' = revision + 1
    <3>1. PICK j \in Jobs : /\ j \notin proposed /\ proposed' = proposed \cup {j}
                            /\ j[1] = revision /\ revision' = revision + 1
      BY <2>3
    <3>2. \A k \in proposed : ProposalEntry(k).key # ProposalEntry(j).key
      BY <3>1 DEF ProposalEntry
    <3>3. Ledger!Append(ProposalEntry(j))
      BY <3>1, <3>2 DEF Ledger!Append, ProposalEntry
    <3> QED BY <3>3 DEF Ledger!Next
  <2> QED BY <1>2, <2>1, <2>2, <2>3, ProposalsStand
<1> QED BY <1>1, <1>2, Inductive, PTL DEF ProposalSpec, ProposalsImplementLedger, Ledger!Spec
=============================================================================
